----------------------------- MODULE Connections -----------------------------
(***************************************************************************)
(* What an organisation is connected to: the integrations of the hub       *)
(* (app/api/routes/integrations.py), the watch over their credentials and  *)
(* the migration of older ones (app/services/integration_monitor.py,       *)
(* app/services/connector_service.py), the webhooks that are called        *)
(* (app/services/api_key_service.py) and the verification checks that are  *)
(* ordered (app/api/routes/marketplace.py).                                *)
(***************************************************************************)
EXTENDS RowRequests

CONSTANTS
    Hubs,      \* integrations of an organisation, each with its older credentials
    Hooks,     \* webhooks
    Checks,    \* verification orders, each with its provider
    MaxErrors, \* bound: failed tests of an integration in a row
    MaxStarts  \* bound: OAuth connections begun for one integration

ASSUME BoundsAssumption == MaxErrors \in Nat /\ MaxStarts \in Nat

Older == 1 .. 2          \* the credentials of the old store, for one provider
Kinds == {"key", "token"}
Dates == {"d1", "d2"}    \* those within the next 30 days
Expiries == Dates \union {"none", "later"}

(* "calendar" is the number of its open calendar items; "notices" names each  *)
(* credential and date that has a notification.                               *)
HubRows ==
    [integration : [status : {"none", "off", "on"}, credentials : {"none", "hub", "older"},
                    health : {"unknown", "healthy", "down"}, failures : 0 .. MaxErrors],
     expires     : [Kinds -> Expiries],
     oauth       : [state : 0 .. MaxStarts, started : 0 .. MaxStarts],
     connected   : [1 .. MaxStarts -> Nat],
     older       : [Older -> [status : {"none", "inactive", "active", "error"},
                              default : BOOLEAN]],
     notices     : [Kinds -> [Dates -> BOOLEAN]],
     calendar    : [open : 0 .. 3]]
NewHub ==
    [integration |-> [status |-> "none", credentials |-> "none", health |-> "unknown",
                      failures |-> 0],
     expires     |-> [k \in Kinds |-> "none"],
     oauth       |-> [state |-> 0, started |-> 0],
     connected   |-> [n \in 1 .. MaxStarts |-> 0],
     older       |-> [c \in Older |-> [status |-> "inactive", default |-> FALSE]],
     notices     |-> [k \in Kinds |-> [d \in Dates |-> FALSE]],
     calendar    |-> [open |-> 0]]

Configured(e) == rows[e].integration.status # "none"

(* Health is left as it is when credentials are entered again; none may be. *)
EnableIntegration(q, e, credentials, expiry) ==
    Handle(q, e, [rows[e] EXCEPT !.integration.status = "on",
                                 !.integration.credentials = credentials,
                                 !.expires["key"] = expiry])

DisableIntegration(q, e) ==
    /\ Configured(e)
    /\ Handle(q, e, [rows[e] EXCEPT !.integration.status = "off"])

TestConnection(q, e) ==
    /\ rows[e].integration.status = "on"
    /\ IF rows[e].integration.credentials # "none"
       THEN Handle(q, e, [rows[e] EXCEPT !.integration.health = "healthy",
                                         !.integration.failures = 0])
       ELSE /\ rows[e].integration.failures < MaxErrors
            /\ Handle(q, e, [rows[e] EXCEPT !.integration.health = "down",
                                            !.integration.failures = @ + 1])

RotateCredentials(q, e, expiry) ==
    /\ Configured(e)
    /\ Handle(q, e, [rows[e] EXCEPT !.integration.credentials = "hub",
                                    !.integration.health = "unknown",
                                    !.expires["key"] = expiry])

(* A new state replaces the one of a connection that was begun before. *)
StartOauth(q, e) ==
    /\ rows[e].oauth.started < MaxStarts
    /\ LET n == rows[e].oauth.started + 1
       IN  Handle(q, e, [rows[e] EXCEPT !.oauth = [state |-> n, started |-> n],
               !.integration.status = IF @ = "none" THEN "off" ELSE @])

CompleteOauth(q, e, n, day) ==
    /\ rows[e].oauth.state = n
    /\ Handle(q, e, [rows[e] EXCEPT !.oauth.state = 0,
                                    !.connected[n] = @ + 1,
                                    !.integration.status = "on",
                                    !.integration.health = "healthy",
                                    !.expires["token"] = day])

Expiring(r) ==
    IF r.integration.status = "on" THEN {k \in Kinds : r.expires[k] \in Dates} ELSE {}

(* Mutant of RunExpiryCheck: the open item is not looked for. *)
RunExpiryCheckAdds(q, e) ==
    LET found == Expiring(rows[e])
    IN  Handle(q, e, [rows[e] EXCEPT !.calendar.open = @ + Cardinality(found)])

(* What the check adds is not flushed before it looks for the item of the     *)
(* next credential: where none is open it adds one for each.                  *)
RunExpiryCheck(q, e) ==
    LET found == Expiring(rows[e])
    IN  Handle(q, e, [rows[e] EXCEPT
            !.notices = [k \in Kinds |-> [d \in Dates |->
                            \/ rows[e].notices[k][d]
                            \/ k \in found /\ rows[e].expires[k] = d]],
            !.calendar.open = IF @ > 0 THEN @ ELSE Cardinality(found)])

CompleteExpiryItem(q, e) ==
    /\ rows[e].calendar.open > 0
    /\ Handle(q, e, [rows[e] EXCEPT !.calendar.open = @ - 1])

(* Of several credentials the first one counts; but where the organisation    *)
(* has no such integration, the second insert breaks the unique constraint,   *)
(* and nothing is migrated.                                                   *)
MigrateLegacyConnectors(q, e, c) ==
    LET held == {d \in Older : rows[e].older[d].status # "none"}
    IN  /\ c \in held
        /\ rows[e].integration.credentials = "none"
        /\ Configured(e) \/ held = {c}
        /\ Handle(q, e, [rows[e] EXCEPT !.integration.credentials = "older",
               !.integration.status = IF rows[e].older[c].status = "active"
                                      THEN "on" ELSE "off"])

UpdateConnector(q, e, c, default) ==
    /\ rows[e].older[c].status # "none"
    /\ Handle(q, e, [rows[e] EXCEPT !.older = [d \in Older |->
           IF d = c THEN [rows[e].older[d] EXCEPT !.default = default]
           ELSE [rows[e].older[d] EXCEPT !.default = @ /\ ~default]]])

RemoveConnector(q, e, c) ==
    /\ rows[e].older[c].status # "none"
    /\ Handle(q, e, [rows[e] EXCEPT !.older[c] = [status |-> "none", default |-> FALSE]])

TestConnector(q, e, c, success) ==
    /\ rows[e].older[c].status # "none"
    /\ Handle(q, e, [rows[e] EXCEPT !.older[c].status =
                        IF success THEN "active" ELSE "error"])

HubRequest(q, e) ==
    \/ \E expiry \in Expiries :
          \/ \E given \in {"none", "hub"} : EnableIntegration(q, e, given, expiry)
          \/ RotateCredentials(q, e, expiry)
    \/ \E n \in 1 .. MaxStarts, day \in Dates : CompleteOauth(q, e, n, day)
    \/ \E c \in Older :
          \/ MigrateLegacyConnectors(q, e, c) \/ RemoveConnector(q, e, c)
          \/ \E yes \in BOOLEAN : UpdateConnector(q, e, c, yes) \/ TestConnector(q, e, c, yes)
    \/ DisableIntegration(q, e) \/ TestConnection(q, e) \/ StartOauth(q, e)
    \/ RunExpiryCheck(q, e) \/ CompleteExpiryItem(q, e)

-----------------------------------------------------------------------------
(* Ten failures in a row and the webhook is failed; "log" is the number of    *)
(* failed deliveries since the last one that succeeded, up to a bound.        *)
FailureLimit == 10
Full == FailureLimit + 1

HookRows ==
    [hook : [status : {"none", "active", "disabled", "failed", "deleted"}, failures : 0 .. Full],
     deliveries : [log : 0 .. Full]]
NewHook == [hook |-> [status |-> "none", failures |-> 0], deliveries |-> [log |-> 0]]

Listening(e) == rows[e].hook.status \notin {"none", "deleted"}

CreateWebhook(q, e) ==
    /\ rows[e].hook.status = "none"
    /\ Handle(q, e, [rows[e] EXCEPT !.hook.status = "active"])

UpdateWebhook(q, e, status) ==
    /\ Listening(e)
    /\ Handle(q, e, [rows[e] EXCEPT !.hook.status = status])

DeleteWebhook(q, e) ==
    /\ Listening(e)
    /\ Handle(q, e, [rows[e] EXCEPT !.hook.status = "deleted"])

More(n) == IF n = Full THEN n ELSE n + 1

(* A delivery is a test by its owner, whatever the status. *)
FireWebhook(q, e, success) ==
    /\ Listening(e)
    /\ Handle(q, e,
           IF success
           THEN [rows[e] EXCEPT !.hook.failures = 0, !.deliveries.log = 0]
           ELSE [rows[e] EXCEPT !.hook.failures = More(@), !.deliveries.log = More(@),
                    !.hook.status = IF rows[e].hook.failures + 1 >= FailureLimit
                                    THEN "failed" ELSE @])

HookRequest(q, e) ==
    \/ CreateWebhook(q, e) \/ DeleteWebhook(q, e)
    \/ \E status \in {"active", "disabled", "failed"} : UpdateWebhook(q, e, status)
    \/ \E ok \in BOOLEAN : FireWebhook(q, e, ok)

-----------------------------------------------------------------------------
CheckRows ==
    [provider : [cost : {0, 1}, active : BOOLEAN],
     order    : [status : {"none", "pending", "completed", "rejected"}, linked : BOOLEAN],
     usage    : [records : Nat, cost : {0, 1}]]
NewCheck ==
    [provider |-> [cost |-> 0, active |-> TRUE],
     order    |-> [status |-> "none", linked |-> FALSE],
     usage    |-> [records |-> 0, cost |-> 0]]

UpdateProvider(q, e, cost, active) ==
    Handle(q, e, [rows[e] EXCEPT !.provider = [cost |-> cost, active |-> active]])

CreateOrder(q, e) ==
    /\ rows[e].order.status = "none" /\ rows[e].provider.active
    /\ Handle(q, e, [rows[e] EXCEPT !.order.status = "pending"])

(* What is accepted at a price is billed at the price of the day. *)
CompleteOrder(q, e, accepted) ==
    /\ rows[e].order.status \notin {"none", "completed", "rejected"}
    /\ LET cost == rows[e].provider.cost
           done == [rows[e] EXCEPT !.order.status = IF accepted THEN "completed" ELSE "rejected"]
       IN  Handle(q, e,
               IF accepted /\ cost > 0
               THEN [done EXCEPT !.order.linked = TRUE,
                                 !.usage = [records |-> @.records + 1, cost |-> cost]]
               ELSE done)

CheckRequest(q, e) ==
    \/ CreateOrder(q, e)
    \/ \E cost \in {0, 1}, active \in BOOLEAN : UpdateProvider(q, e, cost, active)
    \/ \E accepted \in BOOLEAN : CompleteOrder(q, e, accepted)

-----------------------------------------------------------------------------
(* Two accounts of the same thing: an integration that is down has its        *)
(* failures counted, and one that was tested healthy has none; at most one of *)
(* the older credentials is the default; a webhook counts what its log of     *)
(* deliveries says; an order that was accepted at a price has its one usage   *)
(* record, and no other order has any; a count that was read before another   *)
(* one was committed loses that.                                              *)
ConnectionsCounted ==
    /\ \A e \in Hubs \ raced :
          LET i == rows[e].integration
          IN  /\ i.health = "down" => i.failures > 0
              /\ i.health = "healthy" /\ rows[e].expires["token"] = "none" => i.failures = 0
              /\ \A c, d \in Older : rows[e].older[c].default /\ rows[e].older[d].default => c = d
    /\ \A e \in Hooks \ raced : rows[e].hook.failures = rows[e].deliveries.log
    /\ \A e \in Checks \ raced :
          LET r == rows[e]
          IN  /\ r.usage.records <= 1
              /\ r.usage.records = 1 => r.order.status = "completed" /\ r.usage.cost > 0
              /\ r.order.linked <=> r.usage.records = 1

(* What was done before is not done again by a repetition.  The state of a    *)
(* connection is used once, and only while no other was begun; the migration  *)
(* takes nothing the place of which is taken; however often the check runs,   *)
(* an integration has no more open items than credentials, and whatever it    *)
(* gives notice of has one; and the tenth failure in a row ends a webhook,    *)
(* also one that its owner had activated again.                               *)
RepeatsHarmless ==
    [][/\ \A e \in Hubs :
             LET r == rows[e]
                 s == rows'[e]
             IN  /\ \A n \in 1 .. MaxStarts : s.connected[n] # r.connected[n] =>
                      s.connected[n] = 1 /\ n = r.oauth.started
                 /\ s.integration.credentials = "older" => r.integration.credentials # "hub"
                 /\ s.calendar.open <= Cardinality(Kinds)
                 /\ s.notices # r.notices => s.calendar.open > 0
       /\ \A e \in Hooks :
             LET failed == rows'[e].deliveries.log
             IN  failed > rows[e].deliveries.log /\ failed >= FailureLimit =>
                     rows'[e].hook.status = "failed"]_rows

=============================================================================
