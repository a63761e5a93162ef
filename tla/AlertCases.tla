----------------------------- MODULE AlertCases -----------------------------
(***************************************************************************)
(* Transaction alerts and investigation cases: monitoring raises an alert, *)
(* officers review it, open a case for it, and the case goes to a closed   *)
(* status with the MLRO's SMR decision recorded on the way                 *)
(* (app/api/routes/alerts.py, cases.py, and the alert step of              *)
(* app/services/monitoring_engine.py).                                     *)
(*                                                                         *)
(* A handler loads a row, checks it in memory and commits the columns it   *)
(* changed; nothing locks the row in between.  So a handler is two steps,  *)
(* the load and Commit.  A handler that only inserts is one step.  A       *)
(* request that fails its checks changes nothing and is no step.           *)
(***************************************************************************)
EXTENDS Naturals, FiniteSets

CONSTANTS
    Txns,      \* transactions whose evaluation calls for an alert
    Alerts,    \* alerts that can be raised (bound)
    Cases,     \* cases that can be opened (bound)
    Mlro,      \* users that pass require_mlro_or_above
    Reasons,   \* non-empty review notes
    Requests,  \* handlers that can be in flight at one time
    Handlers,  \* the handlers in play
    MaxRepeat, \* how often create_case payloads name one alert
    None

ASSUME NoneAssumption == None \notin Mlro \union Reasons
ASSUME BoundAssumption == MaxRepeat \in Nat

VARIABLES
    alert,  \* the transaction_alerts table
    case,   \* the cases table
    link,   \* case_alerts: the number of rows for a case and an alert
    drafts, \* cases with a draft in smr_reports
    req     \* what each in-flight handler is about to commit

vars == <<alert, case, link, drafts, req>>

-----------------------------------------------------------------------------
AlertStatus == {"generated", "assigned", "under_review", "escalated",
                "dismissed", "resolved", "smr_candidate"}
Resolutions == {"dismissed", "cleared", "smr_candidate", "escalated_to_case"}

(* AlertResult: not set yet, in _definitive, or any other value. *)
Results == {"pending", "definitive", "interim"}

ClosedStatuses == {"closed_no_action", "closed_smr_filed", "closed_referred",
                   "closed_exited", "closed_no_smr"}
CaseStatus == {"open", "under_investigation", "additional_information",
               "escalated", "decision"} \union ClosedStatuses

CaseTransitions ==
    [s \in CaseStatus |->
       CASE s = "open" -> {"under_investigation", "additional_information"}
         [] s = "under_investigation" ->
              {"additional_information", "escalated", "decision", "closed_no_action"}
         [] s = "additional_information" -> {"under_investigation", "escalated"}
         [] s = "escalated" -> {"decision", "under_investigation"}
         [] s = "decision" -> ClosedStatuses
         [] OTHER -> {}]

AlertRow == [txn : Txns, status : AlertStatus, resolution : Resolutions \union {None},
             notes : Reasons \union {None}, result : Results, smr : BOOLEAN]
CaseRow == [status : CaseStatus, candidate : BOOLEAN, considered : BOOLEAN,
            lodged : BOOLEAN, closed_by : Mlro \union {None}]

NoRow == [status |-> "none"]
Idle == [kind |-> "idle"]

Init ==
    /\ alert = [a \in Alerts |-> NoRow]
    /\ case = [c \in Cases |-> NoRow]
    /\ link = [l \in Cases \X Alerts |-> 0]
    /\ drafts = {}
    /\ req = [q \in Requests |-> Idle]

Raised(a) == alert[a] # NoRow
Opened(c) == case[c] # NoRow
AlertClosed(a) == alert[a].status \in {"dismissed", "resolved"}
CaseClosed(c) == case[c].status \in ClosedStatuses

(* The columns in which the row after differs from the loaded row before;    *)
(* an UPDATE writes these and no others.                                     *)
Changed(before, after) ==
    [f \in {g \in DOMAIN before : after[g] # before[g]} |-> after[f]]

Written(row, writes) ==
    [f \in DOMAIN row |-> IF f \in DOMAIN writes THEN writes[f] ELSE row[f]]

NewCase(candidate) ==
    [status |-> "open", candidate |-> candidate, considered |-> FALSE,
     lodged |-> FALSE, closed_by |-> None]

Load(q, pending) ==
    /\ req[q] = Idle
    /\ req' = [req EXCEPT ![q] = pending]
    /\ UNCHANGED <<alert, case, link, drafts>>

LoadAlert(q, a, after) ==
    Load(q, [kind |-> "alert", alert |-> a, writes |-> Changed(alert[a], after)])

LoadCase(q, c, after) ==
    Load(q, [kind |-> "case", case |-> c, writes |-> Changed(case[c], after)])

-----------------------------------------------------------------------------
(* Monitoring. *)

OpenAlertsOf(t) ==
    {a \in Alerts : Raised(a) /\ alert[a].txn = t /\ ~AlertClosed(a)}

(* Mutant of RunMonitoring: the look for an open alert misses those an MLRO  *)
(* flagged.                                                                  *)
RunMonitoringMissesFlagged(q) ==
    \E t \in Txns :
      /\ {a \in OpenAlertsOf(t) : alert[a].status # "smr_candidate"} = {}
      /\ Load(q, [kind |-> "raise", txn |-> t])

(* run_monitoring raises an alert only if the SELECT finds none open for the *)
(* transaction; its caller commits.                                          *)
RunMonitoring(q) ==
    \E t \in Txns :
      /\ OpenAlertsOf(t) = {}
      /\ Load(q, [kind |-> "raise", txn |-> t])

-----------------------------------------------------------------------------
(* The handlers on an alert. *)

AssignAlert(q) ==
    \E a \in Alerts :
      /\ Raised(a) /\ ~AlertClosed(a)
      /\ LoadAlert(q, a, [alert[a] EXCEPT !.status = "assigned"])

(* Mutant of StatusOf: the resolution is the status. *)
StatusIsResolution(resolution) ==
    IF resolution = "escalated_to_case" THEN "resolved" ELSE resolution

StatusOf(resolution) ==
    CASE resolution = "dismissed" -> "dismissed"
      [] resolution = "smr_candidate" -> "smr_candidate"
      [] OTHER -> "resolved"

ReviewAlert(q) ==
    \E a \in Alerts, res \in Resolutions, notes \in Reasons \union {None} :
      /\ Raised(a) /\ ~AlertClosed(a)
      /\ res \in {"dismissed", "cleared"} => notes # None
      /\ LoadAlert(q, a,
           [alert[a] EXCEPT !.status = StatusOf(res), !.resolution = res, !.notes = notes,
                            !.smr = @ \/ res = "smr_candidate"])

EscalateAlert(q) ==
    \E a \in Alerts :
      /\ Raised(a) /\ ~AlertClosed(a)
      /\ LoadAlert(q, a, [alert[a] EXCEPT !.status = "escalated"])

(* No check of the status: a closed alert is reopened. *)
FlagSmrCandidate(q) ==
    \E a \in Alerts :
      /\ Raised(a)
      /\ LoadAlert(q, a, [alert[a] EXCEPT !.status = "smr_candidate", !.smr = TRUE])

(* Mutant of RecordResult: an interim result puts the alert back in review. *)
RecordResultReopens(q) ==
    \E a \in Alerts, r \in Results :
      /\ Raised(a)
      /\ LoadAlert(q, a,
           [alert[a] EXCEPT !.result = r,
                            !.status = IF r = "definitive"
                                         THEN IF AlertClosed(a) THEN @ ELSE "resolved"
                                         ELSE "under_review"])

(* A definitive result resolves an open alert. *)
RecordResult(q) ==
    \E a \in Alerts, r \in Results :
      /\ Raised(a)
      /\ LoadAlert(q, a,
           [alert[a] EXCEPT !.result = r,
                            !.status = IF r = "definitive" /\ ~AlertClosed(a)
                                         THEN "resolved" ELSE @])

(* create_case_from_alert: the case copies the loaded SMR flag. *)
CreateCaseFromAlert(q) ==
    \E a \in Alerts :
      /\ Raised(a) /\ ~AlertClosed(a)
      /\ Load(q, [kind |-> "open", alert |-> a, smr |-> alert[a].smr,
                  writes |-> Changed(alert[a], [alert[a] EXCEPT !.status = "escalated"])])

-----------------------------------------------------------------------------
(* The handlers on a case. *)

(* One row per alert the payload names, as often as it names it. *)
CreateCase(q) ==
    \E c \in Cases, candidate \in BOOLEAN,
       times \in [{a \in Alerts : Raised(a)} -> 0..MaxRepeat] :
      /\ req[q] = Idle
      /\ ~Opened(c)
      /\ case' = [case EXCEPT ![c] = NewCase(candidate)]
      /\ link' = [l \in Cases \X Alerts |->
                    IF l[1] = c /\ Raised(l[2]) THEN times[l[2]] ELSE link[l]]
      /\ UNCHANGED <<alert, drafts, req>>

(* PATCH: of the modelled columns, CaseUpdate holds the candidate flag. *)
UpdateCase(q) ==
    \E c \in Cases, candidate \in BOOLEAN :
      /\ Opened(c) /\ ~CaseClosed(c)
      /\ LoadCase(q, c, [case[c] EXCEPT !.candidate = candidate])

EscalateCase(q) ==
    \E c \in Cases :
      /\ Opened(c) /\ ~CaseClosed(c)
      /\ LoadCase(q, c, [case[c] EXCEPT !.status = "escalated"])

(* Mutant of TransitionStatus: a closed case can be reopened. *)
TransitionStatusReopens(q) ==
    \E c \in Cases, s \in CaseStatus :
      /\ Opened(c)
      /\ s \in CaseTransitions[case[c].status] \union
              (IF CaseClosed(c) THEN {"under_investigation"} ELSE {})
      /\ LoadCase(q, c, [case[c] EXCEPT !.status = s])

TransitionStatus(q) ==
    \E c \in Cases, s \in CaseStatus :
      /\ Opened(c) /\ ~CaseClosed(c)
      /\ s \in CaseTransitions[case[c].status]
      /\ LoadCase(q, c, [case[c] EXCEPT !.status = s])

CloseCase(q) ==
    \E c \in Cases, s \in ClosedStatuses, u \in Mlro :
      /\ Opened(c) /\ ~CaseClosed(c)
      /\ LoadCase(q, c, [case[c] EXCEPT !.status = s, !.closed_by = u])

(* Mutant of LinkAlert: no look for a duplicate. *)
LinkAlertAgain(q) ==
    \E c \in Cases, a \in Alerts :
      /\ Opened(c) /\ Raised(a)
      /\ link[<<c, a>>] < 2
      /\ Load(q, [kind |-> "link", case |-> c, alert |-> a])

(* The SELECT finds no row for the case and the alert. *)
LinkAlert(q) ==
    \E c \in Cases, a \in Alerts :
      /\ Opened(c) /\ Raised(a)
      /\ link[<<c, a>>] = 0
      /\ Load(q, [kind |-> "link", case |-> c, alert |-> a])

SmrConsider(q) ==
    \E c \in Cases, proceed \in BOOLEAN :
      /\ Opened(c)
      /\ LoadCase(q, c, [case[c] EXCEPT !.considered = TRUE, !.lodged = @ \/ proceed])

(* Mutant of SmrLodge: the MLRO's consideration is not required. *)
SmrLodgeUnconsidered(q) ==
    \E c \in Cases :
      /\ Opened(c)
      /\ LoadCase(q, c, [case[c] EXCEPT !.lodged = TRUE])

SmrLodge(q) ==
    \E c \in Cases :
      /\ Opened(c)
      /\ case[c].considered
      /\ LoadCase(q, c, [case[c] EXCEPT !.lodged = TRUE])

GenerateSmr(q) ==
    \E c \in Cases :
      /\ Opened(c)
      /\ case[c].candidate /\ case[c].considered
      /\ Load(q, [kind |-> "draft", case |-> c])

-----------------------------------------------------------------------------
(* The commits. *)

CommitAlert(q) ==
    /\ req[q].kind = "alert"
    /\ alert' = [alert EXCEPT ![req[q].alert] = Written(@, req[q].writes)]
    /\ req' = [req EXCEPT ![q] = Idle]
    /\ UNCHANGED <<case, link, drafts>>

CommitCase(q) ==
    /\ req[q].kind = "case"
    /\ case' = [case EXCEPT ![req[q].case] = Written(@, req[q].writes)]
    /\ req' = [req EXCEPT ![q] = Idle]
    /\ UNCHANGED <<alert, link, drafts>>

CommitRaise(q) ==
    /\ req[q].kind = "raise"
    /\ \E a \in Alerts :
         /\ ~Raised(a)
         /\ alert' = [alert EXCEPT ![a] =
              [txn |-> req[q].txn, status |-> "generated", resolution |-> None,
               notes |-> None, result |-> "pending", smr |-> FALSE]]
    /\ req' = [req EXCEPT ![q] = Idle]
    /\ UNCHANGED <<case, link, drafts>>

(* The case, its link and the alert's new status, in one transaction. *)
CommitOpen(q) ==
    /\ req[q].kind = "open"
    /\ \E c \in Cases :
         /\ ~Opened(c)
         /\ case' = [case EXCEPT ![c] = NewCase(req[q].smr)]
         /\ link' = [link EXCEPT ![<<c, req[q].alert>>] = 1]
    /\ alert' = [alert EXCEPT ![req[q].alert] = Written(@, req[q].writes)]
    /\ req' = [req EXCEPT ![q] = Idle]
    /\ UNCHANGED drafts

CommitLink(q) ==
    /\ req[q].kind = "link"
    /\ link' = [link EXCEPT ![<<req[q].case, req[q].alert>>] = @ + 1]
    /\ req' = [req EXCEPT ![q] = Idle]
    /\ UNCHANGED <<alert, case, drafts>>

CommitDraft(q) ==
    /\ req[q].kind = "draft"
    /\ drafts' = drafts \union {req[q].case}
    /\ req' = [req EXCEPT ![q] = Idle]
    /\ UNCHANGED <<alert, case, link>>

(* The worker dies before the commit. *)
Abort(q) ==
    /\ req[q] # Idle
    /\ req' = [req EXCEPT ![q] = Idle]
    /\ UNCHANGED <<alert, case, link, drafts>>

-----------------------------------------------------------------------------
OnAlert(q) ==
    \/ "run_monitoring" \in Handlers /\ RunMonitoring(q)
    \/ "assign_alert" \in Handlers /\ AssignAlert(q)
    \/ "review_alert" \in Handlers /\ ReviewAlert(q)
    \/ "escalate_alert" \in Handlers /\ EscalateAlert(q)
    \/ "flag_smr_candidate" \in Handlers /\ FlagSmrCandidate(q)
    \/ "record_result" \in Handlers /\ RecordResult(q)
    \/ "create_case_from_alert" \in Handlers /\ CreateCaseFromAlert(q)

OnCase(q) ==
    \/ "create_case" \in Handlers /\ CreateCase(q)
    \/ "update_case" \in Handlers /\ UpdateCase(q)
    \/ "escalate_case" \in Handlers /\ EscalateCase(q)
    \/ "transition_status" \in Handlers /\ TransitionStatus(q)
    \/ "close_case" \in Handlers /\ CloseCase(q)
    \/ "link_alert" \in Handlers /\ LinkAlert(q)
    \/ "smr_consider" \in Handlers /\ SmrConsider(q)
    \/ "smr_lodge" \in Handlers /\ SmrLodge(q)
    \/ "generate_smr" \in Handlers /\ GenerateSmr(q)

Commit(q) ==
    \/ CommitAlert(q) \/ CommitCase(q) \/ CommitRaise(q) \/ CommitOpen(q)
    \/ CommitLink(q) \/ CommitDraft(q)

Next == \E q \in Requests : OnAlert(q) \/ OnCase(q) \/ Commit(q) \/ Abort(q)

Spec == Init /\ [][Next]_vars

-----------------------------------------------------------------------------
(* What an in-flight handler holds. *)
Holds(h) ==
    CASE h.kind = "alert" ->
           /\ h.alert \in Alerts /\ Raised(h.alert)
           /\ Written(alert[h.alert], h.writes) \in AlertRow
      [] h.kind = "case" ->
           /\ h.case \in Cases /\ Opened(h.case)
           /\ Written(case[h.case], h.writes) \in CaseRow
      [] h.kind = "raise" -> h.txn \in Txns
      [] h.kind = "open" ->
           /\ h.alert \in Alerts /\ Raised(h.alert) /\ h.smr \in BOOLEAN
           /\ Written(alert[h.alert], h.writes) \in AlertRow
      [] h.kind = "link" -> h.case \in Cases /\ h.alert \in Alerts
      [] h.kind = "draft" -> h.case \in Cases
      [] OTHER -> h = Idle

(* The tables hold rows of their types, and what a handler is about to write *)
(* is about a row that exists and leaves it a row of its type.               *)
TypeOK ==
    /\ alert \in [Alerts -> AlertRow \union {NoRow}]
    /\ case \in [Cases -> CaseRow \union {NoRow}]
    /\ link \in [Cases \X Alerts -> Nat]
    /\ drafts \subseteq Cases
    /\ req = [q \in Requests |-> req[q]]
    /\ \A q \in Requests : Holds(req[q])

(* Monitoring does not raise a second alert for a transaction while one is   *)
(* still open (monitoring_engine.run_monitoring).                            *)
NoSecondAlert ==
    [][\A a, b \in Alerts :
         (~Raised(a) /\ Raised(a)' /\ Raised(b) /\ ~AlertClosed(b))
            => alert'[a].txn # alert[b].txn]_vars

(* A closed alert keeps its status, unless the MLRO flags it. *)
ClosedAlertsStayClosed ==
    [][\A a \in Alerts :
         (Raised(a) /\ AlertClosed(a)) =>
            alert'[a].status \in {alert[a].status, "smr_candidate"}]_vars

(* A closed case keeps the status it was closed with. *)
ClosedCasesStayClosed ==
    [][\A c \in Cases :
         (Opened(c) /\ CaseClosed(c)) => case'[c].status = case[c].status]_vars

(* An alert that is linked to a case is not linked to it again ("Alert       *)
(* already linked to this case."), however often the payload that created    *)
(* the case named it.                                                       *)
NotLinkedAgain ==
    [][\A c \in Cases, a \in Alerts :
         link[<<c, a>>] # 0 => link'[<<c, a>>] = link[<<c, a>>]]_vars

(* The SMR workflow of the cases follows the SMR decisions: lodgements and    *)
(* drafts come after the MLRO's consideration, and nothing decided is undone. *)
CasesWith(flag) == {c \in Cases : Opened(c) /\ case[c][flag]}

Decisions == INSTANCE SmrDecisions WITH
                Matters <- Cases,
                considered <- CasesWith("considered"),
                lodged <- CasesWith("lodged"),
                drafted <- drafts

SmrDecisionsKept == Decisions!Spec

=============================================================================
