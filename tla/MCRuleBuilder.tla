--------------------------- MODULE MCRuleBuilder ---------------------------
(* RuleBuilder on small instances. *)
EXTENDS RuleBuilder, TLC

CONSTANTS r1, r2, alerts, opens    \* two rules; an action that works, one that fails

Order == <<r1, r2>>
ActionLists == [d \in {alerts, opens} |-> IF d = alerts THEN <<"commits">> ELSE <<"other", "commits", "fails">>]

(* Rules and panels do not meet: a panel is reviewed, or rules are evaluated. *)
(* The second rule is created with an action that works, updated and deleted; *)
(* what it holds when it is not active is left alone.  The first rule, if     *)
(* there is one, is created before it and stays as it is; then one request is *)
(* in flight at a time.                                                       *)
Apart ==
    /\ (\E p \in Panels : panel'[p] # NoRow) => (\A r \in RuleIds : rule'[r] = NoRow)
    /\ \A r \in RuleIds : rule[r] = NoRow /\ rule'[r] # NoRow => rule'[r].def = alerts
    /\ Exists(r2)' /\ rule'[r2].status # "active" => rule'[r2].def = alerts
    /\ rule[r1] # NoRow => rule'[r1] = rule[r1]
    /\ rule[r2] # NoRow => rule'[r1] = rule[r1]
    /\ rule'[r1] # NoRow => Cardinality({q \in Requests : req'[q] # Idle}) <= 1
    /\ Len(version'[r2]) <= MaxVersions

Symmetry == Permutations(Requests)

=============================================================================
