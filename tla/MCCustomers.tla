---------------------------- MODULE MCCustomers ----------------------------
(* CustomerPortal on small instances. *)
EXTENDS CustomerPortal, FiniteSets, TLC

CONSTANTS c1, p, q

TheChecks == 1 .. 2
TheKinds == <<"pep", "sanctions">>

(* A customer's screening, its workflow and its portal session are looked at *)
(* one at a time: they meet in the customer's row only.                       *)
Screening(r) == r.screening # NewCustomer.screening \/ r.checklist.identity
Workflow(r) == r.workflow # NewCustomer.workflow
Portal(r) == r.session # NewPortal.session

(* Next to the workflow, only its own decision sets the status; next to the   *)
(* portal, only the submission, for an applicant.  Of the two records only    *)
(* the first is ever a confirmed match, and only the first link expires.      *)
OneScene(r) ==
    /\ Screening(r) => /\ ~Workflow(r) /\ ~Portal(r)
                       /\ r.customer.cdd = "standard"
                       /\ r.customer.status # "closed"
                       /\ r.screening[2] # "confirmed"
    /\ Workflow(r) => /\ ~Portal(r)
                      /\ r.customer.status \in {"draft", "active", "rejected"}
                      /\ r.customer.by \in {"none", "workflow"}
                      /\ r.customer.cdd = "enhanced" => r.workflow.triggered
    /\ Portal(r) => /\ r.customer.status \in {"draft", "pending"}
                    /\ r.customer.cdd = "standard"

(* What an outdated copy leads to is followed in the portal only: elsewhere  *)
(* no request begins after one was committed.  On the screening, a review of *)
(* a record overlaps with a request that makes the customer active; in the   *)
(* workflow, requests overlap with one of enhanced due diligence.            *)
Saved == {req[i].new : i \in {j \in Requests : req[j].pc = "save"}}

Scenes ==
    /\ \A r \in {rows[c1]}' \union Saved' : OneScene(r)
    /\ overdue' \subseteq {<<c1, 1>>}
    /\ raced # {} /\ ~Portal(rows[c1]) => Pending' \subseteq Pending
    /\ Cardinality(Pending') > 1 =>
         \/ Portal(rows[c1])
         \/ Workflow(rows[c1]) /\ \E r \in Saved' : r.workflow.state \in EddStates
         \/ /\ \E r \in Saved' : r.customer.by \in {"status", "kyc"}
            /\ \E r \in Saved' : r.screening # rows[c1].screening

Symmetry == Permutations(Requests)

=============================================================================
