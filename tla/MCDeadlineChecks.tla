-------------------------- MODULE MCDeadlineChecks --------------------------
(* DeadlineChecks on small instances. *)
EXTENDS DeadlineChecks

CONSTANTS s, c, p    \* an SMR, a control, a policy

(* A check whose filter raises between two that find one item each. *)
Order == <<"control_test_overdue", "smr_deadlines", "policy_review_due">>
DueItems ==
    [k \in {"control_test_overdue", "smr_deadlines", "policy_review_due"} |->
        CASE k = "control_test_overdue" -> {c}
          [] k = "smr_deadlines" -> {s}
          [] k = "policy_review_due" -> {p}]

=============================================================================
