---------------------------- MODULE FilingLedger ----------------------------
(***************************************************************************)
(* What the filing register and the audit log keep to, whatever the        *)
(* reports go through: a report is filed at most once, as report_ref is    *)
(* unique, a filing is never changed or removed, and the audit log only    *)
(* speaks of filings.  The register's docstring promises more, a row of    *)
(* its own for each submission and each correction: a report submitted     *)
(* again after a redraft gets none.                                        *)
(***************************************************************************)
CONSTANT Filings    \* the filings there can be: of a report, by a user

VARIABLES ledger, log

Init == ledger = {} /\ log = {}

File(f) ==
    /\ \A g \in ledger : g.report # f.report
    /\ ledger' = ledger \union {f}
    /\ UNCHANGED log

Log(f) ==
    /\ f \in ledger
    /\ log' = log \union {f}
    /\ UNCHANGED ledger

Next == \E f \in Filings : File(f) \/ Log(f)

Spec == Init /\ [][Next]_<<ledger, log>>

=============================================================================
