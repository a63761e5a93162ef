-------------------------- MODULE MCReportWorkflow --------------------------
(* ReportWorkflow on small instances. *)
EXTENDS ReportWorkflow, TLC

(* One report at a time: a handler touches no report but its own, so the    *)
(* behaviours of one report of each kind are all there is to see.           *)
LoneReport == Cardinality({r \in Reports : row'[r] # NoRow}) <= 1

(* An IFTI is rejected by its endpoint; PATCH bodies set the status of the   *)
(* other reports, which have none.                                          *)
PatchedWithoutReject ==
    \A q \in Requests :
       req'[q].pc = "commit" /\ req'[q].op = "patch" /\ req'[q].report \in Ifti =>
          req'[q].after.status = req'[q].before.status

(* Users of one role, and handlers, are interchangeable. *)
Symmetry ==
    Permutations(Mlro) \union Permutations(Compliance \ Mlro) \union Permutations(Requests)

=============================================================================
