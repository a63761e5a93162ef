---------------------------- MODULE SmrDecisions ----------------------------
(***************************************************************************)
(* What the SMR workflow of the cases promises, whatever else happens to a *)
(* case: the MLRO's consideration comes before the lodgement and before a  *)
(* draft report, and nothing that was decided is undone.                   *)
(***************************************************************************)
CONSTANT Matters    \* what an SMR can be about

VARIABLES
    considered,  \* matters the MLRO has considered
    lodged,      \* matters recorded as lodged with AUSTRAC
    drafted      \* matters a draft SMR was generated for

vars == <<considered, lodged, drafted>>

Init == considered = {} /\ lodged = {} /\ drafted = {}

(* The MLRO considers m, and may record the lodgement at the same time. *)
Consider(m) ==
    /\ considered' = considered \union {m}
    /\ lodged' \in {lodged, lodged \union {m}}
    /\ UNCHANGED drafted

Lodge(m) ==
    /\ m \in considered
    /\ lodged' = lodged \union {m}
    /\ UNCHANGED <<considered, drafted>>

Draft(m) ==
    /\ m \in considered
    /\ drafted' = drafted \union {m}
    /\ UNCHANGED <<considered, lodged>>

Next == \E m \in Matters : Consider(m) \/ Lodge(m) \/ Draft(m)

Spec == Init /\ [][Next]_vars

=============================================================================
