---------------------------- MODULE MCAlertCases ----------------------------
(* AlertCases on small instances. *)
EXTENDS AlertCases, TLC

(* At most two rows in all: two alerts, an alert and a case, or two cases. *)
Rows == Cardinality({a \in Alerts : Raised(a)}) + Cardinality({c \in Cases : Opened(c)})
FewRows == Rows' <= 2

(* Alerts, cases, MLROs and requests are interchangeable. *)
Symmetry ==
    Permutations(Alerts) \union Permutations(Cases) \union Permutations(Mlro)
      \union Permutations(Requests)

=============================================================================
