------------------------------ MODULE MC_Browse ------------------------------
(* Small instances of Browse for TLC.                                        *)
EXTENDS Browse, TLC
CONSTANTS n1, n2, all, some

A == [database |-> "a", table |-> "t"]
B == [database |-> "b", table |-> "t"]

\* Two tables of one name in two databases, each referencing the other.
TwoRelations == {A, B}
Pointing == [rel \in TwoRelations |-> IF rel = A THEN {B} ELSE {A}]
Rows == [rel \in TwoRelations |-> [f \in {all, some} |-> IF f = some THEN 1 ELSE IF rel = A THEN 3 ELSE 2]]
Sym == Permutations({n1, n2})
=============================================================================
