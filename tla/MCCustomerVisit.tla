--------------------------- MODULE MCCustomerVisit ---------------------------
(* Small instances of CustomerVisit for TLC: the tabs of one browser. *)
EXTENDS CustomerVisit, TLC

CONSTANT b1

OneBrowser == [t \in Tab |-> b1]

Symmetry == Permutations(Table) \cup Permutations(Tab)
=============================================================================
