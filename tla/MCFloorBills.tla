---------------------------- MODULE MCFloorBills ----------------------------
(* Small instances of FloorBills for TLC. *)
EXTENDS FloorBills, TLC

\* Orders of equal worth: a sum that equals the loaded one by chance is possible.
UnitAmount == [o \in Order |-> 1]

Symmetry == Permutations(Bill) \cup Permutations(Order) \cup Permutations(Session)
            \cup Permutations(Table) \cup Permutations(Request)
=============================================================================
