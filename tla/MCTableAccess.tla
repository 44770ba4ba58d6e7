---------------------------- MODULE MCTableAccess ----------------------------
(* Small instances of TableAccess for TLC. *)
EXTENDS TableAccess, TLC

Symmetry == Permutations(Request) \cup Permutations(Conn)
=============================================================================
