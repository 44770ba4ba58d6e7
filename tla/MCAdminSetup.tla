----------------------------- MODULE MCAdminSetup ----------------------------
(* AdminSetup for TLC: the rows of a kind are interchangeable. *)
EXTENDS AdminSetup, TLC

MCSymmetry == Permutations(Browser) \cup Permutations(Code) \cup Permutations(InitialStations)
=============================================================================
