----------------------------- MODULE MCStaffDesk -----------------------------
(* StaffDesk for TLC: browsers are interchangeable. *)
EXTENDS StaffDesk, TLC

MCSymmetry == Permutations(Browser)
=============================================================================
