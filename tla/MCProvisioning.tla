--------------------------- MODULE MCProvisioning ---------------------------
(* Small instances of Provisioning for TLC. *)
EXTENDS Provisioning, TLC

Symmetry == Permutations(Tenant) \cup Permutations(Worker)
=============================================================================
