-------------------------- MODULE MCLocationChecks --------------------------
(* Instances of LocationChecks and its inductive invariant for TLC. *)
EXTENDS LocationChecksInv, TLC

(* Checks and incidents are only compared; sound for safety, not for liveness. *)
Symmetry == Permutations(Checks) \cup Permutations(Zones)
=============================================================================
