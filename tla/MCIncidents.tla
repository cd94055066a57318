---------------------------- MODULE MCIncidents ----------------------------
(* Instances of Incidents and its inductive invariant for TLC. *)
EXTENDS IncidentsInv, TLC

(* Handlers, bodies and ids are only compared; sound for safety, not for liveness. *)
Symmetry ==
  Permutations(Handlers) \cup Permutations(Bodies) \cup Permutations(Ids)
=============================================================================
