------------------------- MODULE MCIncidentCoherence -------------------------
(* Instances of IncidentCoherence, and its inductive invariant, for TLC. *)
EXTENDS CoherenceInv, TLC

Symmetry ==
  Permutations(Handlers) \cup Permutations(Bodies) \cup Permutations(Ids)
=============================================================================
