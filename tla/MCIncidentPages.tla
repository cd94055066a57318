--------------------------- MODULE MCIncidentPages ---------------------------
(* Instances of IncidentPages for TLC. *)
EXTENDS IncidentPages

Symmetry == Permutations(Ids)
=============================================================================
