-------------------------------- MODULE MCApi --------------------------------
(* Instances of Api for TLC. *)
EXTENDS Api, TLC

Symmetry == Permutations(Bodies) \cup Permutations(Users)
=============================================================================
