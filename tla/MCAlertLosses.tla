--------------------------- MODULE MCAlertLosses ---------------------------
(* Instances of AlertLosses for TLC. *)
EXTENDS AlertLossesInv, TLC

(* Checks and incidents are only compared; sound for safety, not for liveness. *)
Symmetry == Permutations(Checks) \cup Permutations(Zones)
=============================================================================
