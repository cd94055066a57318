--------------------------- MODULE MCCheckTraffic ---------------------------
(* Instances of CheckTraffic for TLC. *)
EXTENDS CheckTraffic
=============================================================================
