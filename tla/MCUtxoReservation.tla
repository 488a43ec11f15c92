------------------------- MODULE MCUtxoReservation --------------------------
(* Instances of UtxoReservation for TLC. *)
EXTENDS UtxoReservation, TLC

CONSTANTS t1, t2

Symmetry == Permutations({t1, t2})
=============================================================================
