----------------------- MODULE MCInflightReservation -----------------------
(* Requests of one user; they are interchangeable.                          *)
EXTENDS InflightReservation, TLC

RequestSymmetry == Permutations(Requests)
=============================================================================
