-------------------------- MODULE MCOrderReservation --------------------------
(* Instances of OrderReservation for TLC.                                      *)
EXTENDS OrderReservation, TLC

Symmetry == Permutations(Orders) \union Permutations(Reservations) \union Permutations(Robots)

=============================================================================
