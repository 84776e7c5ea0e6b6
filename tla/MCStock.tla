------------------------------ MODULE MCStock ------------------------------
(***************************************************************************)
(* Two requests over a stock of up to two units, a work order that needs   *)
(* two, two reservations, two consumptions and three movements.            *)
(***************************************************************************)
EXTENDS Stock, TLC

CONSTANTS w1, k1, k2, q1, q2

MCWorkOrders == {w1}
MCRequired == [w \in MCWorkOrders |-> 2]
MCReservations == {1, 2}
MCKeys == {k1, k2}
MCRequests == {q1, q2}

Symmetry == Permutations(MCKeys) \cup Permutations(MCRequests)
=============================================================================
