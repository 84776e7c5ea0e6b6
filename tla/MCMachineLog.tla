---------------------------- MODULE MCMachineLog ----------------------------
(***************************************************************************)
(* Two requests on a machine with a work order, a stop of it and a stop    *)
(* that names none.  Three rows: two that transactions remember, and room  *)
(* for the row that overlapping transitions leave open.  Requests and row  *)
(* ids are interchangeable, so their permutations are a symmetry.          *)
(***************************************************************************)
EXTENDS MachineLog, TLC

CONSTANTS w1, d1, d2, q1, q2, r1, r2, r3

MCWorkOrders == {w1}
MCStops == {d1, d2}
MCOrderOf == [d \in MCStops |-> IF d = d1 THEN w1 ELSE Nothing]
MCRequests == {q1, q2}
MCRowIds == {r1, r2, r3}

Symmetry == Permutations(MCRequests) \cup Permutations(MCRowIds)
=============================================================================
