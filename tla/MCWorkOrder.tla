---------------------------- MODULE MCWorkOrder ----------------------------
(***************************************************************************)
(* Two requests; a supervisor may split the parent into two children, one  *)
(* of which gets the machine the parent had.                               *)
(***************************************************************************)
EXTENDS WorkOrder

CONSTANTS p, a, b, q1, q2, m1, m2

MCRequests == {q1, q2}
MCParts == [q \in MCRequests |-> IF q = q1 THEN {a, b} ELSE {}]
MCMachines == {m1, m2}
MCMachineOf == [w \in {p, a, b} |-> m1]
=============================================================================
