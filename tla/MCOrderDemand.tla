--------------------------- MODULE MCOrderDemand ---------------------------
(***************************************************************************)
(* Two requests, two plans and one order of two lines.  Plans and requests *)
(* are interchangeable, so their permutations are a symmetry.              *)
(***************************************************************************)
EXTENDS OrderDemand, TLC

CONSTANTS o1, p1, p2, q1, q2

MCOrders == {o1}
MCLines == {1, 2}
MCOrderOf == [l \in MCLines |-> o1]
MCOrdered == [l \in MCLines |-> 1]
MCManual == {"SHIPPED"}
MCPlans == {p1, p2}
MCRequests == {q1, q2}

Symmetry == Permutations(MCPlans) \cup Permutations(MCRequests)
=============================================================================
