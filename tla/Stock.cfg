SPECIFICATION Spec
CONSTANTS
  w1 = w1
  k1 = k1
  k2 = k2
  q1 = q1
  q2 = q2
  Nothing = Nothing
  WorkOrders <- MCWorkOrders
  Required <- MCRequired
  Reservations <- MCReservations
  Keys <- MCKeys
  Requests <- MCRequests
  MaxStock = 2
  MaxMoves = 3
SYMMETRY Symmetry
INVARIANTS
  TypeOK
  NotOversold
  ReservedAgrees
CHECK_DEADLOCK FALSE
