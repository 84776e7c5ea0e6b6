SPECIFICATION Spec
CONSTANTS
  w1 = w1
  d1 = d1
  d2 = d2
  q1 = q1
  q2 = q2
  r1 = r1
  r2 = r2
  r3 = r3
  Nothing = Nothing
  WorkOrders <- MCWorkOrders
  Stops <- MCStops
  OrderOf <- MCOrderOf
  Requests <- MCRequests
  RowIds <- MCRowIds
  Times = {1, 2}
SYMMETRY Symmetry
INVARIANTS
  TypeOK
  ActiveStopShows
PROPERTIES
  OneOpenState
  ResolvedIsFinal
  CompletionSawNoStop
CHECK_DEADLOCK FALSE
