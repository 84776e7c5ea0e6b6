SPECIFICATION Spec
CONSTANTS
  o1 = o1
  p1 = p1
  p2 = p2
  q1 = q1
  q2 = q2
  Nothing = Nothing
  Orders <- MCOrders
  Lines <- MCLines
  OrderOf <- MCOrderOf
  Ordered <- MCOrdered
  ManualLogisticsStatuses <- MCManual
  MaxWorkOrders = 1
  MaxCancelled = 1
  Plans <- MCPlans
  Requests <- MCRequests
  MaxOutput = 2
  MaxLapses = 0
SYMMETRY Symmetry
INVARIANTS
  TypeOK
  BooksAgree
  StatusFollows
CHECK_DEADLOCK FALSE
