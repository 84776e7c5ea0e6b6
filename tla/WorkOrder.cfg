SPECIFICATION Spec
CONSTANTS
  p = p
  a = a
  b = b
  q1 = q1
  q2 = q2
  m1 = m1
  m2 = m2
  NoMachine = NoMachine
  Parent = p
  Requests <- MCRequests
  Parts <- MCParts
  Machines <- MCMachines
  MachineOf <- MCMachineOf
  Starting = {"SCHEDULED"}
  MaxOutput = 1
INVARIANTS
  TypeOK
  MachineIsExclusive
  ParentHoldsNoProduction
  CounterMatchesRecords
  RollUpInventsNothing
CHECK_DEADLOCK FALSE
