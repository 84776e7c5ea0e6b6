SPECIFICATION FairSpec
CONSTANTS
  NoSlot = NoSlot
  Commands <- MCCommands
  Workloads <- MCWorkloads
  Slots <- MCSlots
  BatchSize = 2
  MaxRetries = 2
  MaxFaults = 2
  MaxTaps = 1
INVARIANTS
  TypeOK
  AppliedAtMostOnce
  NoSilentLoss
  LedgerIsTrue
PROPERTIES
  WaitingIsSettled
CHECK_DEADLOCK FALSE
