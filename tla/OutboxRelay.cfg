SPECIFICATION FairSpec
CONSTANTS
  r1 = r1
  r2 = r2
  t1 = t1
  t2 = t2
  Events <- MCEvents
  Backlog <- MCBacklog
  Tenants <- MCTenants
  TenantOf <- MCTenantOf
  Relays <- MCRelays
  MaxAttempts = 2
  BatchSize = 2
  MaxFaults = 1
INVARIANTS
  TypeOK
  BatchesAreDisjoint
  PublishedWasHeard
PROPERTIES
  FailedIsFinal
  EveryEventEnds
CHECK_DEADLOCK FALSE
