SPECIFICATION FairSpec
CONSTANTS
  t1 = t1
  t2 = t2
  c1 = c1
  Tabs <- MCTabs
  Commands <- MCCommands
  OnDisk = {"absent", "v1", "v2"}
  MaxLoads = 2
INVARIANTS
  TypeOK
  NoSelfBlock
  DeferredStillRecords
PROPERTIES
  CountedFirst
  QueueSurvives
  BootEnds
  OldCacheGoes
CHECK_DEADLOCK FALSE
