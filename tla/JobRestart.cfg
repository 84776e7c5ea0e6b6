SPECIFICATION FairSpec
CONSTANTS
  r1 = r1
  r2 = r2
  NoJob = NoJob
  Jobs <- MCJobs
  Runners <- MCRunners
  MaxAttempts <- MCMaxAttempts
  Handles <- MCHandles
  BatchSize = 2
  MaxFaults = 2
PROPERTY
  JobSurvivesRestart
CHECK_DEADLOCK FALSE
