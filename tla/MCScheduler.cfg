SPECIFICATION FairSpec
CONSTANTS
  NumWorkers = 2
  MaxJobs = 3
  MaxStarts = 2
INVARIANTS
  TypeOK
  ActiveCountsWork
  NoLostWakeup
PROPERTIES
  JobsAreTaken
  ShutdownCompletes
CHECK_DEADLOCK FALSE
