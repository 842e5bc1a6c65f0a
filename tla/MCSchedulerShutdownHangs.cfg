SPECIFICATION FairSpec
CONSTANTS
  NumWorkers = 2
  MaxJobs = 1
  MaxStarts = 1
PROPERTY ShutdownAlwaysCompletes
CHECK_DEADLOCK FALSE
