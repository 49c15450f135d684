SPECIFICATION FairSpec
CONSTANTS
  j1 = j1
  j2 = j2
  j3 = j3
  None = None
  Jobs <- MCJobs
  Runs <- MCRuns
  MaxWorkers = 2
  MaxFaults = 1
PROPERTIES
  EveryJobEnds
\* every job ends or is stranded by a restart
CHECK_DEADLOCK FALSE
