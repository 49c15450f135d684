SPECIFICATION FairSpec
CONSTANTS
  j1 = j1
  j2 = j2
  r1 = r1
  r2 = r2
  r3 = r3
  None = None
  Jobs <- OneJob
  Runs <- ThreeRuns
  MaxWorkers = 2
  CurlAttempts = 2
  MaxFaults = 1
  MaxLosses = 1
  AmbiguousDispatch = TRUE
  ManualDispatch = FALSE
PROPERTIES
  NoReopen
  ResultSticks
  JobEndsOrRunIsLost
\* every job and every run ends
CHECK_DEADLOCK FALSE
