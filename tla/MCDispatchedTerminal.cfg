SPECIFICATION Spec
CONSTANTS
  j1 = j1
  j2 = j2
  r1 = r1
  r2 = r2
  r3 = r3
  None = None
  Jobs <- OneJob
  Runs <- TwoRuns
  MaxWorkers = 2
  CurlAttempts = 2
  MaxFaults = 0
  MaxLosses = 0
  AmbiguousDispatch = TRUE
  ManualDispatch = FALSE
PROPERTIES
  TerminalStatusKept
\* every job and every run ends
CHECK_DEADLOCK FALSE
