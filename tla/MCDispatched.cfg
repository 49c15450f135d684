SPECIFICATION Spec
CONSTANTS
  j1 = j1
  j2 = j2
  r1 = r1
  r2 = r2
  r3 = r3
  None = None
  Jobs <- TwoJobs
  Runs <- TwoRuns
  MaxWorkers = 2
  CurlAttempts = 2
  MaxFaults = 1
  MaxLosses = 2
  AmbiguousDispatch = FALSE
  ManualDispatch = FALSE
SYMMETRY Symmetry
INVARIANTS
  RowConsistent
  OneRunPerJob
  AcceptedIsDurable
  NeverRefused
  FailedAttemptsArePaid
PROPERTIES
  TerminalStable
  LifecycleSpec
\* every job and every run ends
CHECK_DEADLOCK FALSE
