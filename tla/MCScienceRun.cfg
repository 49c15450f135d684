SPECIFICATION FairSpec
CONSTANTS
  PreflightAttempts = 2
  LoginAttempts = 2
  Products <- MCProducts
  EdgeOf <- MCEdgeOf
  PR <- MCPR
  Documented = {1, 2}
  Tries = 3
INVARIANTS
  OneRawFile
  ReadsOwnFile
  ManifestMeansDone
  PayloadAccepted
  CompletedMeansWhole
  CompletedLeavesNothing
  SelectionIsRight
  RejectionIsFinal
  CodeTellsWhy
PROPERTIES
  RunReports
  RunSpec
CHECK_DEADLOCK FALSE
