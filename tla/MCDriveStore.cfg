SPECIFICATION FairSpec
\* the third job's folder does not fit on a page
CONSTANTS
  Clients <- MCClients
  JobOf <- MCJobOf
  Expected <- MCExpected
  Names <- MCNames
  PageSize = 2
  MaxErrors = 2
INVARIANTS
  NoDuplicates
  OwnFiles
PROPERTIES
  RetrySucceeds
\* every call ends
CHECK_DEADLOCK FALSE
