\* Overlapping runs; the folder of a job uploaded twice outgrows a page.
SPECIFICATION Spec
CONSTANTS
  Clients <- MCClients
  JobOf <- MCJobOf
  Package <- MCPackage
  Names <- MCNames
  PageSize = 3
  MaxErrors = 2
INVARIANTS
  OneVerifiedPerFolder
  Isolated
  FailureExplained
  UniqueFolders
CHECK_DEADLOCK FALSE
