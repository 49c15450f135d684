SPECIFICATION Spec
CONSTANTS
  a = a
  A = A
  b = b
  x = x
  None = None
  Calls = {c1, c2, c3, c4}
  Spellings <- MCSpellings
  Normal <- MCNormal
SYMMETRY MCSymmetry
INVARIANTS
  OneUserPerAddress
  AnsweredIsStored
  TakenIsConflict
  LoggedOutStaysOut
  SessionsAreApart
  OwnJobsOnly
CHECK_DEADLOCK FALSE
