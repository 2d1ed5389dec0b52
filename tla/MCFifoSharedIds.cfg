SPECIFICATION Spec
CONSTANTS
  r1 = r1
  r2 = r2
  r3 = r3
  a = a
  b = b
  Requests <- MCRequests
  Ids <- MCIds
  IdOf <- MCIdOf
  MaxOutput <- MCMaxOutput
  SharedIds = TRUE
CHECK_DEADLOCK FALSE
INVARIANT NothingLeaks
