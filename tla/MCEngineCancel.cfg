SPECIFICATION Spec
CONSTANTS
  r1 = r1
  r2 = r2
  Requests <- MCOneRequest
  MaxOutput <- MCOneMaxOutput
  Capacity <- MCOneCapacity
  MaxStarts = 2
CHECK_DEADLOCK FALSE
INVARIANT CancelHonoured
