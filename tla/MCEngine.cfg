SPECIFICATION Spec
CONSTANTS
  r1 = r1
  r2 = r2
  Requests <- MCRequests
  MaxOutput <- MCMaxOutput
  Capacity <- MCCapacity
  MaxStarts = 2
CHECK_DEADLOCK FALSE
INVARIANTS
  TypeOK
  StreamInOrder
  ForgottenIsOver
  NoTouchAfterClose
