SPECIFICATION FairSpec
CONSTANTS
  t1 = t1
  t2 = t2
  s1 = s1
  s2 = s2
  c1 = c1
  c2 = c2
  Threads <- MCThreads
  Starts <- MCStarts
  Conns <- MCConns
  Requests <- MCRequests
  MaxRequests <- MCMaxRequests
  MayFail = TRUE
CHECK_DEADLOCK FALSE
INVARIANTS
  TypeOK
  StillListening
PROPERTIES
  SilentAfterStop
  StopReturns
  EveryRequestAnswered
  ConnectionsEnd
