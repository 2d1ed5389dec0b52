SPECIFICATION RSpec
CONSTANTS
  r1 = r1
  r2 = r2
  r3 = r3
  a = a
  b = b
  Requests <- MCRequests
  Ids <- MCIds
  IdOf <- MCIdOf
  MaxOutput <- MCMaxOutput
  SharedIds = FALSE
INVARIANTS
  TypeOK
  NoPanic
  QueuesMatchState
  HandlesExact
  FifoOrder
  ExpiredNeverServed
  TickAccounting
PROPERTIES
  TerminalIsFinal
  EveryRequestTerminates
  ImplementsContract
