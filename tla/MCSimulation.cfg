SPECIFICATION FairSpec
CONSTANTS
  Entries <- OnTick
  Size = 3
  Grain = 2
  PrefillCost = 1
  DecodeCost = 5
CHECK_DEADLOCK FALSE
INVARIANTS
  TypeOK
  EndsClean
  SubmittedOnArrival
  WallTimeCoversRun
  OverrunBounded
  AttainmentWithinOneTick
  BreakdownAddsUp
  TraceAddsUp
  PercentilesExact
PROPERTY SimulationEnds
