SPECIFICATION FairSpec
CONSTANTS
  Entries <- Overlapping
  Size = 2
  Grain = 2
  PrefillCost = 1
  DecodeCost = 5
CHECK_DEADLOCK FALSE
INVARIANT AttainmentFromArrival
