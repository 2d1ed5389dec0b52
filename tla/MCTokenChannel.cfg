SPECIFICATION FairSpec
CONSTANTS
  c1 = c1
  c2 = c2
  c3 = c3
  Consumers <- MCConsumers
  Capacity = 2
  MaxPushes = 4
CHECK_DEADLOCK FALSE
INVARIANTS
  TypeOK
  Fifo
  NoLostWakeup
  EndMeansDrained
PROPERTIES
  EverythingDelivered
