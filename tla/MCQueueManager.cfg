SPECIFICATION FairSpec
CONSTANTS
  k1 = k1
  k2 = k2
  Key = {k1, k2}
  Tracked = {k1}
  MaxMsg = 3
  KeyOf <- MCKeyOf
  MaxQueue = 3
  Capacity = 1
  NoQueue = NoQueue
  NoKey = NoKey
  Asleep = Asleep
  Gone = Gone
INVARIANTS
  TypeOK
  MessageInOnePlace
  SerialUntilCleanup
  ArrivalOrder
PROPERTIES
  EveryMessageSettles
CHECK_DEADLOCK FALSE
