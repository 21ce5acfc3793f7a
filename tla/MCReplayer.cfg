SPECIFICATION FairSpec
CONSTANTS
  NumPackets = 4
  Stamp <- MCStamp
  BufCap = 3
  Timeout = 2
  DurationBits = 5
  Unset = Unset
  MaxReadErrors = 1
  MaxClock = 12
  MaxReceived = 6
INVARIANTS
  NothingLost
PROPERTIES
  NeverEarly
  NotStale
  ReturnedInOrder
  ReplayEnds
