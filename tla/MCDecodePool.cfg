SPECIFICATION FairSpec
CONSTANTS
  w1 = w1
  w2 = w2
  Workers <- MCWorkers
  NoWorker = NoWorker
  NumPackets = 5
  MaxBatch = 2
  MaxReadErrors = 1
INVARIANTS
  TypeOK
  ChannelSafety
  StatsExact
  Drained
PROPERTIES
  BufferStable
  PacketFate
  CleanShutdown
\* A worker lost to a read error can leave Run waiting for ever.
CHECK_DEADLOCK FALSE
