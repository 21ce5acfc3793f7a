SPECIFICATION FairSpec
CONSTANTS
  w1 = w1
  w2 = w2
  Workers <- MCWorkers
  NoWorker = NoWorker
  NumPackets = 4
  MaxBatch = 2
  MaxReadErrors = 1
PROPERTIES
  Shutdown
CHECK_DEADLOCK FALSE
