SPECIFICATION PFairSpec
CONSTANTS
  w1 = w1
  w2 = w2
  Workers <- TwoWorkers
  NoWorker = NoWorker
  NumPackets = 3
  MaxBatch = 2
  MaxReadErrors = 0
  NumAssembly = 2
  Slot <- MCSlot
  QueueCap = 1
PROPERTIES
  HandlerTerminates
CHECK_DEADLOCK FALSE
