SPECIFICATION PFairSpec
CONSTANTS
  w1 = w1
  w2 = w2
  Workers <- TwoWorkers
  NoWorker = NoWorker
  NumPackets = 4
  MaxBatch = 2
  MaxReadErrors = 0
  NumAssembly = 2
  Slot <- MCSlot
  QueueCap = 1
INVARIANTS
  ItemsPinned
  RightSlot
  AssembledOnce
PROPERTIES
  CompleteOnReturn
  BatchOrder
  ImplementsDecodePool
  AcceptedCallsReturn
\* After errQueueFull the caller waits for ever (run pipeline_queue_full).
CHECK_DEADLOCK FALSE
