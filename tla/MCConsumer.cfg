SPECIFICATION Spec
CONSTANTS
  Conversations <- MCConversations
  Outstanding = 1
  MaxLost = 1
  BufferSize = 6
  EventCap = 2
INVARIANTS
  NoPhantom
  ResyncAfterLoss
  InStep
PROPERTIES
  RunReturns
\* A conversation ends.
CHECK_DEADLOCK FALSE
