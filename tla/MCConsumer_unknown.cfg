SPECIFICATION Spec
CONSTANTS
  Conversations <- UnknownConversations
  Outstanding = 1
  MaxLost = 0
  BufferSize = 8
  EventCap = 2
INVARIANTS
  InStep
CHECK_DEADLOCK FALSE
