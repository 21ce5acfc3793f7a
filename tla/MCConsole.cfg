SPECIFICATION Spec
CONSTANTS
  g1 = g1
  g2 = g2
  g3 = g3
  Loggers = {g1, g2, g3}
  MaxLogs = 1
  MaxKeys = 2
  MsgCap = 1
  LogLines = 2
  Cumulative = FALSE
  MaxSpan = 2
  MayFail = TRUE
  nobody = nobody
INVARIANTS
  ShownOnce
  NoBurst
PROPERTIES
  MessagesShown
  QuitExits
  ErrorReported
\* main exits, or is stuck in one of the ways the properties name.
CHECK_DEADLOCK FALSE
