SPECIFICATION Spec
CONSTANTS
  c1 = c1
  c2 = c2
  k1 = k1
  k2 = k2
  k3 = k3
  k4 = k4
  Callers <- MCCallers
  Events <- MCEvents
  Items <- MCItems
  ItemOf <- MCItemOf
  Weight <- MCWeight
  Match <- MCMatch
  NumWorkers = 2
  Slot <- MCSlot
  QueueCap = 1
  ReportSize = 1
  MaxBatch = 2
SYMMETRY MCSymmetry
INVARIANTS
  EventsAccounted
  StatsExact
  ReportedOnce
  ReportExact
PROPERTIES
  ReportsGrow
