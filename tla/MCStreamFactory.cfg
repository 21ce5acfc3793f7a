SPECIFICATION Spec
CONSTANTS
  k1 = k1
  k2 = k2
  Conns = {k1, k2}
  c1 = c1
  c2 = c2
  c3 = c3
  Consumers = {c1, c2, c3}
  r1 = r1
  r2 = r2
  r3 = r3
  r4 = r4
  Readers = {r1, r2, r3, r4}
  None = None
  eofSource = eofSource
SYMMETRY MCSymmetry
INVARIANTS
  OneOwner
  PooledClean
  NoCrossTalk
  Paired
  Returned
CHECK_DEADLOCK FALSE
