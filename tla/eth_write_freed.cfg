CONSTANTS
  c1 = c1
  c2 = c2
  b1 = b1
  b2 = b2
  NULL = NULL
  Conns = {c1, c2}
  Bufs = {b1, b2}
SPECIFICATION Spec
INVARIANT WriteDataLive
