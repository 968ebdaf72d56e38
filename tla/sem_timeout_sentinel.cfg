CONSTANTS
  w1 = w1
  w2 = w2
  Waiters = {w1}
  InitCount = 0
  Timeouts = {0}
  TickBits = 3
  MaxSignals = 1
SPECIFICATION Spec
INVARIANT TimeoutMeansNoUnit
