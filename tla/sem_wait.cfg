CONSTANTS
  w1 = w1
  w2 = w2
  Waiters = {w1, w2}
  InitCount = 0
  Timeouts = {0, 2}
  TickBits = 2
  MaxSignals = 2
SPECIFICATION FairSpec
INVARIANT TypeOK
PROPERTY WaitTerminates
