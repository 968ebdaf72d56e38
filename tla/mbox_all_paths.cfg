CONSTANTS
  p1 = p1
  p2 = p2
  f1 = f1
  f2 = f2
  isr = isr
  Tasks = {p1, p2, isr, f1}
  Ops <- OpsAll
  Cap = 1
  MaxMsgs = 4
SPECIFICATION FairSpec
INVARIANT SlotAccounting
CHECK_DEADLOCK FALSE
