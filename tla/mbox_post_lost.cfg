CONSTANTS
  p1 = p1
  p2 = p2
  f1 = f1
  f2 = f2
  isr = isr
  Tasks = {p1, p2, f1}
  Ops <- OpsMixed
  Cap = 1
  MaxMsgs = 3
SPECIFICATION Spec
INVARIANT AcceptedNotLost
