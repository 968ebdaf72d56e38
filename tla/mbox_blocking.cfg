CONSTANTS
  p1 = p1
  p2 = p2
  f1 = f1
  f2 = f2
  isr = isr
  Tasks = {p1, p2, f1, f2}
  Ops <- OpsBlocking
  Cap = 2
  MaxMsgs = 4
SPECIFICATION FairSpec
INVARIANT TypeOK
INVARIANT SlotAccounting
PROPERTY MailboxRefinement
PROPERTY PostsComplete
PROPERTY AcceptedDelivered
CHECK_DEADLOCK FALSE
