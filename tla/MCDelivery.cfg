SPECIFICATION Spec
CONSTANTS
  Quota = 2
  MaxSends = 2
  Clients = {c1, c2}
  Senders = {p1}
  MaxSubs = 2
  MaxCmds = 2
  SndQSize = 1
  Ops = {"SUB", "ACK", "DISCONNECT"}
  None = None
SYMMETRY ClientSymmetry
INVARIANT NoZombieSubscription
INVARIANT ClosedIsForgotten
PROPERTY FirstReceiptInOrder
CHECK_DEADLOCK FALSE
