SPECIFICATION FairSpec
CONSTANTS
  Quota = 1
  MaxSends = 1
  Clients = {c1}
  Senders = {p1}
  MaxSubs = 2
  MaxCmds = 1
  SndQSize = 1
  Ops = {"SUB"}
  None = None
PROPERTY FirstMessageDelivered
CHECK_DEADLOCK FALSE
