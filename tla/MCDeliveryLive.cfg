SPECIFICATION FairSpec
CONSTANTS
  Quota = 2
  MaxSends = 1
  Clients = {c1, c2}
  Senders = {p1}
  MaxSubs = 2
  MaxCmds = 2
  SndQSize = 1
  Ops = {"SUB", "DEL", "OFF", "DISCONNECT"}
  None = None
INVARIANT SubscribedIsKept
PROPERTY Answered
PROPERTY TakeoverEnds
CHECK_DEADLOCK FALSE
