SPECIFICATION AckSpec
CONSTANTS
  Quota = 2
  MaxSends = 3
  Clients = {c1}
  Senders = {p1}
  MaxSubs = 2
  MaxCmds = 2
  SndQSize = 1
  Ops = {"SUB", "GET", "ACK", "ACK_EMPTY", "EXPIRE"}
  None = None
INVARIANT OneOutstanding
INVARIANT DeliveredIsHead
PROPERTY Drained
CHECK_DEADLOCK FALSE
