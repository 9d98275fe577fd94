SPECIFICATION Spec
CONSTANTS
  Quota = 2
  MaxMsgCount = 2
  MaxSends = 4
  MaxJournals = 6
  MaxFaults = 2
  Ops = {"WRITE", "PEEK", "ACK", "EXPIRE", "RESTART", "DROP"}
  Faults = {"crash", "fail", "lose"}
  Tears = {"none", "part", "whole"}
INVARIANT NoStoreError
INVARIANT MemoryIsDurable
INVARIANT TipIsHead
INVARIANT PendingIsKnown
INVARIANT NoOrphanJournals
PROPERTY ImplementsQueue
CHECK_DEADLOCK FALSE
