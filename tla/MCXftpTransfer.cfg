SPECIFICATION Spec
CONSTANTS
  Size <- MCSize
  MaxShort = 1
  MaxSwept = 1
  Server = {"a", "b"}
  Redirects = TRUE
  MaxFaults = 1
INVARIANT LinkIsComplete
INVARIANT StoredIsKept
INVARIANT FailsForAReason
PROPERTY TransferEnds
CHECK_DEADLOCK FALSE
