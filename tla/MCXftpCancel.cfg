SPECIFICATION Spec
CONSTANTS
  Addresses <- MCAddresses
  Hash <- MCHash
  Here = "here"
  Chunks = 1
  Limit = 3
INVARIANT CancelledIsSilent
CHECK_DEADLOCK FALSE
