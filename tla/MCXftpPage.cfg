SPECIFICATION Spec
CONSTANTS
  Addresses <- MCAddresses
  Hash <- MCHash
  Here = "here"
  Chunks = 2
  Limit = 3
INVARIANT ShowsItsTransfer
INVARIANT LinkOpensAtItsOrigin
PROPERTY Released
CHECK_DEADLOCK FALSE
