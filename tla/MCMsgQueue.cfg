SPECIFICATION MQSpec
CONSTANTS
  Quota = 3
  MaxSends = 9
INVARIANT QuotaBound
PROPERTY NoAcceptWhileMarked
PROPERTY ImplementsQueue
