SPECIFICATION Spec
CONSTANTS
  Caller = {1, 2}
  Agent = {1}
  AgentOf <- MCOneAgent
  Modes = {"browser", "node"}
  MaxRetries = 2
  Commands <- MCCommands
  MaxFaults = 2
  Faults = {"timeout", "loss", "badHello", "error"}
  UserCloses = TRUE
INVARIANT NoPostOnClosed
INVARIANT PoolIsExact
INVARIANT ExecutedAsReported
PROPERTY CommandEnds
CHECK_DEADLOCK FALSE
