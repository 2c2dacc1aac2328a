SPECIFICATION Spec
CONSTANTS
  Jobs = {j1}
  Agents = {a1}
  MaxAttempts = 2
  NoJob = NoJob
  NoAgent = NoAgent
INVARIANT AtMostMaxAttempts
CHECK_DEADLOCK FALSE
