SPECIFICATION LiveSpec
CONSTANTS
  Jobs = {j1}
  Agents = {a1}
  MaxAttempts = 2
  NoJob = NoJob
  NoAgent = NoAgent
PROPERTIES
  StopIsHonoured
  JobEnds
CHECK_DEADLOCK FALSE
