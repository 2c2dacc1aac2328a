SPECIFICATION Spec
CONSTANTS
  Jobs = {j1}
  Agents = {a1, a2}
  MaxAttempts = 2
  NoJob = NoJob
  NoAgent = NoAgent
SYMMETRY AgentSymmetry
INVARIANTS
  NoStrandedJob
  EngineIsWatched
  BudgetKept
  SingleStopSpares
PROPERTIES
  LedgerSpec
CHECK_DEADLOCK FALSE
