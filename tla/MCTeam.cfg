SPECIFICATION Spec
CHECK_DEADLOCK FALSE
CONSTANTS
  Agents = {"a", "b"}
  Rosters <- MCRosters
  MaxFailures = 2
  MaxAge = 0
  ProviderComponents = {"gateway", "pool"}
  Outer = "pool"
  Workloads <- MCWorkloads
INVARIANTS
  BreakerHolds
  LeftWereAsked
  AttentionIsComplete
  AlarmIsJustified
PROPERTIES
  DeadSupervisorEndsTeam
  StopEnds
  TeamServes
