SPECIFICATION Spec
CONSTANTS
  work = work
  notice = notice
  plan = plan
  builder = builder
  visitor = visitor
  planner = planner
  NoJob = NoJob
  NoAgent = NoAgent
  NoProc = NoProc
  Jobs <- MCJobs
  WorkJobs <- MCWorkJobs
  InitJobs <- MCInitJobs
  NoticeOf <- MCNoticeOf
  Agents <- MCAgents
  Planners <- MCPlanners
  AgentDirs <- MCDirs
  Procs = {p1, p2}
SYMMETRY ProcSymmetry
INVARIANTS
  SettledHasNotice
  NoticeWaitsForSource
PROPERTIES
  RecoveryLeavesNoOwner
  RefinesLedger
