\* When every job is settled and nothing is killed the queue is at rest.
SPECIFICATION LiveSpec
CHECK_DEADLOCK FALSE
CONSTANTS
  work = work
  notice = notice
  builder = builder
  planner = planner
  NoJob = NoJob
  NoAgent = NoAgent
  NoProc = NoProc
  Jobs <- MCJobs
  WorkJobs <- MCWorkJobs
  InitJobs <- MCInitJobs
  NoticeOf <- MCNoticeOf
  Agents <- MCAgents
  Planners <- MCPlanners
  AgentDirs <- MCAgents
  Procs = {p1, p2}
PROPERTIES
  TeamRecovers
  NoticeReachesPlanner
