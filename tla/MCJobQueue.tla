----------------------------- MODULE MCJobQueue ------------------------------
(* A small instance of JobQueue: one work job, its notice and one initial  *)
(* planner job; a builder with and one without an agents/ directory.       *)
EXTENDS JobQueue, TLC

CONSTANTS work, notice, plan, builder, visitor, planner

MCJobs     == {work, notice, plan}
MCWorkJobs == {work}
MCInitJobs == {plan}
MCNoticeOf == [s \in {work} |-> notice]
MCAgents   == {builder, visitor, planner}
MCPlanners == {planner}
MCDirs     == {builder, planner}

ProcSymmetry == Permutations(Procs)
==============================================================================
