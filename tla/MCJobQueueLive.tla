--------------------------- MODULE MCJobQueueLive ----------------------------
(* A small instance of JobQueueLive: a work job and its notice, a builder   *)
(* and a planner.                                                           *)
EXTENDS JobQueueLive

CONSTANTS work, notice, builder, planner

MCJobs     == {work, notice}
MCWorkJobs == {work}
MCInitJobs == {}
MCNoticeOf == [s \in {work} |-> notice]
MCAgents   == {builder, planner}
MCPlanners == {planner}
==============================================================================
