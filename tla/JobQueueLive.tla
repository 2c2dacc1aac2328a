---------------------------- MODULE JobQueueLive -----------------------------
(***************************************************************************)
(* The job queue with the scheduling it runs under, and what must          *)
(* eventually happen in it.  A killed command often leaves the same state  *)
(* as one that returned early, so "nothing is killed any more" is not a    *)
(* formula about states and steps of JobQueue: the variable calm says it.  *)
(***************************************************************************)
EXTENDS JobQueue

VARIABLE calm    \* no process is killed from now on

LiveInit == Init /\ calm = FALSE

LiveNext ==
  \/ Work /\ UNCHANGED calm
  \/ ~calm /\ Fault /\ UNCHANGED calm
  \/ ~calm /\ calm' = TRUE /\ UNCHANGED vars

\* A running command is scheduled until it ends; Docker restarts a container
\* that went down and its recovery proceeds; flock serves its waiters, so
\* neither a recovery nor an agent that keeps asking is shut out of a job.
Fairness ==
  /\ \A p \in Procs : WF_vars(Step(p))
  /\ WF_vars(Boot) /\ WF_vars(BootDone)
  /\ \A j \in Jobs : SF_vars(\E p \in Procs : BootVisit(p, j))
  /\ \A j \in Jobs, a \in Agents : SF_vars(\E p \in Procs : ClaimBegin(p, j, a))

LiveSpec == LiveInit /\ [][LiveNext]_<<vars, calm>> /\ Fairness

\* Once processes stop being killed, a team that went down comes back up.
TeamRecovers == calm /\ phase # "up" ~> phase = "up"

\* Once processes stop being killed, the notice of every settled work job
\* reaches a planner.
NoticeReachesPlanner ==
  \A s \in WorkJobs :
    calm /\ status[s] \in Terminal ~> status[NoticeOf[s]] \in Active \cup Terminal

=============================================================================
