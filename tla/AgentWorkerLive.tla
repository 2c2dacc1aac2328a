--------------------------- MODULE AgentWorkerLive ---------------------------
(***************************************************************************)
(* The workers under the scheduling they get, and what must eventually     *)
(* happen: a stopping worker stops, a job that no engine can finish still  *)
(* ends, and a team that went down serves again.  As in JobQueueLive, the  *)
(* variable calm says that nothing interferes from now on.                 *)
(***************************************************************************)
EXTENDS AgentWorker

VARIABLE calm    \* no stop, kill, failing command, reap or restart from now on

LiveInit == Init /\ calm = FALSE

Disturbance ==
  \/ \E a \in Agents : Interference(a)
  \/ \E j \in Jobs : Reap(j)
  \/ OperatorStops

Course ==
  \/ \E a \in Agents : Spawn(a) \/ Step(a) \/ EngineEnds(a) \/ EngineStep(a)
  \/ \E j \in Jobs : Publish(j)
  \/ TeamStep

LiveNext ==
  \/ Course /\ UNCHANGED calm
  \/ ~calm /\ Disturbance /\ UNCHANGED calm
  \/ ~calm /\ calm' = TRUE /\ UNCHANGED vars

\* A worker is scheduled and none of its steps waits for another process; the
\* supervisor's loop restarts it; an engine ends, by itself or at its model's
\* end of turn; the supervisors poll their children, Docker restarts the
\* container, and recovery visits every job.  job-claim may overlook a job that
\* comes back while it scans, but an agent that keeps asking gets it.
Fairness ==
  /\ \A a \in Agents :
       /\ WF_vars(Spawn(a)) /\ WF_vars(Step(a)) /\ WF_vars(EngineEnds(a))
       /\ \A j \in Jobs : SF_vars(Claim(a, j))
  /\ WF_vars(TeamFails) /\ WF_vars(Restart) /\ WF_vars(Resume)
  /\ \A j \in Jobs : WF_vars(Reset(j))

LiveSpec == LiveInit /\ [][LiveNext]_<<vars, calm>> /\ Fairness

\* A worker that was asked to stop ends, whatever else happens.
StopIsHonoured ==
  \A a \in Agents : worker[a].asked > 0 ~> At(a, "off")

\* However its engines end, a published job is done or failed at last.
JobEnds ==
  \A j \in Jobs : calm /\ status[j] # "absent" ~> status[j] \in Terminal

=============================================================================
