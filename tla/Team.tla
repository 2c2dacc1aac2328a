---------------------------------- MODULE Team ----------------------------------
(***************************************************************************)
(* A team container, its operator, what may go wrong with it, and the      *)
(* dashboard that looks on.                                                *)
(***************************************************************************)
EXTENDS Dashboard

CONSTANT
  Workloads   \* what a behaviour starts with (suspended) and may meet: rosters, faults, operations of the operator,
              \* snapshots, changes around them, workers that end by themselves, and ticks

ASSUME TeamAssumption == \A w \in Workloads : w.markers \in SUBSET Agents

VARIABLE left        \* what is left of it

vars == <<teamvars, dashvars, readvars, left>>

Spend(what) == left[what] > 0 /\ left' = [left EXCEPT ![what] = @ - 1]
Free == UNCHANGED left

RuntimeStep == RecoveryEnds(TRUE) \/ StartViewer \/ StartRunner \/ Watch \/ Terminate \/ RuntimeExits
RunnerStep == Clear \/ (\E a \in Agents : SpawnSup(a) \/ Poll(a)) \/ Beat \/ Trap \/ Collect \/ Ask \/ Quit
SupStep(a) == Fork(a) \/ Name(a) \/ Note(a) \/ Reap(a) \/ SupTrap(a) \/ Left(a)
DockerStep == (Create /\ roster' \in left.rosters) \/ Restart \/ DockerStop \/ Remove

Fault ==
  \/ RecoveryEnds(FALSE) \/ RunnerFails \/ KillRunner \/ KillViewer \/ KillContainer
  \/ \E a \in Agents : SupFails(a) \/ KillSup(a) \/ WorkerEnds(a, "other")

WorkerEnd ==
  \/ Free /\ \E a \in Agents : worker[a].pc = "asked" /\ WorkerEnds(a, "other")
  \/ Spend("endings") /\ \E a \in Agents : WorkerEnds(a, "ok") \/ WorkerEnds(a, "retry")

Change == (\E c \in ProviderComponents : ProviderChanges(c)) \/ (\E role \in JobRoles : JobFails(role)) \/ Stages

TeamStep ==
  /\ UNCHANGED dashvars
  /\ \/ Free /\ (RuntimeStep \/ RunnerStep \/ DockerStep \/ DockerKill \/ \E a \in Agents : SupStep(a))
     \/ WorkerEnd
     \/ Spend("faults") /\ Fault
     \/ Spend("ticks") /\ Tick
     \/ Spend("operations") /\ SaveIntent

HostStep ==
  \/ Free /\ BuildStep
  \/ Spend("snapshots") /\ ListIntent
  \/ Spend("changes") /\ Change

Init == TeamInit /\ DashInit /\ left \in Workloads /\ suspended = left.markers
Next == (TeamStep \/ HostStep) /\ Witness

\* Every process is scheduled, Docker and DComp do what they were told, a
\* worker that was asked to stop need not.
Fairness ==
  /\ WF_teamvars(RuntimeStep) /\ WF_teamvars(RunnerStep) /\ WF_teamvars(DockerStep)
  /\ \A a \in Agents : WF_teamvars(SupStep(a))

Spec == Init /\ [][Next]_vars /\ Fairness

-----------------------------------------------------------------------------
(***************************************************************************)
(* The circuit breaker holds within a container: no worker of an agent     *)
(* runs after MaxFailures retryable failures in a row, and an agent is     *)
(* suspended for no less.                                                  *)
(***************************************************************************)
BreakerHolds ==
  \A a \in Agents : /\ Works(a) /\ ~sup[a].termed => streak[a] < MaxFailures
                    /\ sup[a].pc = "suspended" => streak[a] = MaxFailures

(***************************************************************************)
(* When run_agentws has cleaned up, each worker was asked to stop before   *)
(* it was killed or left, although it may be the supervisor or run_agentws *)
(* that has to ask it and either may have ended -- except a worker whose   *)
(* supervisor ended before it was noted, or noted too late for run_agentws *)
(* to have read it; it ends with the container.                            *)
(***************************************************************************)
LeftWereAsked ==
  runner.pc = "dead" => \A a \in Agents : worker[a].pc = "run" \/ worker[a].rc = "unasked" => a \in unnoted

(***************************************************************************)
(* A dead supervisor is not hidden by its siblings: the container ends.    *)
(***************************************************************************)
DeadSupervisorEndsTeam == \A a \in Agents : sup[a].pc = "dead" ~> sup[a].pc = "off"

(***************************************************************************)
(* A stop is carried out, though workers may never end by themselves.      *)
(***************************************************************************)
StopEnds == intent = "stopped" ~> container = "absent" \/ intent = "running"

(***************************************************************************)
(* Whatever failed, once nothing fails any more a team that should run has *)
(* a viewer, a supervisor for each agent of its roster, and a heartbeat.   *)
(***************************************************************************)
Serving == viewer /\ runner.pc = "poll" /\ ready /\ \A a \in roster : Alive(a)
TeamServes == intent = "running" /\ left.faults = 0 ~> Serving \/ intent = "stopped"
=================================================================================
