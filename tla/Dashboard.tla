------------------------------- MODULE Dashboard -------------------------------
(***************************************************************************)
(* The host's view of one instance (dashboard.py, team/queue.py): a        *)
(* snapshot that reads the intent, the status of DComp, the files of the   *)
(* supervisors and the queue one after the other, while the team runs, is  *)
(* stopped, restarted or replaced.                                         *)
(***************************************************************************)
EXTENDS TeamRun

CONSTANT ProviderComponents, Outer   \* the gateway and the providers; the outer one

ASSUME DashboardAssumption == Outer \in ProviderComponents

VARIABLES
  providers,  \* the provider components that are running and healthy
  failedJobs, \* whose jobs have failed: the planner's, others'
  staged,     \* the queue has an entry whose name is not one of a job or task
  snapshot,   \* DashboardSnapshot.build
  held,       \* history: the problems there were all along since it began
  well        \* history: nothing was wrong at any time since it began

dashvars == <<providers, failedJobs, staged, snapshot>>
readvars == <<held, well>>

JobRoles == {"planner", "other"}

NoSnapshot == [pc |-> "off", desired |-> "none", container |-> "none", healthy |-> FALSE, provider |-> "none",
               error |-> FALSE, suspended |-> {}, planner |-> FALSE, failed |-> FALSE, errors |-> FALSE, excused |-> FALSE]

-----------------------------------------------------------------------------
(* How a row is judged                                                      *)

\* _component_issue
ComponentIssue(s) == ~(s.container = "running" /\ s.healthy)

\* _provider_health; "degraded" is ready with a reason.
ProviderHealth(running) ==
  CASE Outer \notin running -> "provider-down"
    [] Outer \in running /\ running # ProviderComponents -> "degraded"
    [] OTHER -> "ready"

\* _with_agent_health.
WithAgentHealth(s) ==
  CASE s.provider \notin {"ready", "degraded"} -> s.provider
    [] s.provider \in {"ready", "degraded"} /\ s.error -> "agents-unknown"
    [] s.provider \in {"ready", "degraded"} /\ ~s.error /\ s.suspended # {} -> "agents-suspended"
    [] s.provider \in {"ready", "degraded"} /\ ~s.error /\ s.suspended = {} /\ s.planner -> "agents-attention"
    [] OTHER -> s.provider

Operational(s) == s.desired = "running" /\ ~ComponentIssue(s)
Health(s) == IF Operational(s) THEN WithAgentHealth(s) ELSE "inactive"

\* lifecycle_settled
LifecycleSettled(s) == Operational(s) \/ (s.desired = "stopped" /\ s.container = "absent")

\* What build adds to a row's errors by itself.
RowErrors(s) ==
  \/ s.errors
  \/ s.container = "absent" /\ s.desired = "running"
  \/ s.container \notin {"absent", "unknown"} /\ ComponentIssue(s)

Attention(s) == ~LifecycleSettled(s) \/ Health(s) \notin {"ready", "inactive"} \/ s.failed \/ RowErrors(s)

-----------------------------------------------------------------------------
(* The snapshot, read by read                                               *)

Read(s) == snapshot' = s /\ UNCHANGED <<teamvars, providers, failedJobs, staged>>

ListIntent == snapshot.pc = "off" /\ Read([NoSnapshot EXCEPT !.pc = "listed", !.desired = intent])

\* runtime.status, or an error; Docker's word on health is late in both ways.
ObserveRuntime ==
  /\ snapshot.pc = "listed"
  /\ \/ Read([snapshot EXCEPT !.pc = "queue", !.container = "unknown", !.provider = "provider-unknown", !.excused = TRUE])
     \/ \E healthy \in BOOLEAN :
          LET s == [snapshot EXCEPT !.container = IF container = "up" THEN "running" ELSE container,
                                    !.healthy = healthy, !.excused = ~healthy,
                                    !.provider = ProviderHealth(providers)]
          IN Read([s EXCEPT !.pc = IF Operational(s) THEN "ready" ELSE "queue"])

\* Mutant: the marker is there, however old.
ReadyExists == ready

ReadyIsFresh == ready /\ age <= MaxAge

\* read_agent_supervisor_status: the marker, the suspensions, the planner's
\* jobs.  A scan that meets its limit may have missed any of them, and says so.
StatReady == snapshot.pc = "ready" /\ Read([snapshot EXCEPT !.pc = "runs", !.error = ~ReadyIsFresh])

Cut(s) == [s EXCEPT !.error = TRUE, !.excused = TRUE]

ScanRuns ==
  /\ snapshot.pc = "runs"
  /\ \/ Read([snapshot EXCEPT !.pc = "planner", !.suspended = suspended])
     \/ Read(Cut([snapshot EXCEPT !.pc = "planner"]))

ScanPlannerJobs ==
  /\ snapshot.pc = "planner"
  /\ \/ Read([snapshot EXCEPT !.pc = "queue", !.planner = "planner" \in failedJobs])
     \/ Read(Cut([snapshot EXCEPT !.pc = "queue"]))

\* scan_agentws_queue
ScanQueue ==
  /\ snapshot.pc = "queue"
  /\ \/ Read([snapshot EXCEPT !.pc = "done", !.failed = failedJobs # {}, !.errors = staged])
     \/ Read([snapshot EXCEPT !.pc = "done", !.errors = TRUE, !.excused = TRUE])

Return == snapshot.pc = "done" /\ Read(NoSnapshot)

BuildStep == ObserveRuntime \/ StatReady \/ ScanRuns \/ ScanPlannerJobs \/ ScanQueue \/ Return

-----------------------------------------------------------------------------
(* What changes around it                                                   *)

ProviderChanges(c) ==
  /\ providers' = IF c \in providers THEN providers \ {c} ELSE providers \cup {c}
  /\ UNCHANGED <<teamvars, failedJobs, staged, snapshot>>

JobFails(role) ==
  /\ role \notin failedJobs /\ failedJobs' = failedJobs \cup {role}
  /\ UNCHANGED <<teamvars, providers, staged, snapshot>>

\* task-create stages a task, and is done with it.
Stages == staged' = ~staged /\ UNCHANGED <<teamvars, providers, failedJobs, snapshot>>

-----------------------------------------------------------------------------
(* What there is to report                                                  *)

Suspension(a) == <<"suspended", a>>
Problems ==
  {Suspension(a) : a \in {b \in Agents : sup[b].pc = "suspended"}}
    \cup (IF failedJobs # {} THEN {<<"job failed">>} ELSE {})
    \cup (IF intent = "running" /\ container # "up" THEN {<<"down">>} ELSE {})
    \cup (IF intent = "stopped" /\ container # "absent" THEN {<<"lingers">>} ELSE {})
    \cup (IF intent = "running" /\ age > MaxAge THEN {<<"silent">>} ELSE {})
    \cup (IF intent = "running" /\ providers # ProviderComponents THEN {<<"provider">>} ELSE {})

\* A team at work, or stopped for good.
Well ==
  /\ failedJobs = {} /\ ~staged
  /\ \/ /\ intent = "running" /\ container = "up" /\ providers = ProviderComponents
        /\ runner.pc = "poll" /\ ~runner.termed /\ ReadyIsFresh
        /\ \A a \in roster : Alive(a) /\ sup[a].pc # "suspended"
     \/ intent = "stopped" /\ container = "absent"

Witness ==
  /\ held' = IF snapshot'.pc = "off" THEN {} ELSE IF snapshot.pc = "off" THEN Problems' ELSE held \cap Problems'
  /\ well' = IF snapshot'.pc = "off" THEN FALSE ELSE (snapshot.pc = "off" \/ well) /\ Well'

DashInit ==
  /\ providers = ProviderComponents /\ failedJobs = {} /\ staged = FALSE
  /\ snapshot = NoSnapshot /\ held = {} /\ well = FALSE

-----------------------------------------------------------------------------
(***************************************************************************)
(* Nothing is missed: a suspended agent, a failed job, a team without      *)
(* heartbeat, a container that is down though it should run or up          *)
(* though it should not, a provider component that is down -- if it was so *)
(* all the time the snapshot was taken, the instance is counted under      *)
(* `attention', in whatever order the files were read and whatever else    *)
(* happened meanwhile.                                                     *)
(***************************************************************************)
AttentionIsComplete == snapshot.pc = "done" /\ held # {} => Attention(snapshot)

(***************************************************************************)
(* No false alarm: if all was well all the time, DComp answered, Docker    *)
(* said healthy and no scan was cut off, then the instance is not counted; *)
(* a marker of an agent that has left the roster does not suffice.         *)
(***************************************************************************)
AlarmIsJustified == snapshot.pc = "done" /\ Attention(snapshot) => ~well \/ snapshot.excused
================================================================================
