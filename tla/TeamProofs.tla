------------------------------ MODULE TeamProofs -------------------------------
(***************************************************************************)
(* Theorems of Team for every set of agents, rosters and workloads.        *)
(*                                                                         *)
(* The argument for the processes: a supervisor exists only for an agent   *)
(* that run_agentws lists (PidsInv); its label says what its worker and    *)
(* its counter can be (AgentInv); and as long as a worker runs, somebody   *)
(* is left who will ask it to stop, namely its supervisor, or run_agentws  *)
(* which can find it (CleanupInv).  For the dashboard: each field of a     *)
(* snapshot that has been read says what it must of the problems that      *)
(* were there all along (HeldInv), and nothing when there were none        *)
(* (WellInv).                                                              *)
(***************************************************************************)
EXTENDS Team, TLAPS

SupType    == [pc : {"off", "sleep", "forked", "named", "wait", "suspended", "leaving", "dead"},
               termed : BOOLEAN, failures : Nat]
WorkerType == [pc : {"off", "run", "asked", "ended"}, rc : {"none", "ok", "retry", "other", "unasked"}]
RunnerType == [pc : {"off", "clear", "spawn", "poll", "collect", "ask", "await", "dead", "killed"},
               termed : BOOLEAN, pids : SUBSET Agents, polled : SUBSET Agents, workers : SUBSET Agents]
RuntimeType == [pc : {"off", "recover", "viewer", "runner", "watch", "end", "grace"}, stopping : BOOLEAN]
SnapshotType ==
  [pc : {"off", "listed", "ready", "runs", "planner", "queue", "done"},
   desired : {"none", "running", "stopped"}, container : {"none", "absent", "exited", "running", "unknown"},
   healthy : BOOLEAN, provider : {"none", "provider-unknown", "provider-down", "degraded", "ready"},
   error : BOOLEAN, suspended : SUBSET Agents, planner : BOOLEAN, failed : BOOLEAN, errors : BOOLEAN,
   excused : BOOLEAN]

TypeOK ==
  /\ intent \in {"running", "stopped"} /\ container \in {"absent", "exited", "up"} /\ roster \in SUBSET Agents
  /\ runtime \in RuntimeType /\ viewer \in BOOLEAN /\ runner \in RunnerType
  /\ sup \in [Agents -> SupType] /\ worker \in [Agents -> WorkerType]
  /\ ready \in BOOLEAN /\ age \in Nat /\ suspended \in SUBSET Agents /\ noted \in SUBSET Agents
  /\ streak \in [Agents -> Nat] /\ unnoted \in SUBSET Agents

\* A container that is not up has no process; run_agentws is started after the viewer.
ContainerInv ==
  /\ container # "up" => runtime.pc = "off" /\ ~runtime.stopping
  /\ runtime.pc \in {"off", "recover", "viewer", "runner"} => runner.pc = "off"

\* run_agentws lists the supervisors there are, and they are of its roster.
PidsInv ==
  /\ runner.pc \in {"off", "clear"} => runner.pids = {}
  /\ runner.pids \subseteq roster
  /\ \A a \in Agents : sup[a].pc = "off" <=> a \notin runner.pids

\* What the label of a supervisor says of its counter and its worker.
AgentInv(a) ==
  /\ sup[a].pc = "off" => sup[a] = NoSup /\ worker[a] = NoWorker /\ streak[a] = 0
  /\ sup[a].pc \in {"sleep", "suspended"} => worker[a] = NoWorker /\ streak[a] = sup[a].failures
  /\ sup[a].pc \in {"forked", "named", "wait"} => worker[a].pc # "off"
  /\ sup[a].pc = "leaving" => worker[a].pc \in {"asked", "ended"}
  /\ sup[a].pc \in {"sleep", "forked", "named", "wait", "leaving"} => sup[a].failures < MaxFailures
  /\ sup[a].pc = "suspended" => sup[a].failures = MaxFailures
  /\ Works(a) => streak[a] = sup[a].failures /\ sup[a].failures < MaxFailures
  /\ worker[a].pc = "ended" /\ sup[a].pc \in {"forked", "named", "wait"} =>
       /\ worker[a].rc = "retry" => streak[a] = sup[a].failures + 1
       /\ worker[a].rc = "ok" => streak[a] = 0
  /\ worker[a].pc = "ended" <=> worker[a].rc # "none"
  /\ worker[a].rc # "unasked"
  /\ sup[a].pc = "suspended" => a \in suspended

\* Whoever is left to ask a worker that its supervisor has not asked.
CleanupInv(a) ==
  /\ sup[a].pc = "dead" /\ worker[a].pc = "run" =>
       \/ a \in unnoted \/ runner.pc = "killed"
       \/ runner.pc \in {"spawn", "poll", "collect"} /\ a \in noted
       \/ runner.pc = "ask" /\ a \in runner.workers
  /\ runner.pc \in {"await", "dead"} =>
       /\ sup[a].pc \notin {"off", "dead"} => sup[a].termed
       /\ a \in runner.workers => worker[a].pc # "run"
  /\ runner.pc = "dead" => sup[a].pc \in {"off", "dead"}

\* Once run_agentws has cleared its files, a marker is of an agent that it has suspended.
MarkersInv ==
  runner.pc \in {"spawn", "poll"} => \A a \in suspended : sup[a].pc \in {"suspended", "dead"}

TeamInv ==
  /\ TypeOK /\ ContainerInv /\ PidsInv /\ MarkersInv
  /\ \A a \in Agents : AgentInv(a) /\ CleanupInv(a)

Observed   == snapshot.pc \in {"ready", "runs", "planner", "queue", "done"}
MarkerRead == snapshot.pc \in {"runs", "planner"} \/ (snapshot.pc \in {"queue", "done"} /\ Operational(snapshot))
RunsRead   == snapshot.pc = "planner" \/ (snapshot.pc \in {"queue", "done"} /\ Operational(snapshot))

SnapshotInv ==
  /\ snapshot \in SnapshotType /\ failedJobs \subseteq JobRoles /\ staged \in BOOLEAN
  /\ snapshot.pc # "off" => snapshot.desired # "none"
  /\ snapshot.pc = "listed" => ~snapshot.excused
  /\ Observed => snapshot.container # "none"
  /\ snapshot.pc \in {"ready", "runs", "planner"} => Operational(snapshot)

\* What the fields read so far say of the problems that were there all along.
HeldInv ==
  /\ held \subseteq Problems
  /\ snapshot.pc = "off" => held = {}
  /\ snapshot.pc # "off" =>
       /\ held \cap {<<"down">>, <<"silent">>, <<"provider">>} # {} => snapshot.desired = "running"
       /\ <<"lingers">> \in held => snapshot.desired = "stopped"
  /\ Observed =>
       /\ <<"down">> \in held => snapshot.container # "running"
       /\ <<"lingers">> \in held => snapshot.container # "absent"
       /\ <<"provider">> \in held => snapshot.provider # "ready"
       /\ \A a \in Agents : Suspension(a) \in held => snapshot.container # "absent"
  /\ MarkerRead => (<<"silent">> \in held => snapshot.error)
  /\ RunsRead => \A a \in Agents : Suspension(a) \in held => snapshot.error \/ a \in snapshot.suspended
  /\ snapshot.pc = "done" => (<<"job failed">> \in held => snapshot.failed \/ snapshot.errors)

\* What they say when nothing was wrong at any time and nobody else is to blame.
WellInv ==
  /\ well \in BOOLEAN
  /\ well => Well /\ snapshot.pc # "off" /\ snapshot.desired = intent
  /\ well /\ ~snapshot.excused =>
       /\ Observed => IF snapshot.desired = "running"
                      THEN snapshot.container = "running" /\ snapshot.healthy /\ snapshot.provider = "ready"
                      ELSE snapshot.container = "absent"
       /\ ~snapshot.error /\ snapshot.suspended = {} /\ ~snapshot.planner /\ ~snapshot.failed /\ ~snapshot.errors

IInv == TeamInv /\ SnapshotInv /\ HeldInv /\ WellInv
USE DEF Works, Alive, RunnerUp

-----------------------------------------------------------------------------
(* A supervisor's steps                                                     *)

\* A supervisor that starts a worker.
LEMMA ForkKeeps ==
  ASSUME TeamInv, NEW a \in Agents, Fork(a)
  PROVE  TeamInv'
<1>0. /\ At(a, "sleep") /\ sup' = [sup EXCEPT ![a].pc = "forked"]
      /\ worker' = [worker EXCEPT ![a] = [pc |-> "run", rc |-> "none"]]
      /\ UNCHANGED <<dockervars, runtime, viewer, runner, ready, age, suspended, noted, history>>
  BY DEF Fork, MoveSup
<1>1. TypeOK'
  BY <1>0 DEF TeamInv, TypeOK, SupType, WorkerType, dockervars, history
<1>2. ContainerInv' /\ PidsInv' /\ MarkersInv'
  BY <1>0 DEF TeamInv, TypeOK, SupType, At, ContainerInv, PidsInv, MarkersInv, dockervars
<1>3. ASSUME NEW b \in Agents PROVE AgentInv(b)' /\ CleanupInv(b)'
  BY <1>0 DEF TeamInv, TypeOK, SupType, WorkerType, NoSup, NoWorker, At, AgentInv, CleanupInv, history
<1> QED
  BY <1>1, <1>2, <1>3 DEF TeamInv

\* The worker has ended and the supervisor has seen how.
LEMMA ReapKeeps ==
  ASSUME TeamInv, NEW a \in Agents, Reap(a)
  PROVE  TeamInv'
<1> DEFINE failures == IF worker[a].rc = "retry" THEN sup[a].failures + 1 ELSE 0
<1>0. /\ At(a, "wait") /\ worker[a].pc = "ended"
      /\ sup' = [sup EXCEPT ![a].failures = failures,
                    ![a].pc = IF worker[a].rc = "other" THEN "dead" ELSE IF Suspends(failures) THEN "suspended" ELSE "sleep"]
      /\ suspended' = IF worker[a].rc # "other" /\ Suspends(failures) THEN suspended \cup {a} ELSE suspended
      /\ worker' = [worker EXCEPT ![a] = NoWorker]
      /\ noted' = noted \ {a}
      /\ runner' = [runner EXCEPT !.workers = @ \ {a}]
      /\ UNCHANGED <<dockervars, runtime, viewer, ready, age, history>>
  BY DEF Reap
<1>1. failures \in Nat
  BY DEF TeamInv, TypeOK, SupType
<1>2. TypeOK'
  <2>1. sup' \in [Agents -> SupType]
    <3> DEFINE r == [sup[a] EXCEPT !.failures = failures,
                      !.pc = IF worker[a].rc = "other" THEN "dead" ELSE IF Suspends(failures) THEN "suspended" ELSE "sleep"]
    <3> HIDE DEF failures
    <3>1. sup \in [Agents -> SupType] /\ sup[a] \in SupType
      BY DEF TeamInv, TypeOK
    <3>2. r \in SupType
      BY <1>1, <3>1 DEF SupType
    <3>3. sup' = [sup EXCEPT ![a] = r]
      BY <1>0, <3>1
    <3> HIDE DEF r
    <3> QED
      BY <3>1, <3>2, <3>3
  <2>2. worker' \in [Agents -> WorkerType] /\ runner' \in RunnerType
    BY <1>0 DEF TeamInv, TypeOK, WorkerType, RunnerType, NoWorker
  <2>3. suspended' \in SUBSET Agents /\ noted' \in SUBSET Agents
    BY <1>0 DEF TeamInv, TypeOK
  <2> QED
    BY <1>0, <2>1, <2>2, <2>3 DEF TeamInv, TypeOK, dockervars, history
<1>3. ContainerInv' /\ PidsInv' /\ MarkersInv'
  BY <1>0, <1>1 DEF TeamInv, TypeOK, SupType, RunnerType, At, ContainerInv, PidsInv, MarkersInv, dockervars
<1>4. ASSUME NEW b \in Agents PROVE AgentInv(b)' /\ CleanupInv(b)'
  <2>1. CASE b = a
    BY <1>0, <1>1, <2>1, TeamRunAssumption
    DEF TeamInv, TypeOK, SupType, WorkerType, RunnerType, NoSup, NoWorker, At, AgentInv, CleanupInv, Suspends, history
  <2>2. CASE b # a
    BY <1>0, <1>1, <2>2
    DEF TeamInv, TypeOK, SupType, WorkerType, RunnerType, NoSup, NoWorker, At, AgentInv, CleanupInv, history
  <2> QED BY <2>1, <2>2
<1> QED
  BY <1>2, <1>3, <1>4 DEF TeamInv

\* run_agentws sees its children end, or kills them.
LEMMA QuitKeeps ==
  ASSUME TeamInv, Quit
  PROVE  TeamInv'
<1>0. /\ runner.pc = "await" /\ TrapsHaveRun
      /\ runner' = [runner EXCEPT !.pc = "dead"]
      /\ sup' = [a \in Agents |-> IF a \in runner.pids THEN Dead(sup[a]) ELSE sup[a]]
      /\ worker' = [a \in Agents |-> IF a \in runner.workers THEN Killed(worker[a]) ELSE worker[a]]
      /\ noted' = {}
      /\ UNCHANGED <<dockervars, runtime, viewer, ready, age, suspended, history>>
  BY DEF Quit, MoveRunner
<1>1. TypeOK'
  <2>1. sup' \in [Agents -> SupType]
    BY <1>0 DEF TeamInv, TypeOK, SupType, Dead
  <2>2. worker' \in [Agents -> WorkerType]
    BY <1>0 DEF TeamInv, TypeOK, WorkerType, Killed
  <2>3. runner' \in RunnerType
    BY <1>0 DEF TeamInv, TypeOK, RunnerType
  <2> QED
    BY <1>0, <2>1, <2>2, <2>3 DEF TeamInv, TypeOK, dockervars, history
<1>2. ContainerInv' /\ PidsInv' /\ MarkersInv'
  BY <1>0 DEF TeamInv, TypeOK, SupType, RunnerType, Dead, ContainerInv, PidsInv, MarkersInv, dockervars
<1>3. ASSUME NEW b \in Agents PROVE AgentInv(b)' /\ CleanupInv(b)'
  <2>1. IF b \in runner.pids THEN sup'[b].pc = "dead" ELSE sup'[b] = sup[b] /\ sup[b].pc = "off"
    BY <1>0 DEF TeamInv, TypeOK, SupType, PidsInv, Dead
  <2>2. sup'[b].failures = sup[b].failures
    BY <1>0 DEF TeamInv, TypeOK, SupType, Dead
  <2>3. b \in runner.workers => worker[b].pc # "run"
    BY <1>0 DEF TeamInv, CleanupInv
  <2>4. \/ worker'[b] = worker[b] /\ (b \in runner.workers => worker[b].pc \in {"off", "ended"})
        \/ worker'[b] = [pc |-> "ended", rc |-> "other"] /\ worker[b].pc = "asked"
    BY <1>0, <2>3 DEF TeamInv, TypeOK, WorkerType, Killed
  <2>5. AgentInv(b) /\ CleanupInv(b)
    BY DEF TeamInv
  <2>6. AgentInv(b)'
    BY <1>0, <2>1, <2>2, <2>4, <2>5 DEF NoSup, NoWorker, AgentInv, history
  <2>7. CleanupInv(b)'
    BY <1>0, <2>1, <2>4, <2>5 DEF TeamInv, TypeOK, SupType, RunnerType, NoWorker, TrapsHaveRun, AgentInv, CleanupInv, history
  <2> QED
    BY <2>6, <2>7
<1> QED
  BY <1>1, <1>2, <1>3 DEF TeamInv

\* The shell has the pid of the worker.
LEMMA NameKeeps ==
  ASSUME TeamInv, NEW a \in Agents, Name(a)
  PROVE  TeamInv'
<1>0. /\ At(a, "forked") /\ sup' = [sup EXCEPT ![a].pc = "named"]
      /\ UNCHANGED <<dockervars, runtime, viewer, runner, worker, ready, age, suspended, noted, history>>
  BY DEF Name, MoveSup
<1>1. TypeOK'
  BY <1>0 DEF TeamInv, TypeOK, SupType, dockervars, history
<1>2. ContainerInv' /\ PidsInv' /\ MarkersInv'
  BY <1>0 DEF TeamInv, TypeOK, SupType, At, ContainerInv, PidsInv, MarkersInv, dockervars
<1>3. ASSUME NEW b \in Agents PROVE AgentInv(b)' /\ CleanupInv(b)'
  BY <1>0 DEF TeamInv, TypeOK, SupType, NoSup, At, AgentInv, CleanupInv, history
<1> QED
  BY <1>1, <1>2, <1>3 DEF TeamInv

\* And so has the file that run_agentws reads.
LEMMA NoteKeeps ==
  ASSUME TeamInv, NEW a \in Agents, Note(a)
  PROVE  TeamInv'
<1>0. /\ At(a, "named") /\ sup' = [sup EXCEPT ![a].pc = "wait"] /\ noted' = noted \cup {a}
      /\ UNCHANGED <<dockervars, runtime, viewer, runner, worker, ready, age, suspended, history>>
  BY DEF Note, MoveSup
<1>1. TypeOK'
  BY <1>0 DEF TeamInv, TypeOK, SupType, dockervars, history
<1>2. ContainerInv' /\ PidsInv' /\ MarkersInv'
  BY <1>0 DEF TeamInv, TypeOK, SupType, At, ContainerInv, PidsInv, MarkersInv, dockervars
<1>3. ASSUME NEW b \in Agents PROVE AgentInv(b)' /\ CleanupInv(b)'
  BY <1>0 DEF TeamInv, TypeOK, SupType, NoSup, At, AgentInv, CleanupInv, history
<1> QED
  BY <1>1, <1>2, <1>3 DEF TeamInv

\* A supervisor that has to end asks the worker whose pid it has.
LEMMA LeaveKeeps ==
  ASSUME TeamInv, NEW a \in Agents, Leave(a)
  PROVE  TeamInv'
<1>0. /\ Alive(a) /\ sup[a].pc # "leaving"
      /\ UNCHANGED <<dockervars, runtime, viewer, runner, ready, age, suspended, streak>>
  BY DEF Leave, MoveSup
<1>1. CASE sup[a].pc \in {"named", "wait"}
  <2>0. /\ sup' = [sup EXCEPT ![a].pc = "leaving"]
        /\ worker' = [worker EXCEPT ![a] = Asked(@)]
        /\ noted' = noted /\ unnoted' = unnoted
    BY <1>1 DEF Leave, MoveSup
  <2>1. TypeOK'
    BY <1>0, <2>0 DEF TeamInv, TypeOK, SupType, WorkerType, Asked, dockervars
  <2>2. ContainerInv' /\ PidsInv' /\ MarkersInv'
    BY <1>0, <1>1, <2>0 DEF TeamInv, TypeOK, SupType, ContainerInv, PidsInv, MarkersInv, dockervars
  <2>3. ASSUME NEW b \in Agents PROVE AgentInv(b)' /\ CleanupInv(b)'
    BY <1>0, <1>1, <2>0 DEF TeamInv, TypeOK, SupType, WorkerType, NoSup, NoWorker, Asked, AgentInv, CleanupInv
  <2> QED
    BY <2>1, <2>2, <2>3 DEF TeamInv
<1>2. CASE sup[a].pc \notin {"named", "wait"}
  <2>0. /\ sup' = [sup EXCEPT ![a].pc = "dead"]
        /\ worker' = worker /\ noted' = noted \ {a}
        /\ unnoted' = IF sup[a].pc = "forked" THEN unnoted \cup {a} ELSE unnoted
    BY <1>2 DEF Leave, MoveSup
  <2>1. TypeOK'
    BY <1>0, <2>0 DEF TeamInv, TypeOK, SupType, dockervars
  <2>2. ContainerInv' /\ PidsInv' /\ MarkersInv'
    BY <1>0, <1>2, <2>0 DEF TeamInv, TypeOK, SupType, ContainerInv, PidsInv, MarkersInv, dockervars
  <2>3. ASSUME NEW b \in Agents PROVE AgentInv(b)' /\ CleanupInv(b)'
    BY <1>0, <1>2, <2>0 DEF TeamInv, TypeOK, SupType, WorkerType, NoSup, NoWorker, AgentInv, CleanupInv
  <2> QED
    BY <2>1, <2>2, <2>3 DEF TeamInv
<1> QED
  BY <1>1, <1>2

\* It has waited for the worker.
LEMMA LeftKeeps ==
  ASSUME TeamInv, NEW a \in Agents, Left(a)
  PROVE  TeamInv'
<1>0. /\ sup[a].pc = "leaving" /\ ~Works(a)
      /\ sup' = [sup EXCEPT ![a].pc = "dead"] /\ noted' = noted \ {a}
      /\ UNCHANGED <<dockervars, runtime, viewer, runner, worker, ready, age, suspended, history>>
  BY DEF Left, MoveSup
<1>1. TypeOK'
  BY <1>0 DEF TeamInv, TypeOK, SupType, dockervars, history
<1>2. ContainerInv' /\ PidsInv' /\ MarkersInv'
  BY <1>0 DEF TeamInv, TypeOK, SupType, ContainerInv, PidsInv, MarkersInv, dockervars
<1>3. ASSUME NEW b \in Agents PROVE AgentInv(b)' /\ CleanupInv(b)'
  BY <1>0 DEF TeamInv, TypeOK, SupType, NoSup, AgentInv, CleanupInv, history
<1> QED
  BY <1>1, <1>2, <1>3 DEF TeamInv

\* A worker ends, by itself or because it was asked.
LEMMA WorkerEndsKeeps ==
  ASSUME TeamInv, NEW a \in Agents, NEW rc \in {"ok", "retry", "other"}, WorkerEnds(a, rc)
  PROVE  TeamInv'
<1>0. /\ Works(a)
      /\ worker' = [worker EXCEPT ![a] = [pc |-> "ended", rc |-> rc]]
      /\ streak' = [streak EXCEPT ![a] = IF rc = "retry" THEN @ + 1 ELSE 0]
      /\ UNCHANGED <<dockervars, runtime, viewer, runner, sup, filevars, unnoted>>
  BY DEF WorkerEnds
<1>1. TypeOK'
  BY <1>0 DEF TeamInv, TypeOK, WorkerType, dockervars, filevars
<1>2. ContainerInv' /\ PidsInv' /\ MarkersInv'
  BY <1>0 DEF TeamInv, ContainerInv, PidsInv, MarkersInv, dockervars, filevars
<1>3. ASSUME NEW b \in Agents PROVE AgentInv(b)' /\ CleanupInv(b)'
  BY <1>0 DEF TeamInv, TypeOK, SupType, WorkerType, NoSup, NoWorker, AgentInv, CleanupInv, filevars
<1> QED
  BY <1>1, <1>2, <1>3 DEF TeamInv

\* A supervisor is killed; its worker, if it runs, is left to run_agentws.
LEMMA KillSupKeeps ==
  ASSUME TeamInv, NEW a \in Agents, KillSup(a)
  PROVE  TeamInv'
<1>0. /\ Alive(a)
      /\ sup' = [sup EXCEPT ![a].pc = "dead"]
      /\ unnoted' = IF Works(a) /\ a \notin (IF runner.pc \in {"ask", "await"} THEN runner.workers ELSE noted)
                    THEN unnoted \cup {a} ELSE unnoted
      /\ UNCHANGED <<dockervars, runtime, viewer, runner, worker, filevars, streak>>
  BY DEF KillSup, Dead, TeamInv, TypeOK, SupType
<1>1. TypeOK'
  BY <1>0 DEF TeamInv, TypeOK, SupType, dockervars, filevars
<1>2. ContainerInv' /\ PidsInv' /\ MarkersInv'
  BY <1>0 DEF TeamInv, TypeOK, SupType, ContainerInv, PidsInv, MarkersInv, dockervars, filevars
<1>3. ASSUME NEW b \in Agents PROVE AgentInv(b)' /\ CleanupInv(b)'
  <2>1. AgentInv(b)'
    BY <1>0 DEF TeamInv, TypeOK, SupType, NoSup, NoWorker, AgentInv, filevars
  <2>2. unnoted \subseteq unnoted' /\ runner' = runner /\ noted' = noted /\ worker' = worker
    BY <1>0 DEF filevars
  <2>3. worker[a].pc = "run" /\ a \notin unnoted' =>
          IF runner.pc \in {"ask", "await"} THEN a \in runner.workers ELSE a \in noted
    BY <1>0
  <2>4. CASE b # a
    <3>1. sup'[b] = sup[b]
      BY <1>0, <2>4 DEF TeamInv, TypeOK
    <3> QED
      BY <2>1, <2>2, <3>1 DEF TeamInv, CleanupInv
  <2>5. CASE b = a
    <3>1. sup'[a].pc = "dead"
      BY <1>0 DEF TeamInv, TypeOK, SupType
    <3>2. runner.pc \in {"spawn", "poll", "collect", "ask", "await", "killed"}
      BY <1>0 DEF TeamInv, TypeOK, RunnerType, PidsInv, CleanupInv
    <3> QED
      BY <2>1, <2>2, <2>3, <2>5, <3>1, <3>2 DEF TeamInv, CleanupInv
  <2> QED
    BY <2>1, <2>4, <2>5
<1> QED
  BY <1>1, <1>2, <1>3 DEF TeamInv

-----------------------------------------------------------------------------
(* The steps of run_agentws                                                 *)

\* It clears the files of earlier containers.
LEMMA ClearKeeps ==
  ASSUME TeamInv, Clear
  PROVE  TeamInv'
<1>0. /\ runner.pc = "clear" /\ runner' = [runner EXCEPT !.pc = "spawn"]
      /\ ready' = FALSE /\ suspended' = {} /\ noted' = {}
      /\ UNCHANGED <<dockervars, runtime, viewer, sup, worker, age, history>>
  BY DEF Clear, MoveRunner
<1>1. TypeOK'
  BY <1>0 DEF TeamInv, TypeOK, RunnerType, dockervars, history
<1>2. ContainerInv' /\ PidsInv' /\ MarkersInv'
  BY <1>0 DEF TeamInv, TypeOK, RunnerType, ContainerInv, PidsInv, MarkersInv, dockervars
<1>3. ASSUME NEW b \in Agents PROVE AgentInv(b)' /\ CleanupInv(b)'
  BY <1>0 DEF TeamInv, TypeOK, RunnerType, NoSup, PidsInv, AgentInv, CleanupInv, history
<1> QED
  BY <1>1, <1>2, <1>3 DEF TeamInv

\* It starts the supervisor of an agent of its roster.
LEMMA SpawnSupKeeps ==
  ASSUME TeamInv, NEW a \in Agents, SpawnSup(a)
  PROVE  TeamInv'
<1>0. /\ runner.pc = "spawn" /\ a \in roster \ runner.pids
      /\ runner' = [runner EXCEPT !.pids = @ \cup {a}, !.pc = IF runner.pids \cup {a} = roster THEN "poll" ELSE "spawn"]
      /\ sup' = [sup EXCEPT ![a] = [NoSup EXCEPT !.pc = "sleep"]]
      /\ suspended' = suspended \ {a}
      /\ UNCHANGED <<dockervars, runtime, viewer, worker, ready, age, noted, history>>
  BY DEF SpawnSup, MoveRunner
<1>1. runner'.pc \in {"spawn", "poll"} /\ runner'.pids = runner.pids \cup {a} /\ runner' \in RunnerType
  BY <1>0 DEF TeamInv, TypeOK, RunnerType
<1>2. TypeOK'
  BY <1>0, <1>1 DEF TeamInv, TypeOK, SupType, NoSup, dockervars, history
<1>3. ContainerInv' /\ PidsInv' /\ MarkersInv'
  BY <1>0, <1>1 DEF TeamInv, TypeOK, NoSup, ContainerInv, PidsInv, MarkersInv, dockervars
<1>4. ASSUME NEW b \in Agents PROVE AgentInv(b)' /\ CleanupInv(b)'
  BY <1>0, <1>1, TeamRunAssumption
  DEF TeamInv, TypeOK, NoSup, NoWorker, PidsInv, AgentInv, CleanupInv, history
<1> QED
  BY <1>2, <1>3, <1>4 DEF TeamInv

\* A step of run_agentws that moves nothing but itself.
LEMMA RunnerMovesKeep ==
  ASSUME TeamInv, runner' \in RunnerType, runner'.pids = runner.pids, runner'.workers = runner.workers,
         \/ runner'.pc = runner.pc
         \/ runner.pc \in {"spawn", "poll"} /\ runner'.pc = "collect"
         \/ runner.pc = "clear" /\ runner'.pc = "dead"
         \/ RunnerUp /\ runner'.pc = "killed",
         ready' \in BOOLEAN, age' \in Nat,
         UNCHANGED <<dockervars, runtime, viewer, sup, worker, suspended, noted, history>>
  PROVE  TeamInv'
<1>1. TypeOK'
  BY DEF TeamInv, TypeOK, dockervars, history
<1>2. ContainerInv' /\ PidsInv' /\ MarkersInv'
  BY DEF TeamInv, TypeOK, ContainerInv, PidsInv, MarkersInv, dockervars
<1>3. ASSUME NEW b \in Agents PROVE AgentInv(b)' /\ CleanupInv(b)'
  BY DEF TeamInv, TypeOK, NoSup, NoWorker, PidsInv, AgentInv, CleanupInv, history
<1> QED
  BY <1>1, <1>2, <1>3 DEF TeamInv

\* It looks up the workers.
LEMMA CollectKeeps ==
  ASSUME TeamInv, Collect
  PROVE  TeamInv'
<1>0. /\ runner.pc = "collect" /\ runner' = [runner EXCEPT !.pc = "ask", !.workers = noted \cap runner.pids]
      /\ ready' = FALSE
      /\ UNCHANGED <<dockervars, runtime, viewer, sup, worker, age, suspended, noted, history>>
  BY DEF Collect, MoveRunner
<1>1. TypeOK'
  BY <1>0 DEF TeamInv, TypeOK, RunnerType, dockervars, history
<1>2. ContainerInv' /\ PidsInv' /\ MarkersInv'
  BY <1>0 DEF TeamInv, TypeOK, RunnerType, ContainerInv, PidsInv, MarkersInv, dockervars
<1>3. ASSUME NEW b \in Agents PROVE AgentInv(b)' /\ CleanupInv(b)'
  BY <1>0 DEF TeamInv, TypeOK, RunnerType, PidsInv, AgentInv, CleanupInv, history
<1> QED
  BY <1>1, <1>2, <1>3 DEF TeamInv

\* It asks the supervisors, and the workers it has found.
LEMMA AskKeeps ==
  ASSUME TeamInv, Ask
  PROVE  TeamInv'
<1>0. /\ runner.pc = "ask" /\ runner' = [runner EXCEPT !.pc = "await"]
      /\ sup' = [a \in Agents |-> IF a \in runner.pids THEN Termed(sup[a]) ELSE sup[a]]
      /\ worker' = [a \in Agents |-> IF a \in runner.workers THEN Asked(worker[a]) ELSE worker[a]]
      /\ UNCHANGED <<dockervars, runtime, viewer, ready, age, suspended, noted, history>>
  BY DEF Ask, MoveRunner
<1>1. TypeOK'
  <2>1. sup' \in [Agents -> SupType]
    BY <1>0 DEF TeamInv, TypeOK, SupType, Termed
  <2>2. worker' \in [Agents -> WorkerType]
    BY <1>0 DEF TeamInv, TypeOK, WorkerType, Asked
  <2>3. runner' \in RunnerType
    BY <1>0 DEF TeamInv, TypeOK, RunnerType
  <2> QED
    BY <1>0, <2>1, <2>2, <2>3 DEF TeamInv, TypeOK, dockervars, history
<1>2. ContainerInv' /\ PidsInv' /\ MarkersInv'
  BY <1>0 DEF TeamInv, TypeOK, SupType, RunnerType, Termed, ContainerInv, PidsInv, MarkersInv, dockervars
<1>3. ASSUME NEW b \in Agents PROVE AgentInv(b)' /\ CleanupInv(b)'
  <2>1. /\ sup'[b].pc = sup[b].pc /\ sup'[b].failures = sup[b].failures
        /\ sup[b].pc = "off" => sup'[b] = sup[b]
        /\ sup[b].pc \notin {"off", "dead"} => sup'[b].termed
    BY <1>0 DEF TeamInv, TypeOK, SupType, PidsInv, Termed
  <2>2. worker'[b] = IF b \in runner.workers THEN Asked(worker[b]) ELSE worker[b]
    BY <1>0
  <2>3. /\ worker'[b].rc = worker[b].rc
        /\ worker'[b].pc = worker[b].pc \/ (worker[b].pc = "run" /\ worker'[b].pc = "asked")
        /\ b \in runner.workers => worker'[b].pc # "run"
        /\ worker[b].pc \in {"off", "ended"} => worker'[b] = worker[b]
    BY <2>2 DEF TeamInv, TypeOK, WorkerType, Asked
  <2>4. runner'.pc = "await" /\ runner'.workers = runner.workers
    BY <1>0 DEF TeamInv, TypeOK, RunnerType
  <2>5. AgentInv(b) /\ CleanupInv(b)
    BY DEF TeamInv
  <2> QED
    BY <1>0, <2>1, <2>3, <2>4, <2>5 DEF NoWorker, AgentInv, CleanupInv, history
<1> QED
  BY <1>1, <1>2, <1>3 DEF TeamInv

-----------------------------------------------------------------------------
(* The steps of runtime.py and of Docker                                    *)

\* A step that moves no process of run_agentws and writes none of its files.
LEMMA OthersKeep ==
  ASSUME TeamInv, TypeOK', ContainerInv', roster' = roster \/ runner.pc = "off",
         UNCHANGED <<runner, sup, worker, suspended, noted, history>>
  PROVE  TeamInv'
<1>1. PidsInv' /\ MarkersInv'
  BY DEF TeamInv, TypeOK, PidsInv, MarkersInv
<1>2. ASSUME NEW b \in Agents PROVE AgentInv(b)' /\ CleanupInv(b)'
  BY DEF TeamInv, AgentInv, CleanupInv, history
<1> QED
  BY <1>1, <1>2 DEF TeamInv

\* All processes end with the container.
LEMMA ContainerEndsKeeps ==
  ASSUME TeamInv, ContainerEnds
  PROVE  TeamInv'
<1>0. /\ container' \in {"absent", "exited"}
      /\ runtime' = [pc |-> "off", stopping |-> FALSE]
      /\ viewer' = FALSE /\ runner' = NoRunner
      /\ sup' = [a \in Agents |-> NoSup] /\ worker' = [a \in Agents |-> NoWorker]
      /\ streak' = [a \in Agents |-> 0] /\ unnoted' = {}
      /\ UNCHANGED <<intent, roster, filevars>>
  BY DEF ContainerEnds
<1>1. TypeOK'
  BY <1>0 DEF TeamInv, TypeOK, RuntimeType, RunnerType, SupType, WorkerType, NoRunner, NoSup, NoWorker, filevars
<1>2. ContainerInv' /\ PidsInv' /\ MarkersInv'
  BY <1>0 DEF TeamInv, TypeOK, NoRunner, NoSup, ContainerInv, PidsInv, MarkersInv
<1>3. ASSUME NEW b \in Agents PROVE AgentInv(b)' /\ CleanupInv(b)'
  BY <1>0 DEF NoRunner, NoSup, NoWorker, AgentInv, CleanupInv
<1> QED
  BY <1>1, <1>2, <1>3 DEF TeamInv

\* SIGTERM to the process groups of the children.
LEMMA TerminateKeeps ==
  ASSUME TeamInv, Terminate
  PROVE  TeamInv'
<1>0. /\ runtime.pc = "end" /\ runtime' = [runtime EXCEPT !.pc = "grace"] /\ viewer' = FALSE
      /\ UNCHANGED <<dockervars, filevars, history>>
  BY DEF Terminate
<1>1. runtime' \in RuntimeType /\ runtime'.pc = "grace" /\ (runtime'.stopping <=> runtime.stopping)
  BY <1>0 DEF TeamInv, TypeOK, RuntimeType
<1>2. CASE RunnerUp
  <2>0. /\ runner' = IF runner.pc \in {"spawn", "poll"} THEN [runner EXCEPT !.termed = TRUE]
                     ELSE [runner EXCEPT !.pc = "killed"]
        /\ sup' = [a \in Agents |-> Termed(sup[a])]
        /\ worker' = [a \in Agents |-> Asked(worker[a])]
    BY <1>2 DEF Terminate
  <2>1. /\ runner' \in RunnerType /\ runner'.pids = runner.pids
        /\ runner'.pc = IF runner.pc \in {"spawn", "poll"} THEN runner.pc ELSE "killed"
    BY <2>0 DEF TeamInv, TypeOK, RunnerType
  <2>2. sup' \in [Agents -> SupType]
    BY <2>0 DEF TeamInv, TypeOK, SupType, Termed
  <2>3. worker' \in [Agents -> WorkerType]
    BY <2>0 DEF TeamInv, TypeOK, WorkerType, Asked
  <2>4. TypeOK'
    BY <1>0, <1>1, <2>1, <2>2, <2>3 DEF TeamInv, TypeOK, dockervars, filevars, history
  <2>5. \A a \in Agents : sup'[a].pc = sup[a].pc /\ sup'[a].failures = sup[a].failures
                          /\ (sup[a].pc = "off" => sup'[a] = sup[a])
    BY <2>0 DEF TeamInv, TypeOK, SupType, Termed
  <2>6. ContainerInv' /\ PidsInv' /\ MarkersInv'
    BY <1>0, <1>1, <1>2, <2>1, <2>5 DEF TeamInv, TypeOK, ContainerInv, PidsInv, MarkersInv, dockervars, filevars
  <2>7. ASSUME NEW b \in Agents PROVE AgentInv(b)' /\ CleanupInv(b)'
    <3>1. worker'[b] = Asked(worker[b])
      BY <2>0
    <3>2. /\ worker'[b].rc = worker[b].rc
          /\ worker'[b].pc = IF worker[b].pc = "run" THEN "asked" ELSE worker[b].pc
          /\ worker[b].pc # "run" => worker'[b] = worker[b]
      BY <3>1 DEF TeamInv, TypeOK, WorkerType, Asked
    <3>3. AgentInv(b)
      BY DEF TeamInv
    <3> QED
      BY <1>0, <2>1, <2>5, <3>2, <3>3 DEF AgentInv, CleanupInv, NoWorker, filevars, history
  <2> QED
    BY <2>4, <2>6, <2>7 DEF TeamInv
<1>3. CASE ~RunnerUp
  <2>0. UNCHANGED <<runner, sup, worker>>
    BY <1>3 DEF Terminate
  <2>1. TypeOK' /\ ContainerInv'
    BY <1>0, <1>1, <2>0 DEF TeamInv, TypeOK, ContainerInv, dockervars, filevars, history
  <2> QED
    BY <1>0, <2>0, <2>1, OthersKeep DEF dockervars, filevars
<1> QED
  BY <1>2, <1>3

\* runtime.py starts its children, watches them, or is done with them.
LEMMA RuntimeKeeps ==
  ASSUME TeamInv, \/ RecoveryEnds(TRUE) \/ RecoveryEnds(FALSE) \/ StartViewer \/ StartRunner \/ Watch
  PROVE  TeamInv'
<1>1. ASSUME NEW label \in {"viewer", "runner", "watch", "end"}, MoveRuntime(label), viewer' \in BOOLEAN,
             UNCHANGED runner, container = "up",
             label \in {"viewer", "runner"} => runtime.pc \in {"recover", "viewer"}
      PROVE  TeamInv'
  <2>1. TypeOK' /\ ContainerInv'
    BY <1>1 DEF MoveRuntime, TeamInv, TypeOK, RuntimeType, ContainerInv, dockervars, filevars, history
  <2> QED
    BY <1>1, <2>1, OthersKeep DEF MoveRuntime, dockervars, filevars
<1>2. runtime.pc # "off" => container = "up"
  BY DEF TeamInv, ContainerInv
<1>3. CASE RecoveryEnds(TRUE) \/ RecoveryEnds(FALSE)
  BY <1>1, <1>2, <1>3 DEF RecoveryEnds, TeamInv, TypeOK
<1>4. CASE StartViewer
  BY <1>1, <1>2, <1>4 DEF StartViewer, TeamInv, TypeOK, RuntimeType
<1>5. CASE Watch
  BY <1>1, <1>2, <1>5 DEF Watch, TeamInv, TypeOK
<1>6. CASE StartRunner /\ runtime.stopping
  BY <1>1, <1>2, <1>6 DEF StartRunner, TeamInv, TypeOK
<1>7. CASE StartRunner /\ ~runtime.stopping
  <2>0. /\ runtime.pc = "runner" /\ runtime' = [runtime EXCEPT !.pc = "watch"]
        /\ runner' = [NoRunner EXCEPT !.pc = "clear"]
        /\ UNCHANGED <<dockervars, viewer, sup, worker, filevars, history>>
    BY <1>7 DEF StartRunner, MoveRuntime
  <2>1. TypeOK'
    BY <2>0 DEF TeamInv, TypeOK, RuntimeType, RunnerType, NoRunner, dockervars, filevars, history
  <2>2. ContainerInv' /\ PidsInv' /\ MarkersInv'
    BY <2>0, <1>2 DEF TeamInv, TypeOK, RuntimeType, NoRunner, ContainerInv, PidsInv, MarkersInv, dockervars, filevars
  <2>3. ASSUME NEW b \in Agents PROVE AgentInv(b)' /\ CleanupInv(b)'
    BY <2>0 DEF TeamInv, ContainerInv, PidsInv, NoRunner, NoSup, NoWorker, AgentInv, CleanupInv, filevars, history
  <2> QED
    BY <2>1, <2>2, <2>3 DEF TeamInv
<1> QED
  BY <1>3, <1>4, <1>5, <1>6, <1>7

\* A container is created, restarted, asked to stop or removed; the operator changes what is wanted; time passes.
LEMMA HostKeeps ==
  ASSUME TeamInv, Create \/ Restart \/ DockerStop \/ Remove \/ SaveIntent \/ KillViewer \/ Tick
  PROVE  TeamInv'
<1>1. ASSUME NEW r \in SUBSET Agents, Boot(r), container # "up"
      PROVE  TeamInv'
  <2>1. TypeOK' /\ ContainerInv' /\ runner.pc = "off"
    BY <1>1 DEF Boot, TeamInv, TypeOK, RuntimeType, ContainerInv, filevars, history
  <2> QED
    BY <1>1, <2>1, OthersKeep DEF Boot, filevars
<1>2. CASE Create
  BY <1>1, <1>2, TeamRunAssumption DEF Create
<1>3. CASE Restart
  BY <1>1, <1>3 DEF Restart, TeamInv, TypeOK
<1>4. CASE DockerStop
  <2>1. TypeOK' /\ ContainerInv'
    BY <1>4 DEF DockerStop, TeamInv, TypeOK, RuntimeType, ContainerInv, dockervars, filevars, history
  <2> QED
    BY <1>4, <2>1, OthersKeep DEF DockerStop, dockervars, filevars
<1>5. CASE Remove
  <2>1. TypeOK' /\ ContainerInv'
    BY <1>5 DEF Remove, TeamInv, TypeOK, ContainerInv, filevars, history
  <2> QED
    BY <1>5, <2>1, OthersKeep DEF Remove, filevars
<1>6. CASE SaveIntent
  <2>1. TypeOK' /\ ContainerInv'
    BY <1>6 DEF SaveIntent, TeamInv, TypeOK, ContainerInv, filevars, history
  <2> QED
    BY <1>6, <2>1, OthersKeep DEF SaveIntent, filevars
<1>7. CASE KillViewer
  <2>1. TypeOK' /\ ContainerInv'
    BY <1>7 DEF KillViewer, TeamInv, TypeOK, ContainerInv, dockervars, filevars, history
  <2> QED
    BY <1>7, <2>1, OthersKeep DEF KillViewer, dockervars, filevars
<1>8. CASE Tick
  <2>1. TypeOK' /\ ContainerInv'
    BY <1>8 DEF Tick, TeamInv, TypeOK, ContainerInv, dockervars, history
  <2> QED
    BY <1>8, <2>1, OthersKeep DEF Tick, dockervars
<1> QED
  BY <1>2, <1>3, <1>4, <1>5, <1>6, <1>7, <1>8

-----------------------------------------------------------------------------
(* The dashboard                                                            *)

\* What each problem says of the team.
LEMMA ProblemFacts ==
  /\ <<"job failed">> \in Problems => failedJobs # {}
  /\ <<"down">> \in Problems => intent = "running" /\ container # "up"
  /\ <<"lingers">> \in Problems => intent = "stopped" /\ container # "absent"
  /\ <<"silent">> \in Problems => intent = "running" /\ age > MaxAge
  /\ <<"provider">> \in Problems => intent = "running" /\ providers # ProviderComponents
  /\ \A a \in Agents : Suspension(a) \in Problems => sup[a].pc = "suspended"
<1>1. \A a : /\ Suspension(a) \notin {<<"job failed">>, <<"down">>, <<"lingers">>, <<"silent">>, <<"provider">>}
             /\ \A b : Suspension(a) = Suspension(b) => a = b
  BY DEF Suspension
<1> QED
  BY <1>1 DEF Problems

\* There is no other problem.
LEMMA ProblemKinds ==
  \A x \in Problems : \/ x \in {<<"job failed">>, <<"down">>, <<"lingers">>, <<"silent">>, <<"provider">>}
                      \/ \E a \in Agents : x = Suspension(a)
BY DEF Problems

\* A team that is well has no marker of a suspension, and its container is as it should be.
LEMMA WellFacts ==
  ASSUME TeamInv, Well
  PROVE  /\ failedJobs = {} /\ ~staged
         /\ intent = "running" => /\ container = "up" /\ providers = ProviderComponents
                                  /\ ReadyIsFresh /\ suspended = {}
         /\ intent = "stopped" => container = "absent"
         /\ intent \in {"running", "stopped"}
<1>1. ASSUME intent = "running" PROVE suspended = {}
  <2> SUFFICES ASSUME NEW a \in suspended PROVE FALSE
    OBVIOUS
  <2>1. a \in Agents /\ sup[a].pc \in {"suspended", "dead"}
    BY <1>1 DEF Well, TeamInv, TypeOK, MarkersInv
  <2>2. a \in roster
    BY <2>1 DEF TeamInv, PidsInv
  <2> QED
    BY <1>1, <2>1, <2>2 DEF Well
<1> QED
  BY <1>1 DEF Well, TeamInv, TypeOK

\* A step during which the snapshot reads nothing.
LEMMA SnapshotStays ==
  ASSUME IInv, snapshot' = snapshot, failedJobs' \subseteq JobRoles, staged' \in BOOLEAN,
         intent' = intent \/ container' = container, intent' \in {"running", "stopped"}, Witness
  PROVE  SnapshotInv' /\ HeldInv' /\ WellInv'
<1>1. SnapshotInv'
  BY DEF IInv, SnapshotInv, Observed, Operational, ComponentIssue
<1>2. held' \subseteq held /\ held' \subseteq Problems' /\ (snapshot.pc = "off" => held' = {})
  BY DEF IInv, HeldInv, Witness
<1>3. HeldInv'
  BY <1>2 DEF IInv, HeldInv, Observed, MarkerRead, RunsRead, Operational, ComponentIssue
<1>4. well' \in BOOLEAN /\ (well' => Well' /\ well /\ snapshot.pc # "off")
  BY DEF IInv, WellInv, Witness, SnapshotInv, SnapshotType
<1>5. ASSUME well' PROVE intent' = intent
  <2>1. Well /\ Well'
    BY <1>4, <1>5 DEF IInv, WellInv
  <2> QED
    BY <2>1 DEF Well
<1>6. WellInv'
  BY <1>4, <1>5 DEF IInv, WellInv, Observed
<1> QED
  BY <1>1, <1>3, <1>6

\* A read changes neither the team nor what there is to report.
LEMMA ReadFrame ==
  ASSUME IInv, NEW s, Read(s), Witness
  PROVE  /\ snapshot' = s /\ TeamInv' /\ Problems' = Problems
         /\ UNCHANGED <<failedJobs, staged, intent, container, suspended, age, ready>>
         /\ s.pc # "off" => /\ snapshot.pc # "off" => held' = held /\ well' = well
                            /\ snapshot.pc = "off" => held' = Problems /\ well' = Well
<1>1. UNCHANGED <<intent, container, roster, runtime, viewer, runner, sup, worker, ready, age, suspended, noted,
                  streak, unnoted, providers, failedJobs, staged>>
  BY DEF Read, teamvars, dockervars, filevars, history
<1>2. TypeOK' /\ ContainerInv'
  BY <1>1 DEF IInv, TeamInv, TypeOK, ContainerInv
<1>3. TeamInv'
  BY <1>1, <1>2, OthersKeep DEF IInv, history
<1>4. Problems' = Problems
  BY <1>1 DEF Problems
<1>5. Well' = Well /\ Well \in BOOLEAN
  BY <1>1 DEF Well, ReadyIsFresh
<1>6. snapshot' = s
  BY DEF Read
<1>7. ASSUME s.pc # "off", snapshot.pc # "off"
      PROVE  held' = held /\ well' = well
  BY <1>4, <1>5, <1>6, <1>7 DEF IInv, HeldInv, WellInv, Witness
<1>8. ASSUME s.pc # "off", snapshot.pc = "off"
      PROVE  held' = Problems /\ well' = Well
  BY <1>4, <1>5, <1>6, <1>8 DEF Witness
<1> QED
  BY <1>1, <1>3, <1>4, <1>6, <1>7, <1>8

\* The intent is listed first.
LEMMA ListIntentKeeps ==
  ASSUME IInv, ListIntent, Witness
  PROVE  IInv'
<1> DEFINE s == [NoSnapshot EXCEPT !.pc = "listed", !.desired = intent]
<1>0. snapshot.pc = "off" /\ Read(s)
  BY DEF ListIntent
<1>1. s.pc = "listed" /\ s.desired = intent /\ ~s.error /\ s.suspended = {} /\ ~s.planner /\ ~s.failed /\ ~s.errors /\ ~s.excused
  BY DEF NoSnapshot
<1>2. s \in SnapshotType
  BY DEF IInv, TeamInv, TypeOK, NoSnapshot, SnapshotType
<1>3. /\ snapshot' = s /\ TeamInv' /\ Problems' = Problems /\ held' = Problems /\ well' = Well
      /\ failedJobs' = failedJobs /\ staged' = staged /\ intent' = intent
  <2> HIDE DEF s
  <2> QED BY <1>0, <1>1, ReadFrame
<1> HIDE DEF s
<1>4. SnapshotInv'
  BY <1>1, <1>2, <1>3 DEF IInv, TeamInv, TypeOK, SnapshotInv, Observed
<1>5. HeldInv'
  BY <1>1, <1>3, ProblemFacts DEF HeldInv, Observed, MarkerRead, RunsRead
<1>6. WellInv'
  <2>1. Well' = Well /\ well' \in BOOLEAN
    BY <1>0, <1>3 DEF Read, teamvars, dockervars, filevars, Well, ReadyIsFresh
  <2> QED
    BY <1>1, <1>3, <2>1 DEF WellInv, Observed
<1> QED
  BY <1>3, <1>4, <1>5, <1>6 DEF IInv

\* runtime.status, or an error.
LEMMA ObserveRuntimeKeeps ==
  ASSUME IInv, ObserveRuntime, Witness
  PROVE  IInv'
<1>0. PICK s : /\ Read(s)
               /\ \/ s = [snapshot EXCEPT !.pc = "queue", !.container = "unknown", !.provider = "provider-unknown", !.excused = TRUE]
                  \/ \E healthy \in BOOLEAN :
                       LET t == [snapshot EXCEPT !.container = IF container = "up" THEN "running" ELSE container,
                                                 !.healthy = healthy, !.excused = ~healthy,
                                                 !.provider = ProviderHealth(providers)]
                       IN s = [t EXCEPT !.pc = IF Operational(t) THEN "ready" ELSE "queue"]
  BY DEF ObserveRuntime
<1>1. snapshot.pc = "listed" /\ snapshot \in SnapshotType
  BY DEF ObserveRuntime, IInv, SnapshotInv
<1>2. ProviderHealth(providers) \in {"provider-down", "degraded", "ready"}
  BY DEF ProviderHealth
<1>3. /\ providers # ProviderComponents => ProviderHealth(providers) # "ready"
      /\ providers = ProviderComponents => ProviderHealth(providers) = "ready"
  BY DashboardAssumption DEF ProviderHealth
<1>4. /\ s \in SnapshotType /\ s.pc \in {"ready", "queue"} /\ s.desired = snapshot.desired
      /\ s.error = snapshot.error /\ s.suspended = snapshot.suspended /\ s.planner = snapshot.planner
      /\ s.failed = snapshot.failed /\ s.errors = snapshot.errors
      /\ s.pc = "ready" <=> Operational(s)
  <2>1. CASE s = [snapshot EXCEPT !.pc = "queue", !.container = "unknown", !.provider = "provider-unknown", !.excused = TRUE]
    BY <1>1, <2>1 DEF SnapshotType, Operational, ComponentIssue
  <2>2. CASE ~(s = [snapshot EXCEPT !.pc = "queue", !.container = "unknown", !.provider = "provider-unknown", !.excused = TRUE])
    <3>1. PICK healthy \in BOOLEAN :
            LET t == [snapshot EXCEPT !.container = IF container = "up" THEN "running" ELSE container,
                                      !.healthy = healthy, !.excused = ~healthy,
                                      !.provider = ProviderHealth(providers)]
            IN s = [t EXCEPT !.pc = IF Operational(t) THEN "ready" ELSE "queue"]
      BY <1>0, <2>2
    <3> DEFINE t == [snapshot EXCEPT !.container = IF container = "up" THEN "running" ELSE container,
                                     !.healthy = healthy, !.excused = ~healthy,
                                     !.provider = ProviderHealth(providers)]
    <3>2. /\ t \in SnapshotType /\ t.desired = snapshot.desired
          /\ t.error = snapshot.error /\ t.suspended = snapshot.suspended /\ t.planner = snapshot.planner
          /\ t.failed = snapshot.failed /\ t.errors = snapshot.errors
      <4>1. (IF container = "up" THEN "running" ELSE container) \in {"absent", "exited", "running"}
        BY DEF IInv, TeamInv, TypeOK
      <4>2. t \in SnapshotType
        <5> DEFINE status == IF container = "up" THEN "running" ELSE container
                   state  == ProviderHealth(providers)
                   sick   == ~healthy
        <5>1. /\ status \in {"absent", "exited", "running"}
              /\ state \in {"provider-down", "degraded", "ready"}
              /\ snapshot \in SnapshotType
              /\ healthy \in BOOLEAN /\ sick \in BOOLEAN
          BY <1>1, <1>2, <4>1
        <5>2. t = [snapshot EXCEPT !.container = status, !.healthy = healthy, !.excused = sick,
                                   !.provider = state]
          OBVIOUS
        <5> DEFINE u == [snapshot EXCEPT !.container = status, !.healthy = healthy]
        <5> HIDE DEF status, state, sick, t
        <5>3. u \in SnapshotType
          BY ONLY <5>1 DEF SnapshotType
        <5>4. t = [u EXCEPT !.excused = sick, !.provider = state]
          BY ONLY <5>1, <5>2 DEF SnapshotType
        <5> HIDE DEF u
        <5> QED
          BY ONLY <5>1, <5>3, <5>4 DEF SnapshotType
      <4>3. /\ t.desired = snapshot.desired
            /\ t.error = snapshot.error /\ t.suspended = snapshot.suspended /\ t.planner = snapshot.planner
            /\ t.failed = snapshot.failed /\ t.errors = snapshot.errors
        BY <1>1 DEF SnapshotType
      <4> QED
        BY ONLY <4>2, <4>3
    <3>3. s = [t EXCEPT !.pc = IF Operational(t) THEN "ready" ELSE "queue"]
      BY <3>1
    <3> HIDE DEF t
    <3> QED
      BY <3>2, <3>3 DEF SnapshotType, Operational, ComponentIssue
  <2> QED
    BY <2>1, <2>2
<1>5. \/ s.container = "unknown" /\ s.provider = "provider-unknown" /\ s.excused
      \/ /\ s.container = IF container = "up" THEN "running" ELSE container
         /\ s.provider = ProviderHealth(providers) /\ s.excused = ~s.healthy
  BY <1>0, <1>1, <1>2 DEF SnapshotType
<1>6. /\ snapshot' = s /\ TeamInv' /\ Problems' = Problems /\ held' = held /\ well' = well
      /\ failedJobs' = failedJobs /\ staged' = staged /\ intent' = intent /\ container' = container
  BY <1>0, <1>1, <1>4, ReadFrame
<1>7. SnapshotInv'
  BY <1>1, <1>4, <1>5, <1>6 DEF IInv, SnapshotInv, TeamInv, TypeOK, Observed
<1>8. HeldInv'
  <2>1. held \subseteq Problems
    BY DEF IInv, HeldInv
  <2>2. \A a \in Agents : Suspension(a) \in held => container = "up"
    BY <2>1, ProblemFacts DEF IInv, TeamInv, ContainerInv, PidsInv
  <2>3. /\ <<"down">> \in held => s.container # "running"
        /\ <<"lingers">> \in held => s.container # "absent"
        /\ <<"provider">> \in held => s.provider # "ready"
        /\ \A a \in Agents : Suspension(a) \in held => s.container # "absent"
    BY <1>3, <1>5, <2>1, <2>2, ProblemFacts DEF IInv, TeamInv, TypeOK
  <2> QED
    BY <1>1, <1>4, <1>6, <2>1, <2>3 DEF IInv, HeldInv, Observed, MarkerRead, RunsRead
<1>9. WellInv'
  <2>1. Well' = Well
    BY <1>0 DEF Read, teamvars, dockervars, filevars, Well, ReadyIsFresh
  <2>2. ASSUME well, ~s.excused
        PROVE  IF s.desired = "running" THEN s.container = "running" /\ s.healthy /\ s.provider = "ready"
               ELSE s.container = "absent"
    BY <1>1, <1>3, <1>4, <1>5, <2>2, WellFacts DEF IInv, WellInv, SnapshotType
  <2>3. ASSUME well, ~s.excused
        PROVE  ~s.error /\ s.suspended = {} /\ ~s.planner /\ ~s.failed /\ ~s.errors
    BY <1>1, <1>4, <2>3 DEF IInv, SnapshotInv, WellInv
  <2> QED
    BY <1>1, <1>4, <1>6, <2>1, <2>2, <2>3 DEF IInv, WellInv
<1> QED
  BY <1>6, <1>7, <1>8, <1>9 DEF IInv

\* A later read keeps what was observed of the container; it remains to see what it adds.
LEMMA LaterReadKeeps ==
  ASSUME IInv, NEW s \in SnapshotType, Read(s), Witness, Observed, s.pc \in {"runs", "planner", "queue", "done"},
         s.desired = snapshot.desired, s.container = snapshot.container,
         s.healthy = snapshot.healthy, s.provider = snapshot.provider,
         s.pc \in {"runs", "planner"} => Operational(snapshot),
         snapshot.excused => s.excused,
         s.pc \in {"runs", "planner"} \/ Operational(snapshot) => (<<"silent">> \in held => s.error),
         s.pc = "planner" \/ (s.pc # "runs" /\ Operational(snapshot)) =>
           \A a \in Agents : Suspension(a) \in held => s.error \/ a \in s.suspended,
         s.pc = "done" => (<<"job failed">> \in held => s.failed \/ s.errors),
         well /\ ~s.excused => ~s.error /\ s.suspended = {} /\ ~s.planner /\ ~s.failed /\ ~s.errors
  PROVE  IInv'
<1>1. /\ snapshot' = s /\ TeamInv' /\ Problems' = Problems /\ held' = held /\ well' = well
      /\ failedJobs' = failedJobs /\ staged' = staged /\ intent' = intent
  BY ReadFrame DEF Observed
<1>2. Operational(s) <=> Operational(snapshot)
  BY DEF Operational, ComponentIssue
<1>3. SnapshotInv'
  BY <1>1, <1>2 DEF IInv, SnapshotInv, Observed
<1>4. HeldInv'
  BY <1>1, <1>2 DEF IInv, HeldInv, Observed, MarkerRead, RunsRead
<1>5. Well' = Well
  BY DEF Read, teamvars, dockervars, filevars, Well, ReadyIsFresh
<1>6. WellInv'
  BY <1>1, <1>5 DEF IInv, WellInv, Observed
<1> QED
  BY <1>1, <1>3, <1>4, <1>6 DEF IInv

\* The heartbeat.
LEMMA StatReadyKeeps ==
  ASSUME IInv, StatReady, Witness
  PROVE  IInv'
<1> DEFINE s == [snapshot EXCEPT !.pc = "runs", !.error = ~ReadyIsFresh]
<1>1. snapshot.pc = "ready" /\ Read(s)
  BY DEF StatReady
<1>2. snapshot \in SnapshotType /\ Operational(snapshot) /\ Observed
  BY <1>1 DEF IInv, SnapshotInv, Observed
<1>3. s \in SnapshotType /\ s.error = ~ReadyIsFresh
  BY <1>2 DEF SnapshotType, ReadyIsFresh
<1>4. s = [snapshot EXCEPT !.pc = s.pc, !.error = s.error] /\ s.pc = "runs"
  BY <1>2 DEF SnapshotType
<1>5. <<"silent">> \in held => s.error
  <2>1. <<"silent">> \in held => age > MaxAge
    BY ProblemFacts DEF IInv, HeldInv
  <2>2. age > MaxAge => ~ReadyIsFresh
    BY TeamRunAssumption DEF IInv, TeamInv, TypeOK, ReadyIsFresh
  <2> HIDE DEF s
  <2> QED
    BY <1>3, <2>1, <2>2
<1>6. well => ReadyIsFresh
  BY <1>2, WellFacts DEF IInv, WellInv, Operational
<1> HIDE DEF s
<1>7. well /\ ~s.excused => ~s.error /\ s.suspended = {} /\ ~s.planner /\ ~s.failed /\ ~s.errors
  BY <1>2, <1>3, <1>4, <1>6 DEF IInv, WellInv, SnapshotType
<1> QED
  BY <1>1, <1>2, <1>3, <1>4, <1>5, <1>7, LaterReadKeeps DEF SnapshotType

\* The suspensions.
LEMMA ScanRunsKeeps ==
  ASSUME IInv, ScanRuns, Witness
  PROVE  IInv'
<1>1. PICK s : Read(s) /\ s \in {[snapshot EXCEPT !.pc = "planner", !.suspended = suspended],
                                 Cut([snapshot EXCEPT !.pc = "planner"])}
  BY DEF ScanRuns
<1>2. snapshot \in SnapshotType /\ snapshot.pc = "runs" /\ Operational(snapshot) /\ Observed
  BY DEF ScanRuns, IInv, SnapshotInv, Observed
<1>3. /\ s \in SnapshotType /\ s.pc = "planner"
      /\ s.desired = snapshot.desired /\ s.container = snapshot.container
      /\ s.healthy = snapshot.healthy /\ s.provider = snapshot.provider
      /\ s.planner = snapshot.planner /\ s.failed = snapshot.failed /\ s.errors = snapshot.errors
      /\ \/ s.error /\ s.excused
         \/ s.error = snapshot.error /\ s.excused = snapshot.excused /\ s.suspended = suspended
  BY <1>1, <1>2 DEF SnapshotType, Cut, IInv, TeamInv, TypeOK
<1>4. <<"silent">> \in held => s.error
  BY <1>2, <1>3 DEF IInv, HeldInv, MarkerRead
<1>5. \A a \in Agents : Suspension(a) \in held => a \in suspended
  BY ProblemFacts DEF IInv, HeldInv, TeamInv, AgentInv
<1>6. well => suspended = {}
  BY <1>2, WellFacts DEF IInv, WellInv, Operational
<1>7. well /\ ~s.excused => ~s.error /\ s.suspended = {} /\ ~s.planner /\ ~s.failed /\ ~s.errors
  BY <1>3, <1>6 DEF IInv, WellInv
<1> QED
  BY <1>1, <1>2, <1>3, <1>4, <1>5, <1>7, LaterReadKeeps

\* The planner's jobs.
LEMMA ScanPlannerJobsKeeps ==
  ASSUME IInv, ScanPlannerJobs, Witness
  PROVE  IInv'
<1> DEFINE fails == "planner" \in failedJobs
<1>0. fails \in BOOLEAN /\ (fails <=> "planner" \in failedJobs)
  OBVIOUS
<1>1. PICK s : Read(s) /\ s \in {[snapshot EXCEPT !.pc = "queue", !.planner = fails],
                                 Cut([snapshot EXCEPT !.pc = "queue"])}
  BY DEF ScanPlannerJobs
<1> HIDE DEF fails
<1>2. snapshot \in SnapshotType /\ snapshot.pc = "planner" /\ Operational(snapshot) /\ Observed
  BY DEF ScanPlannerJobs, IInv, SnapshotInv, Observed
<1>3. /\ s \in SnapshotType /\ s.pc = "queue"
      /\ s.desired = snapshot.desired /\ s.container = snapshot.container
      /\ s.healthy = snapshot.healthy /\ s.provider = snapshot.provider
      /\ s.suspended = snapshot.suspended /\ s.failed = snapshot.failed /\ s.errors = snapshot.errors
      /\ \/ s.error /\ s.excused
         \/ s.error = snapshot.error /\ s.excused = snapshot.excused /\ s.planner = fails
  BY <1>0, <1>1, <1>2 DEF SnapshotType, Cut, IInv, SnapshotInv
<1>4. <<"silent">> \in held => s.error
  BY <1>2, <1>3 DEF IInv, HeldInv, MarkerRead
<1>5. \A a \in Agents : Suspension(a) \in held => s.error \/ a \in s.suspended
  BY <1>2, <1>3 DEF IInv, HeldInv, RunsRead
<1>6. well /\ ~s.excused => ~s.error /\ s.suspended = {} /\ ~s.planner /\ ~s.failed /\ ~s.errors
  BY <1>0, <1>3 DEF IInv, WellInv, Well
<1> QED
  BY <1>1, <1>2, <1>3, <1>4, <1>5, <1>6, LaterReadKeeps

\* The queue.
LEMMA ScanQueueKeeps ==
  ASSUME IInv, ScanQueue, Witness
  PROVE  IInv'
<1>1. PICK s : Read(s) /\ s \in {[snapshot EXCEPT !.pc = "done", !.failed = failedJobs # {}, !.errors = staged],
                                 [snapshot EXCEPT !.pc = "done", !.errors = TRUE, !.excused = TRUE]}
  BY DEF ScanQueue
<1>2. snapshot \in SnapshotType /\ snapshot.pc = "queue" /\ Observed
  BY DEF ScanQueue, IInv, SnapshotInv, Observed
<1>3. /\ s \in SnapshotType /\ s.pc = "done"
      /\ s.desired = snapshot.desired /\ s.container = snapshot.container
      /\ s.healthy = snapshot.healthy /\ s.provider = snapshot.provider
      /\ s.error = snapshot.error /\ s.suspended = snapshot.suspended /\ s.planner = snapshot.planner
      /\ \/ s.errors /\ s.excused
         \/ (s.failed <=> failedJobs # {}) /\ s.errors = staged /\ s.excused = snapshot.excused
  BY <1>1, <1>2 DEF SnapshotType, IInv, SnapshotInv
<1>4. <<"job failed">> \in held => s.failed \/ s.errors
  BY <1>3, ProblemFacts DEF IInv, HeldInv
<1>5. Operational(snapshot) => /\ <<"silent">> \in held => s.error
                               /\ \A a \in Agents : Suspension(a) \in held => s.error \/ a \in s.suspended
  BY <1>2, <1>3 DEF IInv, HeldInv, MarkerRead, RunsRead
<1>6. well /\ ~s.excused => ~s.error /\ s.suspended = {} /\ ~s.planner /\ ~s.failed /\ ~s.errors
  BY <1>3 DEF IInv, WellInv, Well
<1> QED
  BY <1>1, <1>2, <1>3, <1>4, <1>5, <1>6, LaterReadKeeps

\* The row is shown.
LEMMA ReturnKeeps ==
  ASSUME IInv, Return, Witness
  PROVE  IInv'
<1>0. Read(NoSnapshot) /\ NoSnapshot.pc = "off" /\ NoSnapshot \in SnapshotType
  BY DEF Return, NoSnapshot, SnapshotType
<1>1. snapshot' = NoSnapshot /\ TeamInv' /\ Problems' = Problems /\ failedJobs' = failedJobs /\ staged' = staged
  BY <1>0, ReadFrame
<1>2. held' = {} /\ well' = FALSE
  BY <1>0, <1>1 DEF Witness
<1>3. SnapshotInv'
  BY <1>0, <1>1 DEF IInv, SnapshotInv, Observed
<1>4. HeldInv' /\ WellInv'
  BY <1>0, <1>1, <1>2 DEF HeldInv, WellInv, Observed, MarkerRead, RunsRead
<1> QED
  BY <1>1, <1>3, <1>4 DEF IInv

\* The providers, the planner and task-create change what the dashboard will read.
LEMMA ChangeKeeps ==
  ASSUME IInv, Change, Witness
  PROVE  IInv'
<1>1. UNCHANGED teamvars /\ snapshot' = snapshot /\ failedJobs' \subseteq JobRoles /\ staged' \in BOOLEAN
  BY DEF Change, ProviderChanges, JobFails, Stages, IInv, SnapshotInv
<1>2. TypeOK' /\ ContainerInv'
  BY <1>1 DEF IInv, TeamInv, TypeOK, ContainerInv, teamvars, dockervars, filevars, history
<1>3. TeamInv'
  BY <1>1, <1>2, OthersKeep DEF IInv, teamvars, dockervars, filevars
<1>4. SnapshotInv' /\ HeldInv' /\ WellInv'
  BY <1>1, SnapshotStays DEF IInv, TeamInv, TypeOK, teamvars, dockervars
<1> QED
  BY <1>3, <1>4 DEF IInv

-----------------------------------------------------------------------------
(* The invariant                                                            *)

\* Every step of run_agentws.
LEMMA RunnerKeeps ==
  ASSUME TeamInv, RunnerStep \/ RunnerFails \/ KillRunner
  PROVE  TeamInv'
<1>1. CASE Clear
  BY <1>1, ClearKeeps
<1>2. CASE \E a \in Agents : SpawnSup(a)
  BY <1>2, SpawnSupKeeps
<1>3. CASE \E a \in Agents : Poll(a)
  <2>1. PICK a \in Agents : Poll(a)
    BY <1>3
  <2>2. runner' = IF SeesAlive(a) THEN [runner EXCEPT !.polled = @ \cup {a}] ELSE [runner EXCEPT !.pc = "collect"]
    BY <2>1 DEF Poll, MoveRunner
  <2>3. /\ runner' \in RunnerType /\ runner'.pids = runner.pids /\ runner'.workers = runner.workers
        /\ runner.pc = "poll" /\ runner'.pc \in {"poll", "collect"}
    BY <2>1, <2>2 DEF Poll, TeamInv, TypeOK, RunnerType
  <2> QED
    BY <2>1, <2>3, RunnerMovesKeep DEF Poll, MoveRunner, TeamInv, TypeOK
<1>4. CASE Beat
  <2>1. runner' \in RunnerType /\ runner'.pids = runner.pids /\ runner'.workers = runner.workers /\ runner'.pc = runner.pc
    BY <1>4 DEF Beat, TeamInv, TypeOK, RunnerType
  <2> QED
    BY <1>4, <2>1, RunnerMovesKeep DEF Beat
<1>5. CASE Trap
  <2>1. /\ runner' \in RunnerType /\ runner'.pids = runner.pids /\ runner'.workers = runner.workers
        /\ runner.pc \in {"spawn", "poll"} /\ runner'.pc = "collect"
    BY <1>5 DEF Trap, MoveRunner, TeamInv, TypeOK, RunnerType
  <2> QED
    BY <1>5, <2>1, RunnerMovesKeep DEF Trap, MoveRunner, TeamInv, TypeOK
<1>6. CASE Collect
  BY <1>6, CollectKeeps
<1>7. CASE Ask
  BY <1>7, AskKeeps
<1>8. CASE Quit
  BY <1>8, QuitKeeps
<1>9. CASE RunnerFails
  <2>1. /\ runner' \in RunnerType /\ runner'.pids = runner.pids /\ runner'.workers = runner.workers
        /\ (runner.pc = "clear" /\ runner'.pc = "dead") \/ (runner.pc \in {"spawn", "poll"} /\ runner'.pc = "collect")
    BY <1>9 DEF RunnerFails, MoveRunner, TeamInv, TypeOK, RunnerType
  <2> QED
    BY <1>9, <2>1, RunnerMovesKeep DEF RunnerFails, MoveRunner, TeamInv, TypeOK
<1>10. CASE KillRunner
  <2>1. /\ runner' \in RunnerType /\ runner'.pids = runner.pids /\ runner'.workers = runner.workers
        /\ RunnerUp /\ runner'.pc = "killed"
    BY <1>10 DEF KillRunner, MoveRunner, TeamInv, TypeOK, RunnerType
  <2> QED
    BY <1>10, <2>1, RunnerMovesKeep DEF KillRunner, MoveRunner, TeamInv, TypeOK
<1> QED
  BY <1>1, <1>2, <1>3, <1>4, <1>5, <1>6, <1>7, <1>8, <1>9, <1>10 DEF RunnerStep

\* Every step of a supervisor or a worker.
LEMMA AgentKeeps ==
  ASSUME TeamInv, NEW a \in Agents,
         \/ SupStep(a) \/ SupFails(a) \/ KillSup(a)
         \/ \E rc \in {"ok", "retry", "other"} : WorkerEnds(a, rc)
  PROVE  TeamInv'
BY ForkKeeps, NameKeeps, NoteKeeps, ReapKeeps, LeaveKeeps, LeftKeeps, KillSupKeeps, WorkerEndsKeeps
DEF SupStep, SupTrap, SupFails

\* Every step of runtime.py, and whatever ends the container.
LEMMA RuntimeStepKeeps ==
  ASSUME TeamInv, RuntimeStep \/ RecoveryEnds(FALSE) \/ DockerKill \/ KillContainer
  PROVE  TeamInv'
BY RuntimeKeeps, TerminateKeeps, ContainerEndsKeeps DEF RuntimeStep, RuntimeExits, DockerKill, KillContainer

\* No step but the operator's changes the intent, and that one changes no container.
LEMMA IntentOrContainer ==
  ASSUME TeamInv, TeamStep
  PROVE  intent' = intent \/ container' = container
BY DEF TeamStep, RuntimeStep, RecoveryEnds, MoveRuntime, StartViewer, StartRunner, Watch, Terminate, RuntimeExits,
  ContainerEnds, RunnerStep, Clear, MoveRunner, SpawnSup, Poll, Beat, Trap, Collect, Ask, Quit, SupStep, Fork, Name,
  Note, Reap, SupTrap, Left, Leave, MoveSup, DockerStep, Create, Boot, Restart, DockerStop, Remove, DockerKill,
  WorkerEnd, WorkerEnds, Fault, RunnerFails, KillRunner, KillViewer, KillContainer, SupFails, KillSup, Tick,
  SaveIntent, dockervars

\* Every step of the team.
LEMMA TeamStepKeeps ==
  ASSUME TeamInv, TeamStep
  PROVE  TeamInv'
<1>1. CASE RuntimeStep \/ DockerKill
  BY <1>1, RuntimeStepKeeps
<1>2. CASE RunnerStep
  BY <1>2, RunnerKeeps
<1>3. CASE DockerStep
  BY <1>3, HostKeeps DEF DockerStep
<1>4. CASE \E a \in Agents : SupStep(a)
  BY <1>4, AgentKeeps
<1>5. CASE WorkerEnd
  BY <1>5, AgentKeeps DEF WorkerEnd
<1>6. CASE Fault
  BY <1>6, RuntimeStepKeeps, RunnerKeeps, HostKeeps, AgentKeeps DEF Fault
<1>7. CASE Tick \/ SaveIntent
  BY <1>7, HostKeeps
<1> QED
  BY <1>1, <1>2, <1>3, <1>4, <1>5, <1>6, <1>7 DEF TeamStep

\* The invariant holds at first.
LEMMA InitInv == Init => IInv
<1> SUFFICES ASSUME Init PROVE IInv
  OBVIOUS
<1>1. TypeOK
  <2>1. suspended \in SUBSET Agents
    BY TeamAssumption DEF Init
  <2>2. runtime \in RuntimeType /\ runner \in RunnerType
    BY DEF Init, TeamInit, RuntimeType, RunnerType, NoRunner
  <2>3. sup \in [Agents -> SupType] /\ worker \in [Agents -> WorkerType]
    BY DEF Init, TeamInit, SupType, WorkerType, NoSup, NoWorker
  <2>4. age \in Nat
    BY TeamRunAssumption DEF Init, TeamInit
  <2>5. streak \in [Agents -> Nat]
    BY DEF Init, TeamInit
  <2> QED
    BY <2>1, <2>2, <2>3, <2>4, <2>5 DEF Init, TeamInit, TypeOK
<1>2. ContainerInv /\ PidsInv /\ MarkersInv
  BY DEF Init, TeamInit, ContainerInv, PidsInv, MarkersInv, NoRunner, NoSup
<1>3. ASSUME NEW a \in Agents PROVE AgentInv(a) /\ CleanupInv(a)
  BY DEF Init, TeamInit, AgentInv, CleanupInv, NoRunner, NoSup, NoWorker
<1>4. SnapshotInv /\ HeldInv /\ WellInv
  BY DEF Init, DashInit, SnapshotInv, HeldInv, WellInv, SnapshotType, NoSnapshot, Observed, MarkerRead, RunsRead
<1> QED
  BY <1>1, <1>2, <1>3, <1>4 DEF IInv, TeamInv

\* Every step keeps it.
LEMMA NextInv == IInv /\ [Next]_vars => IInv'
<1> SUFFICES ASSUME IInv, [Next]_vars PROVE IInv'
  OBVIOUS
<1>1. CASE TeamStep /\ Witness
  <2>1. TeamInv'
    BY <1>1, TeamStepKeeps DEF IInv
  <2>2. snapshot' = snapshot /\ failedJobs' \subseteq JobRoles /\ staged' \in BOOLEAN
    BY <1>1 DEF TeamStep, dashvars, IInv, SnapshotInv
  <2>3. SnapshotInv' /\ HeldInv' /\ WellInv'
    BY <1>1, <2>1, <2>2, IntentOrContainer, SnapshotStays DEF IInv, TeamInv, TypeOK
  <2> QED
    BY <2>1, <2>3 DEF IInv
<1>2. CASE BuildStep /\ Witness
  BY <1>2, ObserveRuntimeKeeps, StatReadyKeeps, ScanRunsKeeps, ScanPlannerJobsKeeps, ScanQueueKeeps, ReturnKeeps
  DEF BuildStep
<1>3. CASE (ListIntent \/ Change) /\ Witness
  BY <1>3, ListIntentKeeps, ChangeKeeps
<1>4. CASE UNCHANGED vars
  <2>1. UNCHANGED <<teamvars, dashvars, readvars>>
    BY <1>4 DEF vars
  <2>2. TypeOK' /\ ContainerInv'
    BY <2>1 DEF IInv, TeamInv, TypeOK, ContainerInv, teamvars, dockervars, filevars, history
  <2>3. TeamInv'
    BY <2>1, <2>2, OthersKeep DEF IInv, teamvars, dockervars, filevars
  <2>4. SnapshotInv'
    BY <2>1 DEF IInv, SnapshotInv, dashvars, Observed, Operational, ComponentIssue
  <2>5. HeldInv'
    <3>1. Problems' = Problems
      BY <2>1 DEF Problems, teamvars, dockervars, filevars, dashvars
    <3> QED
      BY <2>1, <3>1
      DEF IInv, HeldInv, dashvars, readvars, Observed, MarkerRead, RunsRead, Operational, ComponentIssue
  <2>6. WellInv'
    <3>1. Well' = Well
      BY <2>1 DEF Well, ReadyIsFresh, teamvars, dockervars, filevars, dashvars
    <3> QED
      BY <2>1, <3>1 DEF IInv, WellInv, dashvars, readvars, teamvars, dockervars, Observed
  <2> QED
    BY <2>3, <2>4, <2>5, <2>6 DEF IInv
<1> QED
  BY <1>1, <1>2, <1>3, <1>4 DEF Next, HostStep

-----------------------------------------------------------------------------
(* The theorems                                                             *)

(***************************************************************************)
(* The inductive invariant: what the processes of a container know of each *)
(* other, and what a snapshot knows of the team.                           *)
(***************************************************************************)
THEOREM TeamInvariant == Spec => []IInv
BY InitInv, NextInv, PTL DEF Spec

(***************************************************************************)
(* The circuit breaker: whatever fails, and in whatever order supervisors  *)
(* are started, asked to stop and killed, no worker runs after MaxFailures *)
(* retryable failures in a row, and nobody is suspended for less.          *)
(***************************************************************************)
THEOREM BreakersHold == Spec => []BreakerHolds
<1>1. IInv => BreakerHolds
  BY TeamRunAssumption DEF IInv, TeamInv, AgentInv, BreakerHolds
<1> QED
  BY <1>1, TeamInvariant, PTL

(***************************************************************************)
(* No worker is killed, or left running by run_agentws, that was not asked *)
(* to stop, though supervisors and run_agentws may be killed at any step.  *)
(***************************************************************************)
THEOREM WorkersAreAsked == Spec => []LeftWereAsked
<1>1. IInv => LeftWereAsked
  <2> SUFFICES ASSUME IInv, runner.pc = "dead", NEW a \in Agents, worker[a].pc = "run" \/ worker[a].rc = "unasked"
               PROVE  a \in unnoted
    BY DEF LeftWereAsked
  <2>1. AgentInv(a) /\ CleanupInv(a)
    BY DEF IInv, TeamInv
  <2> QED
    BY <2>1 DEF AgentInv, CleanupInv, NoWorker
<1> QED
  BY <1>1, TeamInvariant, PTL

(***************************************************************************)
(* No problem that lasts is missed by a snapshot, however its reads are    *)
(* interleaved with the team and the host.                                 *)
(***************************************************************************)
THEOREM NoProblemIsMissed == Spec => []AttentionIsComplete
<1>1. IInv => AttentionIsComplete
  <2> SUFFICES ASSUME IInv, snapshot.pc = "done", NEW x \in held PROVE Attention(snapshot)
    BY DEF AttentionIsComplete
  <2>1. /\ snapshot \in SnapshotType /\ Observed /\ snapshot.desired \in {"running", "stopped"}
        /\ snapshot.container # "none" /\ x \in Problems
    BY DEF IInv, SnapshotInv, SnapshotType, HeldInv, Observed
  <2>2. CASE x = <<"job failed">>
    BY <2>2 DEF IInv, HeldInv, Attention, RowErrors
  <2>3. CASE x \in {<<"down">>, <<"lingers">>}
    BY <2>1, <2>3 DEF IInv, HeldInv, Attention, LifecycleSettled, Operational, ComponentIssue
  <2>4. ASSUME Operational(snapshot), snapshot.provider # "ready" \/ snapshot.error \/ snapshot.suspended # {}
        PROVE  Attention(snapshot)
    BY <2>1, <2>4 DEF SnapshotType, Attention, Health, WithAgentHealth
  <2>5. CASE x \in {<<"silent">>, <<"provider">>}
    <3>1. snapshot.desired = "running"
      BY <2>1, <2>5 DEF IInv, HeldInv
    <3>2. CASE ~Operational(snapshot)
      BY <3>1, <3>2 DEF Attention, LifecycleSettled
    <3>3. CASE Operational(snapshot)
      BY <2>1, <2>4, <2>5, <3>3 DEF IInv, HeldInv, MarkerRead
    <3> QED
      BY <3>2, <3>3
  <2>6. CASE \E a \in Agents : x = Suspension(a)
    <3>1. PICK a \in Agents : x = Suspension(a)
      BY <2>6
    <3>2. CASE ~Operational(snapshot)
      BY <2>1, <3>1, <3>2 DEF IInv, HeldInv, Attention, LifecycleSettled
    <3>3. CASE Operational(snapshot)
      BY <2>4, <3>1, <3>3 DEF IInv, HeldInv, RunsRead
    <3> QED
      BY <3>2, <3>3
  <2> QED
    BY <2>1, <2>2, <2>3, <2>5, <2>6, ProblemKinds
<1> QED
  BY <1>1, TeamInvariant, PTL

(***************************************************************************)
(* No snapshot of a team that was well all the time asks for attention,    *)
(* unless one of its reads said that it could not tell.                    *)
(***************************************************************************)
THEOREM NoFalseAlarm == Spec => []AlarmIsJustified
<1>1. IInv => AlarmIsJustified
  <2> SUFFICES ASSUME IInv, snapshot.pc = "done", well, ~snapshot.excused PROVE ~Attention(snapshot)
    BY DEF AlarmIsJustified
  <2>1. /\ snapshot.desired \in {"running", "stopped"}
        /\ IF snapshot.desired = "running"
           THEN snapshot.container = "running" /\ snapshot.healthy /\ snapshot.provider = "ready"
           ELSE snapshot.container = "absent"
        /\ ~snapshot.error /\ snapshot.suspended = {} /\ ~snapshot.planner /\ ~snapshot.failed /\ ~snapshot.errors
    BY DEF IInv, SnapshotInv, SnapshotType, WellInv, Observed
  <2>2. CASE snapshot.desired = "running"
    <3>1. Operational(snapshot) /\ ~ComponentIssue(snapshot)
      BY <2>1, <2>2 DEF Operational, ComponentIssue
    <3>2. Health(snapshot) = "ready"
      BY <2>1, <2>2, <3>1 DEF Health, WithAgentHealth
    <3> QED
      BY <2>1, <2>2, <3>1, <3>2 DEF Attention, LifecycleSettled, RowErrors
  <2>3. CASE snapshot.desired = "stopped"
    <3>1. ~Operational(snapshot)
      BY <2>3 DEF Operational
    <3> QED
      BY <2>1, <2>3, <3>1 DEF Attention, LifecycleSettled, Health, RowErrors
  <2> QED
    BY <2>1, <2>2, <2>3
<1> QED
  BY <1>1, TeamInvariant, PTL

================================================================================
