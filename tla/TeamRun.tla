-------------------------------- MODULE TeamRun --------------------------------
(***************************************************************************)
(* The processes of a team container: runtime.py, which recovers the       *)
(* queue, starts the viewer and run_agentws and ends when one of them      *)
(* does; run_agentws, which starts a supervisor for each agent of the      *)
(* roster, polls them and writes a heartbeat; and the supervisors, which   *)
(* start a worker again and again until it fails too often.                *)
(*                                                                         *)
(* A shell runs a trap between two commands: what a process does between   *)
(* two steps here cannot be interrupted by a signal.  The files are those  *)
(* of agents/.team-runs, which outlive the container.  Docker and DComp    *)
(* create, stop and restart it.                                            *)
(***************************************************************************)
EXTENDS Integers, FiniteSets

CONSTANTS
  Agents,       \* the agents a roster may name
  Rosters,      \* the rosters: sets of agents
  MaxFailures,  \* AGENTWS_MAX_CONSECUTIVE_FAILURES
  MaxAge        \* max_ready_age_seconds, in ticks of the model's clock

ASSUME TeamRunAssumption ==
  /\ Rosters \subseteq (SUBSET Agents) \ {{}} /\ Rosters # {}
  /\ MaxFailures \in Nat \ {0} /\ MaxAge \in Nat

VARIABLES
  intent,     \* what the operator wants: "running" or "stopped"
  container,  \* "absent", "exited" or "up"
  roster,     \* of the container
  runtime,    \* runtime.py: where it is, and stopping
  viewer,     \* the viewer runs
  runner,     \* run_agentws
  sup,        \* the agent supervisors
  worker,     \* the workers they start, with their exit status
  ready,      \* supervisor.ready exists
  age,        \* of the last heartbeat
  suspended,  \* *.suspended
  noted,      \* *.worker-pid
  streak,     \* history: retryable exits of an agent's workers in a row
  unnoted     \* history: a supervisor ended while run_agentws did not know its worker

dockervars == <<intent, container, roster>>
filevars   == <<ready, age, suspended, noted>>
history    == <<streak, unnoted>>
teamvars   == <<dockervars, runtime, viewer, runner, sup, worker, filevars, history>>

NoRunner == [pc |-> "off", termed |-> FALSE, pids |-> {}, polled |-> {}, workers |-> {}]
NoSup    == [pc |-> "off", termed |-> FALSE, failures |-> 0]
NoWorker == [pc |-> "off", rc |-> "none"]

Alive(a)   == sup[a].pc \notin {"off", "dead"}
Works(a)   == worker[a].pc \in {"run", "asked"}
RunnerUp   == runner.pc \notin {"off", "dead", "killed"}

Asked(w)   == IF w.pc = "run" THEN [w EXCEPT !.pc = "asked"] ELSE w
Termed(s)  == IF s.pc \in {"off", "dead"} THEN s ELSE [s EXCEPT !.termed = TRUE]
Dead(s)    == IF s.pc = "off" THEN s ELSE [s EXCEPT !.pc = "dead"]
Killed(w)  == IF w.pc \in {"run", "asked"} THEN [pc |-> "ended", rc |-> IF w.pc = "run" THEN "unasked" ELSE "other"] ELSE w

\* Ten seconds are enough for a shell that is not in a long sleep to run its trap.
TrapsHaveRun ==
  /\ runner.termed => runner.pc \notin {"spawn", "poll"}
  /\ \A a \in Agents : sup[a].termed => sup[a].pc \notin {"forked", "named", "wait"}

-----------------------------------------------------------------------------
(* Docker and DComp                                                         *)

\* The namespace of the container ends, and all processes with it.
ContainerEnds ==
  /\ container' = IF runtime.stopping THEN "absent" ELSE "exited"
  /\ runtime' = [pc |-> "off", stopping |-> FALSE]
  /\ viewer' = FALSE /\ runner' = NoRunner
  /\ sup' = [a \in Agents |-> NoSup] /\ worker' = [a \in Agents |-> NoWorker]
  /\ streak' = [a \in Agents |-> 0] /\ unnoted' = {}
  /\ UNCHANGED <<intent, roster, filevars>>

Boot(r) ==
  /\ container' = "up" /\ roster' = r
  /\ runtime' = [pc |-> "recover", stopping |-> FALSE]
  /\ UNCHANGED <<intent, viewer, runner, sup, worker, filevars, history>>

\* A new container may have a new roster; the restart policy keeps the old one.
Create  == intent = "running" /\ container = "absent" /\ \E r \in Rosters : Boot(r)
Restart == container = "exited" /\ Boot(roster)

SaveIntent ==
  /\ intent' = IF intent = "running" THEN "stopped" ELSE "running"
  /\ UNCHANGED <<container, roster, runtime, viewer, runner, sup, worker, filevars, history>>

\* SIGTERM: request_stop.
DockerStop ==
  /\ intent = "stopped" /\ container = "up" /\ ~runtime.stopping
  /\ runtime' = [runtime EXCEPT !.stopping = TRUE]
  /\ UNCHANGED <<dockervars, viewer, runner, sup, worker, filevars, history>>

Remove ==
  /\ intent = "stopped" /\ container = "exited" /\ container' = "absent"
  /\ UNCHANGED <<intent, roster, runtime, viewer, runner, sup, worker, filevars, history>>

\* Docker has a patience of its own.
DockerKill == runtime.stopping /\ TrapsHaveRun /\ ContainerEnds

-----------------------------------------------------------------------------
(* runtime.py                                                               *)

MoveRuntime(pc) ==
  /\ runtime' = [runtime EXCEPT !.pc = pc]
  /\ UNCHANGED <<dockervars, sup, worker, filevars, history>>

\* The project configuration and the lifetime lock are refused, or recovery
\* ends; a stop does not wait for it.
RecoveryEnds(ok) ==
  /\ runtime.pc = "recover"
  /\ MoveRuntime(IF ok /\ ~runtime.stopping THEN "viewer" ELSE "end")
  /\ UNCHANGED <<viewer, runner>>

StartViewer ==
  /\ runtime.pc = "viewer"
  /\ viewer' = ~runtime.stopping /\ UNCHANGED runner
  /\ MoveRuntime(IF runtime.stopping THEN "end" ELSE "runner")

StartRunner ==
  /\ runtime.pc = "runner"
  /\ runner' = IF runtime.stopping THEN runner ELSE [NoRunner EXCEPT !.pc = "clear"]
  /\ UNCHANGED viewer
  /\ MoveRuntime(IF runtime.stopping THEN "end" ELSE "watch")

\* Mutant: a stop is noticed only when a child has ended.
WatchChildren ==
  /\ runtime.pc = "watch"
  /\ ~viewer \/ ~RunnerUp
  /\ MoveRuntime("end") /\ UNCHANGED <<viewer, runner>>

\* Mutant: the viewer is not polled.
WatchTeam ==
  /\ runtime.pc = "watch"
  /\ runtime.stopping \/ ~RunnerUp
  /\ MoveRuntime("end") /\ UNCHANGED <<viewer, runner>>

Watch ==
  /\ runtime.pc = "watch"
  /\ runtime.stopping \/ ~viewer \/ ~RunnerUp
  /\ MoveRuntime("end") /\ UNCHANGED <<viewer, runner>>

\* terminate: SIGTERM to the groups whose leader runs.  run_agentws has no trap
\* yet while it clears its files, and has none any more once it cleans up.
Terminate ==
  /\ runtime.pc = "end"
  /\ viewer' = FALSE
  /\ runtime' = [runtime EXCEPT !.pc = "grace"]
  /\ IF RunnerUp
     THEN /\ runner' = IF runner.pc \in {"spawn", "poll"} THEN [runner EXCEPT !.termed = TRUE]
                       ELSE [runner EXCEPT !.pc = "killed"]
          /\ sup' = [a \in Agents |-> Termed(sup[a])]
          /\ worker' = [a \in Agents |-> Asked(worker[a])]
     ELSE UNCHANGED <<runner, sup, worker>>
  /\ UNCHANGED <<dockervars, filevars, history>>

\* The children have ended, or are killed after ten seconds.
RuntimeExits == runtime.pc = "grace" /\ (RunnerUp => TrapsHaveRun) /\ ContainerEnds

-----------------------------------------------------------------------------
(* run_agentws                                                              *)

MoveRunner(r) == runner' = r /\ UNCHANGED <<dockervars, runtime, viewer, age, history>>

\* Mutant: an agent that left the roster keeps its marker.
ClearRoster ==
  /\ runner.pc = "clear"
  /\ MoveRunner([runner EXCEPT !.pc = "spawn"])
  /\ ready' = FALSE /\ suspended' = suspended \ roster /\ noted' = {}
  /\ UNCHANGED <<sup, worker>>

Clear ==
  /\ runner.pc = "clear"
  /\ MoveRunner([runner EXCEPT !.pc = "spawn"])
  /\ ready' = FALSE /\ suspended' = {} /\ noted' = {}
  /\ UNCHANGED <<sup, worker>>

\* The fork and the line that adds it to pids, on which the trap relies, are one
\* step: a stop in between reaches the supervisor through the process group.
SpawnSup(a) ==
  /\ runner.pc = "spawn" /\ ~runner.termed
  /\ a \in roster \ runner.pids
  /\ MoveRunner([runner EXCEPT !.pids = @ \cup {a}, !.pc = IF runner.pids \cup {a} = roster THEN "poll" ELSE "spawn"])
  /\ sup' = [sup EXCEPT ![a] = [NoSup EXCEPT !.pc = "sleep"]]
  /\ suspended' = suspended \ {a}
  /\ UNCHANGED <<worker, ready, noted>>

\* Mutant: as if it waited for the first that was started.
SeesOnlyLast(a) == Alive(a) \/ runner.polled # {}

SeesAlive(a) == Alive(a)

Poll(a) ==
  /\ runner.pc = "poll" /\ ~runner.termed
  /\ a \in runner.pids \ runner.polled
  /\ MoveRunner(IF SeesAlive(a) THEN [runner EXCEPT !.polled = @ \cup {a}] ELSE [runner EXCEPT !.pc = "collect"])
  /\ UNCHANGED <<sup, worker, ready, suspended, noted>>

Beat ==
  /\ runner.pc = "poll" /\ ~runner.termed /\ runner.polled = runner.pids
  /\ runner' = [runner EXCEPT !.polled = {}]
  /\ ready' = TRUE /\ age' = 0
  /\ UNCHANGED <<dockervars, runtime, viewer, sup, worker, suspended, noted, history>>

\* stop_team.
Trap ==
  /\ runner.pc \in {"spawn", "poll"} /\ runner.termed
  /\ MoveRunner([runner EXCEPT !.pc = "collect"])
  /\ UNCHANGED <<sup, worker, ready, suspended, noted>>

\* cleanup_team: the workers are looked up before anybody is told.
Collect ==
  /\ runner.pc = "collect"
  /\ MoveRunner([runner EXCEPT !.pc = "ask", !.workers = noted \cap runner.pids])
  /\ ready' = FALSE
  /\ UNCHANGED <<sup, worker, suspended, noted>>

\* Mutant: the workers are left to their supervisors.
AskSupervisors ==
  /\ runner.pc = "ask"
  /\ MoveRunner([runner EXCEPT !.pc = "await"])
  /\ sup' = [a \in Agents |-> IF a \in runner.pids THEN Termed(sup[a]) ELSE sup[a]]
  /\ UNCHANGED <<worker, ready, suspended, noted>>

Ask ==
  /\ runner.pc = "ask"
  /\ MoveRunner([runner EXCEPT !.pc = "await"])
  /\ sup' = [a \in Agents |-> IF a \in runner.pids THEN Termed(sup[a]) ELSE sup[a]]
  /\ worker' = [a \in Agents |-> IF a \in runner.workers THEN Asked(worker[a]) ELSE worker[a]]
  /\ UNCHANGED <<ready, suspended, noted>>

\* All have ended, or are killed after ten seconds.
Quit ==
  /\ runner.pc = "await" /\ TrapsHaveRun
  /\ MoveRunner([runner EXCEPT !.pc = "dead"])
  /\ sup' = [a \in Agents |-> IF a \in runner.pids THEN Dead(sup[a]) ELSE sup[a]]
  /\ worker' = [a \in Agents |-> IF a \in runner.workers THEN Killed(worker[a]) ELSE worker[a]]
  /\ noted' = {}
  /\ UNCHANGED <<ready, suspended>>

\* A command of run_agentws fails, be it the PID file of a supervisor just started;
\* before the trap is set nothing is cleaned up.
RunnerFails ==
  /\ runner.pc \in {"clear", "spawn", "poll"} /\ ~runner.termed
  /\ MoveRunner([runner EXCEPT !.pc = IF runner.pc = "clear" THEN "dead" ELSE "collect"])
  /\ UNCHANGED <<sup, worker, ready, suspended, noted>>

-----------------------------------------------------------------------------
(* A supervisor                                                             *)

At(a, pc) == sup[a].pc = pc /\ ~sup[a].termed
MoveSup(a, s) == sup' = [sup EXCEPT ![a] = s] /\ UNCHANGED <<dockervars, runtime, viewer, runner, ready, age>>

\* run_agent_once, at first and after each sleep.
Fork(a) ==
  /\ At(a, "sleep")
  /\ MoveSup(a, [sup[a] EXCEPT !.pc = "forked"])
  /\ worker' = [worker EXCEPT ![a] = [pc |-> "run", rc |-> "none"]]
  /\ UNCHANGED <<suspended, noted, history>>

\* worker_pid="$!"
Name(a) == At(a, "forked") /\ MoveSup(a, [sup[a] EXCEPT !.pc = "named"]) /\ UNCHANGED <<worker, suspended, noted, history>>

Note(a) ==
  /\ At(a, "named")
  /\ MoveSup(a, [sup[a] EXCEPT !.pc = "wait"])
  /\ noted' = noted \cup {a}
  /\ UNCHANGED <<worker, suspended, history>>

\* Mutant: one retry too many.
SuspendsLate(failures) == failures > MaxFailures

Suspends(failures) == failures >= MaxFailures

\* The worker has ended: 0 is a success, 75 is tried again, all else ends it.
\* A pid that run_agentws has read before names no worker any more.
Reap(a) ==
  /\ At(a, "wait") /\ worker[a].pc = "ended"
  /\ LET failures == IF worker[a].rc = "retry" THEN sup[a].failures + 1 ELSE 0
     IN /\ sup' = [sup EXCEPT ![a].failures = failures,
                    ![a].pc = IF worker[a].rc = "other" THEN "dead" ELSE IF Suspends(failures) THEN "suspended" ELSE "sleep"]
        /\ suspended' = IF worker[a].rc # "other" /\ Suspends(failures) THEN suspended \cup {a} ELSE suspended
  /\ worker' = [worker EXCEPT ![a] = NoWorker]
  /\ noted' = noted \ {a}
  /\ runner' = [runner EXCEPT !.workers = @ \ {a}]
  /\ UNCHANGED <<dockervars, runtime, viewer, ready, age, history>>

\* stop_supervisor or a failing command, then cleanup_supervisor.
Leave(a) ==
  /\ Alive(a) /\ sup[a].pc # "leaving"
  /\ LET known == sup[a].pc \in {"named", "wait"}
     IN /\ MoveSup(a, [sup[a] EXCEPT !.pc = IF known THEN "leaving" ELSE "dead"])
        /\ worker' = IF known THEN [worker EXCEPT ![a] = Asked(@)] ELSE worker
        /\ noted' = IF known THEN noted ELSE noted \ {a}
        /\ unnoted' = IF sup[a].pc = "forked" THEN unnoted \cup {a} ELSE unnoted
  /\ UNCHANGED <<suspended, streak>>

SupTrap(a) == sup[a].termed /\ Leave(a)
SupFails(a) == At(a, "named") /\ Leave(a)

Left(a) ==
  /\ sup[a].pc = "leaving" /\ ~Works(a)
  /\ MoveSup(a, [sup[a] EXCEPT !.pc = "dead"])
  /\ noted' = noted \ {a}
  /\ UNCHANGED <<worker, suspended, history>>

-----------------------------------------------------------------------------
(* Workers, kills and time                                                  *)

WorkerEnds(a, rc) ==
  /\ Works(a)
  /\ worker' = [worker EXCEPT ![a] = [pc |-> "ended", rc |-> rc]]
  /\ streak' = [streak EXCEPT ![a] = IF rc = "retry" THEN @ + 1 ELSE 0]
  /\ UNCHANGED <<dockervars, runtime, viewer, runner, sup, filevars, unnoted>>

\* SIGKILL, from the kernel or an operator.
KillSup(a) ==
  /\ Alive(a)
  /\ sup' = [sup EXCEPT ![a] = Dead(@)]
  /\ unnoted' = IF Works(a) /\ a \notin (IF runner.pc \in {"ask", "await"} THEN runner.workers ELSE noted)
                THEN unnoted \cup {a} ELSE unnoted
  /\ UNCHANGED <<dockervars, runtime, viewer, runner, worker, filevars, streak>>

KillRunner ==
  /\ RunnerUp /\ MoveRunner([runner EXCEPT !.pc = "killed"])
  /\ UNCHANGED <<sup, worker, ready, suspended, noted>>

KillViewer == viewer /\ viewer' = FALSE /\ UNCHANGED <<dockervars, runtime, runner, sup, worker, filevars, history>>
KillContainer == container = "up" /\ ContainerEnds

Tick ==
  /\ age <= MaxAge /\ age' = age + 1
  /\ UNCHANGED <<dockervars, runtime, viewer, runner, sup, worker, ready, suspended, noted, history>>

TeamInit ==
  /\ intent = "running" /\ container = "absent" /\ roster = {}
  /\ runtime = [pc |-> "off", stopping |-> FALSE] /\ viewer = FALSE /\ runner = NoRunner
  /\ sup = [a \in Agents |-> NoSup] /\ worker = [a \in Agents |-> NoWorker]
  /\ ready = FALSE /\ age = MaxAge + 1 /\ noted = {}
  /\ streak = [a \in Agents |-> 0] /\ unnoted = {}
===============================================================================
