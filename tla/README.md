# Cyclo: a verification project

Cyclo runs teams of language-model agents in containers. A *team* container
hosts AgentWS, a file-based job queue worked by named agents; model traffic of
a team goes through provider *components* (gateway, pooler, OpenAI front end,
passthrough); a host command-line program creates, starts, stops and repairs
the component instances and keeps their state on disk.

This directory holds TLA+ modules translated from that code, the TLC
configurations that check them on small instances, and theorems about them that
TLAPS checks for every instance. Paths below are relative to `src/src/cyclo/`
unless they begin with `src/`.

## 1. The system

| Component | State it keeps | Operations | What is hard about it |
|---|---|---|---|
| Job queue (`components/team/agentws/bin/job-*`, `lib-agentws`, `tools/planner_notification.py`) | per job: `status`, `lock/`, `agent-id`, `.terminal-notice-source`, `.control.lock` | create, claim, wait, start, done, fail, release, reap, reset-orphans | every change is several file writes; any command may be killed between two; commands of several agents interleave; the container restarts |
| Task publication (`bin/task-create`) | a task and its first planner job, staged and final, in two roots that may be two mounts | create, recover an interrupted creation | no single rename publishes both; signals and SIGKILL; a repeated call must finish or undo |
| Task records (`bin/task-comment`, `task-state`, `task-result`) | comments, state, result of a task | comment, open/close, publish a result | several writers under one lock; a result and a state that must agree |
| Agent worker (`tools/agent`, `tools/agent-pi-interactive`, `tools/pi_rpc.py`) | the claimed job, `.agent-attempts`, the model process | claim, start, run, settle, release | an operator's shutdown races with every step; an attempt budget that survives restarts; settlement that fails |
| Team supervisor (`tools/run_agentws`, `team/runtime.py`) | child processes, the runtime lock | recover the queue, start agents, restart, shut down | one lock, one recovery, and orphans of a killed parent |
| Queue readers (`tools/queue_reader.py`, `task_read.py`, `tools/agentws`, `tools/agentws-public`, `dashboard.py`) | a cached snapshot | read, page, serve | reads without locks |
| Instance store (`state.py`) | `run.json` of every instance, the journal of a cohort, `control.lock` | save, save-many, recover, remove, load, list | several files published as one; crash between renames; readers that take no lock |
| Lifecycle (`cli.py`, `runtime.py`, `dcomp_system.py`, `dcomp.py`) | committed intent, generated descriptors and system file, what DComp runs | run, refresh, start, stop, forget, repair, shutdown | a command that fails half way; order of consumers and providers |
| Project and team definition (`project*.py`, `mounts.py`, `authority.py`, `team/*.py`) | `project.cyclo`, the files of a team repository, the queue directory | validate, resolve, digest, freeze | a user edits the files while a command reads them, parses them and reads them again |
| Gateway (`components/gateway`, `gateway_admin.py`) | credential store, leases, catalogue, audit log | login, logout, refresh token, catalogue, infer | concurrent refresh of one credential; a catalogue that changes while an inference runs |
| Pooler (`components/pooler`) | per pool: a cursor and cooldowns; the catalogue generation | refresh, infer with fall-over | an attempt that fails before, or after, its first event |
| OpenAI front end (`components/openai`) | a response being streamed | translate requests and events | event order, cancellation, half-finished tool calls |
| Host services (`host.py`, `dcomp_system.py`, `team/component.py`) | `host.conf`, the generated component system | parse, bind components, validate, compile | what the parsers accept must be what DComp accepts |
| Passthrough, protocol (`components/passthrough`, `components/protocol`) | a connection | forward, encode | none of its own |
| Pi adapter (`components/team/pi`) | a model session | stream, abort | cancellation and late events |

How they interact: the host starts components in dependency order and waits for
their status; a team's agents call only the commands of `bin/`, under the locks
those commands take; `task-create` and the queue readers run from the host on
the same directories; the model process of an agent calls its provider through
the pi adapter, and that provider may itself be a pooler over several gateways.

What would make each part correct is stated as properties in the modules below
and as the list `hazards` of `PROJECT.json`, which names for every hazard the
line where it bites and the properties that would notice.

The models fall into six parts that meet at one interface each. The *queue*
(`JobQueue`) and the *workers* (`AgentWorker`) meet in the ledger, which both
implement; `TaskCreate` asks how the first job of a task gets into that queue.
The *team* (`TeamRun`) starts the workers and asks them to stop; what a worker
then does is `AgentWorker`. The *store* (`InstanceStore`) is what lets the
*realm* (`Realm`) and the *launch* (`Launch`) commit in one step: `Realm` asks
what failures, kills and DComp do to a command, `Launch` what a user who edits
does to it. The *provider system* (`Provider`) composes the pooler and the
gateway call by call.

## 2. Modules

| Module | Role |
|---|---|
| `JobLedger` | what the job queue promises, every command one atomic step |
| `JobQueue` | the commands of `bin/`, one action per write, with kills and restarts |
| `JobQueueLive` | the same queue with its fairness and the liveness properties |
| `MCJobQueue`, `MCJobQueueLive` | the instances TLC checks |
| `JobQueueProofs` | the queue's invariant, its refinement of `JobLedger`, and that a restarted team starts on a clean queue |
| `TaskCreate` | `bin/task-create`: staging, rollback, commit, recovery, and the queue's side of the planner job |
| `TaskCreateProofs` | the invariant of a creation and its safety properties |
| `AgentWorker` | `tools/agent` with its signals, attempt counter, engine and settlement, on an atomic queue |
| `AgentWorkerLive` | the same workers with their fairness and the liveness properties |
| `MCAgentWorker` | the instance TLC checks |
| `AgentWorkerProofs` | the workers' invariant and its consequences, the books of the retry budget, and that the workers use the queue as `JobLedger` allows |
| `Inventory` | what the instance store promises: cohorts are committed at once |
| `InstanceStore` | `state.py`, one action per file operation, with kills and refused writes |
| `InstanceStoreReads` | the same store with the inventories each call has overlapped, to judge what it returned |
| `MCInstanceStore` | the instance TLC checks |
| `InstanceStoreProofs` | the store's invariant, its refinement of `Inventory`, linearizable reads |
| `Realm` | the lifecycle commands over committed intent, generated files and DComp |
| `RealmProofs` | the realm's invariant and its safety properties |
| `Sources` | directories, links, mounts and the authority over host roots |
| `Definitions` | what `project.cyclo`, a team repository and a catalogue mean |
| `HostGraph` | what `host.conf` means, and the component system compiled from it |
| `Launch` | run, refresh, start, stop and forget, reading those files one after the other while a user edits |
| `MCLaunch` | the instance TLC checks |
| `LaunchProofs` | what each command has established so far, and that what it compiles is a valid system |
| `Traffic` | what pooler and gateway share: the calls and the time |
| `Pooler` | scheduler, cooldowns, catalogue generations, fall-over |
| `Gateway` | credential store, refresh under its lock, commands, response and audit |
| `Provider` | the pooler in front of the gateway, with a workload |
| `MCProvider` | the instance TLC checks |
| `ProviderProofs` | the invariant of the provider system and its safety properties |
| `TeamRun` | the processes of a team container, Docker and DComp around them |
| `Dashboard` | the host's snapshot of one instance, one file after the other |
| `Team` | both, with faults, an operator, fairness and the properties |
| `MCTeam` | the instance TLC checks |
| `TeamProofs` | what each process knows of its children, and each half of a snapshot of the team |

### JobQueue and the code

A job directory is five pieces of state: `status` (`"absent"` until `mv -nT`
publishes the directory), `marker` (`.terminal-notice-source`), `lockDir` (does
`lock/` exist), `agentId` (`agent-id`) and `creating` (does the job's task still
carry `.creating`). `holder` says which process holds the `flock` on the job's
`.control.lock`; `proc` says which command each process slot is executing and
which write comes next.

A command is a chain of actions. Its first one (`ClaimBegin`, `SettleBegin`,
`ReapBegin`, ...) takes the lock and makes the checks that precede the first
write: nobody else writes the job while the lock is held, so taking the lock
and reading under it are one step. The exception is the gate of a terminal
notice, which reads the status of *another* job, whose lock it does not hold;
`Gate` is a step of its own for that reason. After that, every file-system
change is one action, in the order of the shell script:

| Command | Chain |
|---|---|
| `job-claim` | `ClaimBegin` `Gate` `Finalize` `Repair` `Forget` `Mkdir` `Own` `Commit` |
| `job-wait` | `WaitBegin` `Gate` `Finalize` `Repair` `Forget` |
| `job-start` | `StartBegin` `Starting` |
| `job-done`, `job-fail` | `SettleBegin` `Notify` (`Publish` `Verify`) `Settle` `Unlock` |
| `job-release`, `job-reap`, `job-reset-orphans` | `...Begin` `Demote` `Disown` `Rmdir` |
| recovery (`--all-active`) | `Boot`, then for each job `BootVisit` and the chain above, `BootDone` |
| `task-create` | `CreateTaskJob` or `RecoverTaskJob`, `RemoveCreating` |
| `job-create` | `CreateJob` |

Failures are actions too. `Kill` is SIGKILL between any two writes. `Crash` is
the death of PID 1. `job-done` starts a Python notifier which starts
`job-create`, and those three die separately: `KillShell` leaves the notifier
with an inherited descriptor of the lock, and `KillNotifier` (which is also what
the notifier's own 5 s timeout can amount to when the killed shell's child runs
on) leaves a `job-create` that publishes at any later time, `Stray`.
`job-notify-planner`, the manual repair command, is the same publication without
a lock and is covered by the same step.

Left out: job files that no decision reads (`name`, `role` beyond "planner or
not", prompts, logs), foreign files placed in `lock/` by hand (the commands
refuse to continue), symbolic-link checks, failing disks. `ReapBegin` lets the age of
a lock be anything, so it stands for every threshold and for `--force`. An agent
is any caller: the model lets any agent run any command at any time, which is
what the commands must withstand.

### TaskCreate and the code

A task and its first planner job live under two roots, so two renames publish
them. The module follows one task identifier. `taskStage`, `jobStage`, `task`
and `job` say which transaction each of the four directories belongs to, if it
exists; `creating` is the `.creating` marker of the published task; `createLock`
and `jobLock` are the two `flock`s. A call of `task-create` is a creator that
runs once, so its name serves as the token it makes up.

| Part of `task-create` | Actions |
|---|---|
| the global lock, `recover_interrupted_commit` | `Lock`, `InspectFresh`, `InspectRecover` |
| `create_task_stage`, `create_planner_job_stage` | `StageTask` `OwnTask`, `StageJob` `OwnJob`: the rename, then the flag that records the ownership |
| a signal or a failing command, `cleanup` | `Abort`, `CleanTask`, `CleanJob` |
| `finish_commit`, signals masked | `BeginCommit` `PublishTask` `Check` `PublishJob` `RemoveMarker` |
| SIGKILL at any point | `KillCreator` |

The queue's side is `WorkerLock`, `WorkerFinalize`
(`finalize_pending_task_creation_locked`), `WorkerEnd` and `Requeue`;
`ForeignJob` is a job that somebody else creates under the planner job's name.
Directories under private build names are invisible to everybody and left out;
`rm -rf` of a stage is one step; the status write into a stage that no other
process reads is part of `Check`. `JobQueue` contains the creation as two atomic
actions (`CreateTaskJob`, `RecoverTaskJob`) and its marker; `TaskCreate` is the
detail behind them.

### AgentWorker and the code

`worker[a]` is the process of one agent: the line it is at (`pc`), and the local
variables of `main` that settlement reads (`job`, `previous`, `attempt`,
`deferred`, `interrupted`, `exhausted`), a pending exception (`broken`), and the
exit status of the last run, reduced to what the supervisor does with it:
`settled` (0 and 75, the worker is started again) or `fatal` (the container
restarts). `engine[a]` is the process group of the model. `status`, `owner` and
`attempts` are the job's status, owner and `.agent-attempts`.

| Part of `tools/agent` | Actions |
|---|---|
| waiting and claiming, requests deferred | `BeginClaim` `Claim` `Claimed` `ClaimNothing` `CommandFails` |
| `record_job_attempt`, the budget, the engine | `Record` `Recorded` `Refuse` `Launch` `EngineEnds` `Fail` |
| the signal handler | `DeferStop` `Stop` `StopAgain` `StopLate` |
| `except ShutdownRequested`, the head of `finally` | `Caught` `IgnoreSignals` |
| stopping the process group, joining the readers | `CleanUp` `CleanUpFails` |
| `settle_job_after_process`, `restore_job_attempt` | `Settle` `Decide` `Restore` |
| `run_job_transition`, `force_fail_owned_job` | `Transition` `TransitionRefused` `TransitionFails` `Fallback` |
| the model's own commands | `EngineStarts` `EngineFinishes` `EngineReleases` |
| the team | `Spawn` `Kill` `Publish` `Reap` `TeamFails` `OperatorStops` `Restart` `Reset` `Resume` |

The commands of the queue are one step here. That is what theorem `Refinement`
of the queue licenses: at the level of status and owner a chain of writes is one
step of the ledger. What is not one step is a command and its caller's knowledge
of it: `Claim` and `Claimed` are two steps, and a timeout may cut a transition
off before or after it took effect (`TransitionFails`).

`spent` and `tainted` are history variables: they count the launches of a job
and note that its counter was overwritten by a worker that did not know it. No
action reads them. Left out: failing disks while the counter is restored, the
engine's output and the RPC session of `pi_rpc.py`; the suspension of an agent
after repeated failures is in `TeamRun`. The engine acts on its
own job only; other users' interference is `Reap`. `agent-pi-interactive`
settles through the same functions.

### InstanceStore and the code

`entry` is what each instance directory holds (no directory, an empty one, or a
`run.json`), `pending` the journal of a cohort, `lock` the holder of
`control.lock`, and `proc` the call each process is in and its next file
operation. A process calls `save`, `save_many`, `remove`, `load` or `list`, with
or without holding the lock already (`Acquire`, `Release` are `locked()`).

| Part of `state.py` | Actions |
|---|---|
| the test for a journal, without the lock | `Peek` |
| the lock, the recovery of a journal | `Enter` `Check`, then `Mkdir` `Replace` for each document and `UnlinkRecovered` |
| `_save_many_locked` | `WriteBatch`, the same publication, `Committed` |
| `load`, `list` | `Read`; `ReadNext` for each directory, `ReadAll` |
| `remove` | `Remove` |
| a refused write, an exception, a kill | `Fail` |

Left out: the contents of documents (two values of each are enough to tell an
old one from a new one), their validation, the write-once bindings of the host
configuration and the Docker endpoint, and fsync.

### Realm and the code

`control.lock` is held from a command's first read to its last write, so one
command, `cmd`, is under way. `intent` and `image` are what is committed;
`InstanceStore` is the licence to write them in one step (`Commit`). `whole` and
`hollow` are the descriptor directories with and without `component.dcomp`,
`selected` is what `system.dcomp` refers to. DComp is external: `target` is what
it recorded, `op` that an operation is pending, `running` the containers that
run.

| Code | Actions |
|---|---|
| the checks of each `cmd_*` | `BeginRun`, `BeginRefresh`, `BeginStart`, `BeginStop`, `BeginForget`, `BeginRepair`, `BeginShutdown`, `BeginGateway` |
| `store.save`, `save_many` | `Commit` |
| `build_host`, `system` | `Build` (a command's second apply finds the images of the first in its caches) |
| `materialize` | `WriteDescriptor` `Refuse` `Select` `Unlink` `Rmdir` `RmdirStale` `Swept` |
| `_apply_definition`, `shutdown` | `Up`, `Down`, and DComp's `DestroyContainer` `CreateContainer` `Applied` |
| `wait_status`, `require_instances_ready` | `Settle` `NotReady` |
| `store.remove`, restart of the gateway | `Finish` |
| `_prepare_store` | `PrepareStore` |

`run` and `refresh` apply twice, before and after their commit; `cmd.base` tells
which. `BeginRepair` stands for every command that only applies what is
committed (repair, models, providers restart, gateway build), `BeginShutdown`
also for the `dcomp down` of `gateway destroy-store`. `Fail` is any failure or
kill. Left out: validation of sources, mounts and models (it can only fail, and
`Fail` is always possible), ports, volumes, networks, and the difference between
a running and a healthy container; what the validation reads while a user edits
is `Launch`.

### Launch and the code

`place` is the part of the file system an operator may change (a directory with
its inode, a link, nothing), `text` the project files, `repo` the files of each
team repository, `hostconf` and `catalogue` the other two inputs. `docs` are the
committed instances, `configs` the generated configurations, `applied` the
system the last generated file asks for. `cmd` is the command under way: which
step comes next and what it has read so far. `Sources`, `Definitions` and
`HostGraph` are the pure part: what the parsers accept, the ID and the
generation of an instance, when two sources overlap, how `host.conf` and the
running instances become components and links.

| Code | Actions |
|---|---|
| `cmd_run`, `cmd_refresh`, `cmd_start`, `cmd_stop`, `cmd_forget` | `BeginRun`, `BeginRefresh` with `NextInstance`, `BeginStart`, `BeginStop` and `BeginStopProject`, `BeginForget` |
| `load_project`, the parts of a team repository | `Load`, `ReadTeam` (one file at a time, in the order of the code) |
| the authority over the host's roots, collisions of IDs | `Authority`, `Collide`, `Select` |
| the team's image, the source identities, the generation | `BuildTeam`, `Capture`, `Generate` |
| the document of each instance | `Bind`, `Verify` |
| the checks across instances, `save_many` | `CheckInstances`, `Commit` |
| `runtime.py` `apply`: `validate_instances`; again in `system` | `Validate`, `Recheck` |
| `make_team_component` for one instance after the other; `Materializer.materialize` | `MakeTeam`, `Materialize` |
| the models a started team needs | `Catalogue` |
| the end of a command | `Finish` |
| the user | `EditProject`, `EditTeam`, `Move`, `EditHost`, `ChangeCatalogue` |

What a project file or `host.conf` says is a record of lists, one list for each
kind of directive or declaration, with a flag for lines the parser refuses. The
compiled system is a pair of families: components indexed by the part of the
host they come from, links by the input they feed.

A digest is the value it is computed from, so two things have one digest only if
they are equal. Left out: names differing only in case, `--image` and
`--offline`, the second roster file name, arguments DComp could not represent, a
provider that is named like a team's component. An ID is the list of its parts,
so that a project `a-b` with a team `c` and a project `a` with a team `b-c` have
two IDs here and one in the code, where the second `run` finds it taken and
refuses (`Collide`); no property is about two such projects. Failures and kills
are `Realm`'s.

A bind of a team has two paths: `checked` is what `validate_instances` resolved
and compared with the other sources, `path` what `make_team_component` resolves
once more and DComp mounts. The user may edit between these two reads as between
any others.

### Provider and the code

`schedulers`, `schedulerState`, `catalogue`, `refreshGeneration` and `refreshes`
are the pooler's variables, `req` its inferences. `store` is the gateway's
`auth.json`, `lock` its kernel lock, `inflight` the map `refreshInFlight`, `gw`
its inferences, `admin` the processes of `gateway login`, `logout` and
`rename`, `log` the audit. Both servers are JavaScript processes: what runs
between two awaits is one step.

| Code | Actions |
|---|---|
| pooler: `refreshCatalogue` | `BeginRefresh`, `Listed`, `ListFails` |
| pooler: `infer`, `PoolAttempt.next`, `PoolScheduler` | `Infer`, `InferDirect`, `Begin`, `Respond`, `End`, `Break`, `Exhausted` |
| gateway: the credential of a call, `freshOAuth` | `Accept`, `RefreshLocked`, `RefreshAnswered`, `RefreshFails`, `RefreshTimesOut` |
| gateway: login, logout, rename | `BeginCommand`, `CommandLocked`, `LoginValidated`, `CommandTimesOut` |
| gateway: the stream, the held response, the audit | `BackendYields`, `BackendEnds`, `Record`, `Leave` |
| the two together | `Ask`, `Go`, `Dispatch`, `Yield`, `Finish`, `Audit`, `Return`, `Refresh`, `Administer`, `Poll`, `List`, `NoList`, `Tick` |

`told`, `newest`, `granted` and `rotated` are history: the latest retry time each
member named, the refresh that began last, the grant each account should have,
the refresh tokens whose successor was stored. A store that cannot be replaced
fails the command or the refresh that wanted to (`RefreshFails`), and one whose
directory cannot be synced after the rename fails the refresh with its successor
in place (`RefreshAnswered`, `synced`). Taken as given: the pool is a list of
member providers (a list of exact models uses the same scheduler, one per pool);
`expires` already has the refresh skew subtracted; an exchange whose answer is
lost is `RefreshFails`; a gateway killed between an exchange and its write, a
client that goes away, and a retry time before 1970 (which the code refuses
with an exception) are left out.

### Team and the code

`intent` and `container` are the operator's and Docker's side, `runtime` is
`runtime.py`, `viewer` and `runner` (`run_agentws`) its children, `sup[a]` and
`worker[a]` the supervisor of an agent and the worker it has started. `ready`
with `age`, `suspended` and `noted` are the files of `agents/.team-runs`. A
shell runs a trap between two commands, so what a process does between two steps
cannot be interrupted. `runner.workers` is what the worker PID files tell
`run_agentws`: a worker that has been reaped is named by none (`Reap`). The fork
of a supervisor and the line that notes its PID are one step (`SpawnSup`): a stop
that comes in between reaches it through the process group `runtime.py` signals.

| Code | Actions |
|---|---|
| `runtime.py` | `RecoveryEnds`, `StartViewer`, `StartRunner`, `Watch`, `Terminate`, `RuntimeExits` |
| `run_agentws`: start, main loop, `cleanup_team` | `Clear`, `SpawnSup`, `Poll`, `Beat`; `Trap`, `Collect`, `Ask`, `Quit`; `RunnerFails` |
| `run_agentws`: the supervisor of an agent | `Fork`, `Name`, `Note`, `Reap`, `SupTrap`, `SupFails`, `Left` |
| the worker, as far as the supervisor sees it | `WorkerEnds` |
| Docker, DComp, the operator | `Create`, `Restart`, `DockerStop`, `Remove`, `DockerKill`, `SaveIntent` |
| faults | `KillSup`, `KillRunner`, `KillViewer`, `KillContainer` |
| `dashboard.py`, `team/queue.py` | `ListIntent`, `ObserveRuntime`, `StatReady`, `ScanRuns`, `ScanPlannerJobs`, `ScanQueue`, `Return` |

`streak`, `unnoted`, `held` and `well` are history. The delay between two
attempts is not modelled (any step may take any time). A worker that was asked
to stop need not end. `TrapsHaveRun` says that the ten seconds `runtime.py` (and
Docker) wait are enough for traps to run, which is what the code counts on. A scan that meets
its limit is a choice that reports an error; files read while they are written
are the same. Markers of an earlier container may lie in `.team-runs` initially.

## 3. Runs

| Run | Instance | What it shows |
|---|---|---|
| `queue` | one work job, its notice, one initial planner job; a builder, a visitor without an `agents/` directory, a planner; two concurrent processes, symmetric | a settled job has its notice, a notice waits for its source, a recovered queue has no owners, and `JobQueue` implements `JobLedger` |
| `queue_live` | one work job and its notice, a builder and a planner, two processes | the team recovers; a settled job's notice reaches a planner |
| `task_create` | three calls of `task-create`, one worker, two kills | the published pair is whole and recoverable; a failing call keeps what others staged; a creation whose planner job is visible is finalized |
| `worker` | one job, two agents, two attempts, symmetric | no stranded job, no unwatched engine, the budget where the counter is protected, one stop spares the job, the ledger |
| `worker_live` | one job, one agent, two attempts | a stop is honoured; jobs end |
| `worker_budget` | one job, one agent | *violated*: a stop handled before the worker knows the count gives the job its whole budget back |
| `instance_store` | two processes, two instances, two documents | cohorts are committed whole and once, reads without a lock are linearizable, lists are snapshots |
| `realm` | two teams, two images, the gateway as the only provider component | reports are true; repair converges unless an emptied descriptor directory is in its way |
| `realm_killed` | one team, two images, two provider builds | *violated*: such a directory is refused for ever |
| `launch` | two projects that share a directory, two team repositories of one name, an alias of a project's directory, four inputs of which two edits (441,665 states) | what is committed fits the files it names, what is mounted where it was checked is separate, what is applied is wired, refresh rebuilds what it was asked for from one directory |
| `provider` | two members that are two accounts, two calls, symmetric, three workloads (3,796,312 states) | no output is repeated, the newest catalogue settles, cooldowns outlive catalogues, no refresh token with a stored successor is used again, no update of the store is lost, no answer before its audit |
| `team` | two agents or one of them, two failures to suspension, six workloads (527,352 states) | failures suspend exactly when they should; a stop, a dead supervisor and any fault end or heal the team; the dashboard reports what is wrong and nothing else |

What a theorem of section 4 states for every instance is, as a rule, not
repeated in a run; each part's inductive invariant was model-checked before it
was proved.

In the queue's runs nothing is counted, so they have no artificial bound: TLC
visits every reachable state of the instance. The bounds are the numbers of jobs
and processes. Commands synchronise on one job's lock, or through the
source-and-notice pair, so two processes and one such pair already show every
pairwise interference; the initial planner job adds the `.creating` marker. The
theorems below carry the safety part to every number of each.

`task_create` bounds the kills (`MaxKills`) and the calls: with two kills a
third call still meets what two interrupted ones left, staged, half published
and half rolled back. Each call ends, and then nothing is left to happen, so
these runs do not check for deadlock; nor do the workers' runs, in which all
jobs may have ended. `worker` has one job, because workers meet only over a job,
and two agents, so that one can lose the job to the other at every step; two
attempts are the smallest budget that has a first, a last and a refused launch.
`spent` is cut off at `SpentCap`, one above the budget, which is enough to tell
an excess.

`instance_store` and `realm` count nothing and visit every reachable state. A
cohort of two documents is the smallest that can be torn, and two processes are
one that writes and one that reads or recovers. In `realm` two teams let one
command be about a team while the other is left alone, wanted or not; descriptors
become unused by stops and refreshes. The proofs below carry all but the
convergence to any number of teams, images and provider components.

`launch` bounds what an operator does: `MaxInputs` commands and edits, `MaxEdits`
edits. Two edits are enough to change a file between two reads of a command and
change it back; four inputs are enough for a run, a second run or a refresh, and
the edits around them. The two project files can be given contents that overlap,
nest, repeat a name, reach the state root or make the same instance ID; a team's
directory can be replaced by another inode or by a link to a mount, a mount by a
link to a team. When the
inputs are used up the system stops, so deadlock is not checked.

`provider` starts from one of three workloads, each of which stresses one part:
two pooled calls with catalogues that come and go; two calls by account with a
command that changes the accounts; one pooled call over expiring accounts with a
command. Two members are enough to fall over and to exhaust; two calls to share a
cursor, a cooldown and a refresh. A backend yields at most `MaxYields` responses
before its end (the first and one more are all the code distinguishes); the time
goes on by the `moments` of the workload. A system that has nothing left to do
`Rest`s, so that TLC finds a call that hangs as a deadlock.

`team` starts from one of six workloads, which bound faults, the operator's
commands, snapshots, changes around them, exits of workers and ticks, so that
each question has its own small state space: two agents with a fault and an
operation, three exits in a row, markers an earlier container left, a snapshot
across a fault, across an operation, across exits. `MaxFailures` 2 has a first
and a last failure; `MaxAge` 0 makes one tick the difference between fresh and
stale. A stopped team stops, so deadlock is not checked.

### Fairness

`queue_live` runs under `LiveSpec` of `JobQueueLive`:

* weak fairness of `Step(p)`: a command that is running, and not killed, is
  scheduled until it ends. None of its steps waits on another process.
* weak fairness of `Boot` and `BootDone`: Docker restarts the container and the
  runtime leaves recovery when the reset has ended.
* strong fairness of a `BootVisit`, and of a planner's or builder's claim, per
  job: each waits for a `flock` other commands keep taking and releasing, which
  the kernel grants to waiters; agents poll `job-claim` for ever.

`TeamRecovers` and `NoticeReachesPlanner` speak of runs in which from some point
on no process is killed. That is a variable of `JobQueueLive`, `calm`, and not a
formula about steps, because killing a command that is about to give up leaves
the same state as its giving up. A
calm queue whose jobs are all settled is at rest, so this run does not check
for deadlock.

`task_create` (`FairSpec` of `TaskCreate`) assumes that a running process runs
on and that the kernel serves those who wait for a lock which is released again
and again (strong fairness of `BeginCommit` and `WorkerLock`); agents poll the
queue for ever, so some worker looks at the planner job.

`worker_live` (`LiveSpec` of `AgentWorkerLive`) assumes that a worker is
scheduled, that the supervisor's loop starts it again, that an engine ends, that
the team's parent polls its children, that Docker restarts the container and
that its recovery visits every job. Strong fairness of `Claim(a, j)`: `job-claim`
may overlook a job that comes back while it scans, an agent that keeps asking
gets it. `StopIsHonoured` holds without `calm`; `JobEnds` needs an end of
interference, because an operator may reap or stop for ever.

`realm` and `realm_killed` (`FairSpec` of `Realm`): a command that has begun
goes on until it ends or fails; DComp makes progress while a command waits for
it, and not otherwise, because it is a child process of that command; and once
`calm`, the operator repairs again and again. `calm` is the end of failures:
containers stay up, builds yield what they did, nobody else gives commands.

`team` (`Fairness` of `Team`): `runtime.py`, `run_agentws`, each supervisor, and
Docker with DComp go on when they can (weak fairness of each): processes are
scheduled, Docker restarts a container that exited, DComp does what it was told.
Nothing is assumed of workers: a stop must end the team although a worker never
ends by itself. `TeamServes` is about runs whose faults are used up.

`provider` and `launch` state safety only.

## 4. Proofs

TLAPS checks the following for every finite or infinite set of jobs, agents,
processes and calls, unless an assumption named below says otherwise (the agents
of a role are finite where their iterations are counted).

### The queue

The only assumption is `QueueAssumption` (identifiers are distinct,
`planner_notification_id` is injective and never names a work job or an initial
planner job).

`IInv` is the inductive invariant. The safety properties are not inductive by
themselves: that a job being made `claimed` already has its `lock/` and its
owner follows from where the claiming process *is*. `IInv` therefore adds

* `LockInv`: a process past its first step and the lock it holds name each other,
  so no two processes are inside commands on the same job;
* `NoticeShape`: a marker appears only on the notice of its source;
* `ProcInv`: what each command knows at each label (`ClaimKnows`,
  `SettleKnows`, `ChangeKnows`), for instance that at `settle` the notice of a
  work job is on disk, and that at `commit` `agent-id` already names the claimer.

`JobQueueProofs` proves `Init => IInv` and one lemma per action, and concludes
`Invariant`, `TypeCorrect`, `Ownership`, `NoSilentEnd`, `NoticeGate` and
`CreationFirst`. Its second part shows from `IInv` that every step of the queue
is a step of the ledger or leaves it unchanged (`Refinement`), and that ends are
final and jobs are not taken over (`Finality`, `NoTakeover`). Its third part adds
`RecoveryInv`, which says which jobs the running recovery has already cleaned,
and concludes `CleanStart`.

### Task creation

From `CreateAssumption` (names are distinct; the bound on kills is a number),
`TaskCreateProofs` proves `IInv`: `LockInv` (one call runs at a time, and the
job's lock is held by the call in its commit or by one worker), `DiskInv` (which
combinations of stages and published directories can be on disk) and what a call
knows of the disk at each label (`StagingKnows`, `CommitKnows`, `CleanKnows`).
These are needed because the properties speak of directories only: that
`PublishTask` finds its own stage follows from where the call is. A lemma
(`Bystanders`) shows once that workers and the stranger, who touch no stage and
no task, spoil nothing of it. Concluded: `WholePairs`, `PlannersSeeTasks`, `Recoverable`,
`OthersKept`, `PublishedKept`.

### The workers

From `WorkerAssumption` (a positive budget, distinct names) and
`AgentsAssumption` (a role has finitely many agents), `AgentWorkerProofs` proves
`IInv`: `WorkerShape` (what a worker's record must look like at each label, and
that a stop request leaves its trace until settlement), `OwnerShape` (active
jobs, and only they, have owners), `QuietRecovery` (nothing runs during
recovery; otherwise the owner of an active job answers for it: it has the job,
or an exception pending, or a fatal exit) and `EngineIsWatched`. "Answers for"
is weaker than "has the job" on purpose: between the commit of `job-claim` and
its failure the worker does not know its job, and only the exit status saves it.
A general lemma (`Moves`) says what one worker must establish when it moves, so
that each action's lemma speaks of one record. Concluded:
`JobsAreNeverStranded`, `EnginesAreWatched`, `OneStopSpares`, and
`WorkersKeepTheLedger`, by which the worker level and the queue level meet in
the same abstract specification.

`BudgetKept` compares the launches of a job with its counter, and is not
inductive: between `record_job_attempt` and the launch, and between the launch
and `restore_job_attempt`, the counter and the launches are apart by as many
attempts as there are workers on the way, several of them when a job was reaped
and claimed again. `BudgetInv` keeps books: as long as nobody has written the
counter blindly, the launches plus the attempts charged and not yet launched
(`Saving`) fit in the counter, or in the budget once the job is terminal and its
counter may be gone; and the launches that a worker may still take back
(`Spending`) are among those counted, so that taking one back never takes back
another's. All actions but three take no charge up (`Follows`) and only shrink
the two sets; `Record`, `Launch` and `Restore` move one worker in or out of one
of them. Concluded: `BooksAreBalanced`, `BudgetIsKept`.

### The instance store

`InstanceStoreProofs` assumes no more than distinct names. The journal is the
commit point: the refinement maps the store to `Inventory` with the documents of
a complete journal already in place. `IInv` says that the lock has one holder,
that only the holder writes, and what each call knows at each label, in
particular that a publication loop works on the journal that is on disk and
which of its documents it has replaced. `LocalStep` states what one process must
establish when it moves; `Effects` what each step does to the mapped inventory.
For the reads, `SeenInv` adds that what a call has read so far is in the
inventories it has overlapped: a `load` that saw no journal may read a document
that has been replaced meanwhile, and it is the new inventory it then returns.
Concluded: `StoreInvariant`, `StoreRefinement`, `LoadsAreLinearizable`,
`ListsAreSnapshots`.

### The realm

From `RealmAssumption` (teams and provider components have different names, there
are images), `RealmProofs` proves `IInv`. Its parts beyond the properties:
`Writing` (what a materialization has written so far), `Planned` and `Recorded`
(the plan, and then DComp's target, are what is committed: nobody moves the store
under an apply), `Quiet` (when no operation is pending, what runs is a part of
the target) and `Leaving` (stop, forget and shutdown know that their teams are
stopped, or the target empty). They are needed because readiness is judged by
names: that the container is the one of the *committed image* follows from
`Quiet` and `Recorded` together. Concluded: `RealmInvariant`, `SystemsAreWhole`,
`ForgottenTeamsAreGone`, `CommittedFirst`, `ReportsAreTrue`.

### The provider system

From `ProviderAssumption` (the pool is a nonempty sequence of members; names are
finitely many; retry times and lifetimes are numbers; a workload's store holds
well-formed credentials whose tokens are distinct), `ProviderProofs` proves
`IInv == GateInv /\ PoolInv /\ AuditInv` for any members, models, accounts,
requests, commands and workloads. Its parts:

* `LockInv`: whoever is under the store's lock holds it, and the store is still
  what it read. This is what makes the write after a network call safe;
* `TokenInv`: the tokens in the store are distinct, were issued, and have no stored
  successor. `ExchangedOnce` follows from it and `LockInv`;
* `SchedulerInv`: every catalogue reuses the one scheduler, and what that
  scheduler knows of a member is the latest time the member named (`told`).
  Without it a cooldown could be forgotten with a catalogue;
* `CallOK`: what is true of an inference at each stage, in particular that no
  member is called twice and that what the client has came from the last one;
* `RefreshInv`: one refresh per generation, at most one per waiting call, and the
  newest one to have ended is what is served unless a newer one is still out;
* `AuditOK`: how many records of a call there are, compared with the members it
  was sent to, at each stage of the gateway's call. It is the invariant that
  joins the two components.

There is one lemma per action and part; the two action properties
(`CoolingIsRespected`, `RefusedIsEarliest`) are proved of each step, as `Cooled`
and `RefusedRightly`. That the cursor visits every member needs arithmetic modulo
the number of members, `Remainder`. Concluded: `ProviderInvariant`,
`NoUpdateIsLost`, `TokensAreExchangedOnce`, `CallsGoWhereRouted`,
`NothingIsReplayed`, `NewestCatalogueSettles`, `MembersCoolDown`,
`RefusalsAreRight`, `AnswersAreAudited`.

### The launch

The assumptions: `TextsAreLists` (what an operator writes consists of lists of
directives and declarations, of any length) and `DirectoriesDoNotReturn` (a path
gets at most one new directory, with another inode than the one it replaces).
The second one is a condition on the user that the code needs: `refresh` takes
the identity of a team's directory, reads its files and compares the identity
once more. A directory that is swapped for another and swapped back in between
has the same inode, so that the files of the other one would be bound to it
unnoticed.

`LaunchProofs` proves an `IInv` that says of each step of a command what the
steps before it established and an operator who edits at any moment cannot take
back: what `load_project` and `load_host` promise of what they accepted
(`GoodDefinition`, `GoodHost`: names once, a valid system of providers); that
teams, images and bindings go on in the order of the definition (`TeamsInv`,
`RunInv`, `RefreshInv`); that a bound generation agrees with the team that was
parsed, although its files are read one after the other (`ReadInv`); what is
prepared and committed (`BindingsInv`, `GoodDoc`); how an identity relates to
the directory that was opened (`DirectoryInv`); and that the checked paths of the
binds under way are separate while `MakeTeam` may change where a team is mounted
(`GoodBinds`, `WereApart`). One lemma about the pure
operators is a result of its own, `TheSystemIsValid`: a host `load_host` accepts and
instances of the committed kind compile to a system that `System.validate`
accepts, whatever the user wrote: component names are distinct, every link ends
at one output and one input of the same service, every input is fed exactly once.
Concluded: `LaunchInvariant`, `CommitsAreCoherent`, `SourcesStayApart`,
`OneDirectoryIsRead`, `TheTeamIsFound`, `TheSystemIsWired`.

### The team

From `TeamRunAssumption` (rosters are nonempty sets of agents, the threshold of
failures is positive), `DashboardAssumption` and `TeamAssumption` (the outer
provider is a component, markers name agents), `TeamProofs` proves one `IInv` for
the processes and the dashboard. `PidsInv`: a supervisor exists only for an agent
`run_agentws` lists. `AgentInv`: what the label of a supervisor says of its worker
and of its counter of consecutive failures, which makes the counter on the shell's
stack agree with the history `streak`. `CleanupInv`: while a worker runs,
somebody is left who will ask it to stop, its supervisor or `run_agentws` which
can find it by its PID file. `HeldInv`: each field of a snapshot already read
reports the problems that were there during the whole snapshot; `WellInv`: it
reports nothing of a team that was well all the time. The last two are needed
because a snapshot is read file by file while the team goes on: a condition on
the finished snapshot says nothing about the half of it that is on its way.
Concluded: `TeamInvariant`, `BreakersHold`, `WorkersAreAsked`,
`NoProblemIsMissed`, `NoFalseAlarm`.

### Only model-checked

The liveness properties (`TeamRecovers`, `NoticeReachesPlanner`,
`CreationIsFinalized`, `StopIsHonoured`, `JobEnds`, `RepairConvergesUnlessHollow`,
`DeadSupervisorEndsTeam`, `StopEnds`, `TeamServes`): rules for fairness and
`ENABLED` are out of this prover's reach. Every safety and action property of the
passing runs is stated by a theorem.

## 5. Findings

Two disagreements between the code and its own documents, each a run of its own
(`worker_budget`, `realm_killed`); `PROJECT.json` quotes the lines. Around them,
the passing runs state what does hold: `BudgetKept` (the budget is kept unless a
counter was overwritten that way) and `RepairConvergesUnlessHollow`.

Other things met while modelling, which the models contain or deliberately leave
aside, and which no run of this project refutes:

* `bin/task-create:333`: a signal between the rename of the planner stage and
  `OWN_PLAN_STAGE=1` leaves the stage, and later calls die at line 276
  (`src/tests/test_agentws_task_create.py:264` and `:278` expect rollback). The
  model does this too; `OthersStageIsKept` says what is true of stages.
* `tools/agent:1346`: a second stop request that arrives inside the `except`
  block of the first is not caught by it and fails the job, although
  `tools/README.md:76` says that a requested shutdown "releases the job without
  consuming an attempt".
  `SingleStopSpares` is the part that holds.
* `cli.py:565`: stop of a project path stops the instances with the IDs it
  computes, also when they were run from another project file with that ID.
* `run` takes the identities of its sources after it has read the generation,
  `refresh` before; `RefreshReadsOneDirectory` therefore speaks of refresh only.
* A long ID holds a digest of the project's path as it was selected, while the
  stored `project_file` is resolved; refresh of such an instance that was run
  through a symbolic link does not find its team. `RefreshFindsItsTeam` excludes
  long IDs.
* `docs/architecture.md:387` has Cyclo enforce "before emitting DComp binds" that
  sources are "canonical, distinct, and non-overlapping", on every apply. A team's
  path is resolved once to be checked (`runtime.py:146` and `:263`) and once more
  to be mounted (`team/component.py:86`); `Bind.validate` then asks only whether
  the second result is canonical. A team directory that becomes a link between
  the two is mounted at the link's target, which nothing was compared with: with
  `s.path = s.checked` taken out of `AppliedIsSeparate`, TLC shows it in the
  steps `Recheck`, `Move`, `MakeTeam`, `Materialize`. The property says what
  remains true.
* `credentials.mjs:191`: when the store cannot be replaced after the provider has
  answered, the successor is lost and the next call exchanges the old token
  again, as after a kill in that window. `ExchangedOnce` speaks of successors
  that were stored.
* `load_host` accepts a provider argument with a `#`, which `Component.validate`
  refuses; `HostGraph` takes arguments to be representable.
* The image of a team may be built from a Dockerfile that is edited back before
  the generation is computed; `CommittedIsCoherent` is about the files the
  generation names.
* A stop that reaches `run_agentws` while it cleans up already ends it at once
  (its traps are reset), and the workers it has not asked miss their ten seconds;
  `terminate` signals a process group only while its leader lives, so the workers
  of a killed `run_agentws` end with the container, unasked; and a worker whose
  supervisor ends between lines 323 and 325 is known to nobody. `LeftWereAsked`
  says of exactly which workers this is true.
* The dashboard reports a staged entry of `task-create` as an unsafe name for the
  moment it exists; the health check of a team's image asks the viewer only.

## 6. What is left

Proofs: the steps between the components, which today meet in a common abstract
specification (queue and workers) or not at all: that the store as `Realm` and
`Launch` use it, one step per commit, is `Inventory`; the safety part of the
liveness arguments, such as the measure that falls while a recovery runs.

Models: the write-once bindings of `state.py` with two first commands racing;
comments, state and result of a task with unlocked readers; the order of
translated events in the OpenAI front end and in the pi adapter; a gateway killed
between an exchange and the write that follows it; pools of exact models.

### Not modelled

* Task records (`task-comment`, `task-state`, `task-result`): single files, each
  replaced under the task's lock; what is hard about the queue is elsewhere.
* The team's queue directory (adopting, freezing, opening one): checks before the
  team starts, whose failure is a failing command of `Realm`.
* `queue_reader.py`, `task_read.py`, the viewer: they change nothing and decide
  nothing.
* OpenAI front end and pi adapter: translations without state between calls;
  their hazards are in the grammar of one stream of events, which is data.
* Passthrough, component and provider protocol: they keep no state, or are
  encoding and generated bindings.
* The gateway's catalogue, the encoding of requests for each provider, and the
  repair of a torn audit tail.
* `team/admin.py`, templates, rendering, packaging, roles, Docker itself: no
  behaviour of their own, or external.
