---------------------------- MODULE AgentWorker ------------------------------
(***************************************************************************)
(* The worker process of each named agent: it waits for a job, claims it,  *)
(* charges one attempt, runs a model engine, and settles the job when the  *)
(* engine ends.  The commands of the job queue are single steps here, as   *)
(* JobLedger describes them and JobQueue implements them.                  *)
(*                                                                         *)
(* A worker may be told to stop (SIGTERM, SIGINT) at any instruction, the  *)
(* signal may be repeated, the process may be killed, any command it runs  *)
(* may fail or be cut off by its timeout, an operator may reap a job that  *)
(* is being worked on, and the whole container may restart.                *)
(***************************************************************************)
EXTENDS Naturals, FiniteSets

CONSTANTS
  Jobs,         \* the jobs of one role
  Agents,       \* the agents of that role
  MaxAttempts,  \* AGENTWS_MAX_JOB_ATTEMPTS
  NoJob, NoAgent

ASSUME WorkerAssumption ==
  /\ MaxAttempts \in Nat \ {0}
  /\ NoJob \notin Jobs
  /\ NoAgent \notin Agents

\* A role has finitely many agents: the charged attempts can be counted.
ASSUME AgentsAssumption == IsFiniteSet(Agents)

VARIABLES
  status,    \* the state of each job
  owner,     \* who owns a claimed or running job
  attempts,  \* .agent-attempts of each job; no file counts as 0
  worker,    \* the worker process of each agent
  engine,    \* the job an agent's engine, or what is left of it, runs for
  team,      \* the container: "up", "stopping" or "recovering"
  spent,     \* history: launches of a job, those of stopped runs taken back
  tainted    \* history: a worker wrote the count of a job it had lost, or
             \* a stopped one restored a count over another than its own

store == <<status, owner, attempts>>
vars  == <<status, owner, attempts, worker, engine, team, spent, tainted>>

Active   == {"claimed", "running"}
Terminal == {"done", "failed"}
Statuses == {"absent", "pending"} \cup Active \cup Terminal

\* A worker that still does its work: a stop request ends it at once, or is
\* deferred while job-claim runs ("claiming", "taken").
Deferring == {"claiming", "taken"}
Prompt    == {"waiting", "claimed", "recorded", "ready", "running"}
\* The signals are ignored in these.
Masked    == {"cleanup", "settle", "decide", "restore", "transition", "fallback"}
Labels    == {"off", "caught", "finally"} \cup Deferring \cup Prompt \cup Masked

\* What an exit status means to the supervisor: the job is settled (0 or 75)
\* and the worker is started again, or the container must restart.
Exits == {"settled", "fatal"}

Workers ==
  [pc : Labels, job : Jobs \cup {NoJob},
   previous : 0..MaxAttempts, attempt : 0..MaxAttempts,
   deferred : BOOLEAN, interrupted : BOOLEAN, exhausted : BOOLEAN,
   broken : BOOLEAN, launched : BOOLEAN,
   asked : 0..2, seen : {"none", "pending", "active"},
   command : {"none", "job-release", "job-fail"}, last : Exits]

\* A worker process that has exited; of the record only last means anything.
Exited(exit) ==
  [pc |-> "off", job |-> NoJob, previous |-> 0, attempt |-> 0,
   deferred |-> FALSE, interrupted |-> FALSE, exhausted |-> FALSE,
   broken |-> FALSE, launched |-> FALSE,
   asked |-> 0, seen |-> "none", command |-> "none", last |-> exit]

At(a, label) == worker[a].pc = label
JobOf(a) == worker[a].job

Goto(a, label) == worker' = [worker EXCEPT ![a].pc = label]

\* main returns, unless an exception is pending when its finally block ends.
Exit(a, exit) ==
  worker' = [worker EXCEPT ![a] = Exited(IF @.broken THEN "fatal" ELSE exit)]

\* job_owned_by
Owned(j, a) == status[j] \in Active /\ owner[j] = a

Requeue(j) ==
  /\ status' = [status EXCEPT ![j] = "pending"]
  /\ owner' = [owner EXCEPT ![j] = NoAgent]

Finish(j, result) ==
  /\ status' = [status EXCEPT ![j] = result]
  /\ owner' = [owner EXCEPT ![j] = NoAgent]

Least(x, y) == IF x < y THEN x ELSE y

\* The history counts one launch too many and no more.
SpentCap == MaxAttempts + 1

-----------------------------------------------------------------------------
(* Waiting for a job and claiming it.                                      *)

\* The supervisor's loop starts a worker again only after a settled exit;
\* agent-new refuses an agent that still owns an active job.
Spawn(a) ==
  /\ team = "up"
  /\ At(a, "off")
  /\ worker[a].last # "fatal"
  /\ worker' = [worker EXCEPT ![a] =
                  IF \E j \in Jobs : Owned(j, a) THEN Exited("fatal")
                  ELSE [Exited("settled") EXCEPT !.pc = "waiting"]]
  /\ UNCHANGED <<store, engine, team, spent, tainted>>

\* job-wait returned; from here on a stop request is deferred.
BeginClaim(a) ==
  /\ At(a, "waiting")
  /\ \E j \in Jobs : status[j] = "pending"
  /\ Goto(a, "claiming")
  /\ UNCHANGED <<store, engine, team, spent, tainted>>

\* A broken job-claim that takes a claimed job over.
ClaimOfAny(a, j) ==
  /\ At(a, "claiming")
  /\ status[j] \in {"pending", "claimed"}
  /\ status' = [status EXCEPT ![j] = "claimed"]
  /\ owner' = [owner EXCEPT ![j] = a]
  /\ worker' = [worker EXCEPT ![a].pc = "taken", ![a].job = j]
  /\ UNCHANGED <<attempts, engine, team, spent, tainted>>

\* job-claim commits.  The worker learns it when the command has ended.
Claim(a, j) ==
  /\ At(a, "claiming")
  /\ status[j] = "pending"
  /\ status' = [status EXCEPT ![j] = "claimed"]
  /\ owner' = [owner EXCEPT ![j] = a]
  /\ worker' = [worker EXCEPT ![a].pc = "taken", ![a].job = j]
  /\ UNCHANGED <<attempts, engine, team, spent, tainted>>

\* job-claim ended: a deferred stop request is raised now.
Claimed(a) ==
  /\ At(a, "taken")
  /\ worker' = [worker EXCEPT ![a].deferred = FALSE,
                   ![a].pc = IF worker[a].deferred THEN "caught" ELSE "claimed"]
  /\ UNCHANGED <<store, engine, team, spent, tainted>>

\* NO_JOBS: somebody else was faster.
ClaimNothing(a) ==
  /\ At(a, "claiming")
  /\ worker' = [worker EXCEPT ![a].deferred = FALSE,
                   ![a].pc = IF worker[a].deferred THEN "caught" ELSE "waiting"]
  /\ UNCHANGED <<store, engine, team, spent, tainted>>

\* job-wait or job-claim failed, perhaps after it committed: run_bin raises
\* SystemExit before the worker knows of a job to settle.
CommandFails(a) ==
  /\ worker[a].pc \in Deferring \cup {"waiting"}
  /\ worker' = [worker EXCEPT ![a].pc = "finally", ![a].job = NoJob, ![a].broken = TRUE]
  /\ UNCHANGED <<store, engine, team, spent, tainted>>

-----------------------------------------------------------------------------
(* The attempt counter and the engine.                                     *)

\* A broken variant of Record: a count that is not written.
RecordNothing(a) ==
  /\ At(a, "claimed")
  /\ worker' = [worker EXCEPT ![a].pc = "recorded", ![a].attempt = 1]
  /\ UNCHANGED <<store, engine, team, spent, tainted>>

\* record_job_attempt.  The worker owns the job, so that reading the count and
\* renaming the new one into place are one step; its caller has yet to assign
\* the result (Stop takes it back in "recorded").
Record(a) ==
  LET before == attempts[JobOf(a)]
      after  == Least(before + 1, MaxAttempts)
  IN  /\ At(a, "claimed")
      /\ attempts' = [attempts EXCEPT ![JobOf(a)] = after]
      /\ worker' = [worker EXCEPT ![a].pc = "recorded",
                                  ![a].previous = before, ![a].attempt = after]
      /\ tainted' = [tainted EXCEPT ![JobOf(a)] = @ \/ ~Owned(JobOf(a), a)]
      /\ UNCHANGED <<status, owner, engine, team, spent>>

Recorded(a) ==
  /\ At(a, "recorded")
  /\ Goto(a, "ready")
  /\ UNCHANGED <<store, engine, team, spent, tainted>>

\* StoredRetryBudgetExhausted: an earlier launch used up the budget.
Refuse(a) ==
  /\ At(a, "ready")
  /\ worker[a].previous = MaxAttempts
  /\ worker' = [worker EXCEPT ![a].pc = "finally", ![a].exhausted = TRUE]
  /\ UNCHANGED <<store, engine, team, spent, tainted>>

Launch(a) ==
  /\ At(a, "ready")
  /\ worker[a].previous < MaxAttempts
  /\ engine' = [engine EXCEPT ![a] = JobOf(a)]
  /\ spent' = [spent EXCEPT ![JobOf(a)] = Least(@ + 1, SpentCap)]
  /\ worker' = [worker EXCEPT ![a].pc = "running", ![a].launched = TRUE]
  /\ UNCHANGED <<store, team, tainted>>

\* The engine's main process ends; some of its children may live on.
EngineEnds(a) ==
  /\ At(a, "running")
  /\ \E rest \in {engine[a], NoJob} : engine' = [engine EXCEPT ![a] = rest]
  /\ Goto(a, "finally")
  /\ UNCHANGED <<store, team, spent, tainted>>

\* A file cannot be written, the engine cannot be started, a thread dies.
Fail(a) ==
  /\ worker[a].pc \in {"claimed", "ready", "running"}
  /\ Goto(a, "finally")
  /\ UNCHANGED <<store, engine, team, spent, tainted>>

-----------------------------------------------------------------------------
(* What the engine's model does to its job with the queue's commands.      *)

EngineActs(a) == engine[a] # NoJob /\ Owned(engine[a], a)

EngineStarts(a) ==
  /\ EngineActs(a)
  /\ status[engine[a]] = "claimed"
  /\ status' = [status EXCEPT ![engine[a]] = "running"]
  /\ UNCHANGED <<owner, attempts, worker, engine, team, spent, tainted>>

EngineFinishes(a, result) ==
  /\ EngineActs(a)
  /\ result = "done" => status[engine[a]] = "running"
  /\ Finish(engine[a], result)
  /\ UNCHANGED <<attempts, worker, engine, team, spent, tainted>>

EngineReleases(a) ==
  /\ EngineActs(a)
  /\ Requeue(engine[a])
  /\ UNCHANGED <<attempts, worker, engine, team, spent, tainted>>

-----------------------------------------------------------------------------
(* A stop request, and the way out.                                        *)

\* One more request: none, one, or several.
Asked(w) == IF w.asked = 0 THEN 1 ELSE 2

\* While job-claim runs the handler only notes the request.
DeferStop(a) ==
  LET w == worker[a]
  IN  /\ w.pc \in Deferring
      /\ worker' = [worker EXCEPT ![a] = [w EXCEPT !.asked = Asked(w), !.deferred = TRUE]]
      /\ UNCHANGED <<store, engine, team, spent, tainted>>

\* ShutdownRequested is raised; what record_job_attempt returns is lost if it
\* has not been assigned yet.
Stop(a) ==
  LET w == worker[a]
      lost == w.pc = "recorded"
  IN  /\ w.pc \in Prompt
      /\ worker' = [worker EXCEPT ![a] =
           [w EXCEPT !.asked = Asked(w), !.pc = "caught",
                     !.previous = IF lost THEN 0 ELSE w.previous,
                     !.attempt  = IF lost THEN 0 ELSE w.attempt]]
      /\ UNCHANGED <<store, engine, team, spent, tainted>>

\* A broken handler: without a job there is nothing to settle, so it goes on.
CaughtWithoutJob(a) ==
  /\ At(a, "caught")
  /\ \/ JobOf(a) = NoJob /\ Goto(a, "waiting")
     \/ JobOf(a) # NoJob
        /\ worker' = [worker EXCEPT ![a].pc = "finally", ![a].interrupted = TRUE]
  /\ UNCHANGED <<store, engine, team, spent, tainted>>

\* except ShutdownRequested, to its last assignment.
Caught(a) ==
  /\ At(a, "caught")
  /\ worker' = [worker EXCEPT ![a].pc = "finally", ![a].interrupted = TRUE]
  /\ UNCHANGED <<store, engine, team, spent, tainted>>

\* The handler is still installed in the except block: the second request
\* leaves it before interrupted is set.
StopAgain(a) ==
  LET w == worker[a]
  IN  /\ w.pc = "caught"
      /\ worker' = [worker EXCEPT ![a] =
           [w EXCEPT !.asked = Asked(w), !.pc = "finally", !.broken = TRUE]]
      /\ UNCHANGED <<store, engine, team, spent, tainted>>

\* At the head of the finally block a request leaves it unexecuted; just
\* before, it only replaces the exit status.
StopLate(a) ==
  /\ At(a, "finally")
  /\ \/ worker' = [worker EXCEPT ![a] = Exited("fatal")]
     \/ worker' = [worker EXCEPT ![a].broken = TRUE]
  /\ UNCHANGED <<store, engine, team, spent, tainted>>

IgnoreSignals(a) ==
  /\ At(a, "finally")
  /\ Goto(a, "cleanup")
  /\ UNCHANGED <<store, engine, team, spent, tainted>>

\* stop_engine_process_group and join_reader_threads succeed.
CleanUp(a) ==
  /\ At(a, "cleanup")
  /\ engine' = [engine EXCEPT ![a] = NoJob]
  /\ \/ JobOf(a) # NoJob /\ Goto(a, "settle")
     \/ JobOf(a) = NoJob /\ Exit(a, "fatal")
  /\ UNCHANGED <<store, team, spent, tainted>>

\* Broken variants of CleanUpFails for two properties of the runs.
CleanUpFailsQuietly(a) ==
  /\ At(a, "cleanup")
  /\ Exit(a, "settled")
  /\ UNCHANGED <<store, engine, team, spent, tainted>>

CleanUpFailsAndSettles(a) ==
  /\ At(a, "cleanup")
  /\ JobOf(a) # NoJob
  /\ Goto(a, "settle")
  /\ UNCHANGED <<store, engine, team, spent, tainted>>

\* Something of the engine survives: leave the job alone and ask for a restart.
CleanUpFails(a) ==
  /\ At(a, "cleanup")
  /\ Exit(a, "fatal")
  /\ UNCHANGED <<store, engine, team, spent, tainted>>

-----------------------------------------------------------------------------
(* Settlement.                                                             *)

EndWith(a, command) ==
  worker' = [worker EXCEPT ![a].pc = "transition", ![a].command = command,
                           ![a].seen = "none"]

\* settle_stored_retry_budget_exhaustion asks nothing; the other settlement
\* first reads the status.
Settle(a) ==
  LET w == worker[a]
      j == w.job
      refused == w.exhausted /\ ~w.interrupted
  IN
  /\ At(a, "settle")
  /\ \/ /\ refused
        /\ EndWith(a, "job-fail")
        /\ UNCHANGED attempts
     \/ /\ ~refused
        /\ status[j] \in Terminal
        /\ attempts' = [attempts EXCEPT ![j] = 0]
        /\ Exit(a, "settled")
     \/ /\ ~refused
        /\ status[j] \notin Terminal
        /\ worker' = [worker EXCEPT ![a].pc = "decide",
              ![a].seen = IF status[j] = "pending" THEN "pending" ELSE "active"]
        /\ UNCHANGED attempts
  /\ UNCHANGED <<status, owner, engine, team, spent, tainted>>

\* A broken Decide: the budget is looked at before the stop request.
DecideBudgetFirst(a) ==
  LET w == worker[a]
      owned == Owned(w.job, a)
      spentAll == w.attempt = 0 \/ w.attempt = MaxAttempts
  IN
  /\ At(a, "decide")
  /\ \/ owned /\ spentAll /\ EndWith(a, "job-fail")
     \/ owned /\ ~spentAll /\ w.interrupted /\ Goto(a, "restore")
     \/ owned /\ ~spentAll /\ ~w.interrupted /\ EndWith(a, "job-release")
     \/ ~owned /\ Exit(a, "fatal")
  /\ UNCHANGED <<store, engine, team, spent, tainted>>

\* The rest of settle_job_after_process, which asks job_owned_by after it read
\* the status.  A job lost in between has another owner or none, or is being
\* requeued with its agent-id still in place, which counts as unexpected.
Decide(a) ==
  LET w == worker[a]
      owned == Owned(w.job, a)
      over  == w.attempt = 0 \/ w.attempt = MaxAttempts
  IN
  /\ At(a, "decide")
  /\ \/ w.interrupted /\ owned /\ Goto(a, "restore")
     \/ w.interrupted /\ ~owned /\ Exit(a, "fatal")
     \/ ~w.interrupted /\ owned /\ EndWith(a, IF over THEN "job-fail" ELSE "job-release")
     \/ ~w.interrupted /\ ~owned /\ Exit(a, "settled")
     \/ ~w.interrupted /\ ~owned /\ w.seen = "active" /\ Exit(a, "fatal")
  /\ UNCHANGED <<store, engine, team, spent, tainted>>

\* restore_job_attempt: the count goes back to what the worker found.
Restore(a) ==
  LET w == worker[a]
      j == w.job
  IN
  /\ At(a, "restore")
  /\ attempts' = [attempts EXCEPT ![j] = w.previous]
  /\ EndWith(a, "job-release")
  /\ spent' = [spent EXCEPT ![j] = IF w.launched /\ @ > 0 THEN @ - 1 ELSE @]
  /\ tainted' = [tainted EXCEPT ![j] = @ \/ attempts[j] # w.attempt]
  /\ UNCHANGED <<status, owner, engine, team>>

Ends(a) ==
  IF worker[a].command = "job-fail" THEN Finish(JobOf(a), "failed") ELSE Requeue(JobOf(a))

\* run_job_transition succeeds.
Transition(a) ==
  /\ At(a, "transition")
  /\ Owned(JobOf(a), a)
  /\ Ends(a)
  /\ Exit(a, IF worker[a].interrupted THEN "fatal" ELSE "settled")
  /\ UNCHANGED <<attempts, engine, team, spent, tainted>>

\* The command refuses: the job was reaped in the meantime.
TransitionRefused(a) ==
  /\ At(a, "transition")
  /\ ~Owned(JobOf(a), a)
  /\ Goto(a, "fallback")
  /\ UNCHANGED <<store, engine, team, spent, tainted>>

\* The command fails, or is cut off by its timeout before or after it has
\* changed the job.
TransitionFails(a) ==
  /\ At(a, "transition")
  /\ Owned(JobOf(a), a)
  /\ Ends(a) \/ UNCHANGED <<status, owner>>
  /\ Goto(a, "fallback")
  /\ UNCHANGED <<attempts, engine, team, spent, tainted>>

\* A broken fallback that trusts the ownership seen earlier.
FallbackUnchecked(a) ==
  /\ At(a, "fallback")
  /\ Finish(JobOf(a), "failed")
  /\ Exit(a, "fatal")
  /\ UNCHANGED <<attempts, engine, team, spent, tainted>>

\* force_fail_owned_job, under the job's control lock; the planner's notice may
\* be refused.
Fallback(a) ==
  /\ At(a, "fallback")
  /\ \/ Owned(JobOf(a), a) /\ Finish(JobOf(a), "failed")
     \/ UNCHANGED <<status, owner>>
  /\ Exit(a, "fatal")
  /\ UNCHANGED <<attempts, engine, team, spent, tainted>>

-----------------------------------------------------------------------------
(* The team around the workers.                                            *)

\* job-create
Publish(j) ==
  /\ status[j] = "absent"
  /\ status' = [status EXCEPT ![j] = "pending"]
  /\ UNCHANGED <<owner, attempts, worker, engine, team, spent, tainted>>

\* job-reap of a job that may well be worked on.
Reap(j) ==
  /\ status[j] \in Active
  /\ Requeue(j)
  /\ UNCHANGED <<attempts, worker, engine, team, spent, tainted>>

\* SIGKILL, or a stop request before or after the handlers are in place.
Kill(a) ==
  /\ ~At(a, "off")
  /\ worker' = [worker EXCEPT ![a] = Exited("fatal")]
  /\ UNCHANGED <<store, engine, team, spent, tainted>>

\* One supervisor saw an exit it does not retry, and run_agentws ends.
TeamFails ==
  /\ team = "up"
  /\ \E a \in Agents : At(a, "off") /\ worker[a].last = "fatal"
  /\ team' = "stopping"
  /\ UNCHANGED <<store, worker, engine, spent, tainted>>

OperatorStops ==
  /\ team = "up"
  /\ team' = "stopping"
  /\ UNCHANGED <<store, worker, engine, spent, tainted>>

\* The container ends with every process in it, and is started again.
Restart ==
  /\ team = "stopping"
  /\ team' = "recovering"
  /\ worker' = [a \in Agents |-> Exited("settled")]
  /\ engine' = [a \in Agents |-> NoJob]
  /\ UNCHANGED <<store, spent, tainted>>

\* job-reset-orphans --all-active, one job after the other.
Reset(j) ==
  /\ team = "recovering"
  /\ status[j] \in Active
  /\ Requeue(j)
  /\ UNCHANGED <<attempts, worker, engine, team, spent, tainted>>

Resume ==
  /\ team = "recovering"
  /\ \A j \in Jobs : status[j] \notin Active
  /\ team' = "up"
  /\ UNCHANGED <<store, worker, engine, spent, tainted>>

-----------------------------------------------------------------------------

Init ==
  /\ status = [j \in Jobs |-> "absent"]
  /\ owner = [j \in Jobs |-> NoAgent]
  /\ attempts = [j \in Jobs |-> 0]
  /\ worker = [a \in Agents |-> Exited("settled")]
  /\ engine = [a \in Agents |-> NoJob]
  /\ team = "up"
  /\ spent = [j \in Jobs |-> 0]
  /\ tainted = [j \in Jobs |-> FALSE]

\* What a worker does unless something interferes.
Step(a) ==
  \/ BeginClaim(a) \/ (\E j \in Jobs : Claim(a, j)) \/ Claimed(a) \/ ClaimNothing(a)
  \/ Record(a) \/ Recorded(a) \/ Refuse(a) \/ Launch(a)
  \/ Caught(a) \/ IgnoreSignals(a) \/ CleanUp(a)
  \/ Settle(a) \/ Decide(a) \/ Restore(a) \/ Transition(a)
  \/ TransitionRefused(a) \/ Fallback(a)

EngineStep(a) ==
  \/ EngineStarts(a) \/ EngineReleases(a)
  \/ \E result \in Terminal : EngineFinishes(a, result)

Interference(a) ==
  \/ CommandFails(a) \/ Fail(a) \/ DeferStop(a) \/ Stop(a) \/ StopAgain(a)
  \/ StopLate(a) \/ CleanUpFails(a) \/ TransitionFails(a) \/ Kill(a)

TeamStep ==
  \/ TeamFails \/ Restart \/ Resume \/ \E j \in Jobs : Reset(j)

Next ==
  \/ \E a \in Agents : Spawn(a) \/ Step(a) \/ EngineEnds(a) \/ EngineStep(a) \/ Interference(a)
  \/ \E j \in Jobs : Publish(j) \/ Reap(j)
  \/ TeamStep \/ OperatorStops

Spec == Init /\ [][Next]_vars

-----------------------------------------------------------------------------
(* Properties.                                                             *)

TypeOK ==
  /\ status \in [Jobs -> Statuses]
  /\ owner \in [Jobs -> Agents \cup {NoAgent}]
  /\ attempts \in [Jobs -> 0..MaxAttempts]
  /\ worker \in [Agents -> Workers]
  /\ engine \in [Agents -> Jobs \cup {NoJob}]
  /\ team \in {"up", "stopping", "recovering"}
  /\ spent \in [Jobs -> 0..SpentCap]
  /\ tainted \in [Jobs -> BOOLEAN]

\* A worker's record answers for a job.
Answers(w, j) ==
  \/ w.job = j
  \/ w.broken
  \/ w.pc = "off" /\ w.last = "fatal"

HasWorker(j) == Answers(worker[owner[j]], j)

\* An active job has a worker that will settle it, or the agent has exited in
\* a way that makes the team restart and reset the queue.
NoStrandedJob ==
  team = "up" => \A j \in Jobs : status[j] \in Active => HasWorker(j)

\* The worker that launched an engine is still short of settlement, or has
\* exited in a way that ends the container.
Watches(w) ==
  \/ w.pc \in {"running", "caught", "finally", "cleanup"}
  \/ w.pc = "off" /\ w.last = "fatal"

\* A living engine is watched: no job is settled, and no worker started again,
\* beside what stop_engine_process_group could not remove.
EngineIsWatched == \A a \in Agents : engine[a] # NoJob => Watches(worker[a])

\* record_job_attempt bounds the launches of a job, whatever releases, reaps,
\* kills and restarts happen, unless a stopped worker put its old count in the
\* place of one it does not know, or a worker that was reaped before it had
\* charged its attempt goes on regardless.
BudgetKept ==
  \A j \in Jobs : ~tainted[j] =>
    /\ spent[j] <= MaxAttempts
    /\ status[j] \notin Terminal => spent[j] <= attempts[j]

\* A worker asked once to stop never ends its job through job-fail.
SingleStopSpares ==
  \A a \in Agents :
    worker[a].asked = 1 => worker[a].command # "job-fail"

\* The inductive invariant behind these; BudgetKept needs BudgetInv, below, as
\* well.  A worker that has begun to settle has a job, one that has not begun to
\* claim has none.
WellFormed(w) ==
  /\ w.pc = "off" => w = Exited(w.last)
  /\ w.pc \in {"waiting", "claiming"} => w.job = NoJob
  /\ w.pc \in (Labels \ {"off", "waiting", "claiming", "caught", "finally", "cleanup"})
       => w.job # NoJob
  /\ w.command # "none" => w.pc \in {"transition", "fallback"}

\* A stop request leaves its trace until settlement.
Traced(w) ==
  /\ w.pc = "caught" \/ w.deferred => w.asked > 0
  /\ w.asked = 1 =>
       \/ w.pc \in Deferring /\ w.deferred
       \/ w.pc = "caught"
       \/ w.interrupted
       \/ w.job = NoJob /\ w.pc \in {"finally", "cleanup"}
  /\ w.interrupted => w.command # "job-fail"

WorkerShape == \A a \in Agents : WellFormed(worker[a]) /\ Traced(worker[a])

OwnerShape == \A j \in Jobs : (status[j] \in Active) = (owner[j] \in Agents)

\* Between the end of a container and the end of its recovery nothing runs.
QuietRecovery ==
  /\ team = "recovering" => \A a \in Agents : At(a, "off") /\ engine[a] = NoJob
  /\ team # "recovering" => \A j \in Jobs : status[j] \in Active => HasWorker(j)

IInv ==
  /\ TypeOK
  /\ WorkerShape
  /\ OwnerShape
  /\ QuietRecovery
  /\ EngineIsWatched

\* What a worker's record says of the attempt it was charged: none before
\* job-claim has ended well, one from Record to the end of settlement, and an
\* engine only for an attempt within the budget.
Charged(w) ==
  /\ w.pc \in {"off", "waiting", "claiming", "taken", "claimed"} => w.attempt = 0
  /\ w.pc \in {"recorded", "ready"} => w.attempt > 0 /\ ~w.launched
  /\ w.attempt = 0 => w.previous = 0 /\ ~w.launched
  /\ w.attempt > 0 => w.attempt = Least(w.previous + 1, MaxAttempts)
  /\ w.launched => w.previous < MaxAttempts

\* Until it settles, a worker may take its attempt back, or spend it on a launch.
Charging(w, j) == w.job = j /\ w.pc \notin {"transition", "fallback"}

Spending(j) == {a \in Agents : Charging(worker[a], j) /\ worker[a].launched}

Saving(j) ==
  {a \in Agents : /\ Charging(worker[a], j)
                  /\ worker[a].attempt > 0
                  /\ worker[a].previous < MaxAttempts
                  /\ ~worker[a].launched}

\* A terminal job's count may be gone: what its workers may launch is bounded
\* by what they were charged before it ended.
Budget(j) == IF status[j] \in Terminal THEN MaxAttempts ELSE attempts[j]

\* Every launch that may be taken back is counted, and every attempt charged
\* and not yet spent has its place in the budget.
Balanced(j) ==
  /\ Cardinality(Spending(j)) <= spent[j]
  /\ spent[j] + Cardinality(Saving(j)) <= Budget(j)

BudgetInv ==
  /\ \A a \in Agents : Charged(worker[a])
  /\ \A j \in Jobs : ~tainted[j] => Balanced(j)

\* What the workers do to the jobs is what the queue promises: no takeover, no
\* second end, no claim of a job that is not pending.
Ledger == INSTANCE JobLedger
  WITH WorkJobs <- {}, NoticeOf <- [s \in {} |-> s], Planners <- Agents,
       marker <- [j \in Jobs |-> NoJob]

LedgerSpec == Ledger!Spec

\* tools/README.md, "Each claimed job receives at most three model-process
\* attempts by default": no launch beyond the budget.
AtMostMaxAttempts == \A j \in Jobs : spent[j] <= MaxAttempts

=============================================================================
