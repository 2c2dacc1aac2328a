-------------------------- MODULE AgentWorkerProofs --------------------------
(***************************************************************************)
(* Theorems of AgentWorker for any number of jobs and agents and any       *)
(* budget.                                                                 *)
(*                                                                         *)
(* The argument: a step changes the record of one worker at most, and the  *)
(* ownership of one job at most.  What IInv says of a worker is a          *)
(* predicate of its record (WellFormed, Traced, Watches), and what it says *)
(* of an active job is that the record of its owner answers for it.        *)
(*                                                                         *)
(* The budget needs a second invariant, BudgetInv, which counts workers:   *)
(* for a job whose count nobody wrote blindly, the launches so far and the *)
(* attempts charged but not yet launched fit in the count, and the         *)
(* launches that may still be taken back are among those counted.  A step  *)
(* that takes no charge up (Follows) only shrinks the sets counted; Record,*)
(* Launch and Restore move one worker in or out of one of them.            *)
(***************************************************************************)
EXTENDS AgentWorker, FiniteSetTheorems, TLAPS

USE WorkerAssumption
USE DEF Labels, Deferring, Prompt, Masked, Exits, Active, Terminal, Statuses

Counts == <<attempts, spent, tainted>>

CountsOK ==
  /\ attempts \in [Jobs -> 0..MaxAttempts]
  /\ spent \in [Jobs -> 0..SpentCap]
  /\ tainted \in [Jobs -> BOOLEAN]

-----------------------------------------------------------------------------
\* An exited worker's record is well formed.
LEMMA ExitedOK ==
  ASSUME NEW exit \in Exits
  PROVE  /\ Exited(exit) \in Workers
         /\ WellFormed(Exited(exit))
         /\ Traced(Exited(exit))
         /\ Exited(exit).pc = "off"
         /\ Exited(exit).last = exit
         /\ Exited(exit).job = NoJob
BY DEF Exited, Workers, WellFormed, Traced

\* One worker moves: it may settle a job or claim one, and its engine may start
\* or end, but no other agent gains or loses anything.
LEMMA Moves ==
  ASSUME IInv, NEW a \in Agents, NEW r \in Workers,
         worker' = [worker EXCEPT ![a] = r], ~At(a, "off"),
         UNCHANGED team, CountsOK',
         status' \in [Jobs -> Statuses], owner' \in [Jobs -> Agents \cup {NoAgent}],
         OwnerShape',
         engine' \in [Agents -> Jobs \cup {NoJob}],
         \A b \in Agents \ {a} : engine'[b] = engine[b],
         WellFormed(r), Traced(r), engine'[a] # NoJob => Watches(r),
         \A j \in Jobs : status'[j] \in Active =>
            IF owner'[j] = a THEN Answers(r, j)
            ELSE status[j] \in Active /\ owner'[j] = owner[j]
  PROVE  IInv'
<1>1. worker'[a] = r /\ \A b \in Agents \ {a} : worker'[b] = worker[b]
  BY DEF IInv, TypeOK
<1>2. TypeOK'
  BY DEF IInv, TypeOK, CountsOK
<1>3. WorkerShape'
  BY <1>1 DEF IInv, WorkerShape
<1>4. EngineIsWatched'
  BY <1>1 DEF IInv, EngineIsWatched
<1>5. QuietRecovery'
  <2>1. team # "recovering"
    BY DEF IInv, QuietRecovery
  <2>2. \A j \in Jobs : status'[j] \in Active => HasWorker(j)'
    BY <1>1, <2>1 DEF IInv, QuietRecovery, HasWorker, OwnerShape
  <2> QED
    BY <2>1, <2>2 DEF QuietRecovery
<1> QED
  BY <1>2, <1>3, <1>4, <1>5 DEF IInv

\* A job changes, and no worker does: it stays with its owner or loses it.
LEMMA JobMoves ==
  ASSUME IInv, UNCHANGED <<worker, engine, team>>, CountsOK',
         status' \in [Jobs -> Statuses], owner' \in [Jobs -> Agents \cup {NoAgent}],
         OwnerShape',
         \A j \in Jobs : status'[j] \in Active => status[j] \in Active /\ owner'[j] = owner[j]
  PROVE  IInv'
<1>1. TypeOK'
  BY DEF IInv, TypeOK, CountsOK
<1>2. WorkerShape' /\ EngineIsWatched'
  BY DEF IInv, WorkerShape, EngineIsWatched
<1>3. QuietRecovery'
  BY DEF IInv, QuietRecovery, HasWorker, At
<1> QED
  BY <1>1, <1>2, <1>3 DEF IInv

\* One worker moves; the jobs, the engines and the team stay.
LEMMA WorkerMoves ==
  ASSUME IInv, NEW a \in Agents, NEW r \in Workers,
         worker' = [worker EXCEPT ![a] = r], ~At(a, "off"),
         UNCHANGED <<status, owner, engine, team>>, CountsOK',
         WellFormed(r), Traced(r), engine[a] # NoJob => Watches(r),
         \A j \in Jobs : Owned(j, a) => Answers(r, j)
  PROVE  IInv'
<1>1. OwnerShape'
  BY DEF IInv, OwnerShape
<1> QED
  BY <1>1, Moves DEF IInv, TypeOK, Owned

\* The worker of an active job knows the job, unless it is about to exit badly.
LEMMA OwnerAnswers ==
  ASSUME IInv, NEW a \in Agents, ~At(a, "off"), NEW j \in Jobs, Owned(j, a)
  PROVE  Answers(worker[a], j) /\ (worker[a].job = j \/ worker[a].broken)
BY DEF IInv, QuietRecovery, HasWorker, Owned, Answers, At

\* A worker that moves on keeps its job and any pending exception.
LEMMA KeepsJob ==
  ASSUME IInv, NEW a \in Agents, NEW r \in Workers,
         worker' = [worker EXCEPT ![a] = r], ~At(a, "off"),
         UNCHANGED <<status, owner, engine, team>>, CountsOK',
         WellFormed(r), Traced(r), engine[a] # NoJob => Watches(r),
         r.job = worker[a].job, worker[a].broken => r.broken
  PROVE  IInv'
<1>1. \A j \in Jobs : Owned(j, a) => Answers(r, j)
  BY OwnerAnswers DEF Answers
<1> QED
  BY <1>1, WorkerMoves

\* The counters stay as they are.
LEMMA SameCounts == ASSUME IInv, UNCHANGED Counts PROVE CountsOK'
BY DEF IInv, TypeOK, Counts, CountsOK

\* A worker's exit, the jobs, the engines and the team staying.
LEMMA ExitMoves ==
  ASSUME IInv, NEW a \in Agents, ~At(a, "off"), NEW exit \in Exits, Exit(a, exit),
         UNCHANGED <<status, owner, engine, team>>, CountsOK',
         exit = "settled" => engine[a] = NoJob /\ ~Owned(worker[a].job, a)
  PROVE  IInv'
<1> DEFINE e == IF worker[a].broken THEN "fatal" ELSE exit
<1>1. e \in Exits
  OBVIOUS
<1>2. worker' = [worker EXCEPT ![a] = Exited(e)]
  BY DEF Exit
<1>3. /\ Exited(e) \in Workers /\ WellFormed(Exited(e)) /\ Traced(Exited(e))
      /\ Exited(e).pc = "off" /\ Exited(e).last = e
  BY <1>1, ExitedOK
<1> HIDE DEF e
<1>4. CASE e = "fatal"
  BY <1>2, <1>3, <1>4, WorkerMoves DEF Watches, Answers
<1>5. CASE e # "fatal"
  <2>1. exit = "settled" /\ ~worker[a].broken
    BY <1>5 DEF e
  <2>2. \A j \in Jobs : ~Owned(j, a)
    BY <2>1, OwnerAnswers
  <2> QED
    BY <1>2, <1>3, <2>1, <2>2, WorkerMoves
<1> QED
  BY <1>4, <1>5

\* A job that stops being active belongs to nobody.
LEMMA JobLeaves ==
  ASSUME IInv, NEW j \in Jobs, NEW s \in Statuses \ Active,
         status' = [status EXCEPT ![j] = s], owner' = [owner EXCEPT ![j] = NoAgent]
  PROVE  /\ status' \in [Jobs -> Statuses]
         /\ owner' \in [Jobs -> Agents \cup {NoAgent}]
         /\ OwnerShape'
         /\ \A i \in Jobs : status'[i] \in Active =>
              i # j /\ status[i] \in Active /\ owner'[i] = owner[i]
<1>1. /\ status' \in [Jobs -> Statuses] /\ owner' \in [Jobs -> Agents \cup {NoAgent}]
      /\ status'[j] = s /\ owner'[j] = NoAgent
      /\ \A i \in Jobs \ {j} : status'[i] = status[i] /\ owner'[i] = owner[i]
  BY DEF IInv, TypeOK
<1>2. OwnerShape'
  BY <1>1 DEF IInv, OwnerShape
<1> QED
  BY <1>1, <1>2

-----------------------------------------------------------------------------
(* Claiming.                                                               *)

\* job-wait returned: the worker still has no job.
LEMMA BeginClaimStep == ASSUME IInv, NEW a \in Agents, BeginClaim(a) PROVE IInv'
<1> DEFINE w == worker[a]
           r == [w EXCEPT !.pc = "claiming"]
<1>1. w \in Workers /\ WellFormed(w) /\ Traced(w) /\ w.pc = "waiting"
  BY DEF IInv, TypeOK, WorkerShape, BeginClaim, At
<1>2. r \in Workers
  BY <1>1 DEF Workers
<1>3. WellFormed(r) /\ Traced(r) /\ r.job = w.job /\ r.broken = w.broken
  BY <1>1 DEF Workers, WellFormed, Traced
<1>4. worker' = [worker EXCEPT ![a] = r] /\ UNCHANGED <<status, owner, engine, team>>
  BY DEF BeginClaim, Goto, store
<1>5. CountsOK'
  BY SameCounts DEF BeginClaim, store, Counts
<1>6. engine[a] = NoJob
  BY <1>1 DEF IInv, EngineIsWatched, Watches
<1> QED
  BY <1>1, <1>2, <1>3, <1>4, <1>5, <1>6, KeepsJob DEF At

\* The count of requests stays in its range.
LEMMA AskedOK == ASSUME NEW w PROVE Asked(w) \in 0..2
BY DEF Asked

\* job-claim ended: a deferred request is raised, and the job is known.
LEMMA ClaimedStep == ASSUME IInv, NEW a \in Agents, Claimed(a) PROVE IInv'
<1> DEFINE w == worker[a]
           r == [w EXCEPT !.deferred = FALSE, !.pc = IF w.deferred THEN "caught" ELSE "claimed"]
<1>1. w \in Workers /\ WellFormed(w) /\ Traced(w) /\ w.pc = "taken"
  BY DEF IInv, TypeOK, WorkerShape, Claimed, At
<1>2. r \in Workers
  BY <1>1 DEF Workers
<1>3. WellFormed(r) /\ Traced(r) /\ r.job = w.job /\ (w.broken => r.broken)
  BY <1>1 DEF Workers, WellFormed, Traced
<1>4. worker' = [worker EXCEPT ![a] = r] /\ UNCHANGED <<status, owner, engine, team>>
  BY DEF Claimed, Goto, store
<1>5. CountsOK'
  BY SameCounts DEF Claimed, store, Counts
<1>6. engine[a] = NoJob
  BY <1>1 DEF IInv, EngineIsWatched, Watches
<1> QED
  BY <1>1, <1>2, <1>3, <1>4, <1>5, <1>6, KeepsJob DEF At

\* NO_JOBS: there is nothing to answer for.
LEMMA ClaimNothingStep == ASSUME IInv, NEW a \in Agents, ClaimNothing(a) PROVE IInv'
<1> DEFINE w == worker[a]
           r == [w EXCEPT !.deferred = FALSE, !.pc = IF w.deferred THEN "caught" ELSE "waiting"]
<1>1. w \in Workers /\ WellFormed(w) /\ Traced(w) /\ w.pc = "claiming"
  BY DEF IInv, TypeOK, WorkerShape, ClaimNothing, At
<1>2. r \in Workers
  BY <1>1 DEF Workers
<1>3. WellFormed(r) /\ Traced(r) /\ r.job = w.job /\ (w.broken => r.broken)
  BY <1>1 DEF Workers, WellFormed, Traced
<1>4. worker' = [worker EXCEPT ![a] = r] /\ UNCHANGED <<status, owner, engine, team>>
  BY DEF ClaimNothing, Goto, store
<1>5. CountsOK'
  BY SameCounts DEF ClaimNothing, store, Counts
<1>6. engine[a] = NoJob
  BY <1>1 DEF IInv, EngineIsWatched, Watches
<1> QED
  BY <1>1, <1>2, <1>3, <1>4, <1>5, <1>6, KeepsJob DEF At

\* A request during job-claim is noted.
LEMMA DeferStopStep == ASSUME IInv, NEW a \in Agents, DeferStop(a) PROVE IInv'
<1> DEFINE w == worker[a]
           r == [w EXCEPT !.asked = Asked(w), !.deferred = TRUE]
<1>1. w \in Workers /\ WellFormed(w) /\ Traced(w) /\ w.pc \in Deferring
  BY DEF IInv, TypeOK, WorkerShape, DeferStop, At
<1>2. r \in Workers
  BY <1>1, AskedOK DEF Workers
<1>3. WellFormed(r) /\ Traced(r) /\ r.job = w.job /\ (w.broken => r.broken)
  BY <1>1 DEF Workers, WellFormed, Traced, Asked
<1>4. worker' = [worker EXCEPT ![a] = r] /\ UNCHANGED <<status, owner, engine, team>>
  BY DEF DeferStop, Goto, store, Asked
<1>5. CountsOK'
  BY SameCounts DEF DeferStop, store, Counts
<1>6. engine[a] = NoJob
  BY <1>1 DEF IInv, EngineIsWatched, Watches
<1> QED
  BY <1>1, <1>2, <1>3, <1>4, <1>5, <1>6, KeepsJob DEF At

\* A failed command: whatever job-claim has committed, an exception is pending.
LEMMA CommandFailsStep == ASSUME IInv, NEW a \in Agents, CommandFails(a) PROVE IInv'
<1> DEFINE w == worker[a]
           r == [w EXCEPT !.pc = "finally", !.job = NoJob, !.broken = TRUE]
<1>1. w \in Workers /\ WellFormed(w) /\ Traced(w) /\ w.pc \in Deferring \cup {"waiting"}
  BY DEF IInv, TypeOK, WorkerShape, CommandFails
<1>2. r \in Workers
  BY <1>1 DEF Workers
<1>3. WellFormed(r) /\ Traced(r) /\ r.broken
  BY <1>1 DEF Workers, WellFormed, Traced
<1>4. worker' = [worker EXCEPT ![a] = r] /\ UNCHANGED <<status, owner, engine, team>>
  BY DEF CommandFails, store
<1>5. CountsOK'
  BY SameCounts DEF CommandFails, store, Counts
<1>6. engine[a] = NoJob
  BY <1>1 DEF IInv, EngineIsWatched, Watches
<1> QED
  BY <1>1, <1>2, <1>3, <1>4, <1>5, <1>6, WorkerMoves DEF At, Answers

-----------------------------------------------------------------------------
(* Running and stopping.                                                   *)

\* The count is assigned; its job stays.
LEMMA RecordedStep == ASSUME IInv, NEW a \in Agents, Recorded(a) PROVE IInv'
<1> DEFINE w == worker[a]
           r == [w EXCEPT !.pc = "ready"]
<1>1. w \in Workers /\ WellFormed(w) /\ Traced(w) /\ w.pc = "recorded"
  BY DEF IInv, TypeOK, WorkerShape, Recorded, At
<1>2. r \in Workers
  BY <1>1 DEF Workers
<1>3. WellFormed(r) /\ Traced(r) /\ r.job = w.job /\ (w.broken => r.broken)
  BY <1>1 DEF Workers, WellFormed, Traced
<1>4. worker' = [worker EXCEPT ![a] = r] /\ UNCHANGED <<status, owner, engine, team>>
  BY DEF Recorded, Goto, store
<1>5. CountsOK'
  BY SameCounts DEF Recorded, store, Counts
<1>6. engine[a] = NoJob
  BY <1>1 DEF IInv, EngineIsWatched, Watches
<1> QED
  BY <1>1, <1>2, <1>3, <1>4, <1>5, <1>6, KeepsJob DEF At

\* A spent budget leads to the finally block with the job.
LEMMA RefuseStep == ASSUME IInv, NEW a \in Agents, Refuse(a) PROVE IInv'
<1> DEFINE w == worker[a]
           r == [w EXCEPT !.pc = "finally", !.exhausted = TRUE]
<1>1. w \in Workers /\ WellFormed(w) /\ Traced(w) /\ w.pc = "ready"
  BY DEF IInv, TypeOK, WorkerShape, Refuse, At
<1>2. r \in Workers
  BY <1>1 DEF Workers
<1>3. WellFormed(r) /\ Traced(r) /\ r.job = w.job /\ (w.broken => r.broken)
  BY <1>1 DEF Workers, WellFormed, Traced
<1>4. worker' = [worker EXCEPT ![a] = r] /\ UNCHANGED <<status, owner, engine, team>>
  BY DEF Refuse, Goto, store
<1>5. CountsOK'
  BY SameCounts DEF Refuse, store, Counts
<1>6. engine[a] = NoJob
  BY <1>1 DEF IInv, EngineIsWatched, Watches
<1> QED
  BY <1>1, <1>2, <1>3, <1>4, <1>5, <1>6, KeepsJob DEF At

\* A failure on the way leads to the finally block with the job.
LEMMA FailStep == ASSUME IInv, NEW a \in Agents, Fail(a) PROVE IInv'
<1> DEFINE w == worker[a]
           r == [w EXCEPT !.pc = "finally"]
<1>1. w \in Workers /\ WellFormed(w) /\ Traced(w) /\ w.pc \in {"claimed", "ready", "running"}
  BY DEF IInv, TypeOK, WorkerShape, Fail, At
<1>2. r \in Workers
  BY <1>1 DEF Workers
<1>3. WellFormed(r) /\ Traced(r) /\ r.job = w.job /\ (w.broken => r.broken)
  BY <1>1 DEF Workers, WellFormed, Traced
<1>4. worker' = [worker EXCEPT ![a] = r] /\ UNCHANGED <<status, owner, engine, team>>
  BY DEF Fail, Goto, store
<1>5. CountsOK'
  BY SameCounts DEF Fail, store, Counts
<1>6. Watches(r)
  BY <1>1 DEF Workers, Watches
<1> QED
  BY <1>1, <1>2, <1>3, <1>4, <1>5, <1>6, KeepsJob DEF At

\* A raised request keeps the job, whatever it loses of the count.
LEMMA StopStep == ASSUME IInv, NEW a \in Agents, Stop(a) PROVE IInv'
<1> DEFINE w == worker[a]
           p == IF w.pc = "recorded" THEN 0 ELSE w.previous
           t == IF w.pc = "recorded" THEN 0 ELSE w.attempt
           r == [w EXCEPT !.asked = Asked(w), !.pc = "caught", !.previous = p, !.attempt = t]
<1>1. w \in Workers /\ WellFormed(w) /\ Traced(w) /\ w.pc \in Prompt
  BY DEF IInv, TypeOK, WorkerShape, Stop
<1>2. worker' = [worker EXCEPT ![a] = r] /\ UNCHANGED <<status, owner, engine, team>>
  BY DEF Stop, store
<1>3. p \in 0..MaxAttempts /\ t \in 0..MaxAttempts
  BY <1>1 DEF Workers
<1> HIDE DEF p, t
<1>4. r \in Workers
  BY <1>1, <1>3, AskedOK DEF Workers
<1>5. WellFormed(r) /\ Traced(r) /\ r.job = w.job /\ (w.broken => r.broken)
  BY <1>1 DEF Workers, WellFormed, Traced, Asked
<1>6. CountsOK'
  BY SameCounts DEF Stop, store, Counts
<1>7. Watches(r)
  BY <1>1 DEF Workers, Watches
<1> QED
  BY <1>1, <1>4, <1>5, <1>2, <1>6, <1>7, KeepsJob DEF At

\* The except block marks the run as interrupted.
LEMMA CaughtStep == ASSUME IInv, NEW a \in Agents, Caught(a) PROVE IInv'
<1> DEFINE w == worker[a]
           r == [w EXCEPT !.pc = "finally", !.interrupted = TRUE]
<1>1. w \in Workers /\ WellFormed(w) /\ Traced(w) /\ w.pc = "caught"
  BY DEF IInv, TypeOK, WorkerShape, Caught, At
<1>2. r \in Workers
  BY <1>1 DEF Workers
<1>3. WellFormed(r) /\ Traced(r) /\ r.job = w.job /\ (w.broken => r.broken)
  BY <1>1 DEF Workers, WellFormed, Traced
<1>4. worker' = [worker EXCEPT ![a] = r] /\ UNCHANGED <<status, owner, engine, team>>
  BY DEF Caught, Goto, store
<1>5. CountsOK'
  BY SameCounts DEF Caught, store, Counts
<1>6. Watches(r)
  BY <1>1 DEF Workers, Watches
<1> QED
  BY <1>1, <1>2, <1>3, <1>4, <1>5, <1>6, KeepsJob DEF At

\* A second request leaves the except block with an exception pending.
LEMMA StopAgainStep == ASSUME IInv, NEW a \in Agents, StopAgain(a) PROVE IInv'
<1> DEFINE w == worker[a]
           r == [w EXCEPT !.asked = Asked(w), !.pc = "finally", !.broken = TRUE]
<1>1. w \in Workers /\ WellFormed(w) /\ Traced(w) /\ w.pc = "caught"
  BY DEF IInv, TypeOK, WorkerShape, StopAgain, At
<1>2. r \in Workers
  BY <1>1, AskedOK DEF Workers
<1>3. WellFormed(r) /\ Traced(r) /\ r.job = w.job /\ (w.broken => r.broken)
  BY <1>1 DEF Workers, WellFormed, Traced, Asked
<1>4. worker' = [worker EXCEPT ![a] = r] /\ UNCHANGED <<status, owner, engine, team>>
  BY DEF StopAgain, Goto, store, Asked
<1>5. CountsOK'
  BY SameCounts DEF StopAgain, store, Counts
<1>6. Watches(r)
  BY <1>1 DEF Workers, Watches
<1> QED
  BY <1>1, <1>2, <1>3, <1>4, <1>5, <1>6, KeepsJob DEF At

\* The finally block masks the signals.
LEMMA IgnoreSignalsStep == ASSUME IInv, NEW a \in Agents, IgnoreSignals(a) PROVE IInv'
<1> DEFINE w == worker[a]
           r == [w EXCEPT !.pc = "cleanup"]
<1>1. w \in Workers /\ WellFormed(w) /\ Traced(w) /\ w.pc = "finally"
  BY DEF IInv, TypeOK, WorkerShape, IgnoreSignals, At
<1>2. r \in Workers
  BY <1>1 DEF Workers
<1>3. WellFormed(r) /\ Traced(r) /\ r.job = w.job /\ (w.broken => r.broken)
  BY <1>1 DEF Workers, WellFormed, Traced
<1>4. worker' = [worker EXCEPT ![a] = r] /\ UNCHANGED <<status, owner, engine, team>>
  BY DEF IgnoreSignals, Goto, store
<1>5. CountsOK'
  BY SameCounts DEF IgnoreSignals, store, Counts
<1>6. Watches(r)
  BY <1>1 DEF Workers, Watches
<1> QED
  BY <1>1, <1>2, <1>3, <1>4, <1>5, <1>6, KeepsJob DEF At

\* A refused command leads to the fallback.
LEMMA TransitionRefusedStep == ASSUME IInv, NEW a \in Agents, TransitionRefused(a) PROVE IInv'
<1> DEFINE w == worker[a]
           r == [w EXCEPT !.pc = "fallback"]
<1>1. w \in Workers /\ WellFormed(w) /\ Traced(w) /\ w.pc = "transition"
  BY DEF IInv, TypeOK, WorkerShape, TransitionRefused, At
<1>2. r \in Workers
  BY <1>1 DEF Workers
<1>3. WellFormed(r) /\ Traced(r) /\ r.job = w.job /\ (w.broken => r.broken)
  BY <1>1 DEF Workers, WellFormed, Traced
<1>4. worker' = [worker EXCEPT ![a] = r] /\ UNCHANGED <<status, owner, engine, team>>
  BY DEF TransitionRefused, Goto, store
<1>5. CountsOK'
  BY SameCounts DEF TransitionRefused, store, Counts
<1>6. engine[a] = NoJob
  BY <1>1 DEF IInv, EngineIsWatched, Watches
<1> QED
  BY <1>1, <1>2, <1>3, <1>4, <1>5, <1>6, KeepsJob DEF At

-----------------------------------------------------------------------------
(* The way out.                                                            *)

\* A process that ends abruptly asks for a restart by its exit status.
LEMMA AbruptEnd ==
  ASSUME IInv, NEW a \in Agents, ~At(a, "off"),
         worker' = [worker EXCEPT ![a] = Exited("fatal")],
         UNCHANGED <<status, owner, engine, team>>, UNCHANGED Counts
  PROVE  IInv'
<1>1. "fatal" \in Exits
  OBVIOUS
<1>2. CountsOK'
  BY SameCounts
<1>3. Watches(Exited("fatal")) /\ \A j \in Jobs : Answers(Exited("fatal"), j)
  BY <1>1, ExitedOK DEF Watches, Answers
<1> QED
  BY <1>1, <1>2, <1>3, ExitedOK, WorkerMoves

\* A killed worker has a fatal exit status.
LEMMA KillStep == ASSUME IInv, NEW a \in Agents, Kill(a) PROVE IInv'
BY AbruptEnd DEF Kill, store, Counts

\* A request at the finally block: the process ends, or an exception is pending.
LEMMA StopLateStep == ASSUME IInv, NEW a \in Agents, StopLate(a) PROVE IInv'
<1> DEFINE w == worker[a]
           r == [w EXCEPT !.broken = TRUE]
<1>1. w \in Workers /\ WellFormed(w) /\ Traced(w) /\ w.pc = "finally"
  BY DEF IInv, TypeOK, WorkerShape, StopLate, At
<1>2. UNCHANGED <<status, owner, engine, team>> /\ UNCHANGED Counts /\ ~At(a, "off")
  BY <1>1 DEF StopLate, store, Counts, At
<1>3. CASE worker' = [worker EXCEPT ![a] = Exited("fatal")]
  BY <1>2, <1>3, AbruptEnd
<1>4. CASE worker' = [worker EXCEPT ![a].broken = TRUE]
  <2>1. r \in Workers
    BY <1>1 DEF Workers
  <2>2. WellFormed(r) /\ Traced(r) /\ r.job = w.job /\ r.broken
    BY <1>1 DEF Workers, WellFormed, Traced
  <2>3. worker' = [worker EXCEPT ![a] = r]
    BY <1>4
  <2>4. Watches(r)
    BY <1>1 DEF Workers, Watches
  <2> QED
    BY <1>2, <2>1, <2>2, <2>3, <2>4, SameCounts, KeepsJob
<1> QED
  BY <1>3, <1>4 DEF StopLate

\* An engine that cannot be stopped makes the exit fatal.
LEMMA CleanUpFailsStep == ASSUME IInv, NEW a \in Agents, CleanUpFails(a) PROVE IInv'
<1>1. ~At(a, "off") /\ Exit(a, "fatal") /\ "fatal" \in Exits
  BY DEF CleanUpFails, At
<1>2. UNCHANGED <<status, owner, engine, team>> /\ UNCHANGED Counts
  BY DEF CleanUpFails, store, Counts
<1> QED
  BY <1>1, <1>2, SameCounts, ExitMoves

\* An engine that started or ended, its worker keeping its job.
LEMMA EngineMoves ==
  ASSUME IInv, NEW a \in Agents, NEW r \in Workers, NEW e \in Jobs \cup {NoJob},
         worker' = [worker EXCEPT ![a] = r], ~At(a, "off"),
         engine' = [engine EXCEPT ![a] = e],
         UNCHANGED <<status, owner, team>>, CountsOK',
         WellFormed(r), Traced(r), e # NoJob => Watches(r),
         \A j \in Jobs : Owned(j, a) => Answers(r, j)
  PROVE  IInv'
<1>1. OwnerShape'
  BY DEF IInv, OwnerShape
<1>2. /\ engine' \in [Agents -> Jobs \cup {NoJob}] /\ engine'[a] = e
      /\ \A b \in Agents \ {a} : engine'[b] = engine[b]
  BY DEF IInv, TypeOK
<1> QED
  BY <1>1, <1>2, Moves DEF IInv, TypeOK, Owned

\* Only after the engine is gone does the worker settle.
LEMMA CleanUpStep == ASSUME IInv, NEW a \in Agents, CleanUp(a) PROVE IInv'
<1> DEFINE w == worker[a]
           r == [w EXCEPT !.pc = "settle"]
<1>1. w \in Workers /\ WellFormed(w) /\ Traced(w) /\ w.pc = "cleanup" /\ ~At(a, "off")
  BY DEF IInv, TypeOK, WorkerShape, CleanUp, At
<1>2. engine' = [engine EXCEPT ![a] = NoJob] /\ UNCHANGED <<status, owner, team>>
  BY DEF CleanUp, store
<1>3. CountsOK'
  BY SameCounts DEF CleanUp, store, Counts
<1>4. CASE JobOf(a) # NoJob /\ Goto(a, "settle")
  <2>1. r \in Workers
    BY <1>1 DEF Workers
  <2>2. WellFormed(r) /\ Traced(r) /\ r.job = w.job /\ r.broken = w.broken
    BY <1>1, <1>4 DEF Workers, WellFormed, Traced, JobOf
  <2>3. worker' = [worker EXCEPT ![a] = r]
    BY <1>4 DEF Goto
  <2>4. \A j \in Jobs : Owned(j, a) => Answers(r, j)
    BY <1>1, <2>2, OwnerAnswers DEF Answers
  <2> HIDE DEF r
  <2> QED
    BY <1>1, <1>2, <1>3, <2>1, <2>2, <2>3, <2>4, EngineMoves
<1>5. CASE JobOf(a) = NoJob /\ Exit(a, "fatal")
  <2>1. worker' = [worker EXCEPT ![a] = Exited("fatal")] /\ "fatal" \in Exits
    BY <1>5 DEF Exit
  <2>2. \A j \in Jobs : Answers(Exited("fatal"), j)
    BY <2>1, ExitedOK DEF Answers
  <2> QED
    BY <1>1, <1>2, <1>3, <2>1, <2>2, ExitedOK, EngineMoves
<1> QED
  BY <1>4, <1>5 DEF CleanUp

\* What survives of an engine is still watched in the finally block.
LEMMA EngineEndsStep == ASSUME IInv, NEW a \in Agents, EngineEnds(a) PROVE IInv'
<1> DEFINE w == worker[a]
           r == [w EXCEPT !.pc = "finally"]
<1>1. w \in Workers /\ WellFormed(w) /\ Traced(w) /\ w.pc = "running" /\ ~At(a, "off")
  BY DEF IInv, TypeOK, WorkerShape, EngineEnds, At
<1>2. PICK rest \in {engine[a], NoJob} : engine' = [engine EXCEPT ![a] = rest]
  BY DEF EngineEnds
<1>3. CountsOK' /\ UNCHANGED <<status, owner, team>>
  BY SameCounts DEF EngineEnds, store, Counts
<1>4. rest \in Jobs \cup {NoJob}
  BY DEF IInv, TypeOK
<1>5. r \in Workers
  BY <1>1 DEF Workers
<1>6. WellFormed(r) /\ Traced(r) /\ r.job = w.job /\ r.broken = w.broken /\ Watches(r)
  BY <1>1 DEF Workers, WellFormed, Traced, Watches
<1>7. worker' = [worker EXCEPT ![a] = r]
  BY DEF EngineEnds, Goto
<1>8. \A j \in Jobs : Owned(j, a) => Answers(r, j)
  BY <1>1, <1>6, OwnerAnswers DEF Answers
<1> HIDE DEF r
<1> QED
  BY <1>1, <1>2, <1>3, <1>4, <1>5, <1>6, <1>7, <1>8, EngineMoves

\* The history of launches stays in its range.
LEMMA LaunchCounts ==
  ASSUME IInv, NEW j \in Jobs, spent' = [spent EXCEPT ![j] = Least(@ + 1, SpentCap)],
         UNCHANGED <<attempts, tainted>>
  PROVE  CountsOK'
<1>1. spent[j] \in 0..SpentCap /\ SpentCap \in Nat
  BY DEF IInv, TypeOK, SpentCap
<1>2. Least(spent[j] + 1, SpentCap) \in 0..SpentCap
  BY <1>1 DEF Least
<1>3. spent' \in [Jobs -> 0..SpentCap]
  BY <1>2 DEF IInv, TypeOK
<1> QED
  BY <1>3 DEF IInv, TypeOK, CountsOK

\* The worker that launched an engine watches it.
LEMMA LaunchStep == ASSUME IInv, NEW a \in Agents, Launch(a) PROVE IInv'
<1> DEFINE w == worker[a]
           r == [w EXCEPT !.pc = "running", !.launched = TRUE]
<1>1. w \in Workers /\ WellFormed(w) /\ Traced(w) /\ w.pc = "ready" /\ ~At(a, "off")
  BY DEF IInv, TypeOK, WorkerShape, Launch, At
<1>2. w.job \in Jobs
  BY <1>1 DEF Workers, WellFormed
<1>3. engine' = [engine EXCEPT ![a] = w.job] /\ UNCHANGED <<status, owner, team>>
  BY DEF Launch, store, JobOf
<1>4. CountsOK'
  BY <1>2, LaunchCounts DEF Launch, store, JobOf
<1>5. r \in Workers
  BY <1>1 DEF Workers
<1>6. WellFormed(r) /\ Traced(r) /\ r.job = w.job /\ r.broken = w.broken /\ Watches(r)
  BY <1>1 DEF Workers, WellFormed, Traced, Watches
<1>7. worker' = [worker EXCEPT ![a] = r]
  BY DEF Launch
<1>8. \A j \in Jobs : Owned(j, a) => Answers(r, j)
  BY <1>1, <1>6, OwnerAnswers DEF Answers
<1> HIDE DEF r
<1> QED
  BY <1>1, <1>2, <1>3, <1>4, <1>5, <1>6, <1>7, <1>8, EngineMoves

-----------------------------------------------------------------------------
(* Claiming, counting and settling.                                        *)

\* A claim makes the claimant answer for the job.
LEMMA ClaimStep ==
  ASSUME IInv, NEW a \in Agents, NEW j \in Jobs, Claim(a, j) PROVE IInv'
<1> DEFINE w == worker[a]
           r == [w EXCEPT !.pc = "taken", !.job = j]
<1>1. w \in Workers /\ WellFormed(w) /\ Traced(w) /\ w.pc = "claiming" /\ ~At(a, "off")
  BY DEF IInv, TypeOK, WorkerShape, Claim, At
<1>2. r \in Workers
  BY <1>1 DEF Workers
<1>3. WellFormed(r) /\ Traced(r) /\ r.job = j /\ r.broken = w.broken
  BY <1>1 DEF Workers, WellFormed, Traced
<1>4. worker' = [worker EXCEPT ![a] = r] /\ UNCHANGED <<engine, team>>
  BY DEF Claim
<1>5. CountsOK'
  BY SameCounts DEF Claim, Counts
<1>6. engine[a] = NoJob
  BY <1>1 DEF IInv, EngineIsWatched, Watches
<1>7. /\ status' \in [Jobs -> Statuses] /\ owner' \in [Jobs -> Agents \cup {NoAgent}]
      /\ status'[j] = "claimed" /\ owner'[j] = a
      /\ \A i \in Jobs \ {j} : status'[i] = status[i] /\ owner'[i] = owner[i]
  BY DEF IInv, TypeOK, Claim
<1>8. OwnerShape'
  BY <1>7 DEF IInv, OwnerShape
<1>9. \A i \in Jobs : status'[i] \in Active =>
        IF owner'[i] = a THEN Answers(r, i)
        ELSE status[i] \in Active /\ owner'[i] = owner[i]
  <2> SUFFICES ASSUME NEW i \in Jobs, status'[i] \in Active, owner'[i] = a, i # j
               PROVE  Answers(r, i)
    BY <1>3, <1>7 DEF Answers
  <2>1. Owned(i, a)
    BY <1>7 DEF Owned
  <2>2. w.job = i \/ w.broken
    BY <1>1, <2>1, OwnerAnswers
  <2>3. w.job = NoJob
    BY <1>1 DEF WellFormed
  <2> QED
    BY <1>3, <2>2, <2>3 DEF Answers
<1> HIDE DEF r
<1> QED
  BY <1>1, <1>2, <1>3, <1>4, <1>5, <1>6, <1>7, <1>8, <1>9, Moves DEF IInv, TypeOK

\* A count written by a worker stays in its range.
LEMMA WriteCounts ==
  ASSUME IInv, NEW j \in Jobs, NEW n \in 0..MaxAttempts, NEW t \in BOOLEAN, NEW k \in 0..SpentCap,
         attempts' = [attempts EXCEPT ![j] = n],
         tainted' = [tainted EXCEPT ![j] = t], spent' = [spent EXCEPT ![j] = k]
  PROVE  CountsOK'
BY DEF IInv, TypeOK, CountsOK

\* record_job_attempt caps the count.
LEMMA RecordStep == ASSUME IInv, NEW a \in Agents, Record(a) PROVE IInv'
<1> DEFINE w == worker[a]
           j == w.job
           before == attempts[j]
           after  == Least(before + 1, MaxAttempts)
           r == [w EXCEPT !.pc = "recorded", !.previous = before, !.attempt = after]
           t == tainted[j] \/ ~Owned(j, a)
<1>1. w \in Workers /\ WellFormed(w) /\ Traced(w) /\ w.pc = "claimed" /\ ~At(a, "off")
  BY DEF IInv, TypeOK, WorkerShape, Record, At
<1>2. j \in Jobs
  BY <1>1 DEF Workers, WellFormed
<1>3. before \in 0..MaxAttempts
  BY <1>2 DEF IInv, TypeOK
<1>4. after \in 0..MaxAttempts
  BY <1>3 DEF Least
<1>5. worker' = [worker EXCEPT ![a] = r] /\ UNCHANGED <<status, owner, engine, team>>
  BY DEF Record, JobOf
<1>6. /\ attempts' = [attempts EXCEPT ![j] = after]
      /\ tainted' = [tainted EXCEPT ![j] = t]
      /\ spent' = [spent EXCEPT ![j] = spent[j]]
  BY DEF Record, JobOf, IInv, TypeOK
<1>7. t \in BOOLEAN /\ spent[j] \in 0..SpentCap
  BY <1>2 DEF IInv, TypeOK
<1> HIDE DEF before, after, t
<1>8. CountsOK'
  BY <1>2, <1>4, <1>6, <1>7, WriteCounts
<1>9. r \in Workers
  BY <1>1, <1>3, <1>4 DEF Workers
<1>10. WellFormed(r) /\ Traced(r) /\ r.job = w.job /\ r.broken = w.broken
  BY <1>1 DEF Workers, WellFormed, Traced
<1>11. engine[a] = NoJob
  BY <1>1 DEF IInv, EngineIsWatched, Watches
<1> HIDE DEF r
<1> QED
  BY <1>1, <1>5, <1>8, <1>9, <1>10, <1>11, KeepsJob

\* restore_job_attempt puts back a count that was in range.
LEMMA RestoreStep == ASSUME IInv, NEW a \in Agents, Restore(a) PROVE IInv'
<1> DEFINE w == worker[a]
           j == w.job
           k == IF w.launched /\ spent[j] > 0 THEN spent[j] - 1 ELSE spent[j]
           t == tainted[j] \/ attempts[j] # w.attempt
           r == [w EXCEPT !.pc = "transition", !.command = "job-release", !.seen = "none"]
<1>1. w \in Workers /\ WellFormed(w) /\ Traced(w) /\ w.pc = "restore" /\ ~At(a, "off")
  BY DEF IInv, TypeOK, WorkerShape, Restore, At
<1>2. j \in Jobs /\ w.previous \in 0..MaxAttempts
  BY <1>1 DEF Workers, WellFormed
<1>3. worker' = [worker EXCEPT ![a] = r] /\ UNCHANGED <<status, owner, engine, team>>
  BY DEF Restore, EndWith
<1>4. /\ attempts' = [attempts EXCEPT ![j] = w.previous]
      /\ tainted' = [tainted EXCEPT ![j] = t]
      /\ spent' = [spent EXCEPT ![j] = k]
  BY DEF Restore
<1>5. spent[j] \in 0..SpentCap /\ SpentCap \in Nat
  BY <1>2 DEF IInv, TypeOK, SpentCap
<1>6. k \in 0..SpentCap
  BY <1>5
<1>7. t \in BOOLEAN
  BY <1>2 DEF IInv, TypeOK
<1> HIDE DEF k, t
<1>8. CountsOK'
  BY <1>2, <1>4, <1>6, <1>7, WriteCounts
<1>9. r \in Workers
  BY <1>1 DEF Workers
<1>10. WellFormed(r) /\ Traced(r) /\ r.job = w.job /\ r.broken = w.broken
  BY <1>1 DEF Workers, WellFormed, Traced
<1>11. engine[a] = NoJob
  BY <1>1 DEF IInv, EngineIsWatched, Watches
<1> HIDE DEF r
<1> QED
  BY <1>1, <1>3, <1>8, <1>9, <1>10, <1>11, KeepsJob

\* A settlement decides for job-fail only when nobody asked the worker to stop.
LEMMA EndWithStep ==
  ASSUME IInv, NEW a \in Agents, NEW command \in {"job-release", "job-fail"},
         EndWith(a, command), worker[a].pc \in {"settle", "decide"},
         command = "job-fail" => ~worker[a].interrupted,
         UNCHANGED <<status, owner, engine, team>>, UNCHANGED Counts
  PROVE  IInv'
<1> DEFINE w == worker[a]
           r == [w EXCEPT !.pc = "transition", !.command = command, !.seen = "none"]
<1>1. w \in Workers /\ WellFormed(w) /\ Traced(w) /\ ~At(a, "off")
  BY DEF IInv, TypeOK, WorkerShape, At
<1>2. r \in Workers
  BY <1>1 DEF Workers
<1>3. WellFormed(r) /\ Traced(r) /\ r.job = w.job /\ r.broken = w.broken
  BY <1>1 DEF Workers, WellFormed, Traced
<1>4. worker' = [worker EXCEPT ![a] = r]
  BY DEF EndWith
<1>5. engine[a] = NoJob
  BY DEF IInv, EngineIsWatched, Watches
<1> HIDE DEF r
<1> QED
  BY <1>1, <1>2, <1>3, <1>4, <1>5, SameCounts, KeepsJob

\* The first half of settlement: job-fail only without a request.
LEMMA SettleStep == ASSUME IInv, NEW a \in Agents, Settle(a) PROVE IInv'
<1> DEFINE w == worker[a]
           j == w.job
           s == IF status[j] = "pending" THEN "pending" ELSE "active"
           refused == w.exhausted /\ ~w.interrupted
           r == [w EXCEPT !.pc = "decide", !.seen = s]
<1>1. w \in Workers /\ WellFormed(w) /\ Traced(w) /\ w.pc = "settle" /\ ~At(a, "off")
  BY DEF IInv, TypeOK, WorkerShape, Settle, At
<1>2. j \in Jobs
  BY <1>1 DEF Workers, WellFormed
<1>3. UNCHANGED <<status, owner, engine, team>> /\ UNCHANGED <<spent, tainted>>
  BY DEF Settle
<1>4. engine[a] = NoJob
  BY <1>1 DEF IInv, EngineIsWatched, Watches
<1>5. CASE refused /\ EndWith(a, "job-fail") /\ UNCHANGED attempts
  BY <1>1, <1>3, <1>5, EndWithStep DEF Counts
<1>6. CASE /\ status[j] \in Terminal
           /\ attempts' = [attempts EXCEPT ![j] = 0] /\ Exit(a, "settled")
  <2>1. CountsOK'
    <3>1. 0 \in 0..MaxAttempts
      OBVIOUS
    <3>2. attempts' \in [Jobs -> 0..MaxAttempts]
      BY <1>6, <3>1 DEF IInv, TypeOK
    <3> QED
      BY <1>3, <3>2 DEF IInv, TypeOK, CountsOK
  <2>2. ~Owned(j, a) /\ "settled" \in Exits
    BY <1>6 DEF Owned
  <2> QED
    BY <1>1, <1>3, <1>4, <1>6, <2>1, <2>2, ExitMoves
<1>7. CASE /\ worker' = [worker EXCEPT ![a].pc = "decide",
                ![a].seen = IF status[j] = "pending" THEN "pending" ELSE "active"]
           /\ UNCHANGED attempts
  <2>1. worker' = [worker EXCEPT ![a] = r]
    BY <1>7
  <2>2. s \in {"none", "pending", "active"}
    OBVIOUS
  <2> HIDE DEF s
  <2>3. r \in Workers
    BY <1>1, <2>2 DEF Workers
  <2>4. WellFormed(r) /\ Traced(r) /\ r.job = w.job /\ r.broken = w.broken
    BY <1>1 DEF Workers, WellFormed, Traced
  <2>5. CountsOK'
    BY <1>3, <1>7, SameCounts DEF Counts
  <2> HIDE DEF r
  <2> QED
    BY <1>1, <1>3, <1>4, <2>1, <2>3, <2>4, <2>5, KeepsJob
<1> QED
  BY <1>5, <1>6, <1>7 DEF Settle

\* The second half of settlement: the job is restored, ended or given up.
LEMMA DecideStep == ASSUME IInv, NEW a \in Agents, Decide(a) PROVE IInv'
<1> DEFINE w == worker[a]
           over == w.attempt = 0 \/ w.attempt = MaxAttempts
           r == [w EXCEPT !.pc = "restore"]
<1>1. w \in Workers /\ WellFormed(w) /\ Traced(w) /\ w.pc = "decide" /\ ~At(a, "off")
  BY DEF IInv, TypeOK, WorkerShape, Decide, At
<1>2. UNCHANGED <<status, owner, engine, team>> /\ UNCHANGED Counts
  BY DEF Decide, store, Counts
<1>3. engine[a] = NoJob
  BY <1>1 DEF IInv, EngineIsWatched, Watches
<1>4. CountsOK'
  BY <1>2, SameCounts
<1>5. CASE Goto(a, "restore")
  <2>1. worker' = [worker EXCEPT ![a] = r]
    BY <1>5 DEF Goto
  <2>2. r \in Workers
    BY <1>1 DEF Workers
  <2>3. WellFormed(r) /\ Traced(r) /\ r.job = w.job /\ r.broken = w.broken
    BY <1>1 DEF Workers, WellFormed, Traced
  <2> HIDE DEF r
  <2> QED
    BY <1>1, <1>2, <1>3, <1>4, <2>1, <2>2, <2>3, KeepsJob
<1>6. CASE Exit(a, "fatal")
  <2>1. "fatal" \in Exits
    OBVIOUS
  <2> QED
    BY <1>1, <1>2, <1>4, <1>6, <2>1, ExitMoves
<1>7. CASE ~w.interrupted /\ EndWith(a, IF over THEN "job-fail" ELSE "job-release")
  <2> DEFINE c == IF over THEN "job-fail" ELSE "job-release"
  <2>1. c \in {"job-release", "job-fail"} /\ EndWith(a, c)
    BY <1>7
  <2> HIDE DEF c
  <2> QED
    BY <1>1, <1>2, <1>7, <2>1, EndWithStep
<1>8. CASE ~Owned(w.job, a) /\ Exit(a, "settled")
  <2>1. "settled" \in Exits
    OBVIOUS
  <2> QED
    BY <1>1, <1>2, <1>3, <1>4, <1>8, <2>1, ExitMoves
<1> QED
  BY <1>5, <1>6, <1>7, <1>8 DEF Decide

\* Both commands take the job from its owner.
LEMMA EndsLeaves ==
  ASSUME IInv, NEW a \in Agents, worker[a].job \in Jobs, Ends(a)
  PROVE  /\ status' \in [Jobs -> Statuses]
         /\ owner' \in [Jobs -> Agents \cup {NoAgent}]
         /\ OwnerShape'
         /\ \A i \in Jobs : status'[i] \in Active =>
              i # worker[a].job /\ status[i] \in Active /\ owner'[i] = owner[i]
<1> DEFINE j == worker[a].job
<1>1. PICK s \in Statuses \ Active :
        status' = [status EXCEPT ![j] = s] /\ owner' = [owner EXCEPT ![j] = NoAgent]
  <2>1. "pending" \in Statuses \ Active /\ "failed" \in Statuses \ Active
    OBVIOUS
  <2> QED
    BY <2>1 DEF Ends, Finish, Requeue, JobOf
<1> QED
  BY <1>1, JobLeaves

\* A worker that gave up its job exits.
LEMMA ExitsFree ==
  ASSUME IInv, NEW a \in Agents, ~At(a, "off"), NEW exit \in Exits, Exit(a, exit),
         UNCHANGED <<engine, team>>, CountsOK', engine[a] = NoJob,
         status' \in [Jobs -> Statuses], owner' \in [Jobs -> Agents \cup {NoAgent}],
         OwnerShape',
         \A i \in Jobs : status'[i] \in Active =>
            i # worker[a].job /\ status[i] \in Active /\ owner'[i] = owner[i]
  PROVE  IInv'
<1> DEFINE e == IF worker[a].broken THEN "fatal" ELSE exit
<1>1. e \in Exits
  OBVIOUS
<1>2. worker' = [worker EXCEPT ![a] = Exited(e)]
  BY DEF Exit
<1>3. /\ Exited(e) \in Workers /\ WellFormed(Exited(e)) /\ Traced(Exited(e))
      /\ Exited(e).pc = "off" /\ Exited(e).last = e
  BY <1>1, ExitedOK
<1>4. \A i \in Jobs : status'[i] \in Active =>
        IF owner'[i] = a THEN Answers(Exited(e), i)
        ELSE status[i] \in Active /\ owner'[i] = owner[i]
  <2> SUFFICES ASSUME NEW i \in Jobs, status'[i] \in Active, owner'[i] = a
               PROVE  Answers(Exited(e), i)
    OBVIOUS
  <2>1. Owned(i, a) /\ i # worker[a].job
    BY DEF Owned
  <2>2. worker[a].broken
    BY <2>1, OwnerAnswers
  <2> QED
    BY <1>3, <2>2 DEF Answers
<1> HIDE DEF e
<1> QED
  BY <1>2, <1>3, <1>4, Moves DEF IInv, TypeOK

\* The command took the job away, and the worker exits.
LEMMA TransitionStep == ASSUME IInv, NEW a \in Agents, Transition(a) PROVE IInv'
<1> DEFINE w == worker[a]
           exit == IF w.interrupted THEN "fatal" ELSE "settled"
<1>1. w \in Workers /\ WellFormed(w) /\ w.pc = "transition" /\ ~At(a, "off")
  BY DEF IInv, TypeOK, WorkerShape, Transition, At
<1>2. w.job \in Jobs
  BY <1>1 DEF Workers, WellFormed
<1>3. Ends(a) /\ Exit(a, exit) /\ exit \in Exits /\ UNCHANGED <<engine, team>>
  BY DEF Transition
<1>4. CountsOK'
  BY SameCounts DEF Transition, Counts
<1>5. engine[a] = NoJob
  BY <1>1 DEF IInv, EngineIsWatched, Watches
<1> HIDE DEF exit
<1> QED
  BY <1>1, <1>2, <1>3, <1>4, <1>5, EndsLeaves, ExitsFree

\* The fallback exits as fatal, with or without ending the job.
LEMMA FallbackStep == ASSUME IInv, NEW a \in Agents, Fallback(a) PROVE IInv'
<1> DEFINE w == worker[a]
<1>1. w \in Workers /\ WellFormed(w) /\ w.pc = "fallback" /\ ~At(a, "off")
  BY DEF IInv, TypeOK, WorkerShape, Fallback, At
<1>2. w.job \in Jobs
  BY <1>1 DEF Workers, WellFormed
<1>3. Exit(a, "fatal") /\ "fatal" \in Exits /\ UNCHANGED <<engine, team>>
  BY DEF Fallback
<1>4. CountsOK'
  BY SameCounts DEF Fallback, Counts
<1>5. engine[a] = NoJob
  BY <1>1 DEF IInv, EngineIsWatched, Watches
<1>6. CASE Finish(JobOf(a), "failed")
  <2>1. "failed" \in Statuses \ Active
    OBVIOUS
  <2>2. /\ status' = [status EXCEPT ![w.job] = "failed"]
        /\ owner' = [owner EXCEPT ![w.job] = NoAgent]
    BY <1>6 DEF Finish, JobOf
  <2>3. /\ status' \in [Jobs -> Statuses]
        /\ owner' \in [Jobs -> Agents \cup {NoAgent}]
        /\ OwnerShape'
        /\ \A i \in Jobs : status'[i] \in Active =>
             i # w.job /\ status[i] \in Active /\ owner'[i] = owner[i]
    BY <1>2, <2>1, <2>2, JobLeaves
  <2> QED
    BY <1>1, <1>3, <1>4, <1>5, <2>3, ExitsFree
<1>7. CASE UNCHANGED <<status, owner>>
  BY <1>1, <1>3, <1>4, <1>7, ExitMoves
<1> QED
  BY <1>6, <1>7 DEF Fallback

\* A cut-off command leaves the job owned, or ended, and the fallback next.
LEMMA TransitionFailsStep == ASSUME IInv, NEW a \in Agents, TransitionFails(a) PROVE IInv'
<1> DEFINE w == worker[a]
           r == [w EXCEPT !.pc = "fallback"]
<1>1. w \in Workers /\ WellFormed(w) /\ Traced(w) /\ w.pc = "transition" /\ ~At(a, "off")
  BY DEF IInv, TypeOK, WorkerShape, TransitionFails, At
<1>2. w.job \in Jobs
  BY <1>1 DEF Workers, WellFormed
<1>3. worker' = [worker EXCEPT ![a] = r] /\ UNCHANGED <<engine, team>>
  BY DEF TransitionFails, Goto
<1>4. CountsOK'
  BY SameCounts DEF TransitionFails, Counts
<1>5. engine[a] = NoJob
  BY <1>1 DEF IInv, EngineIsWatched, Watches
<1>6. r \in Workers
  BY <1>1 DEF Workers
<1>7. WellFormed(r) /\ Traced(r) /\ r.job = w.job /\ r.broken = w.broken
  BY <1>1 DEF Workers, WellFormed, Traced
<1>8. \A j \in Jobs : Owned(j, a) => Answers(r, j)
  BY <1>1, <1>7, OwnerAnswers DEF Answers
<1> HIDE DEF r
<1>9. CASE Ends(a)
  <2>1. /\ status' \in [Jobs -> Statuses]
        /\ owner' \in [Jobs -> Agents \cup {NoAgent}]
        /\ OwnerShape'
        /\ \A i \in Jobs : status'[i] \in Active =>
             status[i] \in Active /\ owner'[i] = owner[i]
    BY <1>2, <1>9, EndsLeaves
  <2>2. \A i \in Jobs : status'[i] \in Active =>
          IF owner'[i] = a THEN Answers(r, i)
          ELSE status[i] \in Active /\ owner'[i] = owner[i]
    BY <1>8, <2>1 DEF Owned
  <2> QED
    BY <1>1, <1>3, <1>4, <1>5, <1>6, <1>7, <2>1, <2>2, Moves DEF IInv, TypeOK
<1>10. CASE UNCHANGED <<status, owner>>
  BY <1>1, <1>3, <1>4, <1>5, <1>6, <1>7, <1>10, KeepsJob
<1> QED
  BY <1>9, <1>10 DEF TransitionFails

-----------------------------------------------------------------------------
(* The engine, other users of the queue, and the team.                     *)

\* A job that leaves its owner, all workers going on.
LEMMA JobLeavesStep ==
  ASSUME IInv, NEW j \in Jobs, NEW s \in Statuses \ Active,
         status' = [status EXCEPT ![j] = s], owner' = [owner EXCEPT ![j] = NoAgent],
         UNCHANGED <<worker, engine, team>>, UNCHANGED Counts
  PROVE  IInv'
BY JobLeaves, SameCounts, JobMoves

\* job-start keeps the owner.
LEMMA EngineStartsStep == ASSUME IInv, NEW a \in Agents, EngineStarts(a) PROVE IInv'
<1>1. engine[a] \in Jobs
  BY DEF IInv, TypeOK, EngineStarts, EngineActs
<1>2. /\ status' \in [Jobs -> Statuses] /\ status'[engine[a]] = "running"
      /\ status[engine[a]] = "claimed"
      /\ \A i \in Jobs \ {engine[a]} : status'[i] = status[i]
      /\ UNCHANGED <<owner, worker, engine, team>> /\ UNCHANGED Counts
  BY <1>1 DEF IInv, TypeOK, EngineStarts, Counts
<1>3. OwnerShape'
  BY <1>1, <1>2 DEF IInv, OwnerShape
<1> QED
  BY <1>1, <1>2, <1>3, SameCounts, JobMoves DEF IInv, TypeOK

\* job-done and job-fail take the job from its owner.
LEMMA EngineFinishesStep ==
  ASSUME IInv, NEW a \in Agents, NEW result \in Terminal, EngineFinishes(a, result) PROVE IInv'
<1>1. engine[a] \in Jobs /\ result \in Statuses \ Active
  BY DEF IInv, TypeOK, EngineFinishes, EngineActs
<1> QED
  BY <1>1, JobLeavesStep DEF EngineFinishes, Finish, Counts

\* job-release takes the job from its owner.
LEMMA EngineReleasesStep == ASSUME IInv, NEW a \in Agents, EngineReleases(a) PROVE IInv'
<1>1. engine[a] \in Jobs /\ "pending" \in Statuses \ Active
  BY DEF IInv, TypeOK, EngineReleases, EngineActs
<1> QED
  BY <1>1, JobLeavesStep DEF EngineReleases, Requeue, Counts

\* job-reap takes the job from its owner.
LEMMA ReapStep == ASSUME IInv, NEW j \in Jobs, Reap(j) PROVE IInv'
<1>1. "pending" \in Statuses \ Active
  OBVIOUS
<1> QED
  BY <1>1, JobLeavesStep DEF Reap, Requeue, Counts

\* job-reset-orphans takes the job from its owner.
LEMMA ResetStep == ASSUME IInv, NEW j \in Jobs, Reset(j) PROVE IInv'
<1>1. "pending" \in Statuses \ Active
  OBVIOUS
<1> QED
  BY <1>1, JobLeavesStep DEF Reset, Requeue, Counts

\* A published job has no owner.
LEMMA PublishStep == ASSUME IInv, NEW j \in Jobs, Publish(j) PROVE IInv'
<1>1. "pending" \in Statuses \ Active
  OBVIOUS
<1>2. owner[j] = NoAgent
  BY DEF IInv, TypeOK, OwnerShape, Publish
<1>3. owner' = [owner EXCEPT ![j] = NoAgent]
  BY <1>2 DEF IInv, TypeOK, Publish
<1> QED
  BY <1>1, <1>3, JobLeavesStep DEF Publish, Counts

\* A worker is started without a job, or refused by agent-new.
LEMMA SpawnStep == ASSUME IInv, NEW a \in Agents, Spawn(a) PROVE IInv'
<1> DEFINE x == Exited("settled")
           s == [x EXCEPT !.pc = "waiting"]
           r == IF \E j \in Jobs : Owned(j, a) THEN Exited("fatal") ELSE s
<1>1. "fatal" \in Exits /\ "settled" \in Exits
  OBVIOUS
<1>2. worker' = [worker EXCEPT ![a] = r] /\ UNCHANGED <<status, owner, engine, team>>
  BY DEF Spawn, store
<1>3. /\ x \in Workers /\ x.job = NoJob /\ x.asked = 0 /\ x.command = "none"
      /\ ~x.deferred /\ ~x.interrupted
  BY DEF Exited, Workers
<1> HIDE DEF x
<1>4. s \in Workers
  BY <1>3 DEF Workers
<1>5. WellFormed(s) /\ Traced(s)
  BY <1>3 DEF Workers, WellFormed, Traced
<1> HIDE DEF s
<1>6. r \in Workers /\ WellFormed(r) /\ Traced(r)
  BY <1>1, <1>4, <1>5, ExitedOK
<1>7. \A j \in Jobs : Owned(j, a) => Answers(r, j)
  BY <1>1, ExitedOK DEF Answers
<1> HIDE DEF r
<1>8. worker'[a] = r /\ \A b \in Agents \ {a} : worker'[b] = worker[b]
  BY <1>2 DEF IInv, TypeOK
<1>9. TypeOK'
  BY <1>6, <1>2 DEF IInv, TypeOK, Spawn, store
<1>10. WorkerShape'
  BY <1>6, <1>8 DEF IInv, WorkerShape
<1>11. OwnerShape'
  BY <1>2 DEF IInv, OwnerShape
<1>12. engine[a] = NoJob
  BY DEF IInv, EngineIsWatched, Watches, Spawn, At
<1>13. EngineIsWatched'
  BY <1>2, <1>8, <1>12 DEF IInv, EngineIsWatched
<1>14. QuietRecovery'
  <2>1. team = "up"
    BY DEF Spawn
  <2>2. \A j \in Jobs : status'[j] \in Active => HasWorker(j)'
    BY <1>7, <1>2, <1>8, <2>1 DEF IInv, QuietRecovery, HasWorker, OwnerShape, Owned
  <2> QED
    BY <1>2, <2>1, <2>2 DEF QuietRecovery
<1> QED
  BY <1>9, <1>10, <1>11, <1>13, <1>14 DEF IInv

\* The team goes down: nothing else changes.
LEMMA StoppingStep == ASSUME IInv, TeamFails \/ OperatorStops PROVE IInv'
<1>1. team = "up" /\ team' = "stopping" /\ UNCHANGED <<store, worker, engine, spent, tainted>>
  BY DEF TeamFails, OperatorStops
<1>2. TypeOK'
  BY <1>1 DEF IInv, TypeOK, store
<1>3. WorkerShape' /\ OwnerShape' /\ EngineIsWatched'
  BY <1>1 DEF IInv, WorkerShape, OwnerShape, EngineIsWatched, store
<1>4. QuietRecovery'
  BY <1>1 DEF IInv, QuietRecovery, HasWorker, store
<1> QED
  BY <1>2, <1>3, <1>4 DEF IInv

\* A new container: no process of the old one is left.
LEMMA RestartStep == ASSUME IInv, Restart PROVE IInv'
<1>1. "settled" \in Exits
  OBVIOUS
<1>2. /\ team' = "recovering" /\ UNCHANGED <<store, spent, tainted>>
      /\ \A a \in Agents : worker'[a] = Exited("settled") /\ engine'[a] = NoJob
  BY DEF Restart
<1>3. TypeOK'
  BY <1>1, ExitedOK DEF IInv, TypeOK, Restart, store
<1>4. WorkerShape'
  BY <1>1, <1>2, ExitedOK DEF WorkerShape
<1>5. OwnerShape'
  BY <1>2 DEF IInv, OwnerShape, store
<1>6. EngineIsWatched' /\ QuietRecovery'
  BY <1>1, <1>2, ExitedOK DEF EngineIsWatched, QuietRecovery, At
<1> QED
  BY <1>3, <1>4, <1>5, <1>6 DEF IInv

\* Recovery ends when no job is active.
LEMMA ResumeStep == ASSUME IInv, Resume PROVE IInv'
<1>1. team' = "up" /\ UNCHANGED <<store, worker, engine, spent, tainted>>
  BY DEF Resume
<1>2. TypeOK'
  BY <1>1 DEF IInv, TypeOK, store
<1>3. WorkerShape' /\ OwnerShape' /\ EngineIsWatched'
  BY <1>1 DEF IInv, WorkerShape, OwnerShape, EngineIsWatched, store
<1>4. QuietRecovery'
  BY <1>1 DEF QuietRecovery, Resume, store
<1> QED
  BY <1>2, <1>3, <1>4 DEF IInv

-----------------------------------------------------------------------------
(* The invariant.                                                          *)

\* Before the first job nothing is owned and nothing runs.
LEMMA InitOK == Init => IInv
<1> SUFFICES ASSUME Init PROVE IInv
  OBVIOUS
<1>1. "settled" \in Exits /\ 0 \in 0..MaxAttempts /\ 0 \in 0..SpentCap /\ FALSE \in BOOLEAN
  BY DEF SpentCap
<1>2. status \in [Jobs -> Statuses] /\ owner \in [Jobs -> Agents \cup {NoAgent}]
  BY DEF Init
<1>3. worker \in [Agents -> Workers] /\ engine \in [Agents -> Jobs \cup {NoJob}]
  BY <1>1, ExitedOK DEF Init
<1>4. CountsOK
  BY <1>1 DEF Init, CountsOK
<1>5. TypeOK
  BY <1>2, <1>3, <1>4 DEF Init, TypeOK, CountsOK
<1>6. WorkerShape /\ EngineIsWatched
  BY <1>1, ExitedOK DEF Init, WorkerShape, EngineIsWatched
<1>7. OwnerShape /\ QuietRecovery
  BY DEF Init, OwnerShape, QuietRecovery
<1> QED
  BY <1>5, <1>6, <1>7 DEF IInv

\* Every step of a worker, of its engine, and of what interferes with it.
LEMMA WorkerSteps == ASSUME IInv, NEW a \in Agents, Step(a) PROVE IInv'
BY BeginClaimStep, ClaimStep, ClaimedStep, ClaimNothingStep, RecordStep, RecordedStep,
   RefuseStep, LaunchStep, CaughtStep, IgnoreSignalsStep, CleanUpStep, SettleStep,
   DecideStep, RestoreStep, TransitionStep, TransitionRefusedStep, FallbackStep
   DEF Step

\* Every step of an engine keeps the invariant.
LEMMA EngineSteps == ASSUME IInv, NEW a \in Agents, EngineStep(a) PROVE IInv'
BY EngineStartsStep, EngineReleasesStep, EngineFinishesStep DEF EngineStep

\* Every interference with a worker keeps the invariant.
LEMMA InterferenceSteps == ASSUME IInv, NEW a \in Agents, Interference(a) PROVE IInv'
BY CommandFailsStep, FailStep, DeferStopStep, StopStep, StopAgainStep, StopLateStep,
   CleanUpFailsStep, TransitionFailsStep, KillStep DEF Interference

\* The invariant is inductive.
LEMMA NextOK == IInv /\ [Next]_vars => IInv'
<1> SUFFICES ASSUME IInv, [Next]_vars PROVE IInv'
  OBVIOUS
<1>1. ASSUME NEW a \in Agents,
             Spawn(a) \/ Step(a) \/ EngineEnds(a) \/ EngineStep(a) \/ Interference(a)
      PROVE  IInv'
  BY <1>1, SpawnStep, WorkerSteps, EngineEndsStep, EngineSteps, InterferenceSteps
<1>2. ASSUME NEW j \in Jobs, Publish(j) \/ Reap(j) PROVE IInv'
  BY <1>2, PublishStep, ReapStep
<1>3. CASE TeamStep \/ OperatorStops
  BY <1>3, StoppingStep, RestartStep, ResumeStep, ResetStep DEF TeamStep
<1>4. CASE UNCHANGED vars
  <2>1. UNCHANGED <<worker, engine, team, status, owner>> /\ UNCHANGED Counts
    BY <1>4 DEF vars, Counts
  <2>2. OwnerShape'
    BY <2>1 DEF IInv, OwnerShape
  <2> QED
    BY <2>1, <2>2, SameCounts, JobMoves DEF IInv, TypeOK
<1> QED
  BY <1>1, <1>2, <1>3, <1>4 DEF Next

\* Whatever stops, kills, failing commands, reaps and restarts happen, in any
\* team and for any budget: the records of tools/agent are consistent, every
\* active job of a team that is not recovering has a worker that answers for
\* it, and a living engine is watched.
THEOREM WorkerInvariant == Spec => []IInv
BY InitOK, NextOK, PTL DEF Spec

\* tools/agent strands no job: an active job has its worker, or an exit status
\* that makes run_agentws restart the container.
THEOREM JobsAreNeverStranded == Spec => []NoStrandedJob
<1>1. IInv => NoStrandedJob
  BY DEF IInv, QuietRecovery, NoStrandedJob
<1> QED
  BY <1>1, WorkerInvariant, PTL

\* No job is settled, and no worker started again, beside a living engine.
THEOREM EnginesAreWatched == Spec => []EngineIsWatched
<1>1. IInv => EngineIsWatched
  BY DEF IInv
<1> QED
  BY <1>1, WorkerInvariant, PTL

\* One stop request, at whatever instruction it arrives, never makes the worker
\* end its job through job-fail.
THEOREM OneStopSpares == Spec => []SingleStopSpares
<1>1. IInv => SingleStopSpares
  <2> SUFFICES ASSUME IInv, NEW a \in Agents, worker[a].asked = 1,
                      worker[a].command = "job-fail"
               PROVE  FALSE
    BY DEF SingleStopSpares
  <2>1. WellFormed(worker[a]) /\ Traced(worker[a])
    BY DEF IInv, WorkerShape
  <2> QED
    BY <2>1 DEF WellFormed, Traced
<1> QED
  BY <1>1, WorkerInvariant, PTL

-----------------------------------------------------------------------------
(* The budget.                                                             *)

\* A worker's record takes no charge up: it has none, or none left to spend or
\* to take back, or the one it had.
Follows(r, w) ==
  \/ r.attempt = 0
  \/ r.pc \in {"transition", "fallback"}
  \/ /\ r.job = w.job /\ r.attempt = w.attempt /\ r.previous = w.previous
     /\ r.launched = w.launched
     /\ w.pc \notin {"transition", "fallback"}

\* What a step may do to a job without touching its budget.
KeepsBudget(j) ==
  /\ status[j] \in Terminal => status'[j] \in Terminal
  /\ status[j] \notin Terminal => attempts'[j] = attempts[j]

\* The sets of charged workers can be counted.
LEMMA ChargesCount ==
  ASSUME NEW j
  PROVE  /\ IsFiniteSet(Spending(j)) /\ IsFiniteSet(Saving(j))
         /\ Cardinality(Spending(j)) \in Nat /\ Cardinality(Saving(j)) \in Nat
<1>1. Spending(j) \in SUBSET Agents /\ Saving(j) \in SUBSET Agents
  BY DEF Spending, Saving
<1>2. IsFiniteSet(Spending(j)) /\ IsFiniteSet(Saving(j))
  BY <1>1, AgentsAssumption, FS_Subset
<1> QED
  BY <1>2, FS_CardinalityType

\* They can be counted after the step as well.
LEMMA ChargesCountNext ==
  ASSUME NEW j
  PROVE  /\ IsFiniteSet(Spending(j)') /\ IsFiniteSet(Saving(j)')
         /\ Cardinality(Spending(j)') \in Nat /\ Cardinality(Saving(j)') \in Nat
<1>1. Spending(j)' \in SUBSET Agents /\ Saving(j)' \in SUBSET Agents
  BY DEF Spending, Saving
<1>2. IsFiniteSet(Spending(j)') /\ IsFiniteSet(Saving(j)')
  BY <1>1, AgentsAssumption, FS_Subset
<1> QED
  BY <1>2, FS_CardinalityType

\* A job's books stay balanced when no charge is taken up, no launch is counted
\* or taken back, and its budget does not shrink.
LEMMA StaysBalanced ==
  ASSUME TypeOK, TypeOK', NEW j \in Jobs, Balanced(j),
         Spending(j)' \subseteq Spending(j), Saving(j)' \subseteq Saving(j),
         spent'[j] = spent[j], KeepsBudget(j)
  PROVE  Balanced(j)'
<1> DEFINE s == Cardinality(Spending(j))   t == Cardinality(Spending(j)')
           n == Cardinality(Saving(j))     m == Cardinality(Saving(j)')
<1>1. s \in Nat /\ t \in Nat /\ n \in Nat /\ m \in Nat
  BY ChargesCount, ChargesCountNext
<1>2. t <= s /\ m <= n
  BY ChargesCount, FS_Subset
<1>3. s <= spent[j] /\ spent[j] + n <= Budget(j)
  BY DEF Balanced
<1>4. spent[j] \in Nat /\ attempts[j] \in 0..MaxAttempts /\ attempts'[j] \in 0..MaxAttempts
  BY DEF TypeOK, SpentCap
<1>5. Budget(j) \in Nat /\ Budget(j)' \in Nat /\ Budget(j) <= Budget(j)'
  BY <1>4 DEF Budget, KeepsBudget
<1> HIDE DEF s, t, n, m
<1>6. t <= spent'[j] /\ spent'[j] + m <= Budget(j)'
  BY <1>1, <1>2, <1>3, <1>4, <1>5
<1> QED
  BY <1>6 DEF Balanced, s, t, n, m

\* A record that takes no charge up leaves the agent in the sets it was in.
LEMMA ChargesFollow ==
  ASSUME \A b \in Agents :
           /\ Charged(worker'[b])
           /\ worker'[b] = worker[b] \/ Follows(worker'[b], worker[b])
  PROVE  \A j \in Jobs : Spending(j)' \subseteq Spending(j) /\ Saving(j)' \subseteq Saving(j)
<1> SUFFICES ASSUME NEW j \in Jobs, NEW b \in Agents
             PROVE  /\ b \in Spending(j)' => b \in Spending(j)
                    /\ b \in Saving(j)' => b \in Saving(j)
  BY DEF Spending, Saving
<1>1.
        /\ Charged(worker'[b])
        /\ worker'[b] = worker[b] \/ Follows(worker'[b], worker[b])
  OBVIOUS
<1>2. ~(worker'[b].attempt > 0 /\ worker'[b].attempt = 0)
  OBVIOUS
<1> QED
  BY <1>1, <1>2 DEF Spending, Saving, Charging, Follows, Charged

\* No worker takes a charge up, and no job's budget shrinks.
LEMMA NoNewCharge ==
  ASSUME IInv, IInv', BudgetInv, UNCHANGED <<spent, tainted>>,
         \A b \in Agents :
           /\ Charged(worker'[b])
           /\ worker'[b] = worker[b] \/ Follows(worker'[b], worker[b]),
         \A j \in Jobs : KeepsBudget(j)
  PROVE  BudgetInv'
<1>1. \A j \in Jobs : ~tainted'[j] => Balanced(j)'
  BY ChargesFollow, StaysBalanced DEF IInv, BudgetInv
<1> QED
  BY <1>1 DEF BudgetInv

\* The step of one worker that takes no charge up.
LEMMA WorkerFollows ==
  ASSUME IInv, IInv', BudgetInv, NEW a \in Agents, NEW r,
         worker' = [worker EXCEPT ![a] = r], UNCHANGED <<spent, tainted>>,
         Charged(r), Follows(r, worker[a]), \A j \in Jobs : KeepsBudget(j)
  PROVE  BudgetInv'
<1>1. worker'[a] = r /\ \A b \in Agents \ {a} : worker'[b] = worker[b]
  BY DEF IInv, TypeOK
<1>2. \A b \in Agents :
        /\ Charged(worker'[b])
        /\ worker'[b] = worker[b] \/ Follows(worker'[b], worker[b])
  BY <1>1 DEF BudgetInv
<1> QED
  BY <1>2, NoNewCharge

\* The budget of every job stays when the store does.
LEMMA StoreKeepsBudget == ASSUME UNCHANGED store PROVE \A j \in Jobs : KeepsBudget(j)
BY DEF store, KeepsBudget

\* A worker's exit takes no charge up.
LEMMA ExitFollows ==
  ASSUME NEW exit, NEW w
  PROVE  Charged(Exited(exit)) /\ Follows(Exited(exit), w)
BY DEF Exited, Charged, Follows

\* A worker exits; budgets stay.
LEMMA ExitBudget ==
  ASSUME IInv, IInv', BudgetInv, NEW a \in Agents, NEW exit,
         Exit(a, exit) \/ worker' = [worker EXCEPT ![a] = Exited(exit)],
         UNCHANGED <<spent, tainted>>,
         \A j \in Jobs : KeepsBudget(j)
  PROVE  BudgetInv'
<1>1. PICK e : worker' = [worker EXCEPT ![a] = Exited(e)]
  BY DEF Exit
<1> QED
  BY <1>1, ExitFollows, WorkerFollows

\* A worker's record as it is before its step.
LEMMA RecordOf ==
  ASSUME IInv, BudgetInv, NEW a \in Agents
  PROVE  worker[a] \in Workers /\ WellFormed(worker[a]) /\ Charged(worker[a])
BY DEF IInv, TypeOK, WorkerShape, BudgetInv

-----------------------------------------------------------------------------
(* The steps that take no charge up.                                       *)

\* A worker between its start and its claim, and one whose claim ended.
LEMMA ClaimingBudget ==
  ASSUME IInv, IInv', BudgetInv, NEW a \in Agents,
         BeginClaim(a) \/ Claimed(a) \/ ClaimNothing(a) \/ CommandFails(a) \/ DeferStop(a)
  PROVE  BudgetInv'
<1> DEFINE w == worker[a]
<1>1. w \in Workers /\ Charged(w) /\ w.pc \in Deferring \cup {"waiting"}
  BY RecordOf DEF BeginClaim, Claimed, ClaimNothing, CommandFails, DeferStop, At
<1>2. w.attempt = 0
  BY <1>1 DEF Charged
<1>3. UNCHANGED <<store, spent, tainted>>
  BY DEF BeginClaim, Claimed, ClaimNothing, CommandFails, DeferStop
<1>4. PICK r : /\ worker' = [worker EXCEPT ![a] = r]
               /\ r.attempt = 0 /\ r.previous = w.previous /\ r.launched = w.launched
               /\ r.pc \notin {"recorded", "ready"}
  <2>1. CASE BeginClaim(a)
    <3> DEFINE r == [w EXCEPT !.pc = "claiming"]
    <3>1. worker' = [worker EXCEPT ![a] = r]
      BY <2>1 DEF BeginClaim, Goto
    <3>2. r.attempt = 0 /\ r.previous = w.previous /\ r.launched = w.launched /\ r.pc = "claiming"
      BY <1>1, <1>2 DEF Workers
    <3> QED
      BY <3>1, <3>2
  <2>2. CASE Claimed(a)
    <3> DEFINE r == [w EXCEPT !.deferred = FALSE, !.pc = IF w.deferred THEN "caught" ELSE "claimed"]
    <3>1. worker' = [worker EXCEPT ![a] = r]
      BY <2>2 DEF Claimed
    <3>2. /\ r.attempt = 0 /\ r.previous = w.previous /\ r.launched = w.launched
          /\ r.pc \in {"caught", "claimed"}
      BY <1>1, <1>2 DEF Workers
    <3> QED
      BY <3>1, <3>2
  <2>3. CASE ClaimNothing(a)
    <3> DEFINE r == [w EXCEPT !.deferred = FALSE, !.pc = IF w.deferred THEN "caught" ELSE "waiting"]
    <3>1. worker' = [worker EXCEPT ![a] = r]
      BY <2>3 DEF ClaimNothing
    <3>2. /\ r.attempt = 0 /\ r.previous = w.previous /\ r.launched = w.launched
          /\ r.pc \in {"caught", "waiting"}
      BY <1>1, <1>2 DEF Workers
    <3> QED
      BY <3>1, <3>2
  <2>4. CASE CommandFails(a)
    <3> DEFINE r == [w EXCEPT !.pc = "finally", !.job = NoJob, !.broken = TRUE]
    <3>1. worker' = [worker EXCEPT ![a] = r]
      BY <2>4 DEF CommandFails
    <3>2. r.attempt = 0 /\ r.previous = w.previous /\ r.launched = w.launched /\ r.pc = "finally"
      BY <1>1, <1>2 DEF Workers
    <3> QED
      BY <3>1, <3>2
  <2>5. CASE DeferStop(a)
    <3> DEFINE r == [w EXCEPT !.asked = Asked(w), !.deferred = TRUE]
    <3>1. worker' = [worker EXCEPT ![a] = r] /\ w.pc \in Deferring
      BY <2>5 DEF DeferStop
    <3>2. r.attempt = 0 /\ r.previous = w.previous /\ r.launched = w.launched /\ r.pc = w.pc
      BY <1>1, <1>2 DEF Workers
    <3> QED
      BY <3>1, <3>2
  <2> QED
    BY <2>1, <2>2, <2>3, <2>4, <2>5
<1>5. Charged(r) /\ Follows(r, w)
  BY <1>1, <1>2, <1>4 DEF Charged, Follows
<1> QED
  BY <1>3, <1>4, <1>5, WorkerFollows, StoreKeepsBudget

\* A claim makes a pending job active, and charges nothing yet.
LEMMA ClaimBudget ==
  ASSUME IInv, IInv', BudgetInv, NEW a \in Agents, NEW j \in Jobs, Claim(a, j)
  PROVE  BudgetInv'
<1> DEFINE w == worker[a]
           r == [w EXCEPT !.pc = "taken", !.job = j]
<1>1. w \in Workers /\ Charged(w) /\ w.pc = "claiming"
  BY RecordOf DEF Claim, At
<1>2. worker' = [worker EXCEPT ![a] = r] /\ UNCHANGED <<spent, tainted>>
  BY DEF Claim
<1>3. Charged(r) /\ Follows(r, w)
  BY <1>1 DEF Charged, Follows, Workers
<1>4. \A i \in Jobs : KeepsBudget(i)
  BY DEF Claim, KeepsBudget, IInv, TypeOK
<1> QED
  BY <1>2, <1>3, <1>4, WorkerFollows

\* From the charge to the settlement the record of it stays.
LEMMA GotoBudget ==
  ASSUME IInv, IInv', BudgetInv, NEW a \in Agents,
         NEW label \in {"ready", "finally", "cleanup", "settle", "restore", "fallback"},
         Goto(a, label), label = "ready" => At(a, "recorded"),
         worker[a].pc = "transition" => label = "fallback",
         worker[a].pc # "fallback",
         UNCHANGED <<spent, tainted>>, \A j \in Jobs : KeepsBudget(j)
  PROVE  BudgetInv'
<1> DEFINE w == worker[a]
           r == [w EXCEPT !.pc = label]
<1>1. w \in Workers /\ Charged(w)
  BY RecordOf
<1>2. worker' = [worker EXCEPT ![a] = r]
  BY DEF Goto
<1>3. /\ r.pc = label /\ r.job = w.job /\ r.attempt = w.attempt /\ r.previous = w.previous
      /\ r.launched = w.launched
  BY <1>1 DEF Workers
<1> HIDE DEF r
<1>4. Charged(r) /\ Follows(r, w)
  BY <1>1, <1>3 DEF Charged, Follows, At
<1> QED
  BY <1>2, <1>4, WorkerFollows

\* The steps on the way to the settlement.
LEMMA OnwardBudget ==
  ASSUME IInv, IInv', BudgetInv, NEW a \in Agents,
         Recorded(a) \/ Fail(a) \/ EngineEnds(a) \/ IgnoreSignals(a) \/ TransitionRefused(a)
  PROVE  BudgetInv'
<1>1. UNCHANGED <<spent, tainted>> /\ \A j \in Jobs : KeepsBudget(j)
  BY StoreKeepsBudget DEF Recorded, Fail, EngineEnds, IgnoreSignals, TransitionRefused
<1>2. CASE Recorded(a)
  BY <1>1, <1>2, GotoBudget DEF Recorded, At
<1>3. CASE Fail(a)
  BY <1>1, <1>3, GotoBudget DEF Fail, At
<1>4. CASE EngineEnds(a)
  BY <1>1, <1>4, GotoBudget DEF EngineEnds, At
<1>5. CASE IgnoreSignals(a)
  BY <1>1, <1>5, GotoBudget DEF IgnoreSignals, At
<1>6. CASE TransitionRefused(a)
  BY <1>1, <1>6, GotoBudget DEF TransitionRefused, At
<1> QED
  BY <1>2, <1>3, <1>4, <1>5, <1>6

\* A stop request, wherever it is caught, charges nothing; it may lose a charge.
LEMMA StopBudget ==
  ASSUME IInv, IInv', BudgetInv, NEW a \in Agents,
         Refuse(a) \/ Stop(a) \/ Caught(a) \/ StopAgain(a)
  PROVE  BudgetInv'
<1> DEFINE w == worker[a]
<1>1. w \in Workers /\ Charged(w) /\ w.pc \in Prompt \cup {"caught"}
  BY RecordOf DEF Refuse, Stop, Caught, StopAgain, At
<1>2. UNCHANGED <<store, spent, tainted>>
  BY DEF Refuse, Stop, Caught, StopAgain
<1>3. PICK r : /\ worker' = [worker EXCEPT ![a] = r]
               /\ r.pc \in {"caught", "finally"} /\ r.job = w.job /\ r.launched = w.launched
               /\ \/ r.attempt = w.attempt /\ r.previous = w.previous
                  \/ w.pc = "recorded" /\ r.attempt = 0 /\ r.previous = 0
  <2>1. CASE Refuse(a)
    <3> DEFINE r == [w EXCEPT !.pc = "finally", !.exhausted = TRUE]
    <3>1. worker' = [worker EXCEPT ![a] = r]
      BY <2>1 DEF Refuse
    <3>2. /\ r.pc = "finally" /\ r.job = w.job /\ r.launched = w.launched
          /\ r.attempt = w.attempt /\ r.previous = w.previous
      BY <1>1 DEF Workers
    <3> QED
      BY <3>1, <3>2
  <2>2. CASE Stop(a)
    <3> DEFINE r == [w EXCEPT !.asked = Asked(w), !.pc = "caught",
                              !.previous = IF w.pc = "recorded" THEN 0 ELSE w.previous,
                              !.attempt  = IF w.pc = "recorded" THEN 0 ELSE w.attempt]
    <3>1. worker' = [worker EXCEPT ![a] = r]
      BY <2>2 DEF Stop
    <3>2. /\ r.pc = "caught" /\ r.job = w.job /\ r.launched = w.launched
          /\ \/ r.attempt = w.attempt /\ r.previous = w.previous
             \/ w.pc = "recorded" /\ r.attempt = 0 /\ r.previous = 0
      BY <1>1 DEF Workers
    <3> QED
      BY <3>1, <3>2
  <2>3. CASE Caught(a)
    <3> DEFINE r == [w EXCEPT !.pc = "finally", !.interrupted = TRUE]
    <3>1. worker' = [worker EXCEPT ![a] = r]
      BY <2>3 DEF Caught
    <3>2. /\ r.pc = "finally" /\ r.job = w.job /\ r.launched = w.launched
          /\ r.attempt = w.attempt /\ r.previous = w.previous
      BY <1>1 DEF Workers
    <3> QED
      BY <3>1, <3>2
  <2>4. CASE StopAgain(a)
    <3> DEFINE r == [w EXCEPT !.asked = Asked(w), !.pc = "finally", !.broken = TRUE]
    <3>1. worker' = [worker EXCEPT ![a] = r]
      BY <2>4 DEF StopAgain
    <3>2. /\ r.pc = "finally" /\ r.job = w.job /\ r.launched = w.launched
          /\ r.attempt = w.attempt /\ r.previous = w.previous
      BY <1>1 DEF Workers
    <3> QED
      BY <3>1, <3>2
  <2> QED
    BY <2>1, <2>2, <2>3, <2>4
<1>4. Charged(r) /\ Follows(r, w)
  BY <1>1, <1>3 DEF Charged, Follows
<1> QED
  BY <1>2, <1>3, <1>4, WorkerFollows, StoreKeepsBudget

\* Worker processes that end, at once or at the head of the finally block.
LEMMA EndBudget ==
  ASSUME IInv, IInv', BudgetInv, NEW a \in Agents,
         Kill(a) \/ StopLate(a) \/ CleanUpFails(a) \/ CleanUp(a)
  PROVE  BudgetInv'
<1> DEFINE w == worker[a]
<1>1. UNCHANGED <<spent, tainted>> /\ \A j \in Jobs : KeepsBudget(j)
  BY StoreKeepsBudget DEF Kill, StopLate, CleanUpFails, CleanUp
<1>2. CASE \E exit : Exit(a, exit) \/ worker' = [worker EXCEPT ![a] = Exited(exit)]
  BY <1>1, <1>2, ExitBudget
<1>3. CASE StopLate(a) /\ worker' = [worker EXCEPT ![a].broken = TRUE]
  <2> DEFINE r == [w EXCEPT !.broken = TRUE]
  <2>1. w \in Workers /\ Charged(w) /\ w.pc = "finally"
    BY <1>3, RecordOf DEF StopLate, At
  <2>2. worker' = [worker EXCEPT ![a] = r]
    BY <1>3
  <2>3. /\ r.pc = "finally" /\ r.job = w.job /\ r.launched = w.launched
        /\ r.attempt = w.attempt /\ r.previous = w.previous
    BY <2>1 DEF Workers
  <2> HIDE DEF r
  <2>4. Charged(r) /\ Follows(r, w)
    BY <2>1, <2>3 DEF Charged, Follows
  <2> QED
    BY <1>1, <2>2, <2>4, WorkerFollows
<1>4. CASE CleanUp(a) /\ Goto(a, "settle")
  BY <1>1, <1>4, GotoBudget DEF CleanUp, At
<1> QED
  BY <1>2, <1>3, <1>4 DEF Kill, StopLate, CleanUpFails, CleanUp

\* A settlement that ends the job's run by a command is past taking back.
LEMMA EndWithBudget ==
  ASSUME IInv, IInv', BudgetInv, NEW a \in Agents, NEW command, EndWith(a, command),
         worker[a].pc \in {"settle", "decide"},
         UNCHANGED <<spent, tainted>>, \A j \in Jobs : KeepsBudget(j)
  PROVE  BudgetInv'
<1> DEFINE w == worker[a]
           r == [w EXCEPT !.pc = "transition", !.command = command, !.seen = "none"]
<1>1. w \in Workers /\ Charged(w)
  BY RecordOf
<1>2. worker' = [worker EXCEPT ![a] = r]
  BY DEF EndWith
<1>3. /\ r.pc = "transition" /\ r.job = w.job /\ r.launched = w.launched
      /\ r.attempt = w.attempt /\ r.previous = w.previous
  BY <1>1 DEF Workers
<1> HIDE DEF r
<1>4. Charged(r) /\ Follows(r, w)
  BY <1>1, <1>3 DEF Charged, Follows
<1> QED
  BY <1>2, <1>4, WorkerFollows

\* The settlement of a terminal job forgets its count, which no longer bounds it.
LEMMA SettleBudget == ASSUME IInv, IInv', BudgetInv, NEW a \in Agents, Settle(a) PROVE BudgetInv'
<1> DEFINE w == worker[a]
           j == w.job
<1>1. w \in Workers /\ Charged(w) /\ w.pc = "settle" /\ j \in Jobs
  BY RecordOf DEF Settle, At, Workers, WellFormed
<1>2. UNCHANGED <<status, owner, engine, team, spent, tainted>>
  BY DEF Settle
<1>3. CASE EndWith(a, "job-fail") /\ UNCHANGED attempts
  BY <1>1, <1>2, <1>3, EndWithBudget, StoreKeepsBudget DEF store
<1>4. CASE status[j] \in Terminal /\ attempts' = [attempts EXCEPT ![j] = 0] /\ Exit(a, "settled")
  <2>1. \A i \in Jobs : KeepsBudget(i)
    BY <1>1, <1>2, <1>4 DEF KeepsBudget, IInv, TypeOK
  <2> QED
    BY <1>2, <1>4, <2>1, ExitBudget
<1>5. CASE /\ UNCHANGED attempts
           /\ worker' = [worker EXCEPT ![a].pc = "decide",
                ![a].seen = IF status[j] = "pending" THEN "pending" ELSE "active"]
  <2> DEFINE r == [w EXCEPT !.pc = "decide",
                            !.seen = IF status[j] = "pending" THEN "pending" ELSE "active"]
  <2>1. worker' = [worker EXCEPT ![a] = r]
    BY <1>5
  <2>2. /\ r.pc = "decide" /\ r.job = w.job /\ r.launched = w.launched
        /\ r.attempt = w.attempt /\ r.previous = w.previous
    BY <1>1 DEF Workers
  <2> HIDE DEF r
  <2>3. Charged(r) /\ Follows(r, w)
    BY <1>1, <2>2 DEF Charged, Follows
  <2> QED
    BY <1>2, <1>5, <2>1, <2>3, WorkerFollows, StoreKeepsBudget DEF store
<1> QED
  BY <1>3, <1>4, <1>5 DEF Settle

\* The decision charges nothing.
LEMMA DecideBudget == ASSUME IInv, IInv', BudgetInv, NEW a \in Agents, Decide(a) PROVE BudgetInv'
<1>1. UNCHANGED <<spent, tainted>> /\ (\A j \in Jobs : KeepsBudget(j)) /\ At(a, "decide")
  BY StoreKeepsBudget DEF Decide
<1>2. CASE Goto(a, "restore")
  BY <1>1, <1>2, GotoBudget DEF At
<1>3. CASE \E exit : Exit(a, exit)
  BY <1>1, <1>3, ExitBudget
<1>4. CASE \E command : EndWith(a, command)
  BY <1>1, <1>4, EndWithBudget DEF At
<1> QED
  BY <1>2, <1>3, <1>4 DEF Decide

\* A job that is taken from its owner, or ended by it, keeps its count, and a
\* terminal one stays terminal.
LEMMA LeavingKeepsBudget ==
  ASSUME IInv, NEW j \in Jobs, status[j] \in Active, UNCHANGED attempts,
         Requeue(j) \/ \E result \in Terminal : Finish(j, result)
  PROVE  \A i \in Jobs : KeepsBudget(i)
BY DEF KeepsBudget, Requeue, Finish, IInv, TypeOK

\* A settlement command, or the fallback.
LEMMA EndsBudget ==
  ASSUME IInv, NEW a \in Agents, worker[a].pc = "transition", UNCHANGED attempts,
         Owned(JobOf(a), a), Ends(a)
  PROVE  \A i \in Jobs : KeepsBudget(i)
<1>1. JobOf(a) \in Jobs
  BY DEF IInv, TypeOK, WorkerShape, Workers, WellFormed, JobOf
<1> QED
  BY <1>1, LeavingKeepsBudget DEF Owned, Ends

\* The steps that end a job.
LEMMA TransitionBudget ==
  ASSUME IInv, IInv', BudgetInv, NEW a \in Agents,
         Transition(a) \/ TransitionFails(a) \/ Fallback(a)
  PROVE  BudgetInv'
<1>1. UNCHANGED <<attempts, spent, tainted>>
  BY DEF Transition, TransitionFails, Fallback
<1>2. CASE Transition(a)
  BY <1>1, <1>2, EndsBudget, ExitBudget DEF Transition, At
<1>3. CASE TransitionFails(a)
  <2>1. \A i \in Jobs : KeepsBudget(i)
    BY <1>1, <1>3, EndsBudget, StoreKeepsBudget DEF TransitionFails, At, store
  <2> QED
    BY <1>1, <1>3, <2>1, GotoBudget DEF TransitionFails, At
<1>4. CASE Fallback(a)
  <2>1. JobOf(a) \in Jobs
    BY <1>4 DEF IInv, TypeOK, WorkerShape, Workers, WellFormed, JobOf, Fallback, At
  <2>2. \A i \in Jobs : KeepsBudget(i)
    BY <1>1, <1>4, <2>1, LeavingKeepsBudget, StoreKeepsBudget DEF Fallback, Owned, store
  <2> QED
    BY <1>1, <1>4, <2>2, ExitBudget DEF Fallback
<1> QED
  BY <1>2, <1>3, <1>4

\* While the workers stay, whatever happens to the jobs keeps the books.
LEMMA QueueBudget ==
  ASSUME IInv, IInv', BudgetInv, UNCHANGED <<worker, spent, tainted>>,
         \A j \in Jobs : KeepsBudget(j)
  PROVE  BudgetInv'
BY NoNewCharge DEF BudgetInv

\* What the engines, the operator and the team do to the jobs.
LEMMA OthersBudget ==
  ASSUME IInv, IInv', BudgetInv,
         \/ \E a \in Agents : EngineStep(a)
         \/ \E j \in Jobs : Publish(j) \/ Reap(j) \/ Reset(j)
         \/ TeamFails \/ OperatorStops \/ Resume
  PROVE  BudgetInv'
<1>1. ASSUME NEW a \in Agents, EngineStep(a) PROVE BudgetInv'
  <2>1. engine[a] \in Jobs /\ status[engine[a]] \in Active
    BY <1>1 DEF EngineStep, EngineStarts, EngineReleases, EngineFinishes, EngineActs, Owned,
                IInv, TypeOK
  <2>2. UNCHANGED <<attempts, worker, spent, tainted>>
    BY <1>1 DEF EngineStep, EngineStarts, EngineReleases, EngineFinishes
  <2>3. \A j \in Jobs : KeepsBudget(j)
    BY <1>1, <2>1, <2>2, LeavingKeepsBudget
       DEF EngineStep, EngineStarts, EngineReleases, EngineFinishes, KeepsBudget, IInv, TypeOK
  <2> QED
    BY <2>2, <2>3, QueueBudget
<1>2. ASSUME NEW j \in Jobs, Publish(j) \/ Reap(j) \/ Reset(j) PROVE BudgetInv'
  <2>1. UNCHANGED <<attempts, worker, spent, tainted>>
    BY <1>2 DEF Publish, Reap, Reset
  <2>2. CASE Publish(j)
    <3>1. \A i \in Jobs : KeepsBudget(i)
      BY <2>1, <2>2 DEF Publish, KeepsBudget, IInv, TypeOK
    <3> QED
      BY <2>1, <3>1, QueueBudget
  <2>3. CASE Reap(j) \/ Reset(j)
    BY <2>1, <2>3, LeavingKeepsBudget, QueueBudget DEF Reap, Reset
  <2> QED
    BY <1>2, <2>2, <2>3
<1>3. CASE TeamFails \/ OperatorStops \/ Resume
  BY <1>3, StoreKeepsBudget, QueueBudget DEF TeamFails, OperatorStops, Resume
<1> QED
  BY <1>1, <1>2, <1>3

\* A worker that starts, and a container that ends with its workers.
LEMMA StartBudget ==
  ASSUME IInv, IInv', BudgetInv, Restart \/ \E a \in Agents : Spawn(a)
  PROVE  BudgetInv'
<1>1. ASSUME NEW a \in Agents, Spawn(a) PROVE BudgetInv'
  <2> DEFINE r == [Exited("settled") EXCEPT !.pc = "waiting"]
  <2>1. UNCHANGED <<spent, tainted>> /\ \A j \in Jobs : KeepsBudget(j)
    BY <1>1, StoreKeepsBudget DEF Spawn
  <2>2. Charged(r) /\ Follows(r, worker[a])
    BY DEF Exited, Charged, Follows
  <2>3. CASE worker' = [worker EXCEPT ![a] = r]
    BY <2>1, <2>2, <2>3, WorkerFollows
  <2>4. CASE worker' = [worker EXCEPT ![a] = Exited("fatal")]
    BY <2>1, <2>4, ExitBudget
  <2> QED
    BY <1>1, <2>3, <2>4 DEF Spawn
<1>2. CASE Restart
  <2>1. UNCHANGED <<spent, tainted>> /\ \A j \in Jobs : KeepsBudget(j)
    BY <1>2, StoreKeepsBudget DEF Restart
  <2>2. \A b \in Agents : Charged(worker'[b]) /\ Follows(worker'[b], worker[b])
    BY <1>2, ExitFollows DEF Restart
  <2> QED
    BY <2>1, <2>2, NoNewCharge
<1> QED
  BY <1>1, <1>2

-----------------------------------------------------------------------------
(* The steps that charge an attempt, spend it, and take it back.           *)

\* One worker moves, and no job but its own is touched.
LEMMA OtherJobsBalance ==
  ASSUME IInv, IInv', BudgetInv, NEW a \in Agents, NEW r, NEW j \in Jobs,
         worker' = [worker EXCEPT ![a] = r],
         worker[a].job = j, r.job = j, status' = status,
         \A i \in Jobs \ {j} : /\ spent'[i] = spent[i] /\ tainted'[i] = tainted[i]
                               /\ attempts'[i] = attempts[i]
  PROVE  \A i \in Jobs \ {j} : ~tainted'[i] => Balanced(i)'
<1>1. worker'[a] = r /\ \A b \in Agents \ {a} : worker'[b] = worker[b]
  BY DEF IInv, TypeOK
<1> SUFFICES ASSUME NEW i \in Jobs \ {j}, ~tainted'[i] PROVE Balanced(i)'
  OBVIOUS
<1>2. Spending(i)' \subseteq Spending(i) /\ Saving(i)' \subseteq Saving(i)
  BY <1>1 DEF Spending, Saving, Charging
<1>3. KeepsBudget(i)
  BY DEF KeepsBudget
<1>4. Balanced(i)
  BY DEF BudgetInv
<1> QED
  BY <1>2, <1>3, <1>4, StaysBalanced DEF IInv

\* record_job_attempt: the attempt has a place in the budget that it takes.
LEMMA RecordBudget ==
  ASSUME IInv, IInv', BudgetInv, NEW a \in Agents, NEW j \in Jobs, JobOf(a) = j, Record(a)
  PROVE  BudgetInv'
<1> DEFINE w == worker[a]
           before == attempts[j]
           after  == Least(before + 1, MaxAttempts)
           r == [w EXCEPT !.pc = "recorded", !.previous = before, !.attempt = after]
<1>1. w \in Workers /\ Charged(w) /\ w.pc = "claimed" /\ w.job = j
  BY RecordOf DEF Record, At, JobOf
<1>2. /\ before \in 0..MaxAttempts /\ after \in 1..MaxAttempts
      /\ before < MaxAttempts => after = before + 1
      /\ before >= MaxAttempts => after = MaxAttempts /\ before = MaxAttempts
  <2>1. before \in 0..MaxAttempts
    BY <1>1 DEF IInv, TypeOK
  <2> HIDE DEF before
  <2> QED
    BY <2>1 DEF Least
<1>3. /\ worker' = [worker EXCEPT ![a] = r]
      /\ attempts' = [attempts EXCEPT ![j] = after]
      /\ tainted' = [tainted EXCEPT ![j] = tainted[j] \/ ~Owned(j, a)]
      /\ UNCHANGED <<status, spent>>
  BY DEF Record, JobOf
<1>4. w.attempt = 0 /\ w.previous = 0 /\ ~w.launched
  BY <1>1 DEF Charged
<1>5. /\ r.pc = "recorded" /\ r.job = j /\ r.previous = before /\ r.attempt = after
      /\ ~r.launched
  BY <1>1, <1>4 DEF Workers
<1>6. after = Least(before + 1, MaxAttempts)
  OBVIOUS
<1> HIDE DEF before, after, r
<1>7. Charged(r)
  BY <1>2, <1>5, <1>6 DEF Charged
<1>8. worker'[a] = r /\ \A b \in Agents \ {a} : worker'[b] = worker[b]
  BY <1>3 DEF IInv, TypeOK
<1>9. \A b \in Agents : Charged(worker'[b])
  BY <1>7, <1>8 DEF BudgetInv
<1>10. \A i \in Jobs \ {j} : ~tainted'[i] => Balanced(i)'
  <2>1. \A i \in Jobs \ {j} : /\ spent'[i] = spent[i] /\ tainted'[i] = tainted[i]
                              /\ attempts'[i] = attempts[i]
    BY <1>3 DEF IInv, TypeOK
  <2> QED
    BY <1>1, <1>3, <1>5, <2>1, OtherJobsBalance
<1>11. ASSUME ~tainted'[j] PROVE Balanced(j)'
  <2>1. ~tainted[j] /\ status[j] \in Active
    BY <1>1, <1>3, <1>11 DEF Owned, IInv, TypeOK
  <2>2. Cardinality(Spending(j)) <= spent[j] /\ spent[j] + Cardinality(Saving(j)) <= before
    BY <1>1, <2>1 DEF BudgetInv, Balanced, Budget, before
  <2>3. Budget(j)' = after
    BY <1>1, <1>3, <2>1 DEF Budget, IInv, TypeOK
  <2>4. spent'[j] = spent[j] /\ spent[j] \in Nat
    BY <1>1, <1>3 DEF IInv, TypeOK, SpentCap
  <2>5. Spending(j)' = Spending(j)
    BY <1>4, <1>5, <1>8 DEF Spending
  <2>6. a \notin Saving(j)
    BY <1>4 DEF Saving
  <2>7. CASE before < MaxAttempts
    <3>1. Saving(j)' = Saving(j) \cup {a}
      BY <1>2, <1>5, <1>8, <2>7 DEF Saving, Charging
    <3>2. Cardinality(Saving(j)') = Cardinality(Saving(j)) + 1
      BY <2>6, <3>1, ChargesCount, FS_AddElement
    <3> QED
      BY <1>2, <2>2, <2>3, <2>4, <2>5, <2>7, <3>2, ChargesCount DEF Balanced
  <2>8. CASE before >= MaxAttempts
    <3>1. Saving(j)' = Saving(j)
      BY <1>2, <1>4, <1>5, <1>8, <2>8 DEF Saving
    <3> QED
      BY <1>2, <2>2, <2>3, <2>4, <2>5, <2>8, <3>1, ChargesCount DEF Balanced
  <2> QED
    BY <1>2, <2>7, <2>8
<1> QED
  BY <1>9, <1>10, <1>11 DEF BudgetInv

\* A launch spends the attempt that the worker was charged for.
LEMMA LaunchBudget ==
  ASSUME IInv, IInv', BudgetInv, NEW a \in Agents, NEW j \in Jobs, JobOf(a) = j, Launch(a)
  PROVE  BudgetInv'
<1> DEFINE w == worker[a]
           r == [w EXCEPT !.pc = "running", !.launched = TRUE]
<1>1. w \in Workers /\ Charged(w) /\ w.pc = "ready" /\ w.job = j /\ w.previous < MaxAttempts
  BY RecordOf DEF Launch, At, JobOf
<1>2. /\ worker' = [worker EXCEPT ![a] = r]
      /\ spent' = [spent EXCEPT ![j] = Least(spent[j] + 1, SpentCap)]
      /\ UNCHANGED <<status, attempts, tainted>>
  BY DEF Launch, JobOf, store
<1>3. w.attempt > 0 /\ ~w.launched
  BY <1>1 DEF Charged
<1>4. /\ r.pc = "running" /\ r.job = j /\ r.previous = w.previous /\ r.attempt = w.attempt
      /\ r.launched
  BY <1>1 DEF Workers
<1> HIDE DEF r
<1>5. Charged(r)
  BY <1>1, <1>3, <1>4 DEF Charged
<1>6. worker'[a] = r /\ \A b \in Agents \ {a} : worker'[b] = worker[b]
  BY <1>2 DEF IInv, TypeOK
<1>7. \A b \in Agents : Charged(worker'[b])
  BY <1>5, <1>6 DEF BudgetInv
<1>8. \A i \in Jobs \ {j} : ~tainted'[i] => Balanced(i)'
  <2>1. \A i \in Jobs \ {j} : /\ spent'[i] = spent[i] /\ tainted'[i] = tainted[i]
                              /\ attempts'[i] = attempts[i]
    BY <1>2 DEF IInv, TypeOK
  <2> QED
    BY <1>1, <1>2, <1>4, <2>1, OtherJobsBalance
<1>9. ASSUME ~tainted'[j] PROVE Balanced(j)'
  <2> DEFINE s == Cardinality(Spending(j))   n == Cardinality(Saving(j))
             k == spent[j]                   m == Budget(j)
  <2>1. s \in Nat /\ n \in Nat /\ IsFiniteSet(Spending(j)) /\ IsFiniteSet(Saving(j))
    BY ChargesCount
  <2>2. s <= k /\ k + n <= m
    BY <1>1, <1>2, <1>9 DEF BudgetInv, Balanced
  <2>3. k \in Nat /\ m \in 0..MaxAttempts /\ Budget(j)' = m
    BY <1>1, <1>2 DEF IInv, TypeOK, SpentCap, Budget
  <2>4. a \in Saving(j) /\ a \notin Spending(j)
    BY <1>1, <1>3 DEF Saving, Spending, Charging
  <2>5. Saving(j)' = Saving(j) \ {a} /\ Spending(j)' = Spending(j) \cup {a}
    BY <1>4, <1>6 DEF Saving, Spending, Charging
  <2>6. Cardinality(Saving(j)') = n - 1 /\ Cardinality(Spending(j)') = s + 1
    <3>1. Cardinality(Saving(j) \ {a}) = n - 1
      BY <2>1, <2>4, FS_RemoveElement
    <3>2. Cardinality(Spending(j) \cup {a}) = s + 1
      BY <2>1, <2>4, FS_AddElement
    <3> QED
      BY <2>5, <3>1, <3>2
  <2>7. n - 1 \in Nat
    BY <2>4, <2>5, <2>6, ChargesCountNext
  <2>8. spent'[j] = Least(k + 1, SpentCap)
    BY <1>1, <1>2 DEF IInv, TypeOK
  <2> HIDE DEF s, n, k, m
  <2>9. spent'[j] = k + 1
    BY <2>1, <2>2, <2>3, <2>7, <2>8 DEF Least, SpentCap
  <2> QED
    BY <2>1, <2>2, <2>3, <2>6, <2>7, <2>9 DEF Balanced
<1> QED
  BY <1>7, <1>8, <1>9 DEF BudgetInv

\* restore_job_attempt takes back the attempt the worker was charged, and with
\* it the launch it was spent on.
LEMMA RestoreBudget ==
  ASSUME IInv, IInv', BudgetInv, NEW a \in Agents, NEW j \in Jobs, JobOf(a) = j, Restore(a)
  PROVE  BudgetInv'
<1> DEFINE w == worker[a]
           k == spent[j]
           r == [w EXCEPT !.pc = "transition", !.command = "job-release", !.seen = "none"]
<1>1. w \in Workers /\ Charged(w) /\ w.pc = "restore" /\ w.job = j
  BY RecordOf DEF Restore, At, JobOf
<1>2. /\ worker' = [worker EXCEPT ![a] = r]
      /\ attempts' = [attempts EXCEPT ![j] = w.previous]
      /\ spent' = [spent EXCEPT ![j] = IF w.launched /\ k > 0 THEN k - 1 ELSE k]
      /\ tainted' = [tainted EXCEPT ![j] = tainted[j] \/ attempts[j] # w.attempt]
      /\ UNCHANGED status
  BY <1>1 DEF Restore, EndWith
<1>3. /\ r.pc = "transition" /\ r.job = j /\ r.previous = w.previous /\ r.attempt = w.attempt
      /\ r.launched = w.launched
  BY <1>1 DEF Workers
<1> HIDE DEF r
<1>4. Charged(r)
  BY <1>1, <1>3 DEF Charged
<1>5. worker'[a] = r /\ \A b \in Agents \ {a} : worker'[b] = worker[b]
  BY <1>2 DEF IInv, TypeOK
<1>6. \A b \in Agents : Charged(worker'[b])
  BY <1>4, <1>5 DEF BudgetInv
<1>7. \A i \in Jobs \ {j} : ~tainted'[i] => Balanced(i)'
  <2>1. \A i \in Jobs \ {j} : /\ spent'[i] = spent[i] /\ tainted'[i] = tainted[i]
                              /\ attempts'[i] = attempts[i]
    BY <1>2 DEF IInv, TypeOK
  <2> QED
    BY <1>1, <1>2, <1>3, <2>1, OtherJobsBalance
<1>8. ASSUME ~tainted'[j] PROVE Balanced(j)'
  <2> DEFINE s == Cardinality(Spending(j))   n == Cardinality(Saving(j))
             m == Budget(j)                  b == Budget(j)'
             p == w.previous                 t == w.attempt
  <2>1. s \in Nat /\ n \in Nat /\ IsFiniteSet(Spending(j)) /\ IsFiniteSet(Saving(j))
    BY ChargesCount
  <2>2. ~tainted[j] /\ attempts[j] = t
    BY <1>1, <1>2, <1>8 DEF IInv, TypeOK
  <2>3. s <= k /\ k + n <= m
    BY <1>1, <2>2 DEF BudgetInv, Balanced
  <2>4. k \in Nat /\ p \in 0..MaxAttempts /\ t \in 0..MaxAttempts
    BY <1>1 DEF IInv, TypeOK, SpentCap, Workers
  <2>5. /\ m = IF status[j] \in Terminal THEN MaxAttempts ELSE t
        /\ b = IF status[j] \in Terminal THEN MaxAttempts ELSE p
    BY <1>1, <1>2, <2>2 DEF Budget, IInv, TypeOK
  <2>6. /\ w.launched => p < MaxAttempts /\ t > 0
        /\ t = 0 => p = 0 /\ ~w.launched
        /\ t > 0 => t = Least(p + 1, MaxAttempts)
    BY <1>1, <2>4 DEF Charged
  <2>7. spent'[j] = IF w.launched /\ k > 0 THEN k - 1 ELSE k
    BY <1>1, <1>2 DEF IInv, TypeOK
  <2>8. Saving(j)' = Saving(j) \ {a} /\ Spending(j)' = Spending(j) \ {a}
    BY <1>3, <1>5 DEF Saving, Spending, Charging
  <2>9. /\ a \in Spending(j) <=> w.launched
        /\ a \in Saving(j) <=> t > 0 /\ p < MaxAttempts /\ ~w.launched
    BY <1>1 DEF Saving, Spending, Charging
  <2>10. /\ Cardinality(Spending(j)') = IF w.launched THEN s - 1 ELSE s
         /\ Cardinality(Saving(j)') = IF t > 0 /\ p < MaxAttempts /\ ~w.launched THEN n - 1 ELSE n
    <3>1. Cardinality(Spending(j) \ {a}) = IF w.launched THEN s - 1 ELSE s
      BY <2>1, <2>9, FS_RemoveElement
    <3>2. Cardinality(Saving(j) \ {a}) =
            IF t > 0 /\ p < MaxAttempts /\ ~w.launched THEN n - 1 ELSE n
      BY <2>1, <2>9, FS_RemoveElement
    <3> QED
      BY <2>8, <3>1, <3>2
  <2>11. (w.launched => s - 1 \in Nat) /\ (t > 0 /\ p < MaxAttempts /\ ~w.launched => n - 1 \in Nat)
    BY <2>10, ChargesCountNext
  <2> HIDE DEF s, n, k, m, b, p, t
  <2>12. Cardinality(Spending(j)') <= spent'[j]
    BY <2>1, <2>3, <2>4, <2>7, <2>10, <2>11
  <2>13. spent'[j] + Cardinality(Saving(j)') <= b
    BY <2>1, <2>3, <2>4, <2>5, <2>6, <2>7, <2>10, <2>11 DEF Least
  <2> QED
    BY <2>12, <2>13 DEF Balanced, b
<1> QED
  BY <1>6, <1>7, <1>8 DEF BudgetInv

-----------------------------------------------------------------------------
(* The invariant of the budget.                                            *)

\* Nothing is charged before the first worker starts.
LEMMA InitBudget == Init => BudgetInv
<1> SUFFICES ASSUME Init PROVE BudgetInv
  OBVIOUS
<1>1. \A a \in Agents : Charged(worker[a]) /\ worker[a].attempt = 0 /\ ~worker[a].launched
  BY ExitFollows DEF Init, Exited
<1> SUFFICES ASSUME NEW j \in Jobs PROVE Balanced(j)
  BY <1>1 DEF BudgetInv
<1>2. Spending(j) = {} /\ Saving(j) = {}
  BY <1>1 DEF Spending, Saving
<1>3. Cardinality(Spending(j)) = 0 /\ Cardinality(Saving(j)) = 0
  BY <1>2, FS_EmptySet
<1>4. spent[j] = 0 /\ Budget(j) = 0
  BY DEF Init, Budget
<1> QED
  BY <1>3, <1>4 DEF Balanced

\* A worker that charges, launches or takes back has a job.
LEMMA CountedJob ==
  ASSUME IInv, NEW a \in Agents, Record(a) \/ Launch(a) \/ Restore(a)
  PROVE  \E j \in Jobs : JobOf(a) = j
BY DEF IInv, TypeOK, WorkerShape, WellFormed, Workers, Record, Launch, Restore, At, JobOf

\* Every step keeps the books of every job.
LEMMA NextBudget ==
  ASSUME IInv, IInv', BudgetInv, [Next]_vars
  PROVE  BudgetInv'
<1>1. ASSUME NEW a \in Agents, Step(a) PROVE BudgetInv'
  <2>1. CASE Record(a) \/ Launch(a) \/ Restore(a)
    BY <2>1, CountedJob, RecordBudget, LaunchBudget, RestoreBudget
  <2>2. CASE Settle(a) \/ Decide(a) \/ Transition(a) \/ Fallback(a) \/ TransitionRefused(a)
    BY <2>2, SettleBudget, DecideBudget, TransitionBudget, OnwardBudget
  <2>3. CASE \/ BeginClaim(a) \/ (\E j \in Jobs : Claim(a, j)) \/ Claimed(a) \/ ClaimNothing(a)
             \/ Recorded(a) \/ Refuse(a) \/ Caught(a) \/ IgnoreSignals(a) \/ CleanUp(a)
    BY <2>3, ClaimingBudget, ClaimBudget, OnwardBudget, StopBudget, EndBudget
  <2> QED
    BY <1>1, <2>1, <2>2, <2>3 DEF Step
<1>2. ASSUME NEW a \in Agents, Interference(a) \/ EngineEnds(a) PROVE BudgetInv'
  BY <1>2, ClaimingBudget, OnwardBudget, StopBudget, EndBudget, TransitionBudget
     DEF Interference
<1>3. ASSUME NEW a \in Agents, Spawn(a) \/ EngineStep(a) PROVE BudgetInv'
  BY <1>3, StartBudget, OthersBudget
<1>4. CASE (\E j \in Jobs : Publish(j) \/ Reap(j)) \/ TeamStep \/ OperatorStops
  BY <1>4, StartBudget, OthersBudget DEF TeamStep
<1>5. CASE UNCHANGED vars
  BY <1>5, QueueBudget, StoreKeepsBudget DEF vars, store
<1> QED
  BY <1>1, <1>2, <1>3, <1>4, <1>5 DEF Next

\* Every attempt that a worker may still spend or take back has its place in the
\* count of its job, for any team and any budget.
THEOREM BooksAreBalanced == Spec => []BudgetInv
BY InitOK, NextOK, InitBudget, NextBudget, PTL DEF Spec

\* record_job_attempt bounds the launches of a job by AGENTWS_MAX_JOB_ATTEMPTS
\* whatever releases, reaps, kills and restarts happen, unless the job's count
\* was written by a worker that had lost it or restored over another count.
THEOREM BudgetIsKept == Spec => []BudgetKept
<1>1. IInv /\ BudgetInv => BudgetKept
  <2> SUFFICES ASSUME IInv, BudgetInv, NEW j \in Jobs, ~tainted[j]
               PROVE  /\ spent[j] <= MaxAttempts
                      /\ status[j] \notin Terminal => spent[j] <= attempts[j]
    BY DEF BudgetKept
  <2> DEFINE n == Cardinality(Saving(j))
  <2>1. n \in Nat /\ spent[j] + n <= Budget(j)
    BY ChargesCount DEF BudgetInv, Balanced
  <2>2. spent[j] \in Nat /\ attempts[j] \in 0..MaxAttempts
    BY DEF IInv, TypeOK, SpentCap
  <2> HIDE DEF n
  <2> QED
    BY <2>1, <2>2 DEF Budget
<1> QED
  BY <1>1, WorkerInvariant, BooksAreBalanced, PTL

-----------------------------------------------------------------------------
(* What the workers do to the jobs is what the ledger allows.              *)

Untouched == UNCHANGED <<status, owner>>
Requeued(j)       == status[j] \in Active /\ Requeue(j)
Finished(j, result) ==
  /\ status[j] \in IF result = "done" THEN {"running"} ELSE Active
  /\ Finish(j, result)

\* A settlement command, or the fallback, ends a job that the worker owns.
LEMMA EndsEffect ==
  ASSUME IInv, NEW a \in Agents, worker[a].job \in Jobs, Owned(JobOf(a), a), Ends(a)
  PROVE  \E j \in Jobs : Requeued(j) \/ Finished(j, "failed")
BY DEF Ends, Owned, JobOf, Requeued, Finished

\* A release, a reap and a reset are requeues of the ledger.
LEMMA RequeuedLedger == ASSUME NEW j \in Jobs, Requeued(j) PROVE Ledger!Next
<1>1. Ledger!Requeue(j)
  BY DEF Requeued, Requeue, Ledger!Requeue, Ledger!Active
<1> QED
  BY <1>1 DEF Ledger!Next

\* An end is a settlement of the ledger.
LEMMA FinishedLedger ==
  ASSUME NEW j \in Jobs, NEW result \in Terminal, Finished(j, result) PROVE Ledger!Next
<1>1. Ledger!Settle(j, result)
  BY DEF Finished, Finish, Ledger!Settle, Ledger!Active
<1> QED
  BY <1>1 DEF Ledger!Next, Ledger!Terminal

\* A claim is a claim of the ledger.
LEMMA ClaimLedger ==
  ASSUME NEW a \in Agents, NEW j \in Jobs, Claim(a, j) PROVE Ledger!Next
<1>1. Ledger!Claim(j, a)
  BY DEF Claim, Ledger!Claim, Ledger!GateOpen, Ledger!Serves
<1> QED
  BY <1>1 DEF Ledger!Next

\* A publication is one of the ledger.
LEMMA PublishLedger == ASSUME NEW j \in Jobs, Publish(j) PROVE Ledger!Next
<1>1. Ledger!Publish(j)
  BY DEF Publish, Ledger!Publish
<1> QED
  BY <1>1 DEF Ledger!Next

\* What an engine does to its job is a step of the ledger.
LEMMA EngineStepLedger == ASSUME IInv, NEW a \in Agents, EngineStep(a) PROVE Ledger!Next
<1>1. engine[a] \in Jobs /\ status[engine[a]] \in Active
  BY DEF IInv, TypeOK, EngineStep, EngineStarts, EngineReleases, EngineFinishes, EngineActs, Owned
<1>2. CASE EngineStarts(a)
  <2>1. Ledger!Start(engine[a])
    BY <1>2 DEF EngineStarts, Ledger!Start
  <2> QED
    BY <1>1, <2>1 DEF Ledger!Next
<1>3. CASE EngineReleases(a)
  BY <1>1, <1>3, RequeuedLedger DEF EngineReleases, Requeued
<1>4. ASSUME NEW result \in Terminal, EngineFinishes(a, result) PROVE Ledger!Next
  BY <1>1, <1>4, FinishedLedger DEF EngineFinishes, Finished
<1> QED
  BY <1>2, <1>3, <1>4 DEF EngineStep

\* Settlement: Transition, TransitionFails and Fallback.
LEMMA EndingLedger ==
  ASSUME IInv, NEW a \in Agents, Transition(a) \/ TransitionFails(a) \/ Fallback(a)
  PROVE  Ledger!Next \/ Untouched
<1>1. worker[a].job \in Jobs
  BY DEF IInv, TypeOK, WorkerShape, Workers, WellFormed, Transition, TransitionFails, Fallback, At
<1>2. CASE Owned(JobOf(a), a) /\ Ends(a)
  BY <1>1, <1>2, EndsEffect, RequeuedLedger, FinishedLedger
<1>3. CASE Owned(JobOf(a), a) /\ Finish(JobOf(a), "failed")
  BY <1>1, <1>3, FinishedLedger DEF Finished, Owned, JobOf
<1> QED
  BY <1>2, <1>3 DEF Transition, TransitionFails, Fallback, Untouched

\* What a worker does, or suffers, is a step of the ledger or none.
LEMMA StepLedger ==
  ASSUME IInv, NEW a \in Agents, Step(a) \/ Interference(a)
  PROVE  Ledger!Next \/ Untouched
<1>1. CASE Transition(a) \/ TransitionFails(a) \/ Fallback(a)
  BY <1>1, EndingLedger
<1>2. ASSUME NEW j \in Jobs, Claim(a, j) PROVE Ledger!Next
  BY <1>2, ClaimLedger
<1>3. CASE \/ BeginClaim(a) \/ Claimed(a) \/ ClaimNothing(a) \/ Record(a) \/ Recorded(a)
           \/ Refuse(a) \/ Launch(a) \/ Caught(a) \/ IgnoreSignals(a) \/ CleanUp(a)
  BY <1>3 DEF BeginClaim, Claimed, ClaimNothing, Record, Recorded, Refuse, Launch, Caught,
     IgnoreSignals, CleanUp, store, Untouched
<1>4. CASE \/ Settle(a) \/ Decide(a) \/ Restore(a) \/ TransitionRefused(a)
           \/ CommandFails(a) \/ Fail(a) \/ DeferStop(a) \/ Stop(a) \/ StopAgain(a)
           \/ StopLate(a) \/ CleanUpFails(a) \/ Kill(a)
  BY <1>4 DEF Settle, Decide, Restore, TransitionRefused, CommandFails, Fail, DeferStop, Stop,
     StopAgain, StopLate, CleanUpFails, Kill, store, Untouched
<1> QED
  BY <1>1, <1>2, <1>3, <1>4 DEF Step, Interference

\* Every step is one of the ledger, or leaves the jobs alone.
LEMMA NextLedger == IInv /\ [Next]_vars => [Ledger!Next]_(Ledger!ledgerVars)
<1> SUFFICES ASSUME IInv, [Next]_vars PROVE Ledger!Next \/ Untouched
  BY DEF Ledger!ledgerVars, Untouched
<1>1. ASSUME NEW a \in Agents,
             Spawn(a) \/ Step(a) \/ EngineEnds(a) \/ EngineStep(a) \/ Interference(a)
      PROVE  Ledger!Next \/ Untouched
  <2>1. CASE Spawn(a) \/ EngineEnds(a)
    BY <2>1 DEF Spawn, EngineEnds, store, Untouched
  <2> QED
    BY <1>1, <2>1, StepLedger, EngineStepLedger
<1>2. ASSUME NEW j \in Jobs, Publish(j) \/ Reap(j) \/ Reset(j) PROVE Ledger!Next
  BY <1>2, PublishLedger, RequeuedLedger DEF Reap, Reset, Requeued
<1>3. CASE TeamFails \/ Restart \/ Resume \/ OperatorStops \/ UNCHANGED vars
  BY <1>3 DEF TeamFails, Restart, Resume, OperatorStops, store, vars, Untouched
<1> QED
  BY <1>1, <1>2, <1>3 DEF Next, TeamStep

\* The workers, killed, stopped and failing at any instruction, use the queue
\* within its promises: what they do to the jobs is a behaviour of JobLedger.
THEOREM WorkersKeepTheLedger == Spec => LedgerSpec
<1>1. Init => Ledger!Init
  BY DEF Init, Ledger!Init
<1> QED
  BY <1>1, NextLedger, WorkerInvariant, PTL DEF Spec, LedgerSpec, Ledger!Spec

=============================================================================
