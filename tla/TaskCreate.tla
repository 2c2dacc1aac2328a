------------------------------ MODULE TaskCreate ------------------------------
(***************************************************************************)
(* bin/task-create publishes a task and its initial planner job.  The two  *)
(* live under different roots, perhaps on different mounts, so the pair is *)
(* staged under hidden names and published by two renames.  The task keeps *)
(* a .creating marker with the transaction's token until both are visible; *)
(* the planner job carries the same token for good.  A signal before the   *)
(* commit rolls the stages back; a creator killed at any point leaves its  *)
(* work to the next call of task-create, or to the first claimant.         *)
(*                                                                         *)
(* The module follows one task identifier.  A creator runs once, so its    *)
(* name stands for the transaction token it makes up.                      *)
(***************************************************************************)
EXTENDS Naturals

CONSTANTS
  Creators,   \* the calls of task-create for this task
  Workers,    \* job-claim, job-wait and recovery processes on the planner job
  MaxKills,   \* bound on the number of processes killed
  None,       \* no directory, or nobody
  Foreign     \* a job somebody else published under the planner job's name

ASSUME CreateAssumption ==
  /\ MaxKills \in Nat
  /\ Creators \cap Workers = {}
  /\ None \notin Creators \cup Workers
  /\ Foreign \notin Creators \cup {None}

VARIABLES
  taskStage,  \* the transaction of the hidden task stage
  jobStage,   \* the transaction of the hidden planner job stage
  task,       \* the transaction of the published task
  creating,   \* does the published task still carry .creating?
  job,        \* the transaction of the published planner job
  claimed,    \* has a planner claimed it?
  createLock, \* the creator holding flock on .task-create.lock
  jobLock,    \* who holds .control.lock of the planner job, staged or published
  creator,    \* the progress of each call of task-create
  worker,     \* the progress of each worker
  kills

dirs == <<taskStage, jobStage, task, creating, job, claimed>>
vars == <<taskStage, jobStage, task, creating, job, claimed,
          createLock, jobLock, creator, worker, kills>>

\* Where a creator is.  From "publishTask" on, catchable signals are masked.
StagingLabels == {"inspect", "stageTask", "ownTask", "stageJob", "ownJob", "commit"}
CommitLabels  == {"publishTask", "check", "publishJob", "removeMarker"}
CleanLabels   == {"cleanTask", "cleanJob"}
Running       == StagingLabels \cup CommitLabels \cup CleanLabels
CreatorLabels == Running \cup {"new", "done", "failed", "killed"}
WorkerLabels  == {"idle", "finalize", "claim"}

NewCreator == [pc |-> "new", txn |-> None, ownTask |-> FALSE, ownPlan |-> FALSE,
               withTask |-> FALSE, withJob |-> FALSE]

At(c, label) == creator[c].pc = label
Txn(c) == creator[c].txn
Goto(c, label) == creator' = [creator EXCEPT ![c].pc = label]

\* The process is gone: the kernel drops its locks.
Drop(c) ==
  /\ createLock' = IF createLock = c THEN None ELSE createLock
  /\ jobLock' = IF jobLock = c THEN None ELSE jobLock

End(c, label) == Goto(c, label) /\ Drop(c)

-----------------------------------------------------------------------------
(* The call takes the global lock, then looks at what is on disk.          *)

Lock(c) ==
  /\ At(c, "new")
  /\ createLock = None
  /\ createLock' = c
  /\ Goto(c, "inspect")
  /\ UNCHANGED <<dirs, jobLock, worker, kills>>

\* The call settles on a transaction and on what it has to publish.
Adopt(c, txn, label, withTask, withJob) ==
  creator' = [creator EXCEPT ![c].pc = label, ![c].txn = txn,
                             ![c].withTask = withTask, ![c].withJob = withJob]

\* Nothing there: a fresh transaction.
Fresh == task = None /\ job = None /\ taskStage = None /\ jobStage = None

InspectFresh(c) ==
  /\ At(c, "inspect")
  /\ Fresh
  /\ Adopt(c, c, "stageTask", TRUE, TRUE)
  /\ UNCHANGED <<dirs, createLock, jobLock, worker, kills>>

\* The interrupted creations that are recognised, and what is left to publish.
PairPublished == /\ task # None /\ creating /\ job = task
                 /\ taskStage = None /\ jobStage = None
TaskPublished == /\ task # None /\ creating /\ job = None
                 /\ taskStage = None /\ jobStage = task
TaskStaged    == /\ task = None /\ job = None
                 /\ taskStage # None /\ jobStage = None
PairStaged    == /\ task = None /\ job = None
                 /\ taskStage # None /\ jobStage = taskStage

\* recover_interrupted_commit: anything else is refused and left as it is.
InspectRecover(c) ==
  /\ At(c, "inspect")
  /\ ~Fresh
  /\ \/ /\ PairPublished
        /\ Adopt(c, task, "commit", FALSE, FALSE)
        /\ UNCHANGED <<createLock, jobLock>>
     \/ /\ TaskPublished
        /\ Adopt(c, task, "commit", FALSE, TRUE)
        /\ UNCHANGED <<createLock, jobLock>>
     \/ /\ TaskStaged
        /\ Adopt(c, taskStage, "stageJob", TRUE, TRUE)
        /\ UNCHANGED <<createLock, jobLock>>
     \/ /\ PairStaged
        /\ Adopt(c, taskStage, "commit", TRUE, TRUE)
        /\ UNCHANGED <<createLock, jobLock>>
     \/ /\ ~(PairPublished \/ TaskPublished \/ TaskStaged \/ PairStaged)
        /\ End(c, "failed")
  /\ UNCHANGED <<dirs, worker, kills>>

-----------------------------------------------------------------------------
(* Staging.  A stage is built under a private name and renamed into place; *)
(* the shell notes its ownership only after the rename has returned.       *)

StageTask(c) ==
  /\ At(c, "stageTask")
  /\ taskStage' = Txn(c)
  /\ Goto(c, "ownTask")
  /\ UNCHANGED <<jobStage, task, creating, job, claimed, createLock, jobLock, worker, kills>>

OwnTask(c) ==
  /\ At(c, "ownTask")
  /\ creator' = [creator EXCEPT ![c].pc = "stageJob", ![c].ownTask = TRUE]
  /\ UNCHANGED <<dirs, createLock, jobLock, worker, kills>>

StageJob(c) ==
  /\ At(c, "stageJob")
  /\ jobStage' = Txn(c)
  /\ Goto(c, "ownJob")
  /\ UNCHANGED <<taskStage, task, creating, job, claimed, createLock, jobLock, worker, kills>>

OwnJob(c) ==
  /\ At(c, "ownJob")
  /\ creator' = [creator EXCEPT ![c].pc = "commit", ![c].ownPlan = TRUE]
  /\ UNCHANGED <<dirs, createLock, jobLock, worker, kills>>

AbortUnmasked(c) ==
  /\ creator[c].pc \in StagingLabels \cup CommitLabels
  /\ Goto(c, "cleanTask")
  /\ UNCHANGED <<dirs, createLock, jobLock, worker, kills>>

\* A signal, or a command of the staging that fails: the exit trap runs.
Abort(c) ==
  /\ creator[c].pc \in StagingLabels
  /\ Goto(c, "cleanTask")
  /\ UNCHANGED <<dirs, createLock, jobLock, worker, kills>>

CleanTaskOfAnyone(c) ==
  /\ At(c, "cleanTask")
  /\ taskStage' = IF taskStage = Txn(c) THEN None ELSE taskStage
  /\ Goto(c, "cleanJob")
  /\ UNCHANGED <<jobStage, task, creating, job, claimed, createLock, jobLock, worker, kills>>

\* remove_owned_stage asks for the flag and for the token in the stage.
CleanTask(c) ==
  /\ At(c, "cleanTask")
  /\ taskStage' = IF creator[c].ownTask /\ taskStage = Txn(c) THEN None ELSE taskStage
  /\ Goto(c, "cleanJob")
  /\ UNCHANGED <<jobStage, task, creating, job, claimed, createLock, jobLock, worker, kills>>

CleanJob(c) ==
  /\ At(c, "cleanJob")
  /\ jobStage' = IF creator[c].ownPlan /\ jobStage = Txn(c) THEN None ELSE jobStage
  /\ End(c, "failed")
  /\ UNCHANGED <<taskStage, task, creating, job, claimed, worker, kills>>

-----------------------------------------------------------------------------
(* finish_commit: signals masked, the job locked, then two renames.        *)

BeginCommit(c) ==
  /\ At(c, "commit")
  /\ jobLock = None
  /\ jobLock' = c
  /\ Goto(c, IF creator[c].withTask THEN "publishTask" ELSE "check")
  /\ UNCHANGED <<dirs, createLock, worker, kills>>

PublishTaskUnmarked(c) ==
  /\ At(c, "publishTask")
  /\ task' = taskStage
  /\ creating' = FALSE
  /\ taskStage' = None
  /\ creator' = [creator EXCEPT ![c].pc = "check", ![c].ownTask = FALSE]
  /\ UNCHANGED <<jobStage, job, claimed, createLock, jobLock, worker, kills>>

\* mv -nT of the task stage, its .creating inside.
PublishTask(c) ==
  /\ At(c, "publishTask")
  /\ task' = taskStage
  /\ creating' = TRUE
  /\ taskStage' = None
  /\ creator' = [creator EXCEPT ![c].pc = "check", ![c].ownTask = FALSE]
  /\ UNCHANGED <<jobStage, job, claimed, createLock, jobLock, worker, kills>>

\* task_is_complete and planner_job_has_complete_base, under the job's lock: a
\* worker may have finalized the task while this call waited for it.
Check(c) ==
  /\ At(c, "check")
  /\ \/ /\ task = Txn(c) /\ creating
        /\ Goto(c, IF creator[c].withJob THEN "publishJob" ELSE "removeMarker")
        /\ UNCHANGED <<createLock, jobLock>>
     \/ /\ ~(task = Txn(c) /\ creating)
        /\ End(c, "failed")
  /\ UNCHANGED <<dirs, worker, kills>>

\* mv -nT of the planner job, which never replaces one that appeared meanwhile.
PublishJob(c) ==
  /\ At(c, "publishJob")
  /\ \/ /\ job = None
        /\ job' = jobStage
        /\ jobStage' = None
        /\ creator' = [creator EXCEPT ![c].pc = "removeMarker", ![c].ownPlan = FALSE]
        /\ UNCHANGED <<createLock, jobLock>>
     \/ /\ job # None
        /\ End(c, "failed")
        /\ UNCHANGED <<job, jobStage>>
  /\ UNCHANGED <<taskStage, task, creating, claimed, worker, kills>>

RemoveMarker(c) ==
  /\ At(c, "removeMarker")
  /\ creating' = FALSE
  /\ End(c, "done")
  /\ UNCHANGED <<taskStage, jobStage, task, job, claimed, worker, kills>>

\* SIGKILL.  A rename the shell had already started keeps the locks, which its
\* process has inherited, until it is over.
KillCreator(c) ==
  /\ creator[c].pc \in Running
  /\ kills < MaxKills
  /\ kills' = kills + 1
  /\ End(c, "killed")
  /\ UNCHANGED <<dirs, worker>>

-----------------------------------------------------------------------------
(* The queue's side of the planner job.                                    *)

\* job-create by somebody else takes the planner job's name.
ForeignJob ==
  /\ job = None
  /\ job' = Foreign
  /\ UNCHANGED <<taskStage, jobStage, task, creating, claimed, createLock, jobLock,
                 creator, worker, kills>>

WorkerLock(w) ==
  /\ worker[w] = "idle"
  /\ job \in Creators
  /\ ~claimed
  /\ jobLock = None
  /\ jobLock' = w
  /\ worker' = [worker EXCEPT ![w] = "finalize"]
  /\ UNCHANGED <<dirs, createLock, creator, kills>>

WorkerFinalizeSkipped(w) ==
  /\ worker[w] = "finalize"
  /\ worker' = [worker EXCEPT ![w] = "claim"]
  /\ UNCHANGED <<dirs, createLock, jobLock, creator, kills>>

\* finalize_pending_task_creation_locked, which only a task with the same token
\* passes.
WorkerFinalize(w) ==
  /\ worker[w] = "finalize"
  /\ creating => task = job
  /\ creating' = FALSE
  /\ worker' = [worker EXCEPT ![w] = "claim"]
  /\ UNCHANGED <<taskStage, jobStage, task, job, claimed, createLock, jobLock, creator, kills>>

\* job-claim commits its claim; job-wait and the recovery only look.
WorkerEnd(w) ==
  /\ worker[w] = "claim"
  /\ claimed' \in {TRUE, claimed}
  /\ jobLock' = None
  /\ worker' = [worker EXCEPT ![w] = "idle"]
  /\ UNCHANGED <<taskStage, jobStage, task, creating, job, createLock, creator, kills>>

\* job-release, a reap or a restart returns the job to pending.
Requeue ==
  /\ claimed
  /\ jobLock = None
  /\ claimed' = FALSE
  /\ UNCHANGED <<taskStage, jobStage, task, creating, job, createLock, jobLock,
                 creator, worker, kills>>

KillWorker(w) ==
  /\ worker[w] # "idle"
  /\ kills < MaxKills
  /\ kills' = kills + 1
  /\ jobLock' = None
  /\ worker' = [worker EXCEPT ![w] = "idle"]
  /\ UNCHANGED <<dirs, createLock, creator>>

-----------------------------------------------------------------------------
Init ==
  /\ taskStage = None /\ jobStage = None
  /\ task = None /\ creating = FALSE
  /\ job = None /\ claimed = FALSE
  /\ createLock = None /\ jobLock = None
  /\ creator = [c \in Creators |-> NewCreator]
  /\ worker = [w \in Workers |-> "idle"]
  /\ kills = 0

CreatorStep(c) ==
  \/ InspectFresh(c) \/ InspectRecover(c)
  \/ StageTask(c) \/ OwnTask(c) \/ StageJob(c) \/ OwnJob(c)
  \/ CleanTask(c) \/ CleanJob(c)
  \/ BeginCommit(c) \/ PublishTask(c) \/ Check(c) \/ PublishJob(c) \/ RemoveMarker(c)

WorkerStep(w) == WorkerFinalize(w) \/ WorkerEnd(w)

Next ==
  \/ \E c \in Creators : Lock(c) \/ CreatorStep(c) \/ Abort(c) \/ KillCreator(c)
  \/ \E w \in Workers : WorkerLock(w) \/ WorkerStep(w) \/ KillWorker(w)
  \/ ForeignJob
  \/ Requeue

Spec == Init /\ [][Next]_vars

\* A process runs until it ends, and the kernel serves those waiting for a lock
\* that is released again and again.
Fairness ==
  /\ \A c \in Creators : WF_vars(CreatorStep(c)) /\ SF_vars(BeginCommit(c))
  /\ \A w \in Workers : WF_vars(WorkerStep(w))
  /\ SF_vars(\E w \in Workers : WorkerLock(w))

FairSpec == Spec /\ Fairness

-----------------------------------------------------------------------------
Token == Creators \cup {None}

TypeOK ==
  /\ taskStage \in Token /\ jobStage \in Token
  /\ task \in Token /\ creating \in BOOLEAN
  /\ job \in Token \cup {Foreign} /\ claimed \in BOOLEAN
  /\ createLock \in Token
  /\ jobLock \in Token \cup Workers
  /\ creator \in [Creators -> [pc : CreatorLabels, txn : Token, ownTask : BOOLEAN,
                               ownPlan : BOOLEAN, withTask : BOOLEAN, withJob : BOOLEAN]]
  /\ worker \in [Workers -> WorkerLabels]
  /\ kills \in 0..MaxKills

\* A task that looks finished to its readers has its own planner job: neither a
\* missing one, nor one that another transaction or a stranger published.
PairIsWhole == task # None /\ ~creating => job = task

\* The planner job never appears without the task it is to plan, and a planner
\* holding it works on a finalized task.
PlannerHasTask ==
  /\ job \in Creators => task = job
  /\ claimed => job \in Creators /\ ~creating

\* From the moment the task is visible, wherever its creator is killed and
\* whoever else fails on the way, what is on disk is one of the two states
\* that the next task-create finishes, unless a stranger took the job's name.
PublishedTaskCanBeFinished ==
  task # None /\ creating /\ job # Foreign => PairPublished \/ TaskPublished

\* A call that fails removes nothing of another transaction: the staged task a
\* killed creator left is there for the next call until it is published.
OthersStageIsKept ==
  [][\A c \in Creators :
       taskStage = c /\ taskStage' # c => task' = c \/ creator[c].pc = "cleanTask"]_vars

\* What is published stays: no call replaces a task, a planner job, or a job
\* that somebody else put there first.
KeepsPublished ==
  /\ task # None => task' = task
  /\ job # None => job' = job
  /\ task # None /\ ~creating => ~creating'

PublishedIsKept == [][KeepsPublished]_vars

\* A creation whose planner job is visible is finalized, by its creator or by
\* whoever looks at the job next.
CreationIsFinalized == job \in Creators /\ creating ~> ~creating

-----------------------------------------------------------------------------
(* The inductive invariant behind the safety properties.                   *)

\* A creator past its first step holds the global lock, and in its commit also
\* the job's; a worker past its first step holds the job's.
LockInv ==
  /\ \A c \in Creators : creator[c].pc \in Running <=> createLock = c
  /\ \A c \in Creators : creator[c].pc \in CommitLabels <=> jobLock = c
  /\ \A w \in Workers : worker[w] # "idle" <=> jobLock = w

\* The combinations of stages and published directories that may be on disk,
\* and what a worker has seen of them.
DiskInv ==
  /\ taskStage # None => task = None /\ jobStage \in {None, taskStage}
  /\ task = None => ~creating
  /\ job \in Creators => taskStage = None /\ jobStage = None
  /\ \A w \in Workers : /\ worker[w] # "idle" => job \in Creators
                        /\ worker[w] = "claim" => ~creating

Staged(c) == /\ Txn(c) # None /\ task = None
             /\ taskStage = Txn(c) /\ jobStage = Txn(c)

\* What a creator knows at each of its labels.
StagingKnows(c) ==
  /\ creator[c].pc \in {"stageTask", "ownTask"} =>
       /\ Txn(c) = c /\ task = None /\ jobStage = None
       /\ taskStage = IF At(c, "ownTask") THEN c ELSE None
  /\ At(c, "stageJob") => /\ Txn(c) # None /\ task = None
                          /\ taskStage = Txn(c) /\ jobStage = None
  /\ At(c, "ownJob") => Staged(c)
  /\ creator[c].pc \in {"stageTask", "ownTask", "stageJob", "ownJob"} =>
       creator[c].withTask /\ creator[c].withJob /\ ~creator[c].ownPlan
  /\ creator[c].pc \in {"new", "inspect"} => ~creator[c].ownTask /\ ~creator[c].ownPlan

CommitKnows(c) ==
  /\ creator[c].pc \in {"commit", "publishTask"} =>
       /\ creator[c].withTask => Staged(c) /\ creator[c].withJob
       /\ ~creator[c].withTask => /\ ~At(c, "publishTask")
                                  /\ ~creator[c].ownTask /\ ~creator[c].ownPlan
  /\ At(c, "check") \/ (At(c, "commit") /\ ~creator[c].withTask) =>
       /\ Txn(c) # None /\ task = Txn(c)
       /\ creator[c].withJob => creating /\ jobStage = Txn(c) /\ job \notin Creators
       /\ ~creator[c].withJob => job = Txn(c)
  /\ At(c, "publishJob") =>
       Txn(c) # None /\ task = Txn(c) /\ creating /\ jobStage = Txn(c) /\ job \notin Creators
  /\ At(c, "removeMarker") => Txn(c) # None /\ task = Txn(c) /\ job = Txn(c)

CleanKnows(c) ==
  creator[c].pc \in StagingLabels \cup CleanLabels =>
    /\ creator[c].ownTask => Txn(c) = c /\ task = None
    /\ creator[c].ownPlan => task = None

IInv ==
  /\ TypeOK
  /\ LockInv
  /\ DiskInv
  /\ \A c \in Creators : StagingKnows(c) /\ CommitKnows(c) /\ CleanKnows(c)
  /\ PairIsWhole
  /\ PlannerHasTask
  /\ PublishedTaskCanBeFinished

=============================================================================
