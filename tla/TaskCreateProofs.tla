--------------------------- MODULE TaskCreateProofs ---------------------------
(***************************************************************************)
(* Theorems of TaskCreate for any number of creators and workers.          *)
(*                                                                         *)
(* The argument: one creator at a time is past its first step (LockInv),   *)
(* so what is known of the disk at a label of the one that moves is never  *)
(* disturbed by another creator, and only little by the workers and the    *)
(* stranger, who touch neither a stage nor the task (Bystanders).          *)
(***************************************************************************)
EXTENDS TaskCreate, TLAPS

USE CreateAssumption

CreatorType == [pc : CreatorLabels, txn : Token, ownTask : BOOLEAN,
                ownPlan : BOOLEAN, withTask : BOOLEAN, withJob : BOOLEAN]

USE DEF CreatorType, StagingLabels, CommitLabels, CleanLabels, Running, CreatorLabels, Token

Knows(c) == StagingKnows(c) /\ CommitKnows(c) /\ CleanKnows(c)

\* The creator that moves changes its own record only, as its action says.
MovesTo(c, r) == /\ creator'[c] = r
                 /\ \A d \in Creators \ {c} : creator'[d] = creator[d]

-----------------------------------------------------------------------------
\* Updating one creator's record with a record of the right type.
LEMMA RecordUpdate ==
  ASSUME TypeOK, NEW c \in Creators, NEW r \in CreatorType,
         creator' = [creator EXCEPT ![c] = r]
  PROVE  creator' \in [Creators -> CreatorType] /\ MovesTo(c, r)
BY DEF TypeOK, MovesTo

\* Goto changes the label and nothing else.
LEMMA GotoUpdate ==
  ASSUME TypeOK, NEW c \in Creators, NEW label \in CreatorLabels, Goto(c, label)
  PROVE  /\ creator' \in [Creators -> CreatorType]
         /\ MovesTo(c, [creator[c] EXCEPT !.pc = label])
         /\ creator'[c].pc = label
         /\ creator'[c].txn = creator[c].txn
         /\ creator'[c].ownTask = creator[c].ownTask
         /\ creator'[c].ownPlan = creator[c].ownPlan
         /\ creator'[c].withTask = creator[c].withTask
         /\ creator'[c].withJob = creator[c].withJob
<1> DEFINE r == [creator[c] EXCEPT !.pc = label]
<1>1. creator[c] \in CreatorType
  BY DEF TypeOK
<1>2. r \in CreatorType
  BY <1>1
<1>3. creator' = [creator EXCEPT ![c] = r]
  BY DEF Goto
<1>4. creator' \in [Creators -> CreatorType] /\ MovesTo(c, r)
  BY <1>2, <1>3, RecordUpdate
<1> QED
  BY <1>1, <1>4 DEF MovesTo

\* A creator that is not running knows nothing of the disk.
LEMMA OthersKnow ==
  ASSUME NEW d \in Creators, creator'[d] = creator[d], Knows(d), creator[d].pc \notin Running
  PROVE  Knows(d)'
BY DEF Knows, StagingKnows, CommitKnows, CleanKnows, At

\* The running creator is the only one, so a step of it leaves the others alone.
LEMMA OneRuns ==
  ASSUME IInv, NEW c \in Creators, creator[c].pc \in Running
  PROVE  createLock = c /\ \A d \in Creators \ {c} : creator[d].pc \notin Running
BY DEF IInv, LockInv

\* What is left to show of a running creator's step.
LEMMA CreatorMoves ==
  ASSUME IInv, NEW c \in Creators, creator[c].pc \in Running,
         \A d \in Creators \ {c} : creator'[d] = creator[d],
         TypeOK', LockInv', DiskInv', Knows(c)', PairIsWhole', PlannerHasTask',
         PublishedTaskCanBeFinished'
  PROVE  IInv'
<1>1. \A d \in Creators \ {c} : Knows(d)'
  BY OneRuns, OthersKnow DEF IInv, Knows
<1> QED
  BY <1>1 DEF IInv, Knows

\* A creator that moves on without touching a lock.
LEMMA GotoLock ==
  ASSUME IInv, NEW c \in Creators, creator[c].pc \in Running,
         \A d \in Creators \ {c} : creator'[d] = creator[d],
         creator'[c].pc \in Running, creator'[c].pc \in CommitLabels <=> creator[c].pc \in CommitLabels,
         UNCHANGED <<createLock, jobLock, worker>>
  PROVE  LockInv'
BY DEF IInv, LockInv

\* A creator that ends drops its locks and nobody else's.
LEMMA EndLock ==
  ASSUME IInv, NEW c \in Creators, creator[c].pc \in Running,
         NEW label \in {"done", "failed", "killed"}, End(c, label), UNCHANGED worker
  PROVE  /\ LockInv'
         /\ createLock' \in Token /\ jobLock' \in Token \cup Workers
         /\ creator' \in [Creators -> CreatorType]
         /\ creator'[c].pc = label
         /\ creator'[c].ownTask = creator[c].ownTask
         /\ creator'[c].ownPlan = creator[c].ownPlan
         /\ \A d \in Creators \ {c} : creator'[d] = creator[d]
<1>1. Goto(c, label) /\ Drop(c)
  BY DEF End
<1>2. TypeOK /\ LockInv
  BY DEF IInv
<1>3. /\ creator' \in [Creators -> CreatorType]
      /\ creator'[c].pc = label
      /\ creator'[c].ownTask = creator[c].ownTask
      /\ creator'[c].ownPlan = creator[c].ownPlan
      /\ \A d \in Creators \ {c} : creator'[d] = creator[d]
  BY <1>1, <1>2, GotoUpdate DEF MovesTo
<1>4. LockInv'
  BY <1>1, <1>2, <1>3 DEF LockInv, Drop
<1> QED
  BY <1>1, <1>2, <1>3, <1>4 DEF Drop, TypeOK

\* An ended creator that leaves the disk as it is preserves the invariant.
LEMMA EndStep ==
  ASSUME IInv, NEW c \in Creators, creator[c].pc \in Running,
         NEW label \in {"done", "failed", "killed"}, End(c, label),
         UNCHANGED <<dirs, worker>>, kills' \in 0..MaxKills
  PROVE  IInv'
<1>1. Knows(c)'
  BY EndLock DEF Knows, StagingKnows, CommitKnows, CleanKnows, At
<1>2. TypeOK' /\ DiskInv' /\ PairIsWhole' /\ PlannerHasTask' /\ PublishedTaskCanBeFinished'
  BY EndLock DEF IInv, TypeOK, DiskInv, PairIsWhole, PlannerHasTask,
       PublishedTaskCanBeFinished, PairPublished, TaskPublished, dirs
<1> QED
  BY <1>1, <1>2, EndLock, CreatorMoves

-----------------------------------------------------------------------------
(* Staging.                                                                *)

\* Lock keeps the invariant.
LEMMA LockStep == ASSUME IInv, NEW c \in Creators, Lock(c) PROVE IInv'
<1>1. /\ creator' \in [Creators -> CreatorType]
      /\ creator'[c].pc = "inspect"
      /\ creator'[c].ownTask = creator[c].ownTask
      /\ creator'[c].ownPlan = creator[c].ownPlan
      /\ \A d \in Creators \ {c} : creator'[d] = creator[d]
  BY GotoUpdate DEF Lock, IInv, MovesTo
<1>2. \A d \in Creators : creator[d].pc \notin Running
  BY DEF IInv, LockInv, Lock
<1>3. \A d \in Creators \ {c} : Knows(d)'
  BY <1>1, <1>2, OthersKnow DEF IInv, Knows
<1>4. Knows(c)'
  BY <1>1 DEF Lock, IInv, Knows, StagingKnows, CommitKnows, CleanKnows, At
<1>5. LockInv'
  BY <1>1, <1>2 DEF Lock, IInv, LockInv, At
<1>6. TypeOK' /\ DiskInv' /\ PairIsWhole' /\ PlannerHasTask' /\ PublishedTaskCanBeFinished'
  BY <1>1 DEF Lock, IInv, TypeOK, DiskInv, PairIsWhole, PlannerHasTask,
       PublishedTaskCanBeFinished, PairPublished, TaskPublished, dirs
<1> QED
  BY <1>3, <1>4, <1>5, <1>6 DEF IInv, Knows

\* StageTask keeps the invariant.
LEMMA StageTaskStep == ASSUME IInv, NEW c \in Creators, StageTask(c) PROVE IInv'
<1>1. /\ creator' \in [Creators -> CreatorType]
      /\ creator'[c].pc = "ownTask"
      /\ creator'[c].txn = creator[c].txn
      /\ creator'[c].ownTask = creator[c].ownTask
      /\ creator'[c].ownPlan = creator[c].ownPlan
      /\ creator'[c].withTask = creator[c].withTask
      /\ creator'[c].withJob = creator[c].withJob
      /\ \A d \in Creators \ {c} : creator'[d] = creator[d]
  BY GotoUpdate DEF StageTask, IInv, MovesTo
<1>2. creator[c].pc \in Running
  BY DEF StageTask, At
<1>3. Knows(c)'
  BY <1>1 DEF StageTask, IInv, TypeOK, DiskInv, Knows, StagingKnows, CommitKnows, CleanKnows,
       Staged, Txn, At, dirs
<1>4. LockInv'
  BY <1>1, <1>2, GotoLock DEF StageTask, At
<1>5. TypeOK' /\ DiskInv' /\ PairIsWhole' /\ PlannerHasTask' /\ PublishedTaskCanBeFinished'
  BY <1>1 DEF StageTask, IInv, TypeOK, DiskInv, PairIsWhole, PlannerHasTask,
       PublishedTaskCanBeFinished, PairPublished, TaskPublished, dirs,
       Knows, StagingKnows, CommitKnows, CleanKnows, Staged, Txn, At
<1> QED
  BY <1>1, <1>2, <1>3, <1>4, <1>5, CreatorMoves

\* StageJob keeps the invariant.
LEMMA StageJobStep == ASSUME IInv, NEW c \in Creators, StageJob(c) PROVE IInv'
<1>1. /\ creator' \in [Creators -> CreatorType]
      /\ creator'[c].pc = "ownJob"
      /\ creator'[c].txn = creator[c].txn
      /\ creator'[c].ownTask = creator[c].ownTask
      /\ creator'[c].ownPlan = creator[c].ownPlan
      /\ creator'[c].withTask = creator[c].withTask
      /\ creator'[c].withJob = creator[c].withJob
      /\ \A d \in Creators \ {c} : creator'[d] = creator[d]
  BY GotoUpdate DEF StageJob, IInv, MovesTo
<1>2. creator[c].pc \in Running
  BY DEF StageJob, At
<1>3. Knows(c)'
  BY <1>1 DEF StageJob, IInv, TypeOK, DiskInv, Knows, StagingKnows, CommitKnows, CleanKnows,
       Staged, Txn, At, dirs
<1>4. LockInv'
  BY <1>1, <1>2, GotoLock DEF StageJob, At
<1>5. TypeOK' /\ DiskInv' /\ PairIsWhole' /\ PlannerHasTask' /\ PublishedTaskCanBeFinished'
  BY <1>1 DEF StageJob, IInv, TypeOK, DiskInv, PairIsWhole, PlannerHasTask,
       PublishedTaskCanBeFinished, PairPublished, TaskPublished, dirs,
       Knows, StagingKnows, CommitKnows, CleanKnows, Staged, Txn, At
<1> QED
  BY <1>1, <1>2, <1>3, <1>4, <1>5, CreatorMoves

\* Abort keeps the invariant.
LEMMA AbortStep == ASSUME IInv, NEW c \in Creators, Abort(c) PROVE IInv'
<1>1. /\ creator' \in [Creators -> CreatorType]
      /\ creator'[c].pc = "cleanTask"
      /\ creator'[c].txn = creator[c].txn
      /\ creator'[c].ownTask = creator[c].ownTask
      /\ creator'[c].ownPlan = creator[c].ownPlan
      /\ creator'[c].withTask = creator[c].withTask
      /\ creator'[c].withJob = creator[c].withJob
      /\ \A d \in Creators \ {c} : creator'[d] = creator[d]
  BY GotoUpdate DEF Abort, IInv, MovesTo
<1>2. creator[c].pc \in Running
  BY DEF Abort, At
<1>3. Knows(c)'
  BY <1>1 DEF Abort, IInv, TypeOK, DiskInv, Knows, StagingKnows, CommitKnows, CleanKnows,
       Staged, Txn, At, dirs
<1>4. LockInv'
  BY <1>1, <1>2, GotoLock DEF Abort, At
<1>5. TypeOK' /\ DiskInv' /\ PairIsWhole' /\ PlannerHasTask' /\ PublishedTaskCanBeFinished'
  BY <1>1 DEF Abort, IInv, TypeOK, DiskInv, PairIsWhole, PlannerHasTask,
       PublishedTaskCanBeFinished, PairPublished, TaskPublished, dirs,
       Knows, StagingKnows, CommitKnows, CleanKnows, Staged, Txn, At
<1> QED
  BY <1>1, <1>2, <1>3, <1>4, <1>5, CreatorMoves

\* CleanTask keeps the invariant.
LEMMA CleanTaskStep == ASSUME IInv, NEW c \in Creators, CleanTask(c) PROVE IInv'
<1>1. /\ creator' \in [Creators -> CreatorType]
      /\ creator'[c].pc = "cleanJob"
      /\ creator'[c].txn = creator[c].txn
      /\ creator'[c].ownTask = creator[c].ownTask
      /\ creator'[c].ownPlan = creator[c].ownPlan
      /\ creator'[c].withTask = creator[c].withTask
      /\ creator'[c].withJob = creator[c].withJob
      /\ \A d \in Creators \ {c} : creator'[d] = creator[d]
  BY GotoUpdate DEF CleanTask, IInv, MovesTo
<1>2. creator[c].pc \in Running
  BY DEF CleanTask, At
<1>3. Knows(c)'
  BY <1>1 DEF CleanTask, IInv, TypeOK, DiskInv, Knows, StagingKnows, CommitKnows, CleanKnows,
       Staged, Txn, At, dirs
<1>4. LockInv'
  BY <1>1, <1>2, GotoLock DEF CleanTask, At
<1>5. TypeOK' /\ DiskInv' /\ PairIsWhole' /\ PlannerHasTask' /\ PublishedTaskCanBeFinished'
  BY <1>1 DEF CleanTask, IInv, TypeOK, DiskInv, PairIsWhole, PlannerHasTask,
       PublishedTaskCanBeFinished, PairPublished, TaskPublished, dirs,
       Knows, StagingKnows, CommitKnows, CleanKnows, Staged, Txn, At
<1> QED
  BY <1>1, <1>2, <1>3, <1>4, <1>5, CreatorMoves

\* A call that settles on a transaction keeps its ownership flags.
LEMMA AdoptUpdate ==
  ASSUME TypeOK, NEW c \in Creators, NEW txn \in Token, NEW label \in CreatorLabels,
         NEW withTask \in BOOLEAN, NEW withJob \in BOOLEAN,
         Adopt(c, txn, label, withTask, withJob)
  PROVE  /\ creator' \in [Creators -> CreatorType]
         /\ creator'[c].pc = label
         /\ creator'[c].txn = txn
         /\ creator'[c].ownTask = creator[c].ownTask
         /\ creator'[c].ownPlan = creator[c].ownPlan
         /\ creator'[c].withTask = withTask
         /\ creator'[c].withJob = withJob
         /\ \A d \in Creators \ {c} : creator'[d] = creator[d]
<1> DEFINE r == [creator[c] EXCEPT !.pc = label, !.txn = txn,
                                   !.withTask = withTask, !.withJob = withJob]
<1>1. creator[c] \in CreatorType
  BY DEF TypeOK
<1>2. r \in CreatorType
  BY <1>1
<1>3. creator' = [creator EXCEPT ![c] = r]
  BY DEF Adopt
<1>4. creator' \in [Creators -> CreatorType] /\ MovesTo(c, r)
  BY <1>2, <1>3, RecordUpdate
<1> QED
  BY <1>1, <1>4 DEF MovesTo

\* Settling on a transaction while the disk stays as it is.
LEMMA AdoptStep ==
  ASSUME IInv, NEW c \in Creators, At(c, "inspect"), NEW txn \in Creators,
         NEW label \in {"stageTask", "stageJob", "commit"},
         NEW withTask \in BOOLEAN, NEW withJob \in BOOLEAN,
         Adopt(c, txn, label, withTask, withJob),
         UNCHANGED <<dirs, createLock, jobLock, worker, kills>>,
         label = "stageTask" => Fresh /\ txn = c /\ withTask /\ withJob,
         label = "stageJob" => TaskStaged /\ txn = taskStage /\ withTask /\ withJob,
         label = "commit" =>
           \/ PairPublished /\ txn = task /\ ~withTask /\ ~withJob
           \/ TaskPublished /\ txn = task /\ ~withTask /\ withJob
           \/ PairStaged /\ txn = taskStage /\ withTask /\ withJob
  PROVE  IInv'
<1>1. /\ creator' \in [Creators -> CreatorType]
      /\ creator'[c].pc = label
      /\ creator'[c].txn = txn
      /\ creator'[c].ownTask = creator[c].ownTask
      /\ creator'[c].ownPlan = creator[c].ownPlan
      /\ creator'[c].withTask = withTask
      /\ creator'[c].withJob = withJob
      /\ \A d \in Creators \ {c} : creator'[d] = creator[d]
  BY AdoptUpdate DEF IInv
<1>2. creator[c].pc \in Running /\ ~creator[c].ownTask /\ ~creator[c].ownPlan
  BY DEF At, IInv, StagingKnows
<1>3. Knows(c)'
  BY <1>1, <1>2 DEF Knows, StagingKnows, CommitKnows, CleanKnows, Staged, Txn, At, dirs,
       Fresh, TaskStaged, PairPublished, TaskPublished, PairStaged
<1>4. LockInv'
  BY <1>1, <1>2, GotoLock DEF At
<1>5. TypeOK' /\ DiskInv' /\ PairIsWhole' /\ PlannerHasTask' /\ PublishedTaskCanBeFinished'
  BY <1>1 DEF IInv, TypeOK, DiskInv, PairIsWhole, PlannerHasTask,
       PublishedTaskCanBeFinished, PairPublished, TaskPublished, dirs
<1> QED
  BY <1>1, <1>2, <1>3, <1>4, <1>5, CreatorMoves

\* InspectFresh keeps the invariant.
LEMMA InspectFreshStep == ASSUME IInv, NEW c \in Creators, InspectFresh(c) PROVE IInv'
BY AdoptStep DEF InspectFresh

\* InspectRecover keeps the invariant.
LEMMA InspectRecoverStep == ASSUME IInv, NEW c \in Creators, InspectRecover(c) PROVE IInv'
<1>1. At(c, "inspect") /\ creator[c].pc \in Running /\ UNCHANGED <<dirs, worker, kills>>
  BY DEF InspectRecover, At
<1>2. task \in Token /\ taskStage \in Token /\ kills \in 0..MaxKills
  BY DEF IInv, TypeOK
<1>3. CASE /\ PairPublished
           /\ Adopt(c, task, "commit", FALSE, FALSE)
           /\ UNCHANGED <<createLock, jobLock>>
  <2>1. task \in Creators
    BY <1>2, <1>3 DEF PairPublished
  <2> QED
    BY <1>1, <1>3, <2>1, AdoptStep
<1>4. CASE /\ TaskPublished
           /\ Adopt(c, task, "commit", FALSE, TRUE)
           /\ UNCHANGED <<createLock, jobLock>>
  <2>1. task \in Creators
    BY <1>2, <1>4 DEF TaskPublished
  <2> QED
    BY <1>1, <1>4, <2>1, AdoptStep
<1>5. CASE /\ TaskStaged
           /\ Adopt(c, taskStage, "stageJob", TRUE, TRUE)
           /\ UNCHANGED <<createLock, jobLock>>
  <2>1. taskStage \in Creators
    BY <1>2, <1>5 DEF TaskStaged
  <2> QED
    BY <1>1, <1>5, <2>1, AdoptStep
<1>6. CASE /\ PairStaged
           /\ Adopt(c, taskStage, "commit", TRUE, TRUE)
           /\ UNCHANGED <<createLock, jobLock>>
  <2>1. taskStage \in Creators
    BY <1>2, <1>6 DEF PairStaged
  <2> QED
    BY <1>1, <1>6, <2>1, AdoptStep
<1>7. CASE End(c, "failed")
  BY <1>1, <1>2, <1>7, EndStep
<1> QED
  BY <1>3, <1>4, <1>5, <1>6, <1>7 DEF InspectRecover

\* OwnTask keeps the invariant.
LEMMA OwnTaskStep == ASSUME IInv, NEW c \in Creators, OwnTask(c) PROVE IInv'
<1> DEFINE r == [creator[c] EXCEPT !.pc = "stageJob", !.ownTask = TRUE]
<1>1. creator[c] \in CreatorType /\ creator[c].pc \in Running
  BY DEF IInv, TypeOK, OwnTask, At
<1>2. r \in CreatorType /\ creator' = [creator EXCEPT ![c] = r]
  BY <1>1 DEF OwnTask
<1>3. creator' \in [Creators -> CreatorType] /\ MovesTo(c, r)
  BY <1>2, RecordUpdate DEF IInv
<1>4. /\ creator'[c].pc = "stageJob" /\ creator'[c].txn = creator[c].txn
      /\ creator'[c].ownTask = TRUE /\ creator'[c].ownPlan = creator[c].ownPlan
      /\ creator'[c].withTask = creator[c].withTask /\ creator'[c].withJob = creator[c].withJob
      /\ \A d \in Creators \ {c} : creator'[d] = creator[d]
  BY <1>1, <1>3 DEF MovesTo
<1>5. Knows(c)'
  BY <1>4 DEF OwnTask, IInv, DiskInv, TypeOK, Knows, StagingKnows, CommitKnows, CleanKnows, Staged, Txn, At, dirs
<1>6. LockInv'
  BY <1>1, <1>4, GotoLock DEF OwnTask, At
<1>7. TypeOK' /\ DiskInv' /\ PairIsWhole' /\ PlannerHasTask' /\ PublishedTaskCanBeFinished'
  BY <1>3 DEF OwnTask, IInv, TypeOK, DiskInv, PairIsWhole, PlannerHasTask,
       PublishedTaskCanBeFinished, PairPublished, TaskPublished, dirs,
       Knows, StagingKnows, CommitKnows, CleanKnows, Staged, Txn, At
<1> QED
  BY <1>1, <1>4, <1>5, <1>6, <1>7, CreatorMoves

\* OwnJob keeps the invariant.
LEMMA OwnJobStep == ASSUME IInv, NEW c \in Creators, OwnJob(c) PROVE IInv'
<1> DEFINE r == [creator[c] EXCEPT !.pc = "commit", !.ownPlan = TRUE]
<1>1. creator[c] \in CreatorType /\ creator[c].pc \in Running
  BY DEF IInv, TypeOK, OwnJob, At
<1>2. r \in CreatorType /\ creator' = [creator EXCEPT ![c] = r]
  BY <1>1 DEF OwnJob
<1>3. creator' \in [Creators -> CreatorType] /\ MovesTo(c, r)
  BY <1>2, RecordUpdate DEF IInv
<1>4. /\ creator'[c].pc = "commit" /\ creator'[c].txn = creator[c].txn
      /\ creator'[c].ownPlan = TRUE /\ creator'[c].ownTask = creator[c].ownTask
      /\ creator'[c].withTask = creator[c].withTask /\ creator'[c].withJob = creator[c].withJob
      /\ \A d \in Creators \ {c} : creator'[d] = creator[d]
  BY <1>1, <1>3 DEF MovesTo
<1>5. Knows(c)'
  BY <1>4 DEF OwnJob, IInv, DiskInv, TypeOK, Knows, StagingKnows, CommitKnows, CleanKnows, Staged, Txn, At, dirs
<1>6. LockInv'
  BY <1>1, <1>4, GotoLock DEF OwnJob, At
<1>7. TypeOK' /\ DiskInv' /\ PairIsWhole' /\ PlannerHasTask' /\ PublishedTaskCanBeFinished'
  BY <1>3 DEF OwnJob, IInv, TypeOK, DiskInv, PairIsWhole, PlannerHasTask,
       PublishedTaskCanBeFinished, PairPublished, TaskPublished, dirs,
       Knows, StagingKnows, CommitKnows, CleanKnows, Staged, Txn, At
<1> QED
  BY <1>1, <1>4, <1>5, <1>6, <1>7, CreatorMoves

\* CleanJob keeps the invariant.
LEMMA CleanJobStep == ASSUME IInv, NEW c \in Creators, CleanJob(c) PROVE IInv'
<1>1. creator[c].pc \in Running /\ End(c, "failed") /\ UNCHANGED worker
  BY DEF CleanJob, At
<1>2. Knows(c)'
  BY <1>1, EndLock DEF Knows, StagingKnows, CommitKnows, CleanKnows, Staged, Txn, At
<1>3. TypeOK' /\ DiskInv' /\ PairIsWhole' /\ PlannerHasTask' /\ PublishedTaskCanBeFinished'
  BY <1>1, EndLock DEF CleanJob, IInv, TypeOK, DiskInv, PairIsWhole, PlannerHasTask,
       PublishedTaskCanBeFinished, PairPublished, TaskPublished, dirs,
       Knows, StagingKnows, CommitKnows, CleanKnows, Staged, Txn, At
<1> QED
  BY <1>1, <1>2, <1>3, EndLock, CreatorMoves

-----------------------------------------------------------------------------
(* The commit.                                                             *)

\* BeginCommit keeps the invariant.
LEMMA BeginCommitStep == ASSUME IInv, NEW c \in Creators, BeginCommit(c) PROVE IInv'
<1> DEFINE label == IF creator[c].withTask THEN "publishTask" ELSE "check"
<1>1. /\ creator' \in [Creators -> CreatorType]
      /\ creator'[c].pc = label
      /\ creator'[c].txn = creator[c].txn
      /\ creator'[c].ownTask = creator[c].ownTask
      /\ creator'[c].ownPlan = creator[c].ownPlan
      /\ creator'[c].withTask = creator[c].withTask
      /\ creator'[c].withJob = creator[c].withJob
      /\ \A d \in Creators \ {c} : creator'[d] = creator[d]
  BY GotoUpdate DEF BeginCommit, IInv, MovesTo
<1>2. creator[c].pc \in Running
  BY DEF BeginCommit, At
<1>3. Knows(c)'
  BY <1>1 DEF BeginCommit, IInv, Knows, StagingKnows, CommitKnows, CleanKnows, Staged, Txn, At, dirs
<1>4. LockInv'
  BY <1>1, <1>2, OneRuns DEF BeginCommit, At, IInv, LockInv
<1>5. TypeOK' /\ DiskInv' /\ PairIsWhole' /\ PlannerHasTask' /\ PublishedTaskCanBeFinished'
  BY <1>1 DEF BeginCommit, IInv, TypeOK, DiskInv, PairIsWhole, PlannerHasTask,
       PublishedTaskCanBeFinished, PairPublished, TaskPublished, dirs
<1> QED
  BY <1>1, <1>2, <1>3, <1>4, <1>5, CreatorMoves

\* PublishTask keeps the invariant.
LEMMA PublishTaskStep == ASSUME IInv, NEW c \in Creators, PublishTask(c) PROVE IInv'
<1> DEFINE r == [creator[c] EXCEPT !.pc = "check", !.ownTask = FALSE]
<1>1. creator[c] \in CreatorType /\ creator[c].pc \in Running
  BY DEF IInv, TypeOK, PublishTask, At
<1>2. r \in CreatorType /\ creator' = [creator EXCEPT ![c] = r]
  BY <1>1 DEF PublishTask
<1>3. creator' \in [Creators -> CreatorType] /\ MovesTo(c, r)
  BY <1>2, RecordUpdate DEF IInv
<1>4. /\ creator'[c].pc = "check" /\ creator'[c].txn = creator[c].txn
      /\ creator'[c].ownTask = FALSE /\ creator'[c].ownPlan = creator[c].ownPlan
      /\ creator'[c].withTask = creator[c].withTask /\ creator'[c].withJob = creator[c].withJob
      /\ \A d \in Creators \ {c} : creator'[d] = creator[d]
  BY <1>1, <1>3 DEF MovesTo
<1>5. Knows(c)'
  BY <1>4 DEF PublishTask, IInv, DiskInv, TypeOK, Knows, StagingKnows, CommitKnows, CleanKnows, Staged, Txn, At, dirs
<1>6. LockInv'
  BY <1>1, <1>4, GotoLock DEF PublishTask, At
<1>7. TypeOK' /\ DiskInv' /\ PairIsWhole' /\ PlannerHasTask' /\ PublishedTaskCanBeFinished'
  BY <1>3 DEF PublishTask, IInv, TypeOK, DiskInv, PairIsWhole, PlannerHasTask,
       PublishedTaskCanBeFinished, PairPublished, TaskPublished, dirs,
       Knows, StagingKnows, CommitKnows, CleanKnows, Staged, Txn, At
<1> QED
  BY <1>1, <1>4, <1>5, <1>6, <1>7, CreatorMoves

\* Check keeps the invariant.
LEMMA CheckStep == ASSUME IInv, NEW c \in Creators, Check(c) PROVE IInv'
<1>1. creator[c].pc \in Running /\ UNCHANGED <<dirs, worker, kills>> /\ kills \in 0..MaxKills
  BY DEF Check, At, IInv, TypeOK
<1>2. CASE /\ task = Txn(c) /\ creating
           /\ Goto(c, IF creator[c].withJob THEN "publishJob" ELSE "removeMarker")
           /\ UNCHANGED <<createLock, jobLock>>
  <2>1. /\ creator' \in [Creators -> CreatorType]
        /\ creator'[c].pc = IF creator[c].withJob THEN "publishJob" ELSE "removeMarker"
        /\ creator'[c].txn = creator[c].txn
        /\ creator'[c].ownTask = creator[c].ownTask
        /\ creator'[c].ownPlan = creator[c].ownPlan
        /\ \A d \in Creators \ {c} : creator'[d] = creator[d]
    BY <1>2, GotoUpdate DEF IInv, MovesTo
  <2>2. Knows(c)'
    BY <1>1, <1>2, <2>1 DEF Check, IInv, Knows, StagingKnows, CommitKnows, CleanKnows, Staged, Txn, At, dirs
  <2>3. LockInv'
    BY <1>1, <1>2, <2>1, GotoLock DEF Check, At
  <2>4. TypeOK' /\ DiskInv' /\ PairIsWhole' /\ PlannerHasTask' /\ PublishedTaskCanBeFinished'
    BY <1>1, <1>2, <2>1 DEF IInv, TypeOK, DiskInv, PairIsWhole, PlannerHasTask,
       PublishedTaskCanBeFinished, PairPublished, TaskPublished, dirs
  <2> QED
    BY <1>1, <2>1, <2>2, <2>3, <2>4, CreatorMoves
<1>3. CASE End(c, "failed")
  BY <1>1, <1>3, EndStep
<1> QED
  BY <1>2, <1>3 DEF Check

\* PublishJob keeps the invariant.
LEMMA PublishJobStep == ASSUME IInv, NEW c \in Creators, PublishJob(c) PROVE IInv'
<1> DEFINE r == [creator[c] EXCEPT !.pc = "removeMarker", !.ownPlan = FALSE]
<1>1. /\ creator[c] \in CreatorType /\ creator[c].pc = "publishJob" /\ creator[c].pc \in Running
      /\ UNCHANGED <<taskStage, task, creating, claimed, worker, kills>>
      /\ kills \in 0..MaxKills
  BY DEF PublishJob, At, IInv, TypeOK
<1>2. CASE /\ job = None
           /\ job' = jobStage
           /\ jobStage' = None
           /\ creator' = [creator EXCEPT ![c].pc = "removeMarker", ![c].ownPlan = FALSE]
           /\ UNCHANGED <<createLock, jobLock>>
  <2>1. r \in CreatorType /\ creator' = [creator EXCEPT ![c] = r]
    BY <1>1, <1>2
  <2>2. creator' \in [Creators -> CreatorType] /\ MovesTo(c, r)
    BY <2>1, RecordUpdate DEF IInv
  <2>3. /\ creator'[c].pc = "removeMarker" /\ creator'[c].txn = creator[c].txn
        /\ creator'[c].ownPlan = FALSE /\ creator'[c].ownTask = creator[c].ownTask
        /\ \A d \in Creators \ {c} : creator'[d] = creator[d]
    BY <1>1, <2>2 DEF MovesTo
  <2>4. Txn(c) \in Creators /\ task = Txn(c) /\ jobStage = Txn(c) /\ creating
    BY <1>1 DEF IInv, TypeOK, Knows, StagingKnows, CommitKnows, CleanKnows, Staged, Txn, At
  <2>5. Knows(c)'
    BY <1>1, <1>2, <2>3, <2>4 DEF Knows, StagingKnows, CommitKnows, CleanKnows, Staged, Txn, At
  <2>6. LockInv'
    BY <1>1, <1>2, <2>3, GotoLock
  <2>7. TypeOK' /\ DiskInv' /\ PairIsWhole' /\ PlannerHasTask' /\ PublishedTaskCanBeFinished'
    BY <1>1, <1>2, <2>2, <2>4 DEF IInv, TypeOK, DiskInv, PairIsWhole, PlannerHasTask,
       PublishedTaskCanBeFinished, PairPublished, TaskPublished, dirs
  <2> QED
    BY <1>1, <2>3, <2>5, <2>6, <2>7, CreatorMoves
<1>3. CASE job # None /\ End(c, "failed") /\ UNCHANGED <<job, jobStage>>
  BY <1>1, <1>3, EndStep DEF dirs
<1> QED
  BY <1>2, <1>3 DEF PublishJob

\* RemoveMarker keeps the invariant.
LEMMA RemoveMarkerStep == ASSUME IInv, NEW c \in Creators, RemoveMarker(c) PROVE IInv'
<1>1. /\ creator[c].pc \in Running /\ End(c, "done") /\ creating' = FALSE
      /\ UNCHANGED <<taskStage, jobStage, task, job, claimed, worker, kills>>
  BY DEF RemoveMarker, At
<1>2. Knows(c)'
  BY <1>1, EndLock DEF Knows, StagingKnows, CommitKnows, CleanKnows, Staged, Txn, At
<1>3. task = job
  BY DEF RemoveMarker, IInv, Knows, StagingKnows, CommitKnows, CleanKnows, Staged, Txn, At
<1>4. TypeOK' /\ DiskInv' /\ PairIsWhole' /\ PlannerHasTask' /\ PublishedTaskCanBeFinished'
  BY <1>1, <1>3, EndLock DEF IInv, TypeOK, DiskInv, PairIsWhole, PlannerHasTask,
       PublishedTaskCanBeFinished, PairPublished, TaskPublished, dirs
<1> QED
  BY <1>1, <1>2, <1>4, EndLock, CreatorMoves

\* KillCreator keeps the invariant.
LEMMA KillCreatorStep == ASSUME IInv, NEW c \in Creators, KillCreator(c) PROVE IInv'
<1>1. kills' \in 0..MaxKills
  BY DEF KillCreator, IInv, TypeOK
<1> QED
  BY <1>1, EndStep DEF KillCreator

-----------------------------------------------------------------------------
(* Bystanders: workers on the planner job, and the stranger.               *)

\* They touch no stage, task or creator; they finalize a task only when its
\* planner job is published, and take the job's name only while it is free.
LEMMA Bystanders ==
  ASSUME IInv, UNCHANGED <<taskStage, jobStage, task, createLock, creator>>,
         LockInv', TypeOK', DiskInv', claimed' => job' \in Creators /\ ~creating',
         \/ job' = job /\ creating' = creating
         \/ job' = job /\ ~creating' /\ job \in Creators
                      /\ \A c \in Creators : creator[c].pc \notin CommitLabels
         \/ job = None /\ job' = Foreign /\ creating' = creating
  PROVE  IInv'
<1>1. ASSUME NEW c \in Creators PROVE Knows(c)'
  BY <1>1 DEF IInv, LockInv, TypeOK, PlannerHasTask, PublishedTaskCanBeFinished,
       PairPublished, TaskPublished, DiskInv, Knows, StagingKnows, CommitKnows, CleanKnows, Staged, Txn, At
<1>2. PairIsWhole' /\ PlannerHasTask' /\ PublishedTaskCanBeFinished'
  BY DEF IInv, TypeOK, DiskInv, PairIsWhole, PlannerHasTask,
       PublishedTaskCanBeFinished, PairPublished, TaskPublished, dirs
<1> QED
  BY <1>1, <1>2 DEF IInv, Knows

\* WorkerLock keeps the invariant.
LEMMA WorkerLockStep == ASSUME IInv, NEW w \in Workers, WorkerLock(w) PROVE IInv'
<1>1. LockInv' /\ TypeOK' /\ DiskInv'
  BY DEF WorkerLock, IInv, LockInv, DiskInv, TypeOK, WorkerLabels, dirs
<1> QED
  BY <1>1, Bystanders DEF WorkerLock, dirs, IInv, PlannerHasTask

\* WorkerStep keeps the invariant.
LEMMA WorkerStepStep == ASSUME IInv, NEW w \in Workers, WorkerStep(w) PROVE IInv'
<1>1. worker[w] # "idle" /\ jobLock = w /\ \A c \in Creators : creator[c].pc \notin CommitLabels
  BY DEF WorkerStep, WorkerFinalize, WorkerEnd, IInv, LockInv
<1>2. CASE WorkerFinalize(w)
  <2>1. LockInv' /\ TypeOK' /\ DiskInv'
    BY <1>1, <1>2 DEF WorkerFinalize, IInv, LockInv, DiskInv, TypeOK, WorkerLabels
  <2> QED
    BY <1>1, <1>2, <2>1, Bystanders DEF WorkerFinalize, IInv, PlannerHasTask, DiskInv
<1>3. CASE WorkerEnd(w)
  <2>1. LockInv' /\ TypeOK' /\ DiskInv'
    BY <1>1, <1>3 DEF WorkerEnd, IInv, LockInv, DiskInv, TypeOK, WorkerLabels
  <2> QED
    BY <1>1, <1>3, <2>1, Bystanders DEF WorkerEnd, IInv, DiskInv, PlannerHasTask, TypeOK
<1> QED
  BY <1>2, <1>3 DEF WorkerStep

\* KillWorker keeps the invariant.
LEMMA KillWorkerStep == ASSUME IInv, NEW w \in Workers, KillWorker(w) PROVE IInv'
<1>1. LockInv' /\ TypeOK' /\ DiskInv'
  BY DEF KillWorker, IInv, LockInv, DiskInv, TypeOK, WorkerLabels, dirs
<1> QED
  BY <1>1, Bystanders DEF KillWorker, dirs, IInv, PlannerHasTask

\* ForeignJob keeps the invariant.
LEMMA ForeignJobStep == ASSUME IInv, ForeignJob PROVE IInv'
<1>1. LockInv' /\ TypeOK' /\ DiskInv'
  BY DEF ForeignJob, IInv, LockInv, DiskInv, TypeOK
<1> QED
  BY <1>1, Bystanders DEF ForeignJob, IInv, PlannerHasTask

\* Requeue keeps the invariant.
LEMMA RequeueStep == ASSUME IInv, Requeue PROVE IInv'
<1>1. LockInv' /\ TypeOK' /\ DiskInv'
  BY DEF Requeue, IInv, LockInv, DiskInv, TypeOK
<1> QED
  BY <1>1, Bystanders DEF Requeue, IInv, PlannerHasTask

-----------------------------------------------------------------------------
(* The theorems.                                                           *)

\* Before the first call nothing is published, staged or locked.
LEMMA InitInvariant == Init => IInv
<1> SUFFICES ASSUME Init PROVE IInv
  OBVIOUS
<1>0. NewCreator \in CreatorType
  BY DEF NewCreator
<1>1. \A c \in Creators : /\ creator[c].pc = "new"
                          /\ ~creator[c].ownTask /\ ~creator[c].ownPlan
  BY DEF Init, NewCreator
<1>2. TypeOK
  <2>1. creator \in [Creators -> CreatorType]
    BY <1>0 DEF Init
  <2>2. worker \in [Workers -> WorkerLabels]
    BY DEF Init, WorkerLabels
  <2>3. kills \in 0..MaxKills
    BY DEF Init
  <2>4. /\ taskStage \in Token /\ jobStage \in Token /\ task \in Token /\ job \in Token
        /\ createLock \in Token /\ jobLock \in Token
        /\ creating \in BOOLEAN /\ claimed \in BOOLEAN
    BY DEF Init
  <2> QED
    BY <2>1, <2>2, <2>3, <2>4 DEF TypeOK
<1>3. LockInv /\ DiskInv
  <2>1. \A w \in Workers : worker[w] = "idle"
    BY DEF Init
  <2>2. createLock = None /\ jobLock = None /\ taskStage = None /\ job = None /\ ~creating
    BY DEF Init
  <2>3. None \notin Creators /\ None \notin Workers
    BY CreateAssumption
  <2>4. LockInv
    BY <1>1, <2>1, <2>2, <2>3 DEF LockInv
  <2> QED
    BY <2>1, <2>2, <2>3, <2>4 DEF DiskInv
<1>4. \A c \in Creators : StagingKnows(c) /\ CommitKnows(c) /\ CleanKnows(c)
  BY <1>1 DEF StagingKnows, CommitKnows, CleanKnows, At
<1>5. PairIsWhole /\ PlannerHasTask /\ PublishedTaskCanBeFinished
  BY DEF Init, PairIsWhole, PlannerHasTask, PublishedTaskCanBeFinished
<1> QED
  BY <1>2, <1>3, <1>4, <1>5 DEF IInv

\* The invariant is inductive.
LEMMA NextInvariant == IInv /\ [Next]_vars => IInv'
<1> SUFFICES ASSUME IInv, [Next]_vars PROVE IInv'
  OBVIOUS
<1>1. ASSUME NEW c \in Creators, Lock(c) \/ CreatorStep(c) \/ Abort(c) \/ KillCreator(c)
      PROVE  IInv'
  BY <1>1, LockStep, InspectFreshStep, InspectRecoverStep, StageTaskStep, OwnTaskStep,
     StageJobStep, OwnJobStep, AbortStep, CleanTaskStep, CleanJobStep, BeginCommitStep,
     PublishTaskStep, CheckStep, PublishJobStep, RemoveMarkerStep, KillCreatorStep
     DEF CreatorStep
<1>2. ASSUME NEW w \in Workers, WorkerLock(w) \/ WorkerStep(w) \/ KillWorker(w) PROVE IInv'
  BY <1>2, WorkerLockStep, WorkerStepStep, KillWorkerStep
<1>3. CASE ForeignJob \/ Requeue
  BY <1>3, ForeignJobStep, RequeueStep
<1>4. CASE UNCHANGED vars
  BY <1>4 DEF vars, IInv, TypeOK, LockInv, DiskInv, StagingKnows, CommitKnows, CleanKnows,
       Staged, Txn, At, PairIsWhole, PlannerHasTask, PublishedTaskCanBeFinished,
       PairPublished, TaskPublished
<1> QED
  BY <1>1, <1>2, <1>3, <1>4 DEF Next

\* The invariant holds however many creators run and wherever they are killed.
THEOREM CreateInvariant == Spec => []IInv
<1> QED
  BY InitInvariant, NextInvariant, PTL DEF Spec

\* task-create: a task that carries no .creating marker has its own planner job.
THEOREM WholePairs == Spec => []PairIsWhole
<1>1. IInv => PairIsWhole
  BY DEF IInv
<1> QED
  BY <1>1, CreateInvariant, PTL

\* job-claim: a planner is given the job of a finalized task only.
THEOREM PlannersSeeTasks == Spec => []PlannerHasTask
<1>1. IInv => PlannerHasTask
  BY DEF IInv
<1> QED
  BY <1>1, CreateInvariant, PTL

\* task-create: SIGKILL after the first rename never strands the task.
THEOREM Recoverable == Spec => []PublishedTaskCanBeFinished
<1>1. IInv => PublishedTaskCanBeFinished
  BY DEF IInv
<1> QED
  BY <1>1, CreateInvariant, PTL

\* remove_owned_stage: a call that fails keeps the stage of another call.
THEOREM OthersKept == Spec => OthersStageIsKept
<1>1. IInv /\ [Next]_vars =>
      [\A c \in Creators :
         taskStage = c /\ taskStage' # c => task' = c \/ creator[c].pc = "cleanTask"]_vars
  <2> SUFFICES ASSUME IInv, Next, NEW c \in Creators, taskStage = c, taskStage' # c
               PROVE  task' = c \/ creator[c].pc = "cleanTask"
    OBVIOUS
  <2>1. PICK d \in Creators : StageTask(d) \/ CleanTask(d) \/ PublishTask(d)
    BY DEF Next, CreatorStep, Lock, InspectFresh, InspectRecover, OwnTask, StageJob, OwnJob,
         CleanJob, BeginCommit, Check, PublishJob, RemoveMarker, Abort, KillCreator, WorkerLock,
         WorkerStep, WorkerFinalize, WorkerEnd, KillWorker, ForeignJob, Requeue, dirs
  <2>2. CASE StageTask(d)
    BY <2>2 DEF StageTask, IInv, StagingKnows, Txn, At
  <2>3. CASE CleanTask(d)
    BY <2>3 DEF CleanTask, IInv, CleanKnows, Txn, At
  <2>4. CASE PublishTask(d)
    BY <2>4 DEF PublishTask
  <2> QED
    BY <2>1, <2>2, <2>3, <2>4
<1> QED
  BY <1>1, CreateInvariant, PTL DEF Spec, OthersStageIsKept

\* mv -nT: what is published is never replaced, and a finalized task is not
\* marked as being created again.
THEOREM PublishedKept == Spec => PublishedIsKept
<1>1. IInv /\ [Next]_vars => [KeepsPublished]_vars
  <2> SUFFICES ASSUME IInv, Next
               PROVE  KeepsPublished
    OBVIOUS
  <2>1. CASE \E d \in Creators : PublishTask(d)
    BY <2>1 DEF KeepsPublished, PublishTask, IInv, CommitKnows, Staged, Txn, At
  <2>2. CASE \E d \in Creators : PublishJob(d) \/ RemoveMarker(d)
    BY <2>2 DEF KeepsPublished, PublishJob, RemoveMarker
  <2>3. CASE ForeignJob \/ \E w \in Workers : WorkerFinalize(w)
    BY <2>3 DEF KeepsPublished, ForeignJob, WorkerFinalize
  <2>4. CASE UNCHANGED <<task, job, creating>>
    BY <2>4 DEF KeepsPublished
  <2>5. \/ UNCHANGED <<task, job, creating>>
        \/ ForeignJob
        \/ \E w \in Workers : WorkerFinalize(w)
        \/ \E d \in Creators : PublishTask(d) \/ PublishJob(d) \/ RemoveMarker(d)
    BY DEF Next, CreatorStep, Lock, InspectFresh, InspectRecover, StageTask, OwnTask,
         StageJob, OwnJob, CleanTask, CleanJob, BeginCommit, Check, Abort, KillCreator,
         WorkerLock, WorkerStep, WorkerEnd, KillWorker, Requeue, dirs
  <2> QED
    BY <2>1, <2>2, <2>3, <2>4, <2>5
<1> QED
  BY <1>1, CreateInvariant, PTL DEF Spec, PublishedIsKept

=============================================================================
