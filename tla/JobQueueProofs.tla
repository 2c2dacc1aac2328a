--------------------------- MODULE JobQueueProofs ----------------------------
(***************************************************************************)
(* Theorems of JobQueue for every set of jobs, agents and processes.       *)
(*                                                                         *)
(* The argument: whoever changes a job holds its control lock (LockInv),   *)
(* so a step of one command leaves every other locked job alone (Frame),   *)
(* and what another command has read under its lock stays true until that  *)
(* command's next step (OthersKnow).  It remains to check, action by       *)
(* action, the job of the process that moves.  Then: what a step may do to *)
(* statuses and owners (Effect), from which ends are final, owners are not *)
(* replaced and JobQueue implements JobLedger; and last, the reset that    *)
(* precedes the agents of a restarted team.                                *)
(***************************************************************************)
EXTENDS JobQueue, TLAPS

USE QueueAssumption

USE DEF Active, Terminal

-----------------------------------------------------------------------------
(* Control locks.                                                          *)

ProcType == [pc : Labels, op : Ops, job : Jobs \cup {NoJob},
             agent : Agents \cup {NoAgent}]

\* The record of an idle process is a process record, and is not locked.
LEMMA IdleType == IdleProc \in ProcType /\ IdleProc.pc \notin LockedLabels
BY DEF IdleProc, ProcType, Labels, Ops, LockedLabels, ClaimLabels, SettleLabels, DemoteLabels

\* A command that moves on inside its critical section keeps the lock.
LEMMA GotoLock ==
  ASSUME TypeOK, LockInv, NEW p \in Procs, NEW label \in LockedLabels,
         proc[p].pc \in LockedLabels, Goto(p, label), holder' = holder
  PROVE  /\ LockInv'
         /\ proc' \in [Procs -> ProcType]
         /\ \A q \in Procs \ {p} : proc'[q] = proc[q]
         /\ proc'[p] = [pc |-> label, op |-> proc[p].op,
                        job |-> proc[p].job, agent |-> proc[p].agent]
<1>1. proc \in [Procs -> ProcType]
  BY DEF TypeOK, ProcType
<1>2. proc' = [proc EXCEPT ![p] = [pc |-> label, op |-> proc[p].op,
                                   job |-> proc[p].job, agent |-> proc[p].agent]]
  BY <1>1 DEF Goto
<1>3. label # "idle" /\ label \in Labels
  BY DEF Labels, LockedLabels, ClaimLabels, SettleLabels, DemoteLabels
<1>4. proc' \in [Procs -> ProcType]
  BY <1>1, <1>2, <1>3 DEF ProcType
<1> QED
  BY <1>1, <1>2, <1>3, <1>4 DEF LockInv, ProcType

\* A command that ends gives up the lock and nobody else's.
LEMMA ExitLock ==
  ASSUME TypeOK, LockInv, NEW p \in Procs, proc[p].pc \in LockedLabels, Exit(p)
  PROVE  /\ LockInv'
         /\ proc' \in [Procs -> ProcType]
         /\ holder' \in [Jobs -> Procs \cup {NoProc}]
         /\ todo' \subseteq Jobs
         /\ \A q \in Procs \ {p} : proc'[q] = proc[q]
         /\ proc'[p] = IdleProc
<1>1. /\ proc \in [Procs -> ProcType]
      /\ holder \in [Jobs -> Procs \cup {NoProc}]
      /\ todo \subseteq Jobs
  BY DEF TypeOK, ProcType
<1>2. /\ proc' = [proc EXCEPT ![p] = IdleProc]
      /\ holder' = [holder EXCEPT ![proc[p].job] = NoProc]
      /\ todo' \subseteq todo
  BY DEF Exit, JobOf
<1>3. LockInv'
  BY <1>1, <1>2, IdleType DEF LockInv
<1> QED
  BY <1>1, <1>2, <1>3, IdleType

\* A command that begins takes a lock nobody held.
LEMMA BeginLock ==
  ASSUME TypeOK, LockInv, NEW p \in Procs, NEW op \in Ops, NEW j \in Jobs,
         NEW a \in Agents \cup {NoAgent}, NEW label \in LockedLabels,
         Begin(p, op, j, a, label)
  PROVE  /\ LockInv'
         /\ proc' \in [Procs -> ProcType]
         /\ holder' \in [Jobs -> Procs \cup {NoProc}]
         /\ \A q \in Procs \ {p} : proc'[q] = proc[q]
         /\ proc'[p] = [pc |-> label, op |-> op, job |-> j, agent |-> a]
<1>1. /\ proc \in [Procs -> ProcType]
      /\ holder \in [Jobs -> Procs \cup {NoProc}]
  BY DEF TypeOK, ProcType
<1>2. label # "idle" /\ label \in Labels
  BY DEF Labels, LockedLabels, ClaimLabels, SettleLabels, DemoteLabels
<1>3. proc' \in [Procs -> ProcType] /\ holder' \in [Jobs -> Procs \cup {NoProc}]
  BY <1>1, <1>2 DEF Begin, ProcType
<1>4. LockInv'
  BY <1>1, <1>2, <1>3, IdleType DEF LockInv, Begin
<1> QED
  BY <1>1, <1>3, <1>4 DEF Begin

-----------------------------------------------------------------------------
(* Frames.                                                                 *)

StoreType ==
  /\ status   \in [Jobs -> Statuses]
  /\ marker   \in [Jobs -> WorkJobs \cup {NoJob}]
  /\ lockDir  \in [Jobs -> BOOLEAN]
  /\ agentId  \in [Jobs -> Agents \cup {NoAgent}]
  /\ creating \in [Jobs -> BOOLEAN]

\* A step on job j changes nothing else, except that it may publish one more
\* job; whatever exists keeps existing, with its marker, and an end is final.
StoreFrame(j) ==
  /\ \A k \in Jobs : k # j =>
       /\ lockDir'[k] = lockDir[k]
       /\ agentId'[k] = agentId[k]
       /\ creating'[k] = creating[k]
       /\ status'[k] = status[k] \/ (status[k] = "absent" /\ status'[k] = "pending")
  /\ \A k \in Jobs : status[k] # "absent" =>
       status'[k] # "absent" /\ marker'[k] = marker[k]
  /\ \A k \in Jobs : marker'[k] = marker[k]
                       \/ (status'[k] # "absent" /\ k = NoticeOf[marker'[k]])
  /\ \A k \in Jobs : status[k] \in Terminal => status'[k] = status[k]

\* The parts of the safety properties that speak of one job.
Good(j) ==
  /\ status[j] \in Active => lockDir[j] /\ agentId[j] \in Agents
  /\ j \in WorkJobs /\ status[j] \in Terminal =>
       status[NoticeOf[j]] # "absent" /\ marker[NoticeOf[j]] = j
  /\ marker[j] # NoJob /\ status[j] # "pending" => status[marker[j]] \in Terminal
  /\ creating[j] => status[j] = "pending"

Knows(p) == ClaimKnows(p) /\ SettleKnows(p) /\ ChangeKnows(p)

\* An unlocked command knows nothing; a stray one, that its job is a work job.
LEMMA UnlockedKnows ==
  ASSUME NEW p \in Procs, proc[p].pc \in {"idle", "stray"},
         proc[p].pc = "stray" => proc[p].job \in WorkJobs
  PROVE  Knows(p)
BY DEF Knows, ClaimKnows, SettleKnows, ChangeKnows, ClaimLabels, SettleLabels

\* What a command has read about the job it has locked stays true while
\* another command changes another job.
LEMMA OthersKnow ==
  ASSUME IInv, NEW j, StoreFrame(j), StoreType', NEW q \in Procs, proc'[q] = proc[q],
         proc[q].pc \in LockedLabels => proc[q].job # j
  PROVE  Knows(q)'
<1>1. CASE proc[q].pc \notin LockedLabels
  <2>1. proc[q].pc \in {"idle", "stray"}
    BY <1>1 DEF IInv, TypeOK, Labels
  <2>2. proc[q].pc = "stray" => proc[q].job \in WorkJobs
    BY DEF IInv, ProcInv, SettleKnows
  <2> QED
    BY <2>1, <2>2 DEF Knows, ClaimKnows, SettleKnows, ChangeKnows, ClaimLabels, SettleLabels
<1>2. CASE proc[q].pc \in LockedLabels
  <2> DEFINE k == proc[q].job
  <2>1. k \in Jobs /\ k # j
    BY <1>2 DEF IInv, LockInv
  <2>2. /\ lockDir'[k] = lockDir[k]
        /\ agentId'[k] = agentId[k]
        /\ creating'[k] = creating[k]
        /\ status[k] # "absent" => status'[k] = status[k] /\ marker'[k] = marker[k]
    BY <2>1 DEF StoreFrame
  <2>3. status[k] # "absent" /\ GateOpen(k) => GateOpen(k)'
    BY <2>1, <2>2 DEF GateOpen, StoreFrame, IInv, TypeOK
  <2>4. ClaimKnows(q)'
    BY <2>1, <2>2, <2>3 DEF IInv, ProcInv, ClaimKnows, ClaimLabels
  <2>5. SettleKnows(q)'
    <3>1. k \in WorkJobs => NoticeOf[k] \in Jobs
      OBVIOUS
    <3>2. SettleKnows(q)
      BY DEF IInv, ProcInv
    <3> QED
      BY <2>1, <2>2, <3>1, <3>2 DEF SettleKnows, SettleLabels, StoreFrame
  <2>6. ChangeKnows(q)'
    BY <2>1, <2>2 DEF IInv, ProcInv, ChangeKnows
  <2> QED
    BY <2>4, <2>5, <2>6 DEF Knows
<1> QED
  BY <1>1, <1>2

\* Nor does it break the properties of the jobs it leaves alone.
LEMMA OthersGood ==
  ASSUME IInv, NEW j, StoreFrame(j), StoreType', NEW k \in Jobs, k # j
  PROVE  Good(k)'
<1>1. /\ lockDir'[k] = lockDir[k]
      /\ agentId'[k] = agentId[k]
      /\ creating'[k] = creating[k]
      /\ status'[k] = status[k] \/ (status[k] = "absent" /\ status'[k] = "pending")
  BY DEF StoreFrame
<1>2. /\ status[k] # "absent" => marker'[k] = marker[k]
      /\ marker'[k] # NoJob => status'[k] # "absent"
  BY DEF StoreFrame, IInv, NoticeShape
<1>3. (status[k] \in Active => lockDir[k] /\ agentId[k] \in Agents)'
  BY <1>1 DEF IInv, ActiveIsOwned
<1>4. (k \in WorkJobs /\ status[k] \in Terminal =>
         status[NoticeOf[k]] # "absent" /\ marker[NoticeOf[k]] = k)'
  <2>1. k \in WorkJobs => NoticeOf[k] \in Jobs
    OBVIOUS
  <2> QED
    BY <1>1, <2>1 DEF IInv, SettledHasNotice, StoreFrame
<1>5. (marker[k] # NoJob /\ status[k] # "pending" => status[marker[k]] \in Terminal)'
  <2> SUFFICES ASSUME marker'[k] # NoJob, status'[k] # "pending"
               PROVE  status'[marker'[k]] \in Terminal
    OBVIOUS
  <2>1. status'[k] = status[k] /\ marker'[k] = marker[k]
    BY <1>1, <1>2
  <2>2. status[marker[k]] \in Terminal
    BY <2>1 DEF IInv, NoticeWaitsForSource
  <2>3. marker[k] \in Jobs
    BY <2>1 DEF IInv, TypeOK
  <2> QED
    BY <2>1, <2>2, <2>3 DEF StoreFrame
<1>6. (creating[k] => status[k] = "pending")'
  BY <1>1 DEF IInv, ClaimedTaskIsFinal
<1> QED
  BY <1>3, <1>4, <1>5, <1>6 DEF Good

\* So a step keeps the invariant if it is right about its own job and process.
LEMMA FrameKeeps ==
  ASSUME IInv, TypeOK', LockInv', NEW j, StoreFrame(j), NEW p,
         \A q \in Procs : q # p =>
           proc'[q] = proc[q] /\ (proc[q].pc \in LockedLabels => proc[q].job # j),
         j \in Jobs => Good(j)',
         p \in Procs => Knows(p)'
  PROVE  IInv'
<1>1. StoreType'
  BY DEF TypeOK, StoreType
<1>2. NoticeShape'
  BY DEF IInv, NoticeShape, StoreFrame
<1>3. \A q \in Procs : Knows(q)'
  BY <1>1, OthersKnow
<1>4. \A k \in Jobs : Good(k)'
  BY <1>1, OthersGood
<1> QED
  BY <1>2, <1>3, <1>4 DEF IInv, ProcInv, Knows, Good, ActiveIsOwned, SettledHasNotice,
                          NoticeWaitsForSource, ClaimedTaskIsFinal

-----------------------------------------------------------------------------
(* The three shapes of a command's step.                                   *)

\* The job of a process that holds a lock, and who else may hold it.
LEMMA LockedJob ==
  ASSUME IInv, NEW p \in Procs, proc[p].pc \in LockedLabels
  PROVE  /\ proc[p].job \in Jobs
         /\ proc[p].op \in Ops
         /\ proc[p].agent \in Agents \cup {NoAgent}
         /\ Knows(p)
         /\ \A q \in Procs : q # p /\ proc[q].pc \in LockedLabels =>
              proc[q].job # proc[p].job
BY DEF IInv, LockInv, ProcInv, Knows, TypeOK

\* A step inside the critical section.
LEMMA MoveKeeps ==
  ASSUME IInv, NEW p \in Procs, NEW label \in LockedLabels,
         proc[p].pc \in LockedLabels, Goto(p, label), UNCHANGED <<holder, todo, phase>>,
         NEW j \in Jobs, j = proc[p].job, StoreType', StoreFrame(j), Good(j)', Knows(p)'
  PROVE  IInv'
<1>1. /\ LockInv'
      /\ proc' \in [Procs -> ProcType]
      /\ \A q \in Procs : q # p => proc'[q] = proc[q]
  BY GotoLock DEF IInv
<1>2. TypeOK'
  BY <1>1 DEF IInv, TypeOK, StoreType, ProcType
<1> QED
  BY <1>1, <1>2, LockedJob, FrameKeeps

\* The last step of a critical section.
LEMMA ExitKeeps ==
  ASSUME IInv, NEW p \in Procs, proc[p].pc \in LockedLabels, Exit(p), phase' = phase,
         NEW j \in Jobs, j = proc[p].job, StoreType', StoreFrame(j), Good(j)'
  PROVE  IInv'
<1>1. /\ LockInv'
      /\ proc' \in [Procs -> ProcType]
      /\ holder' \in [Jobs -> Procs \cup {NoProc}]
      /\ todo' \subseteq Jobs
      /\ \A q \in Procs : q # p => proc'[q] = proc[q]
      /\ proc'[p] = IdleProc
  BY ExitLock DEF IInv
<1>2. TypeOK'
  BY <1>1 DEF IInv, TypeOK, StoreType, ProcType
<1>3. Knows(p)'
  BY <1>1 DEF IdleProc, Knows, ClaimKnows, SettleKnows, ChangeKnows, ClaimLabels, SettleLabels
<1> QED
  BY <1>1, <1>2, <1>3, LockedJob, FrameKeeps

\* The first step of a critical section.
LEMMA BeginKeeps ==
  ASSUME IInv, NEW p \in Procs, NEW op \in Ops, NEW j \in Jobs,
         NEW a \in Agents \cup {NoAgent}, NEW label \in LockedLabels,
         Begin(p, op, j, a, label), UNCHANGED <<phase, todo>>,
         StoreType', StoreFrame(j), Good(j)', Knows(p)'
  PROVE  IInv'
<1>1. /\ LockInv'
      /\ proc' \in [Procs -> ProcType]
      /\ holder' \in [Jobs -> Procs \cup {NoProc}]
      /\ \A q \in Procs : q # p => proc'[q] = proc[q]
  <2>1. TypeOK /\ LockInv
    BY DEF IInv
  <2> QED
    BY <2>1, BeginLock, ZenonT(20)
<1>2. TypeOK'
  <2>1. phase' = phase /\ todo' = todo /\ TypeOK
    BY DEF IInv
  <2> QED
    BY <1>1, <2>1 DEF TypeOK, StoreType, ProcType
<1>3. \A q \in Procs : proc[q].pc \in LockedLabels => proc[q].job # j
  BY DEF Begin, IInv, LockInv
<1> QED
  BY <1>1, <1>2, <1>3, FrameKeeps

\* A step that writes nothing needs no frame argument.
LEMMA StoreKept ==
  ASSUME IInv, UNCHANGED store, NEW j \in Jobs
  PROVE  StoreType' /\ StoreFrame(j) /\ Good(j)'
<1>1. StoreType' /\ StoreFrame(j)
  BY DEF IInv, TypeOK, store, StoreType, StoreFrame
<1>2. Good(j)
  BY DEF IInv, ActiveIsOwned, SettledHasNotice, NoticeWaitsForSource, ClaimedTaskIsFinal, Good
<1> QED
  BY <1>1, <1>2 DEF Good, store

-----------------------------------------------------------------------------
(* Commands that begin.                                                    *)

\* job-claim and job-wait begin with a pending job.
LEMMA ClaimSteps ==
  ASSUME IInv, NEW p \in Procs, NEW j \in Jobs,
         WaitBegin(p, j) \/ \E a \in Agents : ClaimBegin(p, j, a)
  PROVE  IInv'
<1>1. "gate" \in LockedLabels /\ {"claim", "wait"} \subseteq Ops
  BY DEF LockedLabels, ClaimLabels, Ops
<1>2. UNCHANGED store /\ UNCHANGED <<phase, todo>> /\ status[j] = "pending"
  BY DEF ClaimBegin, WaitBegin
<1>3. PICK op \in {"claim", "wait"}, b \in Agents \cup {NoAgent} :
        /\ Begin(p, op, j, b, "gate")
        /\ op = "claim" => b \in Agents /\ Serves(b, j)
  BY DEF ClaimBegin, WaitBegin
<1>4. Knows(p)'
  <2>1. proc'[p] = [pc |-> "gate", op |-> op, job |-> j, agent |-> b]
    BY <1>1, <1>3, BeginLock DEF IInv
  <2>2. status'[j] = "pending"
    BY <1>2 DEF store
  <2> QED
    BY <1>1, <1>3, <2>1, <2>2
       DEF Knows, ClaimKnows, SettleKnows, ChangeKnows, ClaimLabels, SettleLabels, Serves
<1> QED
  BY <1>1, <1>2, <1>3, <1>4, StoreKept, BeginKeeps

\* job-start, job-done and job-fail begin with a job the agent owns.
LEMMA OwnerSteps ==
  ASSUME IInv, NEW p \in Procs, NEW j \in Jobs, NEW a \in Agents, NEW result \in Terminal,
         StartBegin(p, j, a) \/ SettleBegin(p, j, a, result) \/ ReleaseBegin(p, j, a)
  PROVE  IInv'
<1>1. {"starting", "notify", "demote"} \subseteq LockedLabels
      /\ {"start", "done", "failed", "release"} \subseteq Ops
  BY DEF LockedLabels, SettleLabels, DemoteLabels, Ops
<1>2. UNCHANGED store /\ UNCHANGED <<phase, todo>>
  BY DEF StartBegin, SettleBegin, ReleaseBegin
<1>3. CASE StartBegin(p, j, a)
  <2>1. Begin(p, "start", j, a, "starting") /\ status[j] = "claimed"
    BY <1>3 DEF StartBegin
  <2>2. Knows(p)'
    <3>1. proc'[p] = [pc |-> "starting", op |-> "start", job |-> j, agent |-> a]
      BY <1>1, <2>1, BeginLock DEF IInv
    <3> QED
      BY <1>2, <2>1, <3>1
         DEF store, Knows, ClaimKnows, SettleKnows, ChangeKnows, ClaimLabels, SettleLabels
  <2> QED
    BY <1>1, <1>2, <2>1, <2>2, StoreKept, BeginKeeps
<1>4. CASE SettleBegin(p, j, a, result)
  <2>1. /\ Begin(p, result, j, a, "notify")
        /\ status[j] \in IF result = "done" THEN {"running"} ELSE Active
    BY <1>4 DEF SettleBegin
  <2>2. Knows(p)'
    <3>1. proc'[p] = [pc |-> "notify", op |-> result, job |-> j, agent |-> a]
      BY <1>1, <2>1, BeginLock DEF IInv
    <3> QED
      BY <1>2, <2>1, <3>1
         DEF store, Knows, ClaimKnows, SettleKnows, ChangeKnows, ClaimLabels, SettleLabels
  <2> QED
    BY <1>1, <1>2, <2>1, <2>2, StoreKept, BeginKeeps
<1>5. CASE ReleaseBegin(p, j, a)
  <2>1. Begin(p, "release", j, a, "demote") /\ status[j] \in Active
    BY <1>5 DEF ReleaseBegin
  <2>2. Knows(p)'
    <3>1. proc'[p] = [pc |-> "demote", op |-> "release", job |-> j, agent |-> a]
      BY <1>1, <2>1, BeginLock DEF IInv
    <3> QED
      BY <1>2, <2>1, <3>1
         DEF store, Knows, ClaimKnows, SettleKnows, ChangeKnows, ClaimLabels, SettleLabels
  <2> QED
    BY <1>1, <1>2, <2>1, <2>2, StoreKept, BeginKeeps
<1> QED
  BY <1>3, <1>4, <1>5

\* job-reap, job-reset-orphans and a repeated task-create begin with a look.
LEMMA ResetSteps ==
  ASSUME IInv, NEW p \in Procs, NEW j \in Jobs,
         ReapBegin(p, j) \/ ResetBegin(p, j) \/ RecoverTaskJob(p, j)
  PROVE  IInv'
<1>1. {"demote", "rmdir", "marker"} \subseteq LockedLabels /\ {"reap", "reset", "create"} \subseteq Ops
  BY DEF LockedLabels, DemoteLabels, Ops
<1>2. UNCHANGED store /\ UNCHANGED <<phase, todo>>
  BY DEF ReapBegin, ResetBegin, RecoverTaskJob
<1>3. PICK op \in {"reap", "reset", "create"}, label \in {"demote", "rmdir", "marker"} :
        /\ Begin(p, op, j, NoAgent, label)
        /\ label = "marker" => status[j] # "absent"
        /\ label = "demote" => status[j] \in Active \cup {"pending"}
        /\ label = "rmdir"  => status[j] \in Terminal
  <2>1. status[j] \in Statuses
    BY DEF IInv, TypeOK
  <2>2. CASE RecoverTaskJob(p, j)
    BY <2>2 DEF RecoverTaskJob
  <2>3. CASE ResetBegin(p, j)
    BY <2>3 DEF ResetBegin
  <2>4. CASE ReapBegin(p, j) /\ status[j] \in Terminal
    BY <2>4 DEF ReapBegin
  <2>5. CASE ReapBegin(p, j) /\ status[j] \notin Terminal
    BY <2>1, <2>5 DEF ReapBegin, Statuses
  <2> QED
    BY <2>2, <2>3, <2>4, <2>5
<1>4. proc'[p] = [pc |-> label, op |-> op, job |-> j, agent |-> NoAgent]
  BY <1>1, <1>3, BeginLock DEF IInv
<1>5. Knows(p)'
  BY <1>2, <1>3, <1>4
     DEF store, Knows, ClaimKnows, SettleKnows, ChangeKnows, ClaimLabels, SettleLabels
<1> QED
  BY <1>1, <1>2, <1>3, <1>5, StoreKept, BeginKeeps

\* The boot reset visits a job.
LEMMA BootVisitStep ==
  ASSUME IInv, NEW p \in Procs, NEW j \in Jobs, BootVisit(p, j)
  PROVE  IInv'
<1>1. {"demote", "finalize"} \subseteq LockedLabels /\ "boot" \in Ops
  BY DEF LockedLabels, ClaimLabels, DemoteLabels, Ops
<1>2. UNCHANGED store /\ phase' = phase
  BY DEF BootVisit
<1>3. CASE todo' = todo /\ \E label \in {"demote", "finalize"} :
        /\ Begin(p, "boot", j, NoAgent, label)
        /\ label = "demote" => status[j] \in Active
        /\ label = "finalize" => status[j] = "pending"
  <2>1. PICK label \in {"demote", "finalize"} :
        /\ Begin(p, "boot", j, NoAgent, label)
        /\ label = "demote" => status[j] \in Active
        /\ label = "finalize" => status[j] = "pending"
    BY <1>3
  <2>2. proc'[p] = [pc |-> label, op |-> "boot", job |-> j, agent |-> NoAgent]
    BY <1>1, <2>1, BeginLock DEF IInv
  <2>3. Knows(p)'
    BY <1>2, <2>1, <2>2
       DEF store, Knows, ClaimKnows, SettleKnows, ChangeKnows, ClaimLabels, SettleLabels
  <2> QED
    BY <1>1, <1>2, <1>3, <2>1, <2>3, StoreKept, BeginKeeps
<1>4. CASE todo' = todo \ {j} /\ UNCHANGED <<holder, proc>>
  <2>1. TypeOK' /\ LockInv'
    BY <1>2, <1>4 DEF IInv, TypeOK, LockInv, store
  <2>2. StoreFrame(NoJob)
    BY <1>2 DEF store, StoreFrame
  <2>3. \A q \in Procs : proc[q].pc \in LockedLabels => proc[q].job # NoJob
    BY DEF IInv, LockInv
  <2>4. NoProc \notin Procs /\ NoJob \notin Jobs
    OBVIOUS
  <2> QED
    BY <1>4, <2>1, <2>2, <2>3, <2>4, FrameKeeps
<1> QED
  BY <1>3, <1>4 DEF BootVisit

\* Nobody has locked a job that does not exist.
LEMMA ExistingJob ==
  ASSUME IInv, NEW q \in Procs, proc[q].pc \in LockedLabels
  PROVE  status[proc[q].job] # "absent"
<1>1. Knows(q)
  BY DEF IInv, ProcInv, Knows
<1>2. CASE proc[q].pc \in ClaimLabels
  BY <1>1, <1>2 DEF Knows, ClaimKnows
<1>3. CASE proc[q].pc \in SettleLabels
  BY <1>1, <1>3 DEF Knows, SettleKnows, SettleLabels
<1>4. CASE proc[q].pc \in DemoteLabels \cup {"starting", "marker", "orphan"}
  BY <1>1, <1>4 DEF Knows, SettleKnows, ChangeKnows, DemoteLabels
<1> QED
  BY <1>2, <1>3, <1>4 DEF LockedLabels

\* job-create and task-create publish a directory that did not exist.
LEMMA CreateSteps ==
  ASSUME IInv, NEW j \in Jobs,
         CreateJob(j) \/ \E p \in Procs : CreateTaskJob(p, j)
  PROVE  IInv'
<1>1. status[j] = "absent" /\ status' = [status EXCEPT ![j] = "pending"]
      /\ UNCHANGED <<marker, lockDir, agentId, phase, todo>>
  BY DEF CreateJob, CreateTaskJob
<1>2. creating' \in [Jobs -> BOOLEAN] /\ \A k \in Jobs : k # j => creating'[k] = creating[k]
  BY DEF CreateJob, CreateTaskJob, IInv, TypeOK
<1>3. StoreType'
  BY <1>1, <1>2 DEF IInv, TypeOK, StoreType, Statuses
<1>4. StoreFrame(j)
  BY <1>1, <1>2 DEF IInv, TypeOK, StoreFrame
<1>5. Good(j)'
  BY <1>1 DEF IInv, TypeOK, Good
<1>6. CASE CreateJob(j)
  <2>1. TypeOK' /\ LockInv'
    BY <1>3, <1>6 DEF CreateJob, IInv, TypeOK, StoreType, LockInv
  <2>2. \A q \in Procs : proc[q].pc \in LockedLabels => proc[q].job # j
    BY <1>1, ExistingJob
  <2> QED
    BY <1>4, <1>5, <1>6, <2>1, <2>2, FrameKeeps DEF CreateJob
<1>7. CASE \E p \in Procs : CreateTaskJob(p, j)
  <2>1. PICK p \in Procs : Begin(p, "create", j, NoAgent, "marker")
    BY <1>7 DEF CreateTaskJob
  <2>2. "marker" \in LockedLabels /\ "create" \in Ops
    BY DEF LockedLabels, Ops
  <2>3. proc'[p] = [pc |-> "marker", op |-> "create", job |-> j, agent |-> NoAgent]
    BY <2>1, <2>2, BeginLock DEF IInv
  <2>4. status'[j] = "pending"
    BY <1>1 DEF IInv, TypeOK
  <2>5. Knows(p)'
    BY <2>3, <2>4
       DEF Knows, ClaimKnows, SettleKnows, ChangeKnows, ClaimLabels, SettleLabels
  <2> QED
    BY <1>1, <1>3, <1>4, <1>5, <2>1, <2>2, <2>5, BeginKeeps
<1> QED
  BY <1>6, <1>7

-----------------------------------------------------------------------------
(* Commands that proceed.                                                  *)

\* The steps of job-claim, and those job-wait and the boot reset share with it.
LEMMA ClaimKeeps ==
  ASSUME IInv, NEW p \in Procs,
         Gate(p) \/ Finalize(p) \/ Repair(p) \/ Forget(p) \/ Mkdir(p) \/ Own(p) \/ Commit(p)
  PROVE  IInv'
<1>1. ClaimLabels \subseteq LockedLabels
  BY DEF LockedLabels
<1>2. proc[p].pc \in ClaimLabels
  BY DEF At, ClaimLabels, Gate, Finalize, Repair, Forget, Mkdir, Own, Commit
<1>3. PICK j \in Jobs : j = proc[p].job
  BY <1>1, <1>2, LockedJob
<1>4. ClaimKnows(p) /\ Good(j) /\ TypeOK /\ LockInv
  BY DEF IInv, ProcInv, Good, ActiveIsOwned, SettledHasNotice, NoticeWaitsForSource,
         ClaimedTaskIsFinal
<1>5. /\ status[j] = "pending"
      /\ proc[p].op \in {"claim", "wait", "boot"}
      /\ proc[p].op = "claim" => proc[p].agent \in Agents /\ Serves(proc[p].agent, j)
  BY <1>2, <1>3, <1>4 DEF ClaimKnows
<1>6. \A label \in ClaimLabels : Goto(p, label) /\ holder' = holder =>
        proc'[p] = [pc |-> label, op |-> proc[p].op, job |-> j, agent |-> proc[p].agent]
  BY <1>1, <1>2, <1>3, <1>4, GotoLock
<1>7. Gate(p) => IInv'
  <2> SUFFICES ASSUME Gate(p) PROVE IInv'
    OBVIOUS
  <2>1. UNCHANGED store /\ phase' = phase
    BY DEF Gate
  <2>2. CASE Exit(p)
    BY <1>1, <1>2, <1>3, <2>1, <2>2, StoreKept, ExitKeeps
  <2>3. CASE GateOpen(j) /\ Goto(p, "finalize") /\ UNCHANGED <<holder, todo>>
    <3>1. proc'[p] = [pc |-> "finalize", op |-> proc[p].op, job |-> j, agent |-> proc[p].agent]
      BY <1>6, <2>3 DEF ClaimLabels
    <3>2. GateOpen(j)' /\ status'[j] = "pending"
      BY <1>5, <2>1, <2>3 DEF GateOpen, store
    <3>3. Knows(p)'
      BY <1>5, <3>1, <3>2
         DEF Knows, ClaimKnows, SettleKnows, ChangeKnows, ClaimLabels, SettleLabels, Serves
    <3>4. "finalize" \in LockedLabels
      BY <1>1 DEF ClaimLabels
    <3> QED
      BY <1>1, <1>2, <1>3, <2>1, <2>3, <3>3, <3>4, StoreKept, MoveKeeps
  <2> QED
    BY <1>3, <2>2, <2>3 DEF Gate, JobOf
<1>8. Finalize(p) => IInv'
  <2> SUFFICES ASSUME Finalize(p) PROVE IInv'
    OBVIOUS
  <2>1. /\ creating' = [creating EXCEPT ![j] = FALSE]
        /\ Goto(p, "repair")
        /\ UNCHANGED <<status, marker, lockDir, agentId, holder, phase, todo>>
        /\ proc[p].pc = "finalize"
    BY <1>3 DEF Finalize, JobOf, At
  <2>2. StoreType' /\ StoreFrame(j) /\ Good(j)'
    BY <1>4, <2>1 DEF TypeOK, StoreType, StoreFrame, Good
  <2>3. proc'[p] = [pc |-> "repair", op |-> proc[p].op, job |-> j, agent |-> proc[p].agent]
    BY <1>6, <2>1 DEF ClaimLabels
  <2>4. (proc[p].op = "boot" \/ GateOpen(j))' /\ ~creating'[j]
    BY <1>3, <1>4, <2>1, <2>3 DEF ClaimKnows, ClaimLabels, GateOpen, TypeOK
  <2>5. Knows(p)'
    BY <1>5, <2>1, <2>3, <2>4
       DEF Knows, ClaimKnows, SettleKnows, ChangeKnows, ClaimLabels, SettleLabels, Serves
  <2>6. "repair" \in LockedLabels
    BY <1>1 DEF ClaimLabels
  <2> QED
    BY <1>1, <1>2, <1>3, <2>1, <2>2, <2>5, <2>6, MoveKeeps
<1>9. Repair(p) => IInv'
  <2> SUFFICES ASSUME Repair(p) PROVE IInv'
    OBVIOUS
  <2>1. /\ lockDir' = [lockDir EXCEPT ![j] = FALSE]
        /\ Goto(p, "forget")
        /\ UNCHANGED <<status, marker, agentId, creating, holder, phase, todo>>
        /\ proc[p].pc = "repair"
    BY <1>3 DEF Repair, JobOf, At
  <2>2. StoreType' /\ StoreFrame(j) /\ Good(j)'
    BY <1>4, <1>5, <2>1 DEF TypeOK, StoreType, StoreFrame, Good
  <2>3. proc'[p] = [pc |-> "forget", op |-> proc[p].op, job |-> j, agent |-> proc[p].agent]
    BY <1>6, <2>1 DEF ClaimLabels
  <2>4. (proc[p].op = "boot" \/ GateOpen(j))' /\ ~creating'[j] /\ ~lockDir'[j]
    BY <1>3, <1>4, <2>1, <2>3 DEF ClaimKnows, ClaimLabels, GateOpen, TypeOK
  <2>5. Knows(p)'
    BY <1>5, <2>1, <2>3, <2>4
       DEF Knows, ClaimKnows, SettleKnows, ChangeKnows, ClaimLabels, SettleLabels, Serves
  <2>6. "forget" \in LockedLabels
    BY <1>1 DEF ClaimLabels
  <2> QED
    BY <1>1, <1>2, <1>3, <2>1, <2>2, <2>5, <2>6, MoveKeeps
<1>10. Forget(p) => IInv'
  <2> SUFFICES ASSUME Forget(p) PROVE IInv'
    OBVIOUS
  <2>1. /\ agentId' = [agentId EXCEPT ![j] = NoAgent]
        /\ UNCHANGED <<status, marker, lockDir, creating, phase>>
        /\ proc[p].pc = "forget"
    BY <1>3 DEF Forget, JobOf, At
  <2>2. StoreType' /\ StoreFrame(j) /\ Good(j)'
    BY <1>4, <1>5, <2>1 DEF TypeOK, StoreType, StoreFrame, Good
  <2>3. CASE Exit(p)
    BY <1>1, <1>2, <1>3, <2>1, <2>2, <2>3, ExitKeeps
  <2>4. CASE proc[p].op = "claim" /\ Goto(p, "mkdir") /\ UNCHANGED <<holder, todo>>
    <3>1. proc'[p] = [pc |-> "mkdir", op |-> proc[p].op, job |-> j, agent |-> proc[p].agent]
      BY <1>6, <2>4 DEF ClaimLabels
    <3>2. GateOpen(j)' /\ ~creating'[j] /\ ~lockDir'[j]
      BY <1>3, <1>4, <2>1, <2>4 DEF ClaimKnows, ClaimLabels, GateOpen
    <3>3. Knows(p)'
      BY <1>5, <2>1, <2>4, <3>1, <3>2
         DEF Knows, ClaimKnows, SettleKnows, ChangeKnows, ClaimLabels, SettleLabels, Serves
    <3>4. "mkdir" \in LockedLabels
      BY <1>1 DEF ClaimLabels
    <3> QED
      BY <1>1, <1>2, <1>3, <2>1, <2>2, <2>4, <3>3, <3>4, MoveKeeps
  <2> QED
    BY <2>3, <2>4 DEF Forget
<1>11. Mkdir(p) => IInv'
  <2> SUFFICES ASSUME Mkdir(p) PROVE IInv'
    OBVIOUS
  <2>1. /\ lockDir' = [lockDir EXCEPT ![j] = TRUE]
        /\ Goto(p, "own")
        /\ UNCHANGED <<status, marker, agentId, creating, holder, phase, todo>>
        /\ proc[p].pc = "mkdir"
    BY <1>3 DEF Mkdir, JobOf, At
  <2>2. StoreType' /\ StoreFrame(j) /\ Good(j)'
    BY <1>4, <1>5, <2>1 DEF TypeOK, StoreType, StoreFrame, Good
  <2>3. proc'[p] = [pc |-> "own", op |-> proc[p].op, job |-> j, agent |-> proc[p].agent]
    BY <1>6, <2>1 DEF ClaimLabels
  <2>4. GateOpen(j)' /\ ~creating'[j] /\ lockDir'[j]
    BY <1>3, <1>4, <2>1 DEF ClaimKnows, ClaimLabels, GateOpen, TypeOK
  <2>5. proc[p].op = "claim" /\ proc[p].agent \in Agents /\ Serves(proc[p].agent, j)
    BY <1>3, <1>4, <1>5, <2>1 DEF ClaimKnows
  <2>6. Knows(p)'
    BY <1>5, <2>1, <2>3, <2>4, <2>5
       DEF Knows, ClaimKnows, SettleKnows, ChangeKnows, ClaimLabels, SettleLabels, Serves
  <2>7. "own" \in LockedLabels
    BY <1>1 DEF ClaimLabels
  <2> QED
    BY <1>1, <1>2, <1>3, <2>1, <2>2, <2>6, <2>7, MoveKeeps
<1>12. Own(p) => IInv'
  <2> SUFFICES ASSUME Own(p) PROVE IInv'
    OBVIOUS
  <2>1. /\ agentId' = [agentId EXCEPT ![j] = proc[p].agent]
        /\ Goto(p, "commit")
        /\ UNCHANGED <<status, marker, lockDir, creating, holder, phase, todo>>
        /\ proc[p].pc = "own"
    BY <1>3 DEF Own, JobOf, At
  <2>2. proc[p].op = "claim" /\ proc[p].agent \in Agents /\ Serves(proc[p].agent, j)
    BY <1>3, <1>4, <1>5, <2>1 DEF ClaimKnows
  <2>3. StoreType' /\ StoreFrame(j) /\ Good(j)'
    BY <1>4, <1>5, <2>1, <2>2 DEF TypeOK, StoreType, StoreFrame, Good
  <2>4. proc'[p] = [pc |-> "commit", op |-> proc[p].op, job |-> j, agent |-> proc[p].agent]
    BY <1>6, <2>1 DEF ClaimLabels
  <2>5. GateOpen(j)' /\ ~creating'[j] /\ lockDir'[j] /\ agentId'[j] = proc[p].agent
    BY <1>3, <1>4, <2>1 DEF ClaimKnows, ClaimLabels, GateOpen, TypeOK
  <2>6. Knows(p)'
    BY <1>5, <2>1, <2>2, <2>4, <2>5
       DEF Knows, ClaimKnows, SettleKnows, ChangeKnows, ClaimLabels, SettleLabels, Serves
  <2>7. "commit" \in LockedLabels
    BY <1>1 DEF ClaimLabels
  <2> QED
    BY <1>1, <1>2, <1>3, <2>1, <2>3, <2>6, <2>7, MoveKeeps
<1>13. Commit(p) => IInv'
  <2> SUFFICES ASSUME Commit(p) PROVE IInv'
    OBVIOUS
  <2>1. /\ status' = [status EXCEPT ![j] = "claimed"]
        /\ Exit(p)
        /\ UNCHANGED <<marker, lockDir, agentId, creating, phase>>
        /\ proc[p].pc = "commit"
    BY <1>3 DEF Commit, JobOf, At
  <2>2. /\ GateOpen(j) /\ ~creating[j] /\ lockDir[j] /\ agentId[j] = proc[p].agent
        /\ proc[p].agent \in Agents
    BY <1>3, <1>4, <1>5, <2>1 DEF ClaimKnows, ClaimLabels, TypeOK
  <2>3. StoreType' /\ StoreFrame(j)
    BY <1>4, <1>5, <2>1 DEF TypeOK, StoreType, StoreFrame, Statuses
  <2>4. Good(j)'
    BY <1>4, <1>5, <2>1, <2>2 DEF TypeOK, Good, GateOpen
  <2> QED
    BY <1>1, <1>2, <1>3, <2>1, <2>3, <2>4, ExitKeeps
<1> QED
  BY <1>7, <1>8, <1>9, <1>10, <1>11, <1>12, <1>13

\* The three steps that lead a job back to pending.
LEMMA DemoteKeeps ==
  ASSUME IInv, NEW p \in Procs, Demote(p) \/ Disown(p) \/ Rmdir(p)
  PROVE  IInv'
<1>1. DemoteLabels \subseteq LockedLabels /\ proc[p].pc \in DemoteLabels
  BY DEF LockedLabels, DemoteLabels, At, Demote, Disown, Rmdir
<1>2. PICK j \in Jobs : j = proc[p].job
  BY <1>1, LockedJob
<1>3. ChangeKnows(p) /\ Good(j) /\ TypeOK /\ LockInv
  BY DEF IInv, ProcInv, Good, ActiveIsOwned, SettledHasNotice, NoticeWaitsForSource,
         ClaimedTaskIsFinal
<1>4. marker[j] # NoJob /\ status[j] # "pending" => status[marker[j]] \in Terminal
  BY <1>3 DEF Good
<1>5. \A label \in DemoteLabels : Goto(p, label) /\ holder' = holder =>
        proc'[p] = [pc |-> label, op |-> proc[p].op, job |-> j, agent |-> proc[p].agent]
  BY <1>1, <1>2, <1>3, GotoLock
<1>6. Demote(p) => IInv'
  <2> SUFFICES ASSUME Demote(p) PROVE IInv'
    OBVIOUS
  <2>1. /\ status' = [status EXCEPT ![j] = "pending"]
        /\ Goto(p, "disown")
        /\ UNCHANGED <<marker, lockDir, agentId, creating, holder, phase, todo>>
        /\ status[j] \in Active \cup {"pending"}
    BY <1>2, <1>3 DEF Demote, JobOf, At, ChangeKnows
  <2>2. StoreType' /\ StoreFrame(j) /\ Good(j)'
    BY <1>3, <2>1 DEF TypeOK, StoreType, StoreFrame, Good, Statuses
  <2>3. proc'[p] = [pc |-> "disown", op |-> proc[p].op, job |-> j, agent |-> proc[p].agent]
    BY <1>5, <2>1 DEF DemoteLabels
  <2>4. status'[j] = "pending"
    BY <1>3, <2>1 DEF TypeOK
  <2>5. Knows(p)'
    BY <2>3, <2>4 DEF Knows, ClaimKnows, SettleKnows, ChangeKnows, ClaimLabels, SettleLabels
  <2>6. "disown" \in LockedLabels
    BY <1>1 DEF DemoteLabels
  <2> QED
    BY <1>1, <1>2, <2>1, <2>2, <2>5, <2>6, MoveKeeps
<1>7. Disown(p) => IInv'
  <2> SUFFICES ASSUME Disown(p) PROVE IInv'
    OBVIOUS
  <2>1. /\ agentId' = [agentId EXCEPT ![j] = NoAgent]
        /\ Goto(p, "rmdir")
        /\ UNCHANGED <<status, marker, lockDir, creating, holder, phase, todo>>
        /\ status[j] = "pending"
    BY <1>2, <1>3 DEF Disown, JobOf, At, ChangeKnows
  <2>2. StoreType' /\ StoreFrame(j) /\ Good(j)'
    BY <1>3, <2>1 DEF TypeOK, StoreType, StoreFrame, Good
  <2>3. proc'[p] = [pc |-> "rmdir", op |-> proc[p].op, job |-> j, agent |-> proc[p].agent]
    BY <1>5, <2>1 DEF DemoteLabels
  <2>4. status'[j] = "pending" /\ agentId'[j] = NoAgent
    BY <1>3, <2>1 DEF TypeOK
  <2>5. Knows(p)'
    BY <2>3, <2>4 DEF Knows, ClaimKnows, SettleKnows, ChangeKnows, ClaimLabels, SettleLabels
  <2>6. "rmdir" \in LockedLabels
    BY <1>1 DEF DemoteLabels
  <2> QED
    BY <1>1, <1>2, <2>1, <2>2, <2>5, <2>6, MoveKeeps
<1>8. Rmdir(p) => IInv'
  <2> SUFFICES ASSUME Rmdir(p) PROVE IInv'
    OBVIOUS
  <2>1. /\ lockDir' = [lockDir EXCEPT ![j] = FALSE]
        /\ Exit(p)
        /\ UNCHANGED <<status, marker, agentId, creating, phase>>
        /\ status[j] \in Terminal \cup {"pending"}
    BY <1>2, <1>3 DEF Rmdir, JobOf, At, ChangeKnows
  <2>2. StoreType' /\ StoreFrame(j) /\ Good(j)'
    BY <1>3, <2>1 DEF TypeOK, StoreType, StoreFrame, Good
  <2> QED
    BY <1>1, <1>2, <2>1, <2>2, ExitKeeps
<1> QED
  BY <1>6, <1>7, <1>8

\* The single writes of job-start and of a repeated task-create.
LEMMA WriteKeeps ==
  ASSUME IInv, NEW p \in Procs, Starting(p) \/ RemoveCreating(p)
  PROVE  IInv'
<1>1. proc[p].pc \in LockedLabels
  BY DEF LockedLabels, At, Starting, RemoveCreating
<1>2. PICK j \in Jobs : j = proc[p].job
  BY <1>1, LockedJob
<1>3. ChangeKnows(p) /\ Good(j) /\ TypeOK
  BY DEF IInv, ProcInv, Good, ActiveIsOwned, SettledHasNotice, NoticeWaitsForSource,
         ClaimedTaskIsFinal
<1>4. CASE Starting(p)
  <2>1. /\ status' = [status EXCEPT ![j] = "running"]
        /\ Exit(p)
        /\ UNCHANGED <<marker, lockDir, agentId, creating, phase>>
        /\ status[j] = "claimed"
    BY <1>2, <1>3, <1>4 DEF Starting, JobOf, At, ChangeKnows
  <2>2. StoreType' /\ StoreFrame(j)
    BY <1>3, <2>1 DEF TypeOK, StoreType, StoreFrame, Statuses
  <2>3. Good(j)'
    BY <1>3, <2>1 DEF TypeOK, Good
  <2> QED
    BY <1>1, <1>2, <2>1, <2>2, <2>3, ExitKeeps
<1>5. CASE RemoveCreating(p)
  <2>1. /\ creating' = [creating EXCEPT ![j] = FALSE]
        /\ Exit(p)
        /\ UNCHANGED <<status, marker, lockDir, agentId, phase>>
    BY <1>2, <1>5 DEF RemoveCreating, JobOf
  <2>2. StoreType' /\ StoreFrame(j) /\ Good(j)'
    BY <1>3, <2>1 DEF TypeOK, StoreType, StoreFrame, Good
  <2> QED
    BY <1>1, <1>2, <2>1, <2>2, ExitKeeps
<1> QED
  BY <1>4, <1>5

\* job-create publishes the notice of s, whatever became of s meanwhile.
LEMMA NoticeFrame ==
  ASSUME IInv, NEW s \in WorkJobs, PublishNotice(s), UNCHANGED <<lockDir, agentId, creating>>
  PROVE  StoreType' /\ StoreFrame(s) /\ StoreFrame(NoJob) /\ Good(s)'
<1> DEFINE n == NoticeOf[s]
<1>1. n \in Jobs /\ n # s /\ s \in Jobs
  OBVIOUS
<1>2. StoreType' /\ StoreFrame(s) /\ StoreFrame(NoJob)
  <2>1. CASE status[n] = "absent"
    BY <1>1, <2>1 DEF IInv, TypeOK, StoreType, StoreFrame, PublishNotice, Statuses
  <2>2. CASE status[n] # "absent"
    BY <2>2 DEF IInv, TypeOK, StoreType, StoreFrame, PublishNotice
  <2> QED
    BY <2>1, <2>2
<1>3. Good(s)'
  <2>1. s # NoJob
    BY <1>1
  <2> QED
    BY <1>1, <1>2, <2>1, OthersGood
<1> QED
  BY <1>2, <1>3

\* job-done and job-fail, from the notice to the removal of lock/.
LEMMA SettleKeeps ==
  ASSUME IInv, NEW p \in Procs,
         Notify(p) \/ Publish(p) \/ PublishFails(p) \/ Verify(p) \/ Settle(p) \/ Unlock(p)
  PROVE  IInv'
<1>1. SettleLabels \subseteq LockedLabels /\ proc[p].pc \in SettleLabels
  BY DEF LockedLabels, SettleLabels, At, Notify, Publish, PublishFails, Verify, Settle, Unlock
<1>2. PICK j \in Jobs : j = proc[p].job
  BY <1>1, LockedJob
<1>3. SettleKnows(p) /\ Good(j) /\ TypeOK /\ LockInv
  BY DEF IInv, ProcInv, Good, ActiveIsOwned, SettledHasNotice, NoticeWaitsForSource,
         ClaimedTaskIsFinal
<1>4. /\ proc[p].op \in Terminal
      /\ proc[p].pc # "unlock" =>
           status[j] \in IF proc[p].op = "done" THEN {"running"} ELSE Active
  BY <1>1, <1>2, <1>3 DEF SettleKnows, SettleLabels
<1>5. \A label \in SettleLabels : Goto(p, label) /\ holder' = holder =>
        proc'[p] = [pc |-> label, op |-> proc[p].op, job |-> j, agent |-> proc[p].agent]
  BY <1>1, <1>2, <1>3, GotoLock
<1>6. CASE UNCHANGED <<store, phase>> /\ Exit(p)
  BY <1>1, <1>2, <1>6, StoreKept, ExitKeeps
<1>7. ASSUME UNCHANGED <<store, phase, holder, todo>>, Goto(p, "settle"),
             proc[p].pc # "unlock", j \in WorkJobs => NoticeMatches(j)
      PROVE  IInv'
  <2>1. proc'[p] = [pc |-> "settle", op |-> proc[p].op, job |-> j, agent |-> proc[p].agent]
    BY <1>5, <1>7 DEF SettleLabels
  <2>2. j \in WorkJobs => status'[NoticeOf[j]] # "absent" /\ marker'[NoticeOf[j]] = j
    BY <1>7 DEF NoticeMatches, store
  <2>3. status'[j] = status[j]
    BY <1>7 DEF store
  <2>4. Knows(p)'
    BY <1>4, <1>7, <2>1, <2>2, <2>3
       DEF Knows, ClaimKnows, SettleKnows, ChangeKnows, ClaimLabels, SettleLabels
  <2>5. "settle" \in LockedLabels
    BY <1>1 DEF SettleLabels
  <2> QED
    BY <1>1, <1>2, <1>7, <2>4, <2>5, StoreKept, MoveKeeps
<1>8. ASSUME Notify(p), Goto(p, "publish"), UNCHANGED <<holder, todo>>, j \in WorkJobs
      PROVE  IInv'
  <2>1. UNCHANGED <<store, phase>> /\ proc[p].pc = "notify"
    BY <1>8 DEF Notify, At
  <2>2. proc'[p] = [pc |-> "publish", op |-> proc[p].op, job |-> j, agent |-> proc[p].agent]
    BY <1>5, <1>8 DEF SettleLabels
  <2>3. status'[j] = status[j]
    BY <2>1 DEF store
  <2>4. Knows(p)'
    BY <1>4, <1>8, <2>1, <2>2, <2>3
       DEF Knows, ClaimKnows, SettleKnows, ChangeKnows, ClaimLabels, SettleLabels
  <2>5. "publish" \in LockedLabels
    BY <1>1 DEF SettleLabels
  <2> QED
    BY <1>1, <1>2, <1>8, <2>1, <2>4, <2>5, StoreKept, MoveKeeps
<1>9. Notify(p) => IInv'
  <2>1. Notify(p) => proc[p].pc = "notify" /\ UNCHANGED <<store, phase>>
    BY DEF Notify, At
  <2> QED
    BY <1>2, <1>6, <1>7, <1>8, <2>1 DEF Notify, JobOf
<1>10. Publish(p) => IInv'
  <2> SUFFICES ASSUME Publish(p) PROVE IInv'
    OBVIOUS
  <2>1. /\ PublishNotice(j) /\ Goto(p, "verify") /\ proc[p].pc = "publish"
        /\ UNCHANGED <<lockDir, agentId, creating, holder, phase, todo>>
    BY <1>2 DEF Publish, JobOf, At
  <2>2. j \in WorkJobs
    BY <1>2, <1>3, <2>1 DEF SettleKnows
  <2>3. StoreType' /\ StoreFrame(j) /\ StoreFrame(NoJob) /\ Good(j)'
    BY <2>1, <2>2, NoticeFrame
  <2>4. status'[j] = status[j]
    BY <1>4, <2>1, <2>3 DEF StoreFrame
  <2>5. proc'[p] = [pc |-> "verify", op |-> proc[p].op, job |-> j, agent |-> proc[p].agent]
    BY <1>5, <2>1 DEF SettleLabels
  <2>6. Knows(p)'
    BY <1>4, <2>1, <2>2, <2>4, <2>5
       DEF Knows, ClaimKnows, SettleKnows, ChangeKnows, ClaimLabels, SettleLabels
  <2>7. "verify" \in LockedLabels
    BY <1>1 DEF SettleLabels
  <2> QED
    BY <1>1, <1>2, <2>1, <2>3, <2>6, <2>7, MoveKeeps
<1>11. Verify(p) => IInv'
  BY <1>2, <1>6, <1>7 DEF Verify, JobOf, At
<1>12. Settle(p) => IInv'
  <2> SUFFICES ASSUME Settle(p) PROVE IInv'
    OBVIOUS
  <2>1. /\ status' = [status EXCEPT ![j] = proc[p].op]
        /\ Goto(p, "unlock")
        /\ UNCHANGED <<marker, lockDir, agentId, creating, holder, phase, todo>>
        /\ proc[p].pc = "settle"
    BY <1>2 DEF Settle, JobOf, At
  <2>2. /\ status[j] \in Active
        /\ j \in WorkJobs => status[NoticeOf[j]] # "absent" /\ marker[NoticeOf[j]] = j
    BY <1>2, <1>3, <1>4, <2>1 DEF SettleKnows
  <2>3. StoreType' /\ StoreFrame(j)
    BY <1>3, <1>4, <2>1, <2>2 DEF TypeOK, StoreType, StoreFrame, Statuses
  <2>4. status'[j] \in Terminal /\ \A k \in Jobs : k # j => status'[k] = status[k]
    BY <1>3, <1>4, <2>1 DEF TypeOK
  <2>5. Good(j)'
    <3>1. j \in WorkJobs => NoticeOf[j] \in Jobs /\ NoticeOf[j] # j
      OBVIOUS
    <3>2. marker[j] # NoJob => status[marker[j]] \in Terminal /\ marker[j] \in Jobs
      BY <1>3, <2>2 DEF Good, TypeOK
    <3>3. ~creating[j]
      BY <1>3, <2>2 DEF Good
    <3> QED
      BY <2>1, <2>2, <2>4, <3>1, <3>2, <3>3 DEF Good
  <2>6. proc'[p] = [pc |-> "unlock", op |-> proc[p].op, job |-> j, agent |-> proc[p].agent]
    BY <1>5, <2>1 DEF SettleLabels
  <2>7. Knows(p)'
    BY <1>4, <2>4, <2>6
       DEF Knows, ClaimKnows, SettleKnows, ChangeKnows, ClaimLabels, SettleLabels
  <2>8. "unlock" \in LockedLabels
    BY <1>1 DEF SettleLabels
  <2> QED
    BY <1>1, <1>2, <2>1, <2>3, <2>5, <2>7, <2>8, MoveKeeps
<1>13. Unlock(p) => IInv'
  <2> SUFFICES ASSUME Unlock(p) PROVE IInv'
    OBVIOUS
  <2>1. /\ lockDir' = [lockDir EXCEPT ![j] = FALSE]
        /\ Exit(p)
        /\ UNCHANGED <<status, marker, agentId, creating, phase>>
        /\ status[j] \in Terminal
    BY <1>2, <1>3 DEF Unlock, JobOf, At, SettleKnows
  <2>2. StoreType' /\ StoreFrame(j) /\ Good(j)'
    BY <1>3, <2>1 DEF TypeOK, StoreType, StoreFrame, Good
  <2> QED
    BY <1>1, <1>2, <2>1, <2>2, ExitKeeps
<1> QED
  BY <1>6, <1>9, <1>10, <1>11, <1>12, <1>13 DEF PublishFails

-----------------------------------------------------------------------------
(* Killed commands and restarts.                                           *)

\* A killed command leaves its job as it is; so does the notifier it leaves
\* behind, but for the notice it still publishes.
LEMMA KillKeeps ==
  ASSUME IInv, NEW p \in Procs, Kill(p) \/ KillShell(p) \/ Orphan(p)
  PROVE  IInv'
<1>1. proc[p].pc \in LockedLabels
  BY DEF Kill, KillShell, Orphan, At, LockedLabels, SettleLabels
<1>2. PICK j \in Jobs : j = proc[p].job
  BY <1>1, LockedJob
<1>3. SettleKnows(p) /\ TypeOK /\ LockInv
  BY DEF IInv, ProcInv
<1>4. CASE Kill(p)
  BY <1>1, <1>2, <1>4, StoreKept, ExitKeeps DEF Kill
<1>5. CASE KillShell(p)
  <2>1. /\ proc[p].pc \in {"notify", "publish"} /\ j \in WorkJobs
        /\ Goto(p, "orphan") /\ UNCHANGED <<store, holder, phase, todo>>
    BY <1>2, <1>5 DEF KillShell, JobOf
  <2>2. "orphan" \in LockedLabels
    BY DEF LockedLabels
  <2>3. proc'[p] = [pc |-> "orphan", op |-> proc[p].op, job |-> j, agent |-> proc[p].agent]
    BY <1>1, <1>2, <1>3, <2>1, <2>2, GotoLock
  <2>4. status[j] \in Active
    BY <1>2, <1>3, <2>1 DEF SettleKnows, SettleLabels
  <2>5. status'[j] \in Active
    BY <2>1, <2>4 DEF store
  <2>6. Knows(p)'
    BY <2>1, <2>3, <2>5
       DEF Knows, ClaimKnows, SettleKnows, ChangeKnows, ClaimLabels, SettleLabels
  <2> QED
    BY <1>1, <1>2, <2>1, <2>2, <2>6, StoreKept, MoveKeeps
<1>6. CASE Orphan(p)
  <2>1. j \in WorkJobs /\ PublishNotice(j) /\ Exit(p)
        /\ UNCHANGED <<lockDir, agentId, creating, phase>>
    BY <1>2, <1>3, <1>6 DEF Orphan, JobOf, At, SettleKnows
  <2> QED
    BY <1>1, <1>2, <2>1, NoticeFrame, ExitKeeps
<1> QED
  BY <1>4, <1>5, <1>6

\* A publication without a lock behind it: the source may have moved on.
LEMMA StrayKeeps ==
  ASSUME IInv, NEW p \in Procs, KillNotifier(p) \/ Stray(p)
  PROVE  IInv'
<1>1. TypeOK /\ LockInv /\ SettleKnows(p) /\ proc \in [Procs -> ProcType]
  BY DEF IInv, ProcInv, TypeOK, ProcType
<1>2. proc[p].job \in WorkJobs
  BY <1>1 DEF KillNotifier, Stray, At, SettleKnows
<1>3. PICK j \in WorkJobs : j = proc[p].job
  BY <1>2
<1>4. NoJob \notin Jobs /\ j \in Jobs
  OBVIOUS
<1>5. \A q \in Procs : proc[q].pc \in LockedLabels => proc[q].job # NoJob
  BY <1>1, <1>4 DEF LockInv
<1>6. "stray" \notin LockedLabels /\ "idle" \notin LockedLabels
      /\ "publish" \in LockedLabels /\ "stray" \in Labels
  BY DEF Labels, LockedLabels, ClaimLabels, SettleLabels, DemoteLabels
<1>7. CASE KillNotifier(p)
  <2>1. /\ proc' = [proc EXCEPT ![p] = [pc |-> "stray", op |-> proc[p].op,
                                        job |-> proc[p].job, agent |-> proc[p].agent]]
        /\ holder' = [holder EXCEPT ![j] = NoProc]
        /\ UNCHANGED <<store, phase, todo>>
        /\ proc[p].pc = "publish"
    BY <1>1, <1>3, <1>7 DEF KillNotifier, Goto, JobOf, At
  <2>2. proc'[p] = [pc |-> "stray", op |-> proc[p].op, job |-> j, agent |-> proc[p].agent]
    BY <1>1, <1>3, <2>1
  <2>3. proc' \in [Procs -> ProcType]
    BY <1>1, <1>6, <2>1 DEF ProcType
  <2>4. TypeOK'
    BY <1>1, <2>1, <2>3 DEF TypeOK, ProcType, store
  <2>5. LockInv'
    BY <1>1, <1>3, <1>4, <1>6, <2>1, <2>2 DEF LockInv, TypeOK
  <2>6. Knows(p)'
    BY <2>2 DEF Knows, ClaimKnows, SettleKnows, ChangeKnows, ClaimLabels, SettleLabels
  <2>7. StoreFrame(NoJob)
    BY <2>1 DEF store, StoreFrame
  <2>8. \A q \in Procs : q # p => proc'[q] = proc[q]
    BY <1>1, <2>1
  <2> QED
    BY <1>4, <1>5, <2>4, <2>5, <2>6, <2>7, <2>8, FrameKeeps
<1>8. CASE Stray(p)
  <2>1. /\ proc' = [proc EXCEPT ![p] = IdleProc]
        /\ PublishNotice(j)
        /\ UNCHANGED <<lockDir, agentId, creating, holder, phase, todo>>
        /\ proc[p].pc = "stray"
    BY <1>3, <1>8 DEF Stray, JobOf, At
  <2>2. proc'[p] = IdleProc /\ \A q \in Procs : q # p => proc'[q] = proc[q]
    BY <1>1, <2>1
  <2>3. StoreType' /\ StoreFrame(NoJob)
    BY <2>1, NoticeFrame
  <2>4. TypeOK'
    BY <1>1, <2>1, <2>3, IdleType DEF TypeOK, StoreType, ProcType
  <2>5. LockInv'
    BY <1>1, <1>6, <2>1, <2>2, IdleType DEF LockInv, TypeOK
  <2>6. Knows(p)'
    BY <2>2 DEF IdleProc, Knows, ClaimKnows, SettleKnows, ChangeKnows, ClaimLabels, SettleLabels
  <2> QED
    BY <1>4, <1>5, <2>2, <2>3, <2>4, <2>5, <2>6, FrameKeeps
<1> QED
  BY <1>7, <1>8

\* The runtime boots, finishes its recovery, or dies with every agent.
LEMMA PhaseKeeps ==
  ASSUME IInv, Boot \/ BootDone \/ Crash
  PROVE  IInv'
<1>1. UNCHANGED store
  BY DEF Boot, BootDone, Crash
<1>2. StoreType' /\ StoreFrame(NoJob)
  BY <1>1 DEF IInv, TypeOK, store, StoreType, StoreFrame
<1>3. /\ NoProc \notin Procs /\ NoJob \notin Jobs
      /\ \A q \in Procs : proc[q].pc \in LockedLabels => proc[q].job # NoJob
  BY DEF IInv, LockInv
<1>4. CASE Boot \/ BootDone
  <2>1. UNCHANGED <<holder, proc>> /\ phase' \in {"recovering", "up"} /\ todo' \subseteq Jobs
    BY <1>4 DEF Boot, BootDone, IInv, TypeOK
  <2>2. TypeOK' /\ LockInv'
    BY <1>2, <2>1 DEF IInv, TypeOK, LockInv, StoreType
  <2> QED
    BY <1>2, <1>3, <2>1, <2>2, FrameKeeps
<1>5. CASE Crash
  <2>1. /\ phase' = "down" /\ todo' = {}
        /\ proc' = [p \in Procs |-> IF InContainer(p) THEN IdleProc ELSE proc[p]]
        /\ holder' = [j \in Jobs |-> IF holder[j] \in Procs /\ InContainer(holder[j])
                                     THEN NoProc ELSE holder[j]]
    BY <1>5 DEF Crash
  <2>2. TypeOK'
    BY <1>2, <2>1, IdleType DEF IInv, TypeOK, StoreType, ProcType
  <2>3. LockInv'
    BY <2>1, IdleType DEF IInv, TypeOK, LockInv
  <2>4. \A q \in Procs : Knows(q)'
    <3>1. SUFFICES ASSUME NEW q \in Procs PROVE Knows(q)'
      OBVIOUS
    <3>2. CASE proc'[q] = IdleProc
      BY <3>2 DEF IdleProc, Knows, ClaimKnows, SettleKnows, ChangeKnows, ClaimLabels, SettleLabels
    <3>3. CASE proc'[q] = proc[q]
      BY <1>2, <1>3, <3>3, OthersKnow
    <3> QED
      BY <2>1, <3>2, <3>3
  <2> QED
    BY <1>1, <2>2, <2>3, <2>4
       DEF store, IInv, NoticeShape, ProcInv, Knows, ActiveIsOwned, SettledHasNotice,
           NoticeWaitsForSource, ClaimedTaskIsFinal
<1> QED
  BY <1>4, <1>5

-----------------------------------------------------------------------------
(* The invariant.                                                          *)

\* An empty queue satisfies the invariant.
LEMMA InitInvariant == Init => IInv
<1> SUFFICES ASSUME Init PROVE IInv
  OBVIOUS
<1>1. TypeOK
  BY IdleType DEF Init, TypeOK, ProcType, Statuses
<1>2. LockInv
  BY IdleType DEF Init, LockInv
<1>3. ProcInv
  BY DEF Init, IdleProc, ProcInv, ClaimKnows, SettleKnows, ChangeKnows, ClaimLabels, SettleLabels
<1>4. NoticeShape /\ ActiveIsOwned /\ SettledHasNotice /\ NoticeWaitsForSource /\ ClaimedTaskIsFinal
  BY DEF Init, NoticeShape, ActiveIsOwned, SettledHasNotice, NoticeWaitsForSource,
         ClaimedTaskIsFinal
<1> QED
  BY <1>1, <1>2, <1>3, <1>4 DEF IInv

\* Any step of any command.
LEMMA StepKeeps ==
  ASSUME IInv, NEW p \in Procs, Step(p)
  PROVE  IInv'
BY ClaimKeeps, DemoteKeeps, WriteKeeps, SettleKeeps, KillKeeps, StrayKeeps DEF Step

\* Any command that begins.
LEMMA EnterKeeps ==
  ASSUME IInv, NEW p \in Procs, NEW j \in Jobs, Enter(p, j)
  PROVE  IInv'
<1>1. "done" \in Terminal
  OBVIOUS
<1>2. CASE CreateTaskJob(p, j)
  BY <1>2, CreateSteps
<1>3. CASE RecoverTaskJob(p, j) \/ ReapBegin(p, j) \/ ResetBegin(p, j)
  BY <1>3, ResetSteps
<1>4. CASE WaitBegin(p, j) \/ \E a \in Agents : ClaimBegin(p, j, a)
  BY <1>4, ClaimSteps
<1>5. CASE \E a \in Agents : StartBegin(p, j, a) \/ ReleaseBegin(p, j, a)
  BY <1>1, <1>5, OwnerSteps
<1>6. CASE \E a \in Agents, result \in Terminal : SettleBegin(p, j, a, result)
  BY <1>6, OwnerSteps
<1> QED
  BY <1>2, <1>3, <1>4, <1>5, <1>6 DEF Enter

\* The invariant is inductive.
LEMMA NextInvariant == IInv /\ [Next]_vars => IInv'
<1> SUFFICES ASSUME IInv, [Next]_vars PROVE IInv'
  OBVIOUS
<1>1. CASE \E j \in Jobs : CreateJob(j)
  BY <1>1, CreateSteps
<1>2. CASE \E p \in Procs : Step(p)
  BY <1>2, StepKeeps
<1>3. CASE \E p \in Procs, j \in Jobs : Enter(p, j)
  BY <1>3, EnterKeeps
<1>4. CASE \E p \in Procs, j \in Jobs : BootVisit(p, j)
  BY <1>4, BootVisitStep
<1>5. CASE Boot \/ BootDone \/ Crash
  BY <1>5, PhaseKeeps
<1>6. CASE \E p \in Procs : Kill(p) \/ KillShell(p) \/ KillNotifier(p)
  BY <1>6, KillKeeps, StrayKeeps
<1>7. CASE UNCHANGED vars
  BY <1>7 DEF vars, IInv, TypeOK, LockInv, NoticeShape, ProcInv, ClaimKnows, SettleKnows,
     ChangeKnows, ActiveIsOwned, SettledHasNotice, NoticeWaitsForSource, ClaimedTaskIsFinal, GateOpen
<1> QED
  BY <1>1, <1>2, <1>3, <1>4, <1>5, <1>6, <1>7 DEF Next, Work, Fault

\* The inductive invariant: locks exclude, and whoever holds one knows the
\* state of its job.
THEOREM Invariant == Spec => []IInv
BY InitInvariant, NextInvariant, PTL DEF Spec

\* Every variable keeps its type.
THEOREM TypeCorrect == Spec => []TypeOK
BY Invariant, PTL DEF IInv

\* A claimed or running job has its ownership directory and a named owner,
\* whichever command was killed between whichever writes.
THEOREM Ownership == Spec => []ActiveIsOwned
BY Invariant, PTL DEF IInv

\* No work job becomes terminal before its own notice is on disk.
THEOREM NoSilentEnd == Spec => []SettledHasNotice
BY Invariant, PTL DEF IInv

\* A notice stays pending until its source is terminal, although it is
\* published before and the source's lock is never taken to look.
THEOREM NoticeGate == Spec => []NoticeWaitsForSource
BY Invariant, PTL DEF IInv

\* The first planner job of a task is pending while the task's creation is
\* not finalized.
THEOREM CreationFirst == Spec => []ClaimedTaskIsFinal
BY Invariant, PTL DEF IInv


-----------------------------------------------------------------------------
(***************************************************************************)
(* What a step of JobQueue may do to the statuses and the owners (Effect), *)
(* and what follows: ends are final, owners are not replaced, and JobQueue *)
(* implements JobLedger.                                                   *)
(***************************************************************************)

\* No status changes, and an agent-id file changes only for a pending job.
Quiet ==
  /\ UNCHANGED <<status, marker>>
  /\ \A j \in Jobs : status[j] # "pending" => agentId'[j] = agentId[j]

\* One status changes, in one of the ways the ledger allows.
Published(j) ==
  /\ status[j] = "absent"
  /\ status' = [status EXCEPT ![j] = "pending"]
  /\ marker' = marker

NoticePosted(s) ==
  /\ status[NoticeOf[s]] = "absent"
  /\ status' = [status EXCEPT ![NoticeOf[s]] = "pending"]
  /\ marker' = [marker EXCEPT ![NoticeOf[s]] = s]

Claimed(j) ==
  /\ status[j] = "pending" /\ GateOpen(j)
  /\ agentId[j] \in Agents /\ Serves(agentId[j], j)
  /\ status' = [status EXCEPT ![j] = "claimed"]
  /\ marker' = marker

Started(j) ==
  /\ status[j] = "claimed"
  /\ status' = [status EXCEPT ![j] = "running"]
  /\ marker' = marker

Settled(j, result) ==
  /\ status[j] \in IF result = "done" THEN {"running"} ELSE Active
  /\ j \in WorkJobs => status[NoticeOf[j]] # "absent" /\ marker[NoticeOf[j]] = j
  /\ status' = [status EXCEPT ![j] = result]
  /\ marker' = marker

Requeued(j) ==
  /\ status[j] \in Active
  /\ status' = [status EXCEPT ![j] = "pending"]
  /\ marker' = marker

Effect ==
  \/ Quiet
  \/ /\ agentId' = agentId
     /\ \/ \E j \in Jobs : Published(j) \/ Claimed(j) \/ Started(j) \/ Requeued(j)
        \/ \E s \in WorkJobs : NoticePosted(s)
        \/ \E j \in Jobs, result \in Terminal : Settled(j, result)

\* A command's step on the job it has locked has one of those effects.
LEMMA StepEffect ==
  ASSUME IInv, NEW p \in Procs, Step(p)
  PROVE  Effect
<1>1. CASE Gate(p) \/ PublishFails(p) \/ Notify(p) \/ Verify(p)
  BY <1>1 DEF Gate, PublishFails, Notify, Verify, store, Effect, Quiet
<1>2. CASE RemoveCreating(p) \/ Finalize(p) \/ Repair(p) \/ Mkdir(p) \/ Unlock(p) \/ Rmdir(p)
  BY <1>2 DEF RemoveCreating, Finalize, Repair, Mkdir, Unlock, Rmdir, Effect, Quiet
<1>3. CASE Forget(p) \/ Own(p) \/ Disown(p)
  <2>1. status[proc[p].job] = "pending" /\ proc[p].job \in Jobs
    BY <1>3, LockedJob DEF Forget, Own, Disown, At, Knows, ClaimKnows, ChangeKnows,
       LockedLabels, ClaimLabels, DemoteLabels
  <2>2. /\ \A k \in Jobs : k # proc[p].job => agentId'[k] = agentId[k]
        /\ UNCHANGED <<status, marker>>
    BY <1>3, <2>1 DEF Forget, Own, Disown, JobOf, IInv, TypeOK
  <2> QED
    BY <2>1, <2>2 DEF Effect, Quiet
<1>4. CASE Publish(p) \/ Orphan(p) \/ Stray(p)
  <2>1. PICK s \in WorkJobs : s = proc[p].job
    BY <1>4 DEF Publish, Orphan, Stray, At, IInv, ProcInv, SettleKnows
  <2>2. PublishNotice(s) /\ agentId' = agentId
    BY <1>4, <2>1 DEF Publish, Orphan, Stray, JobOf
  <2>3. CASE status[NoticeOf[s]] = "absent"
    BY <2>1, <2>2, <2>3 DEF PublishNotice, Effect, NoticePosted
  <2>4. CASE status[NoticeOf[s]] # "absent"
    BY <2>2, <2>4 DEF PublishNotice, Effect, Quiet
  <2> QED
    BY <2>3, <2>4
<1>5. CASE Commit(p)
  <2>1. proc[p].pc = "commit"
    BY <1>5 DEF Commit, At
  <2>2. PICK j \in Jobs : j = proc[p].job
    BY <2>1, LockedJob DEF LockedLabels, ClaimLabels
  <2>3. ClaimKnows(p)
    BY DEF IInv, ProcInv
  <2>4. /\ status[j] = "pending" /\ GateOpen(j)
        /\ agentId[j] \in Agents /\ Serves(agentId[j], j)
    BY <2>1, <2>2, <2>3 DEF ClaimKnows, ClaimLabels
  <2>5. Claimed(j) /\ agentId' = agentId
    BY <1>5, <2>2, <2>4 DEF Commit, JobOf, Claimed
  <2> QED
    BY <2>5 DEF Effect
<1>6. CASE Starting(p)
  <2>1. proc[p].pc = "starting"
    BY <1>6 DEF Starting, At
  <2>2. PICK j \in Jobs : j = proc[p].job
    BY <2>1, LockedJob DEF LockedLabels
  <2>3. Started(j) /\ agentId' = agentId
    BY <1>6, <2>1, <2>2 DEF Starting, JobOf, Started, IInv, ProcInv, ChangeKnows
  <2> QED
    BY <2>3 DEF Effect
<1>7. CASE Settle(p)
  <2>1. proc[p].pc = "settle"
    BY <1>7 DEF Settle, At
  <2>2. PICK j \in Jobs : j = proc[p].job
    BY <2>1, LockedJob DEF LockedLabels, SettleLabels
  <2>3. SettleKnows(p)
    BY DEF IInv, ProcInv
  <2>4. proc[p].op \in Terminal
    BY <2>1, <2>3 DEF SettleKnows, SettleLabels
  <2>5. Settled(j, proc[p].op) /\ agentId' = agentId
    BY <1>7, <2>1, <2>2, <2>3 DEF Settle, JobOf, Settled, SettleKnows, SettleLabels
  <2> QED
    BY <2>4, <2>5 DEF Effect
<1>8. CASE Demote(p)
  <2>1. proc[p].pc = "demote"
    BY <1>8 DEF Demote, At
  <2>2. PICK j \in Jobs : j = proc[p].job
    BY <2>1, LockedJob DEF LockedLabels, DemoteLabels
  <2>3. /\ status[j] \in Active \cup {"pending"}
        /\ status' = [status EXCEPT ![j] = "pending"]
        /\ UNCHANGED <<marker, agentId>>
    BY <1>8, <2>1, <2>2 DEF Demote, JobOf, IInv, ProcInv, ChangeKnows
  <2>4. CASE status[j] = "pending"
    BY <2>3, <2>4 DEF IInv, TypeOK, Effect, Quiet
  <2>5. CASE status[j] \in Active
    BY <2>3, <2>5 DEF Effect, Requeued
  <2> QED
    BY <2>3, <2>4, <2>5
<1> QED
  BY <1>1, <1>2, <1>3, <1>4, <1>5, <1>6, <1>7, <1>8 DEF Step

\* So has every step of the system.
LEMMA NextEffect ==
  ASSUME IInv, [Next]_vars
  PROVE  Effect
<1>1. CASE \E j \in Jobs : CreateJob(j) \/ \E p \in Procs : CreateTaskJob(p, j)
  <2>1. PICK j \in Jobs : CreateJob(j) \/ \E p \in Procs : CreateTaskJob(p, j)
    BY <1>1
  <2>2. Published(j) /\ agentId' = agentId
    BY <2>1 DEF CreateJob, CreateTaskJob, Published
  <2> QED
    BY <2>2 DEF Effect
<1>2. CASE UNCHANGED <<status, marker, agentId>>
  BY <1>2 DEF Effect, Quiet
<1>3. CASE \E p \in Procs, j \in Jobs : Enter(p, j)
  <2>1. PICK p \in Procs, j \in Jobs : Enter(p, j)
    BY <1>3
  <2>2. CASE CreateTaskJob(p, j)
    BY <1>1, <2>2
  <2>3. CASE ~CreateTaskJob(p, j)
    <3>1. UNCHANGED store
      BY <2>1, <2>3 DEF Enter, RecoverTaskJob, ClaimBegin, StartBegin, SettleBegin,
         ReleaseBegin, WaitBegin, ReapBegin, ResetBegin
    <3> QED
      BY <1>2, <3>1 DEF store
  <2> QED
    BY <2>2, <2>3
<1>4. CASE \E p \in Procs : Step(p)
  BY <1>4, StepEffect
<1>5. CASE \E p \in Procs, j \in Jobs : BootVisit(p, j)
  BY <1>2, <1>5 DEF BootVisit, store
<1>6. CASE Boot \/ BootDone \/ Fault
  BY <1>2, <1>6 DEF Boot, BootDone, Fault, Crash, Kill, KillShell, KillNotifier, store
<1>7. CASE UNCHANGED vars
  BY <1>2, <1>7 DEF vars
<1> QED
  BY <1>1, <1>3, <1>4, <1>5, <1>6, <1>7 DEF Next, Work

-----------------------------------------------------------------------------
\* The end of a job and its last owner are never rewritten: no reap, reset,
\* release or restart reaches a terminal job's status or agent-id file.
THEOREM Finality == Spec => TerminalIsFinal
<1>1. ASSUME IInv, Effect, NEW j \in Jobs, status[j] \in Terminal
      PROVE  status'[j] = status[j] /\ agentId'[j] = agentId[j]
  <2>1. CASE Quiet
    BY <1>1, <2>1 DEF Quiet
  <2>2. CASE agentId' = agentId /\ \E s \in WorkJobs : NoticePosted(s)
    BY <1>1, <2>2 DEF NoticePosted, IInv, TypeOK
  <2>3. CASE agentId' = agentId /\ \E k \in Jobs, result \in Terminal : Settled(k, result)
    BY <1>1, <2>3 DEF Settled, IInv, TypeOK
  <2>4. CASE agentId' = agentId /\ \E k \in Jobs :
               Published(k) \/ Claimed(k) \/ Started(k) \/ Requeued(k)
    BY <1>1, <2>4 DEF Published, Claimed, Started, Requeued, IInv, TypeOK
  <2> QED
    BY <1>1, <2>1, <2>2, <2>3, <2>4 DEF Effect
<1>2. IInv /\ [Next]_vars =>
        [\A j \in Jobs : status[j] \in Terminal =>
           status'[j] = status[j] /\ agentId'[j] = agentId[j]]_vars
  BY <1>1, NextEffect
<1> QED
  BY <1>2, Invariant, PTL DEF Spec, TerminalIsFinal

\* No agent takes a claimed or running job over from another: the job is
\* pending in between.
THEOREM NoTakeover == Spec => OwnerIsNotReplaced
<1>1. ASSUME Effect, NEW j \in Jobs, status[j] \in Active
      PROVE  agentId'[j] = agentId[j]
  BY <1>1 DEF Effect, Quiet
<1>2. IInv /\ [Next]_vars =>
        [\A j \in Jobs : status[j] \in Active /\ status'[j] \in Active =>
           agentId'[j] = agentId[j]]_vars
  BY <1>1, NextEffect
<1> QED
  BY <1>2, Invariant, PTL DEF Spec, OwnerIsNotReplaced

-----------------------------------------------------------------------------
\* Every effect is a step of the ledger or leaves it unchanged.
LEMMA LedgerStep ==
  ASSUME IInv, Effect
  PROVE  [Ledger!Next]_(Ledger!ledgerVars)
<1>1. CASE Quiet
  <2>1. Owner' = Owner
    BY <1>1 DEF Quiet, Owner
  <2> QED
    BY <1>1, <2>1 DEF Quiet, Ledger!ledgerVars
<1>2. ASSUME agentId' = agentId, NEW j \in Jobs, Published(j)
      PROVE  Ledger!Next
  <2>1. Owner' = Owner
    BY <1>2 DEF Published, Owner, IInv, TypeOK
  <2> QED
    BY <1>2, <2>1 DEF Published, Ledger!Next, Ledger!Publish
<1>3. ASSUME agentId' = agentId, NEW s \in WorkJobs, NoticePosted(s)
      PROVE  Ledger!Next
  <2>1. Owner' = Owner
    BY <1>3 DEF NoticePosted, Owner, IInv, TypeOK
  <2>2. s \in Jobs
    OBVIOUS
  <2> QED
    BY <1>3, <2>1, <2>2 DEF NoticePosted, Ledger!Next, Ledger!PublishNotice
<1>4. ASSUME agentId' = agentId, NEW j \in Jobs, Claimed(j)
      PROVE  Ledger!Next
  <2>1. Owner' = [Owner EXCEPT ![j] = agentId[j]]
    BY <1>4 DEF Claimed, Owner, IInv, TypeOK
  <2>2. agentId[j] \in Agents
    BY <1>4 DEF Claimed
  <2>3. Ledger!Claim(j, agentId[j])
    BY <1>4, <2>1 DEF Claimed, Ledger!Claim, GateOpen, Serves, Ledger!GateOpen, Ledger!Serves,
       Ledger!Terminal
  <2> QED
    BY <2>2, <2>3 DEF Ledger!Next
<1>5. ASSUME agentId' = agentId, NEW j \in Jobs, Started(j)
      PROVE  Ledger!Next
  <2>1. Owner' = Owner
    BY <1>5 DEF Started, Owner, IInv, TypeOK
  <2> QED
    BY <1>5, <2>1 DEF Started, Ledger!Next, Ledger!Start
<1>6. ASSUME agentId' = agentId, NEW j \in Jobs, NEW result \in Terminal, Settled(j, result)
      PROVE  Ledger!Next
  <2>1. Owner' = [Owner EXCEPT ![j] = NoAgent]
    BY <1>6 DEF Settled, Owner, IInv, TypeOK
  <2>2. Ledger!Settle(j, result)
    BY <1>6, <2>1 DEF Settled, Ledger!Settle, Ledger!NoticePublished, Ledger!Active
  <2> QED
    BY <2>2 DEF Ledger!Next, Ledger!Terminal
<1>7. ASSUME agentId' = agentId, NEW j \in Jobs, Requeued(j)
      PROVE  Ledger!Next
  <2>1. Owner' = [Owner EXCEPT ![j] = NoAgent]
    BY <1>7 DEF Requeued, Owner, IInv, TypeOK
  <2>2. Ledger!Requeue(j)
    BY <1>7, <2>1 DEF Requeued, Ledger!Requeue, Ledger!Active
  <2> QED
    BY <2>2 DEF Ledger!Next
<1> QED
  BY <1>1, <1>2, <1>3, <1>4, <1>5, <1>6, <1>7 DEF Effect

\* The queue, whose commands write one file at a time and may be killed
\* between any two writes, implements the ledger, whose operations are atomic.
THEOREM Refinement == Spec => RefinesLedger
<1>1. Init => Ledger!Init
  <2> SUFFICES ASSUME Init PROVE Ledger!Init
    OBVIOUS
  <2>1. Owner = [j \in Jobs |-> NoAgent]
    BY DEF Init, Owner
  <2> QED
    BY <2>1 DEF Init, Ledger!Init
<1>2. IInv /\ [Next]_vars => [Ledger!Next]_(Ledger!ledgerVars)
  BY NextEffect, LedgerStep
<1> QED
  BY <1>1, <1>2, Invariant, PTL DEF Spec, RefinesLedger, Ledger!Spec

-----------------------------------------------------------------------------
(***************************************************************************)
(* The reset that precedes the agents of a restarted team leaves no job    *)
(* owned.  While it runs, only its own visits and publications from the    *)
(* host change the queue; a job it has visited stays as it left it.        *)
(***************************************************************************)

\* The variables a step leaves alone, of the other commands and jobs.
StepFrame(p) ==
  /\ phase' = phase
  /\ \A q \in Procs : q # p => proc'[q] = proc[q]
  /\ \A k \in Jobs : k # proc[p].job =>
       /\ lockDir'[k] = lockDir[k]
       /\ agentId'[k] = agentId[k]
       /\ status'[k] = status[k] \/ (status[k] = "absent" /\ status'[k] = "pending")
  /\ \A k \in Jobs : status[k] # "absent" => status'[k] # "absent"
  /\ proc[p].pc = "stray" \/ proc[p].pc \in LockedLabels

\* A step of the queue touches what one command owns, or nothing recovery relies on.
LEMMA StepIsFramed ==
  ASSUME IInv, NEW p \in Procs, Step(p)
  PROVE  StepFrame(p)
<1>1. proc[p].pc = "stray" \/ proc[p].pc \in LockedLabels
  BY DEF Step, RemoveCreating, Gate, Finalize, Repair, Forget, Mkdir, Own, Commit, Starting,
     Notify, Publish, PublishFails, Verify, Settle, Unlock, Demote, Disown, Rmdir, Orphan, Stray,
     At, LockedLabels, ClaimLabels, SettleLabels, DemoteLabels
<1>2. phase' = phase
  BY DEF Step, RemoveCreating, Gate, Finalize, Repair, Forget, Mkdir, Own, Commit, Starting,
     Notify, Publish, PublishFails, Verify, Settle, Unlock, Demote, Disown, Rmdir, Orphan, Stray
<1>3. /\ proc \in [Procs -> ProcType]
      /\ status \in [Jobs -> Statuses] /\ lockDir \in [Jobs -> BOOLEAN]
      /\ agentId \in [Jobs -> Agents \cup {NoAgent}]
      /\ proc[p].op \in Ops
  BY DEF IInv, TypeOK, ProcType
<1>4. \A q \in Procs : q # p => proc'[q] = proc[q]
  <2>1. Exit(p) \/ (\E label \in Labels : Goto(p, label)) \/ proc' = [proc EXCEPT ![p] = IdleProc]
    BY DEF Step, RemoveCreating, Gate, Finalize, Repair, Forget, Mkdir, Own, Commit, Starting,
       Notify, Publish, PublishFails, Verify, Settle, Unlock, Demote, Disown, Rmdir, Orphan, Stray,
       Labels, LockedLabels, ClaimLabels, SettleLabels, DemoteLabels
  <2> QED
    BY <1>3, <2>1 DEF Exit, Goto
<1>5. \A k \in Jobs : k # proc[p].job => lockDir'[k] = lockDir[k] /\ agentId'[k] = agentId[k]
  BY <1>3 DEF Step, RemoveCreating, Gate, Finalize, Repair, Forget, Mkdir, Own, Commit, Starting,
     Notify, Publish, PublishFails, Verify, Settle, Unlock, Demote, Disown, Rmdir, Orphan, Stray,
     store, JobOf
<1>6. \A k \in Jobs : status'[k] = status[k]
                        \/ (k = proc[p].job /\ status'[k] # "absent")
                        \/ (status[k] = "absent" /\ status'[k] = "pending")
  <2>1. CASE UNCHANGED status
    BY <2>1
  <2>2. CASE Publish(p) \/ Orphan(p) \/ Stray(p)
    BY <1>3, <2>2 DEF Publish, Orphan, Stray, PublishNotice
  <2>3. CASE Commit(p) \/ Starting(p) \/ Demote(p)
    BY <1>3, <2>3 DEF Commit, Starting, Demote, JobOf
  <2>4. CASE Settle(p)
    <3>1. proc[p].op \in Terminal
      BY <2>4 DEF Settle, At, IInv, ProcInv, SettleKnows, SettleLabels
    <3> QED
      BY <1>3, <2>4, <3>1 DEF Settle, JobOf
  <2> QED
    BY <2>1, <2>2, <2>3, <2>4 DEF Step, RemoveCreating, Gate, Finalize, Repair, Forget, Mkdir,
       Own, Notify, PublishFails, Verify, Unlock, Disown, Rmdir, store
<1> QED
  BY <1>1, <1>2, <1>4, <1>5, <1>6 DEF StepFrame

\* What a step makes of its own command, and of the jobs left to visit.
LEMMA StepOfBoot ==
  ASSUME IInv, NEW p \in Procs, BootKnows(p), Step(p)
  PROVE  /\ BootKnows(p)'
         /\ \/ todo' = todo
            \/ \E j \in Jobs : /\ proc[p].op = "boot" /\ j = proc[p].job
                               /\ todo' = todo \ {j}
                               /\ Clean(j)'
<1>1. proc \in [Procs -> ProcType]
  BY DEF IInv, TypeOK, ProcType
<1>2. phase' = phase
  BY StepIsFramed DEF StepFrame
<1>3. ASSUME NEW label \in {"repair", "forget", "disown", "rmdir"}, Goto(p, label), todo' = todo,
             proc[p].op = "boot" \/ proc[p].op \notin {"none", "create"}
      PROVE  BootKnows(p)'
  BY <1>1, <1>2, <1>3 DEF BootKnows, Goto, ProcType, DemoteLabels
<1>4. ASSUME NEW label, Goto(p, label), todo' = todo, proc[p].op \notin {"none", "create", "boot"}
      PROVE  BootKnows(p)'
  BY <1>1, <1>2, <1>4 DEF BootKnows, Goto, ProcType
<1>5. ASSUME proc' = [proc EXCEPT ![p] = IdleProc]
      PROVE  BootKnows(p)'
  BY <1>1, <1>5 DEF BootKnows, IdleProc
<1>6. CASE Finalize(p) \/ Repair(p) \/ Demote(p) \/ Disown(p)
  <2>1. proc[p].op \notin {"none", "create"}
    BY <1>6 DEF BootKnows, Finalize, Repair, Demote, Disown, At
  <2> QED
    BY <1>3, <1>6, <2>1 DEF Finalize, Repair, Demote, Disown
<1>7. CASE Forget(p)
  <2>1. CASE proc[p].op = "claim"
    BY <1>4, <1>7, <2>1 DEF Forget
  <2>2. CASE proc[p].op # "claim"
    <3>1. Exit(p) /\ proc[p].pc = "forget" /\ UNCHANGED <<status, lockDir>>
          /\ agentId' = [agentId EXCEPT ![proc[p].job] = NoAgent]
      BY <1>7, <2>2 DEF Forget, JobOf, At
    <3>2. /\ proc[p].job \in Jobs
          /\ status[proc[p].job] = "pending" /\ ~lockDir[proc[p].job]
          /\ agentId \in [Jobs -> Agents \cup {NoAgent}]
      BY <3>1, LockedJob DEF LockedLabels, ClaimLabels, Knows, ClaimKnows, IInv, TypeOK
    <3>3. agentId'[proc[p].job] = NoAgent /\ proc'[p].job = NoJob
      BY <1>1, <3>1, <3>2 DEF Exit, IdleProc
    <3>4. PICK j \in Jobs : j = proc[p].job
      BY <3>2
    <3>5. Clean(j)'
      BY <3>1, <3>2, <3>3, <3>4 DEF Clean
    <3> QED
      BY <1>5, <3>1, <3>4, <3>5 DEF Exit, JobOf
  <2> QED
    BY <2>1, <2>2
<1>8. CASE Rmdir(p)
  <2>1. Exit(p) /\ proc[p].pc = "rmdir" /\ UNCHANGED <<status, agentId>>
        /\ lockDir' = [lockDir EXCEPT ![proc[p].job] = FALSE]
    BY <1>8 DEF Rmdir, JobOf, At
  <2>2. PICK j \in Jobs : j = proc[p].job
    BY <2>1, LockedJob DEF LockedLabels, DemoteLabels
  <2>3. /\ status[j] \in Terminal \cup {"pending"}
        /\ status[j] = "pending" => agentId[j] = NoAgent
        /\ lockDir \in [Jobs -> BOOLEAN]
    BY <2>1, <2>2 DEF IInv, ProcInv, ChangeKnows, TypeOK
  <2>4. Clean(j)'
    BY <2>1, <2>2, <2>3 DEF Clean
  <2> QED
    BY <1>5, <2>1, <2>2, <2>4 DEF Exit, JobOf
<1>9. CASE RemoveCreating(p) \/ Commit(p) \/ Starting(p) \/ PublishFails(p) \/ Unlock(p)
           \/ Orphan(p) \/ Stray(p)
  <2>1. proc[p].op # "boot"
    BY <1>9 DEF BootKnows, DemoteLabels, RemoveCreating, Commit, Starting, PublishFails, Unlock,
       Orphan, Stray, At
  <2> QED
    BY <1>5, <1>9, <2>1 DEF RemoveCreating, Commit, Starting, PublishFails, Unlock,
       Orphan, Stray, Exit
<1>10. CASE Gate(p) \/ Mkdir(p) \/ Own(p) \/ Notify(p) \/ Publish(p) \/ Verify(p) \/ Settle(p)
  <2>1. proc[p].op \notin {"none", "create", "boot"}
    BY <1>10 DEF BootKnows, DemoteLabels, Gate, Mkdir, Own, Notify, Publish, Verify, Settle, At
  <2> QED
    BY <1>4, <1>5, <1>10, <2>1 DEF Gate, Mkdir, Own, Notify, Publish, Verify, Settle, Exit
<1> QED
  BY <1>6, <1>7, <1>8, <1>9, <1>10 DEF Step

\* One more step of any command.
LEMMA RecoveryStep ==
  ASSUME IInv, RecoveryInv, NEW p \in Procs, Step(p)
  PROVE  RecoveryInv'
<1>1. StepFrame(p) /\ BootKnows(p)'
  BY StepIsFramed, StepOfBoot DEF RecoveryInv
<1> DEFINE visited == todo \ todo'
<1>2. /\ todo' = todo \ visited
      /\ \A j \in visited : proc[p].op = "boot" /\ j = proc[p].job /\ Clean(j)'
  <2>1. CASE todo' = todo
    BY <2>1
  <2>2. CASE \E j \in Jobs : /\ proc[p].op = "boot" /\ j = proc[p].job
                             /\ todo' = todo \ {j}
                             /\ Clean(j)'
    <3>1. PICK j \in Jobs : /\ proc[p].op = "boot" /\ j = proc[p].job
                            /\ todo' = todo \ {j}
                            /\ Clean(j)'
      BY <2>2
    <3>2. \A k \in visited : k = j
      BY <3>1
    <3>3. \A k \in visited : Clean(k)'
      BY <3>1, <3>2
    <3> QED
      BY <3>1, <3>2, <3>3
  <2> QED
    BY <2>1, <2>2, StepOfBoot DEF RecoveryInv
<1> HIDE DEF visited
<1>3. ASSUME NEW q \in Procs
      PROVE  BootKnows(q)'
  <2>1. CASE q = p
    BY <1>1, <2>1
  <2>2. CASE q # p
    <3>1. proc'[q] = proc[q] /\ phase' = phase /\ BootKnows(q)
      BY <1>1, <2>2 DEF StepFrame, RecoveryInv
    <3>2. ASSUME proc[q].op = "boot", proc[q].job \in visited
          PROVE  FALSE
      <4>1. proc[p].op = "boot" /\ proc[q].job = proc[p].job
        BY <1>2, <3>2
      <4>2. proc[p].pc \in LockedLabels /\ proc[q].pc \in LockedLabels
        BY <3>1, <3>2, <4>1 DEF RecoveryInv, BootKnows, LockedLabels, ClaimLabels
      <4> QED
        BY <2>2, <4>1, <4>2, LockedJob
    <3> QED
      BY <1>2, <3>1, <3>2 DEF BootKnows
  <2> QED
    BY <2>1, <2>2
<1>4. ASSUME NEW j \in Jobs, j # proc[p].job, Clean(j)
      PROVE  Clean(j)'
  <2>1. /\ lockDir'[j] = lockDir[j] /\ agentId'[j] = agentId[j]
        /\ status'[j] = status[j] \/ (status[j] = "absent" /\ status'[j] = "pending")
    BY <1>1, <1>4 DEF StepFrame
  <2> QED
    BY <1>4, <2>1 DEF Clean
<1>5. ASSUME NEW j \in Jobs, status'[j] = "absent"
      PROVE  Clean(j)'
  <2>1. status[j] = "absent"
    BY <1>1, <1>5 DEF StepFrame
  <2>2. CASE proc[p].pc \in LockedLabels
    BY <1>4, <2>1, <2>2, ExistingJob DEF RecoveryInv
  <2>3. CASE proc[p].pc = "stray"
    <3>1. Stray(p)
      BY <2>3 DEF Step, RemoveCreating, Gate, Finalize, Repair, Forget, Mkdir, Own, Commit,
         Starting, Notify, Publish, PublishFails, Verify, Settle, Unlock, Demote, Disown, Rmdir,
         Orphan, At
    <3> QED
      BY <1>5, <2>1, <3>1 DEF Stray, RecoveryInv, Clean
  <2> QED
    BY <1>1, <2>2, <2>3 DEF StepFrame
<1>6. ASSUME phase' = "recovering", NEW j \in Jobs \ todo'
      PROVE  Clean(j)'
  <2>1. phase = "recovering"
    BY <1>1, <1>6 DEF StepFrame
  <2>2. CASE j \in visited
    BY <1>2, <2>2
  <2>3. CASE j \notin visited
    <3>1. j \notin todo /\ Clean(j)
      BY <1>2, <1>6, <2>1, <2>3 DEF RecoveryInv
    <3>2. CASE j # proc[p].job
      BY <1>4, <3>1, <3>2
    <3>3. CASE j = proc[p].job
      <4>1. proc[p].op = "create" /\ proc[p].pc = "marker"
        BY <1>1, <2>1, <3>1, <3>3 DEF RecoveryInv, BootKnows, StepFrame, LockedLabels,
           ClaimLabels, SettleLabels, DemoteLabels
      <4>2. RemoveCreating(p)
        BY <4>1 DEF Step, RemoveCreating, Gate, Finalize, Repair, Forget, Mkdir, Own, Commit,
           Starting, Notify, Publish, PublishFails, Verify, Settle, Unlock, Demote, Disown,
           Rmdir, Orphan, Stray, At
      <4> QED
        BY <3>1, <4>2 DEF RemoveCreating, Clean
    <3> QED
      BY <3>2, <3>3
  <2> QED
    BY <2>2, <2>3
<1> QED
  BY <1>3, <1>5, <1>6 DEF RecoveryInv

\* A command that begins before the team is up is the reset's or the host's.
LEMMA RecoveryEnter ==
  ASSUME IInv, RecoveryInv, NEW p \in Procs, NEW j \in Jobs,
         NEW op \in Ops \ {"none"}, NEW a \in Agents \cup {NoAgent}, NEW label \in LockedLabels,
         Begin(p, op, j, a, label), phase' = phase, todo' = todo,
         phase = "up" \/ op = "create" \/ (op = "boot" /\ phase = "recovering"),
         op = "create" => label = "marker",
         op = "boot" => /\ j \in todo /\ phase = "recovering"
                        /\ label \in {"finalize"} \cup DemoteLabels
  PROVE  \A q \in Procs : BootKnows(q)'
<1>1. proc'[p] = [pc |-> label, op |-> op, job |-> j, agent |-> a]
      /\ \A q \in Procs \ {p} : proc'[q] = proc[q]
  BY BeginLock DEF IInv
<1>2. ASSUME NEW q \in Procs, q # p PROVE BootKnows(q)'
  BY <1>1, <1>2 DEF RecoveryInv, BootKnows
<1>3. BootKnows(p)'
  BY <1>1 DEF BootKnows
<1> QED
  BY <1>2, <1>3

\* The store's part of RecoveryInv, for the steps that write nothing but a
\* new job.
LEMMA RecoveryStore ==
  ASSUME IInv, RecoveryInv, UNCHANGED <<lockDir, agentId>>,
         \A j \in Jobs : status'[j] = status[j] \/ (status[j] = "absent" /\ status'[j] = "pending"),
         phase' = "recovering" => phase = "recovering" /\ todo' = todo,
         \A q \in Procs : BootKnows(q)'
  PROVE  RecoveryInv'
<1>1. ASSUME NEW j \in Jobs, Clean(j) PROVE Clean(j)'
  BY <1>1 DEF Clean
<1>2. \A j \in Jobs : status'[j] = "absent" => status[j] = "absent"
  OBVIOUS
<1> QED
  BY <1>1, <1>2 DEF RecoveryInv

\* A command that begins keeps RecoveryInv.
LEMMA RecoveryBegins ==
  ASSUME IInv, RecoveryInv, NEW p \in Procs, NEW j \in Jobs, Enter(p, j)
  PROVE  RecoveryInv'
<1>1. /\ UNCHANGED <<lockDir, agentId, phase, todo>>
      /\ \A k \in Jobs : status'[k] = status[k]
                           \/ (status[k] = "absent" /\ status'[k] = "pending")
  BY DEF Enter, CreateTaskJob, RecoverTaskJob, ClaimBegin, StartBegin, SettleBegin, ReleaseBegin,
     WaitBegin, ReapBegin, ResetBegin, store, IInv, TypeOK
<1>2. CASE CreateTaskJob(p, j) \/ RecoverTaskJob(p, j)
  <2>1. "create" \in Ops \ {"none"} /\ "marker" \in LockedLabels
    BY DEF Ops, LockedLabels
  <2>2. Begin(p, "create", j, NoAgent, "marker")
    BY <1>2 DEF CreateTaskJob, RecoverTaskJob
  <2>3. \A q \in Procs : BootKnows(q)'
    BY <1>1, <2>1, <2>2, RecoveryEnter
  <2> QED
    BY <1>1, <2>3, RecoveryStore
<1>3. CASE phase = "up" /\ \E op \in Ops \ {"none", "create", "boot"}, a \in Agents \cup {NoAgent},
             label \in LockedLabels : Begin(p, op, j, a, label)
  <2>1. \A q \in Procs : BootKnows(q)'
    BY <1>1, <1>3, RecoveryEnter
  <2> QED
    BY <1>1, <2>1, RecoveryStore
<1>4. {"gate", "starting", "notify", "demote", "rmdir"} \subseteq LockedLabels
      /\ {"claim", "wait", "start", "done", "failed", "release", "reap", "reset"}
           \subseteq Ops \ {"none", "create", "boot"}
  BY DEF LockedLabels, ClaimLabels, SettleLabels, DemoteLabels, Ops
<1>5. CASE \E a \in Agents : ClaimBegin(p, j, a)
  BY <1>3, <1>4, <1>5 DEF ClaimBegin, TeamUp
<1>6. CASE \E a \in Agents : StartBegin(p, j, a)
  BY <1>3, <1>4, <1>6 DEF StartBegin, TeamUp
<1>7. CASE \E a \in Agents, result \in Terminal : SettleBegin(p, j, a, result)
  BY <1>3, <1>4, <1>7 DEF SettleBegin, TeamUp
<1>8. CASE \E a \in Agents : ReleaseBegin(p, j, a)
  BY <1>3, <1>4, <1>8 DEF ReleaseBegin, TeamUp
<1>9. CASE WaitBegin(p, j)
  BY <1>3, <1>4, <1>9 DEF WaitBegin, TeamUp
<1>10. CASE ReapBegin(p, j)
  <2>1. PICK label \in {"demote", "rmdir"} : Begin(p, "reap", j, NoAgent, label)
    BY <1>10 DEF ReapBegin
  <2> QED
    BY <1>3, <1>4, <1>10, <2>1 DEF ReapBegin, TeamUp
<1>11. CASE ResetBegin(p, j)
  BY <1>3, <1>4, <1>11 DEF ResetBegin, TeamUp
<1> QED
  BY <1>2, <1>5, <1>6, <1>7, <1>8, <1>9, <1>10, <1>11 DEF Enter

\* So does the reset's visit to a job.
LEMMA RecoveryVisit ==
  ASSUME IInv, RecoveryInv, NEW p \in Procs, NEW j \in Jobs, BootVisit(p, j)
  PROVE  RecoveryInv'
<1>1. phase = "recovering" /\ phase' = phase /\ j \in todo /\ UNCHANGED store
  BY DEF BootVisit
<1>2. CASE todo' = todo /\ \E label \in {"demote", "finalize"} : Begin(p, "boot", j, NoAgent, label)
  <2>1. "boot" \in Ops \ {"none"} /\ {"demote", "finalize"} \subseteq LockedLabels
    BY DEF Ops, LockedLabels, ClaimLabels, DemoteLabels
  <2>2. \A q \in Procs : BootKnows(q)'
    BY <1>1, <1>2, <2>1, RecoveryEnter DEF DemoteLabels
  <2> QED
    BY <1>1, <1>2, <2>2, RecoveryStore DEF store
<1>3. CASE status[j] \in Terminal /\ todo' = todo \ {j} /\ UNCHANGED <<holder, proc>> /\ BootIdle
  <2>1. \A q \in Procs : BootKnows(q)'
    BY <1>1, <1>3 DEF RecoveryInv, BootKnows, BootIdle
  <2>2. \A k \in Jobs : Clean(k) => Clean(k)'
    BY <1>1 DEF Clean, store
  <2>3. Clean(j)
    BY <1>3 DEF Clean
  <2> QED
    BY <1>1, <1>3, <2>1, <2>2, <2>3 DEF RecoveryInv, store
<1> QED
  BY <1>2, <1>3 DEF BootVisit

\* And so do faults and the phases of the team.
LEMMA RecoveryPhases ==
  ASSUME IInv, RecoveryInv, Boot \/ BootDone \/ Fault
  PROVE  RecoveryInv'
<1>1. UNCHANGED store /\ proc \in [Procs -> ProcType]
  BY DEF Boot, BootDone, Fault, Crash, Kill, KillShell, KillNotifier, IInv, TypeOK, ProcType
<1>2. /\ UNCHANGED <<lockDir, agentId>>
      /\ \A j \in Jobs : status'[j] = status[j]
  BY <1>1 DEF store
<1>3. CASE Boot
  <2>1. \A q \in Procs : BootKnows(q)'
    BY <1>3 DEF Boot, RecoveryInv, BootKnows
  <2>2. \A j \in Jobs : status'[j] = "absent" => Clean(j)'
    BY <1>2 DEF RecoveryInv, Clean
  <2> QED
    BY <1>2, <1>3, <2>1, <2>2 DEF Boot, RecoveryInv
<1>4. CASE BootDone
  <2>1. \A q \in Procs : BootKnows(q)'
    BY <1>4 DEF BootDone, RecoveryInv, BootKnows
  <2> QED
    BY <1>2, <1>4, <2>1, RecoveryStore DEF BootDone
<1>5. CASE Crash
  <2>1. \A q \in Procs : BootKnows(q)'
    BY <1>5 DEF Crash, InContainer, IdleProc, RecoveryInv, BootKnows
  <2> QED
    BY <1>2, <1>5, <2>1, RecoveryStore DEF Crash
<1>6. CASE \E p \in Procs : Kill(p) \/ KillShell(p) \/ KillNotifier(p)
  <2>1. PICK p \in Procs : Kill(p) \/ KillShell(p) \/ KillNotifier(p)
    BY <1>6
  <2>2. /\ phase' = phase
        /\ \A q \in Procs : q # p => proc'[q] = proc[q]
        /\ proc[p].op # "boot" /\ todo' = todo
    BY <1>1, <2>1 DEF Kill, KillShell, KillNotifier, Exit, Goto, RecoveryInv, BootKnows, At,
       DemoteLabels
  <2>3. BootKnows(p)'
    <3>1. CASE Kill(p)
      BY <1>1, <3>1 DEF Kill, Exit, IdleProc, BootKnows
    <3>2. CASE KillShell(p) \/ KillNotifier(p)
      <4>1. proc[p].op \notin {"none", "create", "boot"} /\ BootKnows(p)
        BY <3>2 DEF KillShell, KillNotifier, At, RecoveryInv, BootKnows, DemoteLabels
      <4> QED
        BY <1>1, <2>2, <3>2, <4>1 DEF KillShell, KillNotifier, Goto, BootKnows, ProcType
    <3> QED
      BY <2>1, <3>1, <3>2
  <2>4. \A q \in Procs : BootKnows(q)'
    BY <2>2, <2>3 DEF RecoveryInv, BootKnows
  <2> QED
    BY <1>2, <2>2, <2>4, RecoveryStore
<1> QED
  BY <1>3, <1>4, <1>5, <1>6 DEF Fault

\* The recovery invariant is inductive.
LEMMA RecoveryNext == IInv /\ RecoveryInv /\ [Next]_vars => RecoveryInv'
<1> SUFFICES ASSUME IInv, RecoveryInv, [Next]_vars PROVE RecoveryInv'
  OBVIOUS
<1>1. CASE \E j \in Jobs : CreateJob(j)
  <2>1. /\ UNCHANGED <<lockDir, agentId, proc, phase, todo>>
        /\ \A j \in Jobs : status'[j] = status[j]
                             \/ (status[j] = "absent" /\ status'[j] = "pending")
    BY <1>1 DEF CreateJob, IInv, TypeOK
  <2>2. \A q \in Procs : BootKnows(q)'
    BY <2>1 DEF RecoveryInv, BootKnows
  <2> QED
    BY <2>1, <2>2, RecoveryStore
<1>2. CASE \E p \in Procs : Step(p)
  BY <1>2, RecoveryStep
<1>3. CASE \E p \in Procs, j \in Jobs : Enter(p, j)
  BY <1>3, RecoveryBegins
<1>4. CASE \E p \in Procs, j \in Jobs : BootVisit(p, j)
  BY <1>4, RecoveryVisit
<1>5. CASE Boot \/ BootDone \/ Fault
  BY <1>5, RecoveryPhases
<1>6. CASE UNCHANGED vars
  BY <1>6 DEF vars, RecoveryInv, BootKnows, Clean
<1> QED
  BY <1>1, <1>2, <1>3, <1>4, <1>5, <1>6 DEF Next, Work

-----------------------------------------------------------------------------
\* What the reset has visited stays clean until it is through.
THEOREM RecoveryInvariant == Spec => []RecoveryInv
<1>1. Init => RecoveryInv
  BY DEF Init, RecoveryInv, BootKnows, Clean, IdleProc
<1> QED
  BY <1>1, RecoveryNext, Invariant, PTL DEF Spec

\* Agents start on a queue without owned jobs and without stale ownership,
\* however often the recovery before them was itself interrupted.
THEOREM CleanStart == Spec => RecoveryLeavesNoOwner
<1>1. IInv /\ RecoveryInv /\ [Next]_vars =>
        [phase = "recovering" /\ phase' = "up" =>
           \A j \in Jobs : /\ status[j] \notin Active
                           /\ status[j] = "pending" => ~lockDir[j] /\ agentId[j] = NoAgent]_vars
  <2> SUFFICES ASSUME IInv, RecoveryInv, Next, phase = "recovering", phase' = "up", NEW j \in Jobs
               PROVE  /\ status[j] \notin Active
                      /\ status[j] = "pending" => ~lockDir[j] /\ agentId[j] = NoAgent
    OBVIOUS
  <2>1. BootDone
    <3>1. phase' = phase \/ Boot \/ BootDone \/ Crash
      BY StepIsFramed DEF Next, Work, Fault, CreateJob, Enter, CreateTaskJob, RecoverTaskJob, ClaimBegin,
         StartBegin, SettleBegin, ReleaseBegin, WaitBegin, ReapBegin, ResetBegin, BootVisit,
         Kill, KillShell, KillNotifier, StepFrame
    <3> QED
      BY <3>1 DEF Boot, Crash
  <2>2. Clean(j)
    BY <2>1 DEF BootDone, RecoveryInv
  <2> QED
    BY <2>2 DEF Clean
<1> QED
  BY <1>1, Invariant, RecoveryInvariant, PTL DEF Spec, RecoveryLeavesNoOwner
=============================================================================
