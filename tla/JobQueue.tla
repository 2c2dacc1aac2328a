------------------------------ MODULE JobQueue -------------------------------
(***************************************************************************)
(* The AgentWS job queue as its shell commands implement it: one directory *)
(* per job holding a status file, an agent-id file, an ownership directory *)
(* lock/ and a persistent .control.lock that every command takes with      *)
(* flock before it changes the job.  Each file-system write is one action; *)
(* a command may be killed between any two of them, in which case the      *)
(* kernel drops its flock and the half-made change stays on disk.  The     *)
(* whole team container may crash and restart at any time; the runtime     *)
(* then resets the persisted queue before any agent runs again.            *)
(***************************************************************************)
EXTENDS Naturals

CONSTANTS
  Jobs,        \* identifiers a job directory may have
  WorkJobs,    \* jobs whose role file is not "planner"
  InitJobs,    \* the TASK-plan jobs that task-create publishes
  NoticeOf,    \* planner_notification_id of each work job
  Agents,      \* named agents
  Planners,    \* the agents whose role is "planner"
  AgentDirs,   \* the agents that have an agents/<id> directory
  Procs,       \* slots for concurrently running commands
  NoJob, NoAgent, NoProc

ASSUME QueueAssumption ==
  /\ WorkJobs \subseteq Jobs
  /\ InitJobs \subseteq Jobs \ WorkJobs
  /\ NoticeOf \in [WorkJobs -> Jobs \ (WorkJobs \cup InitJobs)]
  /\ \A s, t \in WorkJobs : NoticeOf[s] = NoticeOf[t] => s = t
  /\ Planners \subseteq Agents
  /\ AgentDirs \subseteq Agents
  /\ NoJob \notin Jobs
  /\ NoAgent \notin Agents
  /\ NoProc \notin Procs

VARIABLES
  status,      \* the status file of each job; "absent" before publication
  marker,      \* .terminal-notice-source
  lockDir,     \* does the ownership directory lock/ exist?
  agentId,     \* the agent-id file
  creating,    \* does the job's task still carry its .creating marker?
  holder,      \* the process whose descriptor holds .control.lock
  proc,        \* the command each process is executing
  phase,       \* the team container: "down", "recovering" or "up"
  todo         \* jobs job-reset-orphans --all-active has yet to visit

store == <<status, marker, lockDir, agentId, creating>>
vars  == <<status, marker, lockDir, agentId, creating, holder, proc, phase, todo>>

Active   == {"claimed", "running"}
Terminal == {"done", "failed"}
Statuses == {"absent", "pending"} \cup Active \cup Terminal

\* Where a command is.  In every label but "idle" and "stray" it holds the
\* control lock of its job.
ClaimLabels  == {"gate", "finalize", "repair", "forget", "mkdir", "own", "commit"}
SettleLabels == {"notify", "publish", "verify", "settle", "unlock"}
DemoteLabels == {"demote", "disown", "rmdir"}
LockedLabels == ClaimLabels \cup SettleLabels \cup DemoteLabels
                  \cup {"starting", "marker", "orphan"}
Labels       == LockedLabels \cup {"idle", "stray"}

Ops == {"none", "claim", "wait", "start", "done", "failed", "release",
        "reap", "reset", "boot", "create"}

IdleProc == [pc |-> "idle", op |-> "none", job |-> NoJob, agent |-> NoAgent]

\* job-claim asks for the role only with -r, which tools/agent always gives.
Serves(a, j) == (a \in Planners) <=> (j \notin WorkJobs)

\* Broken variants, one per property of the runs, precede what they replace.
GateOpenOnceClaimed(j) == marker[j] # NoJob => status[marker[j]] # "pending"
GateNeverOpens(j)      == marker[j] = NoJob

\* terminal_notice_ready_locked: only a terminal source opens the gate.
GateOpen(j) == marker[j] # NoJob => status[marker[j]] \in Terminal

NoticeMatchesByName(s) == status[NoticeOf[s]] = "pending"

\* _notification_matches: the existing notice is this source's, and unclaimed.
NoticeMatches(s) == /\ marker[NoticeOf[s]] = s
                    /\ status[NoticeOf[s]] = "pending"

-----------------------------------------------------------------------------
(* The common shapes of a command.                                         *)

At(p, label) == proc[p].pc = label
JobOf(p) == proc[p].job

Goto(p, label) ==
  proc' = [proc EXCEPT ![p] = [pc |-> label, op |-> @.op, job |-> @.job, agent |-> @.agent]]

\* acquire_job_control_lock, then the checks the command makes under it.
\* While the lock is held nobody else writes the job, so the two are one step.
Begin(p, op, j, a, label) ==
  /\ proc[p] = IdleProc
  /\ holder[j] = NoProc
  /\ holder' = [holder EXCEPT ![j] = p]
  /\ proc' = [proc EXCEPT ![p] = [pc |-> label, op |-> op, job |-> j, agent |-> a]]

\* The command ends: it releases the lock, or dies and the kernel does.
Exit(p) ==
  /\ proc' = [proc EXCEPT ![p] = IdleProc]
  /\ holder' = [holder EXCEPT ![JobOf(p)] = NoProc]
  /\ todo' = IF proc[p].op = "boot" THEN todo \ {JobOf(p)} ELSE todo

\* The container runs agents only after its recovery has finished.
TeamUp == phase = "up"

-----------------------------------------------------------------------------
(* Publication: job-create and task-create.                                *)

\* job-create without a source: mv -nT publishes a complete directory once.
\* It may take any identifier, that of a future notice included.
CreateJob(j) ==
  /\ j \notin InitJobs
  /\ status[j] = "absent"
  /\ status' = [status EXCEPT ![j] = "pending"]
  /\ UNCHANGED <<marker, lockDir, agentId, creating, holder, proc, phase, todo>>

\* task-create renames the planner job into place with its lock already held
\* and its task still marked .creating.  It runs from the host, at any phase.
CreateTaskJob(p, j) ==
  /\ j \in InitJobs
  /\ status[j] = "absent"
  /\ Begin(p, "create", j, NoAgent, "marker")
  /\ status' = [status EXCEPT ![j] = "pending"]
  /\ creating' = [creating EXCEPT ![j] = TRUE]
  /\ UNCHANGED <<marker, lockDir, agentId, phase, todo>>

\* A repeated task-create finds both records published and the marker left.
RecoverTaskJob(p, j) ==
  /\ status[j] # "absent"
  /\ creating[j]
  /\ Begin(p, "create", j, NoAgent, "marker")
  /\ UNCHANGED <<store, phase, todo>>

RemoveCreating(p) ==
  /\ At(p, "marker")
  /\ creating' = [creating EXCEPT ![JobOf(p)] = FALSE]
  /\ Exit(p)
  /\ UNCHANGED <<status, marker, lockDir, agentId, phase>>

-----------------------------------------------------------------------------
(* job-wait and job-claim.                                                 *)

ClaimBegin(p, j, a) ==
  /\ TeamUp
  /\ status[j] = "pending"
  /\ Serves(a, j)
  /\ Begin(p, "claim", j, a, "gate")
  /\ UNCHANGED <<store, phase, todo>>

WaitBegin(p, j) ==
  /\ TeamUp
  /\ status[j] = "pending"
  /\ Begin(p, "wait", j, NoAgent, "gate")
  /\ UNCHANGED <<store, phase, todo>>

\* The source's status is read under the notice's lock, not the source's.
Gate(p) ==
  /\ At(p, "gate")
  /\ \/ GateOpen(JobOf(p)) /\ Goto(p, "finalize") /\ UNCHANGED <<holder, todo>>
     \/ ~GateOpen(JobOf(p)) /\ Exit(p)
  /\ UNCHANGED <<store, phase>>

\* finalize_pending_task_creation_locked
Finalize(p) ==
  /\ At(p, "finalize")
  /\ creating' = [creating EXCEPT ![JobOf(p)] = FALSE]
  /\ Goto(p, "repair")
  /\ UNCHANGED <<status, marker, lockDir, agentId, holder, phase, todo>>

\* repair_pending_ownership_locked, its rmdir and then its rm.
Repair(p) ==
  /\ At(p, "repair")
  /\ lockDir' = [lockDir EXCEPT ![JobOf(p)] = FALSE]
  /\ Goto(p, "forget")
  /\ UNCHANGED <<status, marker, agentId, creating, holder, phase, todo>>

Forget(p) ==
  /\ At(p, "forget")
  /\ agentId' = [agentId EXCEPT ![JobOf(p)] = NoAgent]
  /\ \/ proc[p].op = "claim" /\ Goto(p, "mkdir") /\ UNCHANGED <<holder, todo>>
     \/ proc[p].op # "claim" /\ Exit(p)
  /\ UNCHANGED <<status, marker, lockDir, creating, phase>>

\* mkdir refuses a directory that exists; the repair has just removed it.
Mkdir(p) ==
  /\ At(p, "mkdir")
  /\ ~lockDir[JobOf(p)]
  /\ lockDir' = [lockDir EXCEPT ![JobOf(p)] = TRUE]
  /\ Goto(p, "own")
  /\ UNCHANGED <<status, marker, agentId, creating, holder, phase, todo>>

Own(p) ==
  /\ At(p, "own")
  /\ agentId' = [agentId EXCEPT ![JobOf(p)] = proc[p].agent]
  /\ Goto(p, "commit")
  /\ UNCHANGED <<status, marker, lockDir, creating, holder, phase, todo>>

Commit(p) ==
  /\ At(p, "commit")
  /\ status' = [status EXCEPT ![JobOf(p)] = "claimed"]
  /\ Exit(p)
  /\ UNCHANGED <<marker, lockDir, agentId, creating, phase>>

-----------------------------------------------------------------------------
(* job-start, job-done and job-fail.                                       *)

Owns(j, a) == lockDir[j] /\ agentId[j] = a

StartBegin(p, j, a) ==
  /\ TeamUp
  /\ status[j] = "claimed"
  /\ Owns(j, a)
  /\ Begin(p, "start", j, a, "starting")
  /\ UNCHANGED <<store, phase, todo>>

Starting(p) ==
  /\ At(p, "starting")
  /\ status' = [status EXCEPT ![JobOf(p)] = "running"]
  /\ Exit(p)
  /\ UNCHANGED <<marker, lockDir, agentId, creating, phase>>

SettleBeginAnyActive(p, j, a, result) ==
  /\ TeamUp
  /\ status[j] \in Active
  /\ Owns(j, a)
  /\ Begin(p, result, j, a, "notify")
  /\ UNCHANGED <<store, phase, todo>>

SettleBegin(p, j, a, result) ==
  /\ TeamUp
  /\ status[j] \in IF result = "done" THEN {"running"} ELSE Active
  /\ Owns(j, a)
  /\ Begin(p, result, j, a, "notify")
  /\ UNCHANGED <<store, phase, todo>>

\* ensure_planner_notification up to its call of job-create: a planner source
\* needs no notice, an existing notice must match, otherwise the command dies.
Notify(p) ==
  LET s == JobOf(p) IN
  /\ At(p, "notify")
  /\ \/ /\ s \in WorkJobs => NoticeMatches(s)
        /\ Goto(p, "settle")
        /\ UNCHANGED <<holder, todo>>
     \/ /\ s \in WorkJobs
        /\ status[NoticeOf[s]] = "absent"
        /\ Goto(p, "publish")
        /\ UNCHANGED <<holder, todo>>
     \/ /\ s \in WorkJobs
        /\ status[NoticeOf[s]] # "absent"
        /\ ~NoticeMatches(s)
        /\ Exit(p)
  /\ UNCHANGED <<store, phase>>

\* The rename of job-create: it never replaces a directory.
PublishNotice(s) ==
  LET n == NoticeOf[s] IN
  IF status[n] = "absent"
  THEN /\ status' = [status EXCEPT ![n] = "pending"]
       /\ marker' = [marker EXCEPT ![n] = s]
  ELSE UNCHANGED <<status, marker>>

Publish(p) ==
  /\ At(p, "publish")
  /\ PublishNotice(JobOf(p))
  /\ Goto(p, "verify")
  /\ UNCHANGED <<lockDir, agentId, creating, holder, phase, todo>>

\* job-create failed or timed out: the source stays active and owned.
PublishFails(p) ==
  /\ At(p, "publish")
  /\ Exit(p)
  /\ UNCHANGED <<store, phase>>

Verify(p) ==
  /\ At(p, "verify")
  /\ \/ NoticeMatches(JobOf(p)) /\ Goto(p, "settle") /\ UNCHANGED <<holder, todo>>
     \/ ~NoticeMatches(JobOf(p)) /\ Exit(p)
  /\ UNCHANGED <<store, phase>>

Settle(p) ==
  /\ At(p, "settle")
  /\ status' = [status EXCEPT ![JobOf(p)] = proc[p].op]
  /\ Goto(p, "unlock")
  /\ UNCHANGED <<marker, lockDir, agentId, creating, holder, phase, todo>>

Unlock(p) ==
  /\ At(p, "unlock")
  /\ lockDir' = [lockDir EXCEPT ![JobOf(p)] = FALSE]
  /\ Exit(p)
  /\ UNCHANGED <<status, marker, agentId, creating, phase>>

-----------------------------------------------------------------------------
(* The three ways back to pending: job-release, job-reap and               *)
(* job-reset-orphans.  All write the status first and remove lock/ last.   *)

ReleaseBegin(p, j, a) ==
  /\ TeamUp
  /\ status[j] \in Active
  /\ Owns(j, a)
  /\ Begin(p, "release", j, a, "demote")
  /\ UNCHANGED <<store, phase, todo>>

\* The age of lock/ is any: a stale one loses the lock of a terminal job, a
\* pending job is cleaned, and --force resets a claimed or running one.
ReapBegin(p, j) ==
  /\ TeamUp
  /\ lockDir[j]
  /\ status[j] # "absent"
  /\ Begin(p, "reap", j, NoAgent, IF status[j] \in Terminal THEN "rmdir" ELSE "demote")
  /\ UNCHANGED <<store, phase, todo>>

\* job-reset-orphans while agents run: only a missing agent directory counts.
ResetBegin(p, j) ==
  /\ TeamUp
  /\ status[j] \in Active
  /\ agentId[j] \notin AgentDirs
  /\ Begin(p, "reset", j, NoAgent, "demote")
  /\ UNCHANGED <<store, phase, todo>>

Demote(p) ==
  /\ At(p, "demote")
  /\ status' = [status EXCEPT ![JobOf(p)] = "pending"]
  /\ Goto(p, "disown")
  /\ UNCHANGED <<marker, lockDir, agentId, creating, holder, phase, todo>>

Disown(p) ==
  /\ At(p, "disown")
  /\ agentId' = [agentId EXCEPT ![JobOf(p)] = NoAgent]
  /\ Goto(p, "rmdir")
  /\ UNCHANGED <<status, marker, lockDir, creating, holder, phase, todo>>

Rmdir(p) ==
  /\ At(p, "rmdir")
  /\ lockDir' = [lockDir EXCEPT ![JobOf(p)] = FALSE]
  /\ Exit(p)
  /\ UNCHANGED <<status, marker, agentId, creating, phase>>

-----------------------------------------------------------------------------
(* The team container: exclusive runtime lock, recovery, then the agents.  *)

Boot ==
  /\ phase = "down"
  /\ phase' = "recovering"
  /\ todo' = {j \in Jobs : status[j] # "absent"}
  /\ UNCHANGED <<store, holder, proc>>

BootIdle == \A q \in Procs : proc[q].op # "boot"

BootVisitTrustsPending(p, j) ==
  /\ phase = "recovering"
  /\ j \in todo
  /\ BootIdle
  /\ \/ /\ status[j] \in Active
        /\ Begin(p, "boot", j, NoAgent, "demote")
        /\ UNCHANGED todo
     \/ /\ status[j] \notin Active
        /\ todo' = todo \ {j}
        /\ UNCHANGED <<holder, proc>>
  /\ UNCHANGED <<store, phase>>

\* job-reset-orphans --all-active visits one job at a time: an active job is
\* reset, a pending one loses any stale ownership, a terminal one is left.
BootVisit(p, j) ==
  /\ phase = "recovering"
  /\ j \in todo
  /\ BootIdle
  /\ \/ /\ status[j] \in Active
        /\ Begin(p, "boot", j, NoAgent, "demote")
        /\ UNCHANGED todo
     \/ /\ status[j] = "pending"
        /\ Begin(p, "boot", j, NoAgent, "finalize")
        /\ UNCHANGED todo
     \/ /\ status[j] \in Terminal
        /\ todo' = todo \ {j}
        /\ UNCHANGED <<holder, proc>>
  /\ UNCHANGED <<store, phase>>

BootDone ==
  /\ phase = "recovering"
  /\ todo = {}
  /\ phase' = "up"
  /\ UNCHANGED <<store, holder, proc, todo>>

\* PID 1 exits: every process of the container dies and the kernel drops its
\* locks.  A task-create started from the host runs in its own container.
InContainer(p) == proc[p].op # "create"

CrashKeepsLocks ==
  /\ phase # "down"
  /\ phase' = "down"
  /\ todo' = {}
  /\ proc' = [p \in Procs |-> IF InContainer(p) THEN IdleProc ELSE proc[p]]
  /\ UNCHANGED <<store, holder>>

Crash ==
  /\ phase # "down"
  /\ phase' = "down"
  /\ todo' = {}
  /\ proc' = [p \in Procs |-> IF InContainer(p) THEN IdleProc ELSE proc[p]]
  /\ holder' = [j \in Jobs |-> IF holder[j] \in Procs /\ InContainer(holder[j])
                               THEN NoProc ELSE holder[j]]
  /\ UNCHANGED store

-----------------------------------------------------------------------------
(* SIGKILL of one command.                                                 *)

\* The command dies with its children.  (A killed recovery ends the runtime:
\* that is Crash.)
Kill(p) ==
  /\ proc[p].pc \in LockedLabels
  /\ proc[p].op # "boot"
  /\ Exit(p)
  /\ UNCHANGED <<store, phase>>

\* job-done or job-fail dies alone: the notifier it started has inherited the
\* lock's descriptor, so the job stays locked until the notifier ends.
KillShell(p) ==
  /\ proc[p].pc \in {"notify", "publish"}
  /\ JobOf(p) \in WorkJobs
  /\ Goto(p, "orphan")
  /\ UNCHANGED <<store, holder, phase, todo>>

Orphan(p) ==
  /\ At(p, "orphan")
  /\ PublishNotice(JobOf(p))
  /\ Exit(p)
  /\ UNCHANGED <<lockDir, agentId, creating, phase>>

\* The notifier dies: its job-create holds no descriptor of the lock (Python
\* closes it), and may publish after the job has moved on.
KillNotifier(p) ==
  /\ At(p, "publish")
  /\ Goto(p, "stray")
  /\ holder' = [holder EXCEPT ![JobOf(p)] = NoProc]
  /\ UNCHANGED <<store, phase, todo>>

Stray(p) ==
  /\ At(p, "stray")
  /\ PublishNotice(JobOf(p))
  /\ proc' = [proc EXCEPT ![p] = IdleProc]
  /\ UNCHANGED <<lockDir, agentId, creating, holder, phase, todo>>

-----------------------------------------------------------------------------
Init ==
  /\ status   = [j \in Jobs |-> "absent"]
  /\ marker   = [j \in Jobs |-> NoJob]
  /\ lockDir  = [j \in Jobs |-> FALSE]
  /\ agentId  = [j \in Jobs |-> NoAgent]
  /\ creating = [j \in Jobs |-> FALSE]
  /\ holder   = [j \in Jobs |-> NoProc]
  /\ proc     = [p \in Procs |-> IdleProc]
  /\ phase    = "down"
  /\ todo     = {}

\* A new command starts.
Enter(p, j) ==
  \/ CreateTaskJob(p, j)
  \/ RecoverTaskJob(p, j)
  \/ \E a \in Agents : \/ ClaimBegin(p, j, a)
                       \/ StartBegin(p, j, a)
                       \/ \E result \in Terminal : SettleBegin(p, j, a, result)
                       \/ ReleaseBegin(p, j, a)
  \/ WaitBegin(p, j)
  \/ ReapBegin(p, j)
  \/ ResetBegin(p, j)

\* A command that has started takes its next step.
Step(p) ==
  \/ RemoveCreating(p)
  \/ Gate(p) \/ Finalize(p) \/ Repair(p) \/ Forget(p)
  \/ Mkdir(p) \/ Own(p) \/ Commit(p)
  \/ Starting(p)
  \/ Notify(p) \/ Publish(p) \/ PublishFails(p) \/ Verify(p)
  \/ Settle(p) \/ Unlock(p)
  \/ Demote(p) \/ Disown(p) \/ Rmdir(p)
  \/ Orphan(p) \/ Stray(p)

Fault ==
  \/ Crash
  \/ \E p \in Procs : Kill(p) \/ KillShell(p) \/ KillNotifier(p)

\* What happens while nothing is killed.
Work ==
  \/ \E j \in Jobs : CreateJob(j)
  \/ \E p \in Procs : \/ Step(p)
                      \/ \E j \in Jobs : Enter(p, j) \/ BootVisit(p, j)
  \/ Boot
  \/ BootDone

Next == Work \/ Fault

Spec == Init /\ [][Next]_vars

-----------------------------------------------------------------------------
TypeOK ==
  /\ status   \in [Jobs -> Statuses]
  /\ marker   \in [Jobs -> WorkJobs \cup {NoJob}]
  /\ lockDir  \in [Jobs -> BOOLEAN]
  /\ agentId  \in [Jobs -> Agents \cup {NoAgent}]
  /\ creating \in [Jobs -> BOOLEAN]
  /\ holder   \in [Jobs -> Procs \cup {NoProc}]
  /\ proc     \in [Procs -> [pc : Labels, op : Ops, job : Jobs \cup {NoJob},
                             agent : Agents \cup {NoAgent}]]
  /\ phase    \in {"down", "recovering", "up"}
  /\ todo     \subseteq Jobs

\* Whatever command was killed, a claimed or running job has its ownership
\* directory and a named owner: job-claim writes the status last, and every
\* way back to pending writes it first.
ActiveIsOwned ==
  \A j \in Jobs : status[j] \in Active => lockDir[j] /\ agentId[j] \in Agents

\* No work job ends in silence: job-done and job-fail make it terminal only
\* after its own planner notice is on disk.
SettledHasNotice ==
  \A s \in WorkJobs : status[s] \in Terminal =>
    /\ status[NoticeOf[s]] # "absent"
    /\ marker[NoticeOf[s]] = s

\* A notice published ahead of its source's end is neither claimed nor settled
\* before that end, so a repeated settlement still finds it reusable.
NoticeWaitsForSource ==
  \A n \in Jobs : marker[n] # NoJob /\ status[n] # "pending" =>
    status[marker[n]] \in Terminal

\* Nobody works on the initial planner job of a task whose creation is not
\* finalized, however task-create was interrupted.
ClaimedTaskIsFinal ==
  \A j \in Jobs : creating[j] => status[j] = "pending"

\* The end of a job, and the agent recorded as its last owner, are evidence
\* the planner reads later: no reap, reset or restart changes them.
TerminalIsFinal ==
  [][\A j \in Jobs : status[j] \in Terminal =>
       status'[j] = status[j] /\ agentId'[j] = agentId[j]]_vars

\* A job changes hands only by going back to pending first.
OwnerIsNotReplaced ==
  [][\A j \in Jobs : status[j] \in Active /\ status'[j] \in Active =>
       agentId'[j] = agentId[j]]_vars

\* Agents start only on a queue whose recovery has left no owned job behind
\* and no stale ownership on a pending one.
RecoveryLeavesNoOwner ==
  [][phase = "recovering" /\ phase' = "up" =>
       \A j \in Jobs : /\ status[j] \notin Active
                       /\ status[j] = "pending" => ~lockDir[j] /\ agentId[j] = NoAgent]_vars

\* The queue implements the ledger its users are promised: a job's owner is
\* the agent in its agent-id file while the status says claimed or running.
Owner == [j \in Jobs |-> IF status[j] \in Active THEN agentId[j] ELSE NoAgent]
Ledger == INSTANCE JobLedger WITH owner <- Owner
RefinesLedger == Ledger!Spec

-----------------------------------------------------------------------------
(* The inductive invariant behind the safety properties.                   *)

\* A process and the control lock it holds name each other.
LockInv ==
  /\ \A p \in Procs : proc[p].pc \in LockedLabels =>
       proc[p].job \in Jobs /\ holder[proc[p].job] = p
  /\ \A j \in Jobs : holder[j] # NoProc =>
       proc[holder[j]].pc \in LockedLabels /\ proc[holder[j]].job = j
  /\ \A p \in Procs : proc[p].pc = "idle" => proc[p] = IdleProc

\* A marker is written once, with the directory that carries it.
NoticeShape ==
  \A n \in Jobs : marker[n] # NoJob =>
    status[n] # "absent" /\ n = NoticeOf[marker[n]]

\* What a command knows about its job at each of its labels.
ClaimKnows(p) ==
  LET j == proc[p].job IN
  /\ proc[p].pc \in ClaimLabels =>
       status[j] = "pending" /\ proc[p].op \in {"claim", "wait", "boot"}
  /\ proc[p].pc \in ClaimLabels \ {"gate"} => proc[p].op = "boot" \/ GateOpen(j)
  /\ proc[p].pc \in {"repair", "forget", "mkdir", "own", "commit"} => ~creating[j]
  /\ proc[p].pc \in ClaimLabels /\ proc[p].op = "claim" =>
       proc[p].agent \in Agents /\ Serves(proc[p].agent, j)
  /\ proc[p].pc \in {"mkdir", "own", "commit"} => proc[p].op = "claim"
  /\ proc[p].pc \in {"forget", "mkdir"} => ~lockDir[j]
  /\ proc[p].pc \in {"own", "commit"} => lockDir[j]
  /\ proc[p].pc = "commit" => agentId[j] = proc[p].agent

SettleKnows(p) ==
  LET j == proc[p].job IN
  /\ proc[p].pc \in SettleLabels => proc[p].op \in Terminal
  /\ proc[p].pc \in SettleLabels \ {"unlock"} =>
       status[j] \in IF proc[p].op = "done" THEN {"running"} ELSE Active
  /\ proc[p].pc \in {"publish", "verify", "orphan", "stray"} => j \in WorkJobs
  /\ proc[p].pc = "settle" /\ j \in WorkJobs =>
       status[NoticeOf[j]] # "absent" /\ marker[NoticeOf[j]] = j
  /\ proc[p].pc = "unlock" => status[j] \in Terminal
  /\ proc[p].pc = "orphan" => status[j] \in Active

ChangeKnows(p) ==
  LET j == proc[p].job IN
  /\ proc[p].pc = "marker" => status[j] # "absent"
  /\ proc[p].pc = "starting" => status[j] = "claimed"
  /\ proc[p].pc = "demote" => status[j] \in Active \cup {"pending"}
  /\ proc[p].pc = "disown" => status[j] = "pending"
  /\ proc[p].pc = "rmdir" => /\ status[j] \in Terminal \cup {"pending"}
                             /\ status[j] = "pending" => agentId[j] = NoAgent

ProcInv == \A p \in Procs : ClaimKnows(p) /\ SettleKnows(p) /\ ChangeKnows(p)

IInv ==
  /\ TypeOK
  /\ LockInv
  /\ NoticeShape
  /\ ProcInv
  /\ ActiveIsOwned
  /\ SettledHasNotice
  /\ NoticeWaitsForSource
  /\ ClaimedTaskIsFinal

\* During recovery only the reset and host-side creations run, and the jobs
\* the reset has visited, or that did not exist when it began, are clean.
BootKnows(p) ==
  /\ proc[p].op = "none" => proc[p].pc = "idle"
  /\ proc[p].op = "create" => proc[p].pc = "marker"
  /\ proc[p].op = "boot" =>
       /\ proc[p].pc \in {"finalize", "repair", "forget"} \cup DemoteLabels
       /\ proc[p].job \in todo
  /\ phase # "up" => proc[p].op \in {"none", "create", "boot"}
  /\ phase # "recovering" => proc[p].op # "boot"

Clean(j) == /\ status[j] \notin Active
            /\ status[j] \in {"absent", "pending"} => ~lockDir[j] /\ agentId[j] = NoAgent

RecoveryInv ==
  /\ \A p \in Procs : BootKnows(p)
  /\ \A j \in Jobs : status[j] = "absent" => Clean(j)
  /\ phase = "recovering" => \A j \in Jobs \ todo : Clean(j)

=============================================================================
