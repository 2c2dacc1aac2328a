------------------------------ MODULE JobLedger ------------------------------
(***************************************************************************)
(* What the AgentWS job queue promises its users, with every command       *)
(* taking one atomic step: a job is published once, is owned by at most    *)
(* one agent while it is claimed or running, and reaches "done" or         *)
(* "failed" once and for good.  A terminal notice (the planner job that    *)
(* reports the end of a source job) is claimable only after its source is  *)
(* terminal, and no source becomes terminal before its notice is visible.  *)
(*                                                                         *)
(* JobQueue implements this specification with lock directories, owner     *)
(* files and status files that are written one after the other and may be  *)
(* interrupted between any two writes.                                     *)
(***************************************************************************)

CONSTANTS
  Jobs,        \* identifiers a job directory may have
  WorkJobs,    \* the jobs whose role is not "planner"
  NoticeOf,    \* the deterministic notice identifier of each work job
  Agents,      \* named agents
  Planners,    \* the agents whose role is "planner"
  NoJob,       \* no source: the job is not a terminal notice
  NoAgent      \* no owner

VARIABLES
  status,      \* the state of each job, "absent" before it is published
  marker,      \* the source a terminal notice waits for
  owner        \* the agent working on a claimed or running job

ledgerVars == <<status, marker, owner>>

Active   == {"claimed", "running"}
Terminal == {"done", "failed"}
Statuses == {"absent", "pending"} \cup Active \cup Terminal

\* Agents serve the jobs of their own role only.
Serves(a, j) == (a \in Planners) <=> (j \notin WorkJobs)

GateOpen(j) == marker[j] # NoJob => status[marker[j]] \in Terminal

NoticePublished(s) == /\ status[NoticeOf[s]] # "absent"
                      /\ marker[NoticeOf[s]] = s

Init ==
  /\ status = [j \in Jobs |-> "absent"]
  /\ marker = [j \in Jobs |-> NoJob]
  /\ owner  = [j \in Jobs |-> NoAgent]

Publish(j) ==
  /\ status[j] = "absent"
  /\ status' = [status EXCEPT ![j] = "pending"]
  /\ UNCHANGED <<marker, owner>>

PublishNotice(s) ==
  /\ status[NoticeOf[s]] = "absent"
  /\ status' = [status EXCEPT ![NoticeOf[s]] = "pending"]
  /\ marker' = [marker EXCEPT ![NoticeOf[s]] = s]
  /\ UNCHANGED owner

Claim(j, a) ==
  /\ status[j] = "pending"
  /\ GateOpen(j)
  /\ Serves(a, j)
  /\ status' = [status EXCEPT ![j] = "claimed"]
  /\ owner'  = [owner EXCEPT ![j] = a]
  /\ UNCHANGED marker

Start(j) ==
  /\ status[j] = "claimed"
  /\ status' = [status EXCEPT ![j] = "running"]
  /\ UNCHANGED <<marker, owner>>

\* "done" is reached from "running" only; an agent may fail a job it never started.
Settle(j, result) ==
  /\ status[j] \in IF result = "done" THEN {"running"} ELSE Active
  /\ j \in WorkJobs => NoticePublished(j)
  /\ status' = [status EXCEPT ![j] = result]
  /\ owner'  = [owner EXCEPT ![j] = NoAgent]
  /\ UNCHANGED marker

\* A release by the owner, a forced reap, or the reset of an orphan.
Requeue(j) ==
  /\ status[j] \in Active
  /\ status' = [status EXCEPT ![j] = "pending"]
  /\ owner'  = [owner EXCEPT ![j] = NoAgent]
  /\ UNCHANGED marker

Next ==
  \E j \in Jobs :
    \/ Publish(j)
    \/ j \in WorkJobs /\ PublishNotice(j)
    \/ \E a \in Agents : Claim(j, a)
    \/ Start(j)
    \/ \E result \in Terminal : Settle(j, result)
    \/ Requeue(j)

Spec == Init /\ [][Next]_ledgerVars

=============================================================================
