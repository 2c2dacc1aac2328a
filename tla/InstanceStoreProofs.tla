------------------------- MODULE InstanceStoreProofs -------------------------
(***************************************************************************)
(* Theorems of InstanceStore and of its reads, for any number of processes *)
(* and instances.                                                          *)
(*                                                                         *)
(* The argument: the files are written by the holder of control.lock only, *)
(* and what a process knows about the files it knows while it holds the    *)
(* lock, so a step has to be judged against its own process (LocalStep).   *)
(* Each write then changes the view of the inventory by the whole cohort   *)
(* that its caller asked for, or not at all (Effects).                     *)
(***************************************************************************)
EXTENDS InstanceStoreReads, TLAPS

USE StoreAssumption
USE DEF Labels, Ops, At

-----------------------------------------------------------------------------
(* Cohorts *)

LEMMA CohortFacts ==
  ASSUME NEW c \in Cohorts
  PROVE  DOMAIN c \subseteq Ids /\ \A i \in DOMAIN c : c[i] \in Docs
BY DEF Cohorts

LEMMA NoDocsFacts ==
  NoDocs \in Cohorts /\ DOMAIN NoDocs = {}
<1>1. NoDocs \in [{} -> Docs]
  BY DEF NoDocs
<1> QED
  BY <1>1 DEF Cohorts, NoDocs

LEMMA EmptyCohort ==
  ASSUME NEW c \in Cohorts, DOMAIN c = {}
  PROVE  c = NoDocs
<1>1. PICK S \in SUBSET Ids : c \in [S -> Docs]
  BY DEF Cohorts
<1>2. c \in [{} -> Docs] /\ NoDocs \in [{} -> Docs]
  BY <1>1 DEF NoDocs
<1> QED
  BY <1>2

LEMMA SingleCohort ==
  ASSUME NEW i \in Ids, NEW d \in Docs
  PROVE  [j \in {i} |-> d] \in Cohorts
<1>1. [j \in {i} |-> d] \in [{i} -> Docs]
  OBVIOUS
<1>2. {i} \in SUBSET Ids
  OBVIOUS
<1> QED
  BY <1>1, <1>2 DEF Cohorts

-----------------------------------------------------------------------------
(* Records of processes *)

\* A process at rest is well typed and knows nothing.
LEMMA RestingType ==
  ASSUME NEW home \in {"out", "in"}
  PROVE  /\ Resting(home) \in Process
         /\ Resting(home).pc = home /\ Resting(home).home = home /\ Resting(home).op = "none"
         /\ Resting(home).todo = {} /\ Resting(home).got = Nothing
<1>1. Nothing \in [Ids -> Docs \cup {Missing}]
  BY DEF Nothing
<1> QED
  BY <1>1, NoDocsFacts DEF Resting, Process

\* Process p moves to the record r and the others stay where they are.
MovesTo(p, r) == /\ proc'[p] = r
                 /\ \A q \in Procs \ {p} : proc'[q] = proc[q]

LEMMA RecordUpdate ==
  ASSUME TypeOK, NEW p \in Procs, NEW r \in Process, proc' = [proc EXCEPT ![p] = r]
  PROVE  proc' \in [Procs -> Process] /\ MovesTo(p, r)
BY DEF TypeOK, MovesTo

-----------------------------------------------------------------------------
(* The invariant *)

\* Nothing a process without the lock knows is about the journal or the entries.
LEMMA OthersKnow ==
  ASSUME TypeOK, NEW q \in Procs, proc'[q] = proc[q], Knows(q), ~HoldsLock(q)
  PROVE  Knows(q)'
<1>1. proc[q].op \in Ops
  BY DEF TypeOK, Process
<1> QED
  BY <1>1 DEF Knows, HoldsLock

\* What is left to show of a step of process p.
LEMMA LocalStep ==
  ASSUME IInv, NEW p \in Procs, NEW r \in Process, proc' = [proc EXCEPT ![p] = r],
         entry' \in [Ids -> Docs \cup {Missing, Bare}], pending' \in Cohorts,
         UNCHANGED <<entry, pending>> \/ lock = p,
         \/ lock' = lock
         \/ lock = NoProc /\ lock' = p
         \/ lock = p /\ lock' = NoProc,
         (lock' = p) <=> HoldsLock(p)', Knows(p)'
  PROVE  IInv'
<1>1. proc' \in [Procs -> Process] /\ MovesTo(p, r)
  BY RecordUpdate DEF IInv
<1>2. TypeOK'
  BY <1>1 DEF IInv, TypeOK
<1>3. ASSUME NEW q \in Procs \ {p}
      PROVE  Knows(q)' /\ ((lock' = q) <=> HoldsLock(q)')
  <2>1. proc'[q] = proc[q]
    BY <1>1 DEF MovesTo
  <2>2. HoldsLock(q)' <=> HoldsLock(q)
    BY <2>1 DEF HoldsLock
  <2>3. (lock' = q) <=> (lock = q)
    OBVIOUS
  <2>4. Knows(q)'
    <3>1. CASE UNCHANGED <<entry, pending>>
      BY <2>1, <3>1 DEF IInv, Knows, JournalIsPublished
    <3>2. CASE lock = p
      BY <2>1, <3>2, OthersKnow DEF IInv
    <3> QED
      BY <3>1, <3>2
  <2> QED
    BY <2>2, <2>3, <2>4 DEF IInv
<1> QED
  BY <1>2, <1>3 DEF IInv

\* A process at rest outside or inside of the lock.
LEMMA RestStep ==
  ASSUME IInv, NEW p \in Procs, NEW home \in {"out", "in"},
         proc' = [proc EXCEPT ![p] = Resting(home)], UNCHANGED <<entry, pending>>,
         \/ home = "out" /\ lock' = (IF lock = p THEN NoProc ELSE lock)
         \/ home = "in" /\ lock \in {p, NoProc} /\ lock' = p
  PROVE  IInv'
<1>1. Resting(home) \in Process /\ proc'[p] = Resting(home)
  BY RestingType DEF IInv, TypeOK
<1>2. Knows(p)'
  BY <1>1, RestingType DEF Knows
<1>3. (lock' = p) <=> HoldsLock(p)'
  BY <1>1, RestingType DEF HoldsLock
<1> QED
  BY <1>1, <1>2, <1>3, LocalStep DEF IInv, TypeOK

LEMMA InitInv == Init => IInv
<1> SUFFICES ASSUME Init PROVE IInv
  OBVIOUS
<1>1. \A p \in Procs : proc[p] = Resting("out")
  BY DEF Init
<1>2. TypeOK
  BY RestingType, NoDocsFacts DEF Init, TypeOK
<1>3. \A p \in Procs : Knows(p) /\ ~HoldsLock(p) /\ lock # p
  BY <1>1, RestingType DEF Init, Knows, HoldsLock
<1> QED
  BY <1>2, <1>3 DEF IInv

-----------------------------------------------------------------------------
(* The lock and the calls *)

LEMMA LockInv ==
  ASSUME IInv, NEW p \in Procs, Acquire(p) \/ Release(p) \/ Return(p) \/ Fail(p)
  PROVE  IInv'
<1>1. proc[p] \in Process /\ ((lock = p) <=> HoldsLock(p))
  BY DEF IInv, TypeOK
<1>2. CASE Acquire(p)
  BY <1>2, RestStep DEF Acquire
<1>3. CASE Release(p)
  BY <1>1, <1>3, RestStep DEF Release, HoldsLock
<1>4. CASE Return(p)
  <2>1. proc[p].home \in {"out", "in"}
    BY <1>1 DEF Process
  <2>2. proc[p].home = "in" => lock = p
    BY <1>1, <1>4 DEF Return, HoldsLock
  <2> QED
    BY <1>4, <2>1, <2>2, RestStep DEF Return
<1>5. CASE Fail(p)
  BY <1>5, RestStep DEF Fail
<1> QED
  BY <1>2, <1>3, <1>4, <1>5

\* A call that starts with the right label for what it holds.
LEMMA BeginInv ==
  ASSUME IInv, NEW p \in Procs, proc[p].pc \in {"out", "in"},
         NEW label \in {"peek", "check", "wait"}, NEW op \in Ops \ {"none"},
         NEW i \in Ids \cup {Missing}, NEW docs \in Cohorts, Begin(p, label, op, i, docs),
         label = "check" => proc[p].pc = "in",
         label = "wait" => proc[p].pc = "out",
         label = "peek" => op \in {"load", "save", "remove"},
         op \in {"save", "many", "remove"} => proc[p].pc = "in",
         op \in {"load", "save", "remove"} => i \in Ids,
         op = "save" => DOMAIN docs = {i}
  PROVE  IInv'
<1> DEFINE home == proc[p].pc
           r == [Resting(home) EXCEPT !.pc = label, !.op = op, !.id = i, !.docs = docs]
<1>1. home \in {"out", "in"} /\ ((lock = p) <=> (home = "in"))
  BY DEF IInv, HoldsLock, Knows
<1>2. proc' = [proc EXCEPT ![p] = r] /\ UNCHANGED <<entry, pending, lock>>
  BY DEF Begin
<1>3. Resting(home) \in Process /\ Resting(home).home = home
  BY <1>1, RestingType
<1> HIDE DEF home
<1>4. r \in Process /\ r.pc = label /\ r.op = op /\ r.id = i /\ r.docs = docs /\ r.home = home
  BY <1>3 DEF Process
<1> HIDE DEF r
<1>5. proc'[p] = r
  BY <1>2 DEF IInv, TypeOK
<1>6. Knows(p)'
  BY <1>1, <1>4, <1>5 DEF Knows, home
<1>7. (lock' = p) <=> HoldsLock(p)'
  BY <1>1, <1>2, <1>4, <1>5 DEF HoldsLock, home
<1> QED
  BY <1>2, <1>4, <1>6, <1>7, LocalStep DEF IInv, TypeOK

LEMMA CallInv ==
  ASSUME IInv, NEW p \in Procs, Call(p)
  PROVE  IInv'
<1>1. CASE CallList(p)
  BY <1>1, BeginInv, NoDocsFacts DEF CallList
<1>2. ASSUME NEW docs \in Cohorts, CallSaveMany(p, docs)
      PROVE  IInv'
  BY <1>2, BeginInv DEF CallSaveMany
<1>3. ASSUME NEW i \in Ids, CallLoad(p, i) \/ CallRemove(p, i)
      PROVE  IInv'
  BY <1>3, BeginInv, NoDocsFacts DEF CallLoad, CallRemove
<1>4. ASSUME NEW i \in Ids, NEW d \in Docs, CallSave(p, i, d)
      PROVE  IInv'
  <2>1. [j \in {i} |-> d] \in Cohorts /\ DOMAIN [j \in {i} |-> d] = {i}
    BY SingleCohort
  <2> QED
    BY <1>4, <2>1, BeginInv DEF CallSave
<1> QED
  BY <1>1, <1>2, <1>3, <1>4 DEF Call

-----------------------------------------------------------------------------
(* Recovery *)

\* The first look at the journal: without the lock only a load goes on.
LEMMA PeekInv ==
  ASSUME IInv, NEW p \in Procs, Peek(p)
  PROVE  IInv'
<1> DEFINE label == CASE pending = NoDocs -> "act"
                      [] pending # NoDocs /\ lock = p -> "check"
                      [] OTHER -> "wait"
           r == [proc[p] EXCEPT !.pc = label]
<1>1. proc[p] \in Process /\ Knows(p) /\ ((lock = p) <=> HoldsLock(p))
  BY DEF IInv, TypeOK
<1>2. proc' = [proc EXCEPT ![p] = r] /\ UNCHANGED <<entry, pending, lock>>
  BY DEF Peek
<1>3. /\ label \in {"act", "check", "wait"}
      /\ label = "act" => pending = NoDocs
      /\ label = "check" => lock = p
      /\ label = "wait" => lock # p
  OBVIOUS
<1>4. proc[p].pc = "peek" /\ ((lock = p) <=> (proc[p].home = "in")) /\ proc[p].op \in {"load", "save", "remove"}
  BY <1>1 DEF Peek, HoldsLock, Knows
<1> HIDE DEF label
<1>5. r \in Process
  BY <1>1, <1>3 DEF Process
<1>6. proc'[p] = r
  BY <1>2 DEF IInv, TypeOK
<1>7. Knows(p)'
  BY <1>1, <1>2, <1>3, <1>4, <1>6 DEF Knows, Process
<1>8. (lock' = p) <=> HoldsLock(p)'
  BY <1>1, <1>2, <1>3, <1>4, <1>6 DEF HoldsLock, Process
<1> HIDE DEF r
<1> QED
  BY <1>2, <1>5, <1>7, <1>8, LocalStep DEF IInv, TypeOK

\* The lock is taken to recover or to enumerate.
LEMMA EnterInv ==
  ASSUME IInv, NEW p \in Procs, Enter(p)
  PROVE  IInv'
<1> DEFINE r == [proc[p] EXCEPT !.pc = "check"]
<1>1. proc[p] \in Process /\ Knows(p) /\ ((lock = p) <=> HoldsLock(p))
  BY DEF IInv, TypeOK
<1>2. r \in Process
  BY <1>1 DEF Process, Enter, IInv, TypeOK
<1>3. proc' = [proc EXCEPT ![p] = r] /\ proc'[p] = r
  BY <1>1 DEF Enter, IInv, TypeOK
<1>4. Knows(p)'
  BY <1>1, <1>3 DEF Enter, Knows, JournalIsPublished, Process
<1>5. (lock' = p) <=> HoldsLock(p)'
  BY <1>1, <1>3 DEF Enter, Knows, HoldsLock, Process
<1> HIDE DEF r
<1> QED
  BY <1>1, <1>2, <1>3, <1>4, <1>5, LocalStep DEF Enter, IInv, TypeOK, Knows, HoldsLock

\* The recovery is over and the journal is gone.
LEMMA RecoveredInv ==
  ASSUME IInv, NEW p \in Procs, lock = p, proc[p].pc \in {"check", "recover"}, Recovered(p),
         entry' = entry, pending' = NoDocs
  PROVE  IInv'
<1> DEFINE r == [proc[p] EXCEPT !.pc = "act"]
<1>1. proc[p] \in Process /\ Knows(p) /\ HoldsLock(p)
  BY DEF IInv, TypeOK
<1>2. r \in Process
  BY <1>1 DEF Process
<1>3. proc' = [proc EXCEPT ![p] = r] /\ proc'[p] = r
  BY DEF Recovered, IInv, TypeOK
<1>4. Knows(p)'
  BY <1>1, <1>3 DEF Knows, Process
<1>5. (lock' = p) <=> HoldsLock(p)'
  BY <1>1, <1>3 DEF Recovered, Borrowed, Knows, HoldsLock, Process
<1> HIDE DEF r
<1> QED
  BY <1>2, <1>3, <1>4, <1>5, LocalStep, NoDocsFacts DEF Recovered, IInv, TypeOK

LEMMA CheckInv ==
  ASSUME IInv, NEW p \in Procs, Check(p)
  PROVE  IInv'
<1> DEFINE r == [proc[p] EXCEPT !.pc = "recover", !.work = pending, !.todo = DOMAIN pending]
<1>1. proc[p] \in Process /\ Knows(p) /\ HoldsLock(p) /\ lock = p /\ pending \in Cohorts
  BY DEF IInv, TypeOK, Check, HoldsLock
<1>2. CASE pending = NoDocs
  BY <1>1, <1>2, RecoveredInv DEF Check
<1>3. CASE pending # NoDocs
  <2>1. r \in Process
    BY <1>1, CohortFacts DEF Process
  <2>2. proc' = [proc EXCEPT ![p] = r] /\ proc'[p] = r /\ UNCHANGED <<entry, pending, lock>>
    BY <1>3 DEF Check, IInv, TypeOK
  <2>3. Knows(p)'
    BY <1>1, <2>2 DEF Knows, JournalIsPublished, Process, Check
  <2>4. HoldsLock(p)'
    BY <1>1, <2>2 DEF HoldsLock, Process
  <2> HIDE DEF r
  <2> QED
    BY <1>1, <2>1, <2>2, <2>3, <2>4, LocalStep DEF IInv, TypeOK
<1> QED
  BY <1>2, <1>3

LEMMA UnlinkRecoveredInv ==
  ASSUME IInv, NEW p \in Procs, UnlinkRecovered(p)
  PROVE  IInv'
<1>1. lock = p
  BY DEF IInv, UnlinkRecovered, HoldsLock
<1> QED
  BY <1>1, RecoveredInv DEF UnlinkRecovered

-----------------------------------------------------------------------------
(* Publication *)

\* The publication loop holds the lock and has documents for its entries.
LEMMA PublisherKnows ==
  ASSUME IInv, NEW p \in Procs, NEW i \in Ids, Publishing(p, i)
  PROVE  /\ lock = p /\ proc[p] \in Process
         /\ i \in DOMAIN proc[p].work /\ proc[p].work[i] \in Docs
<1>1. proc[p] \in Process /\ lock = p /\ Knows(p)
  BY DEF IInv, TypeOK, Publishing, HoldsLock
<1>2. i \in DOMAIN proc[p].work
  BY <1>1 DEF Knows, JournalIsPublished, Publishing
<1>3. proc[p].work \in Cohorts
  BY <1>1 DEF Process
<1> QED
  BY <1>1, <1>2, <1>3, CohortFacts

LEMMA MkdirInv ==
  ASSUME IInv, NEW p \in Procs, NEW i \in Ids, Mkdir(p, i)
  PROVE  IInv'
<1>1. lock = p /\ proc[p] \in Process /\ Knows(p) /\ HoldsLock(p)
  BY PublisherKnows DEF Mkdir, IInv
<1>2. proc' = [proc EXCEPT ![p] = proc[p]] /\ proc'[p] = proc[p]
  BY DEF Mkdir, IInv, TypeOK
<1>3. entry' \in [Ids -> Docs \cup {Missing, Bare}] /\ UNCHANGED <<pending, lock>>
  BY DEF Mkdir, IInv, TypeOK
<1>4. \A j \in Ids : entry[j] \in Docs => entry'[j] = entry[j]
  BY DEF Mkdir, IInv, TypeOK
<1>5. Knows(p)'
  <2>1. \A j \in DOMAIN pending : j \in Ids /\ pending[j] \in Docs
    BY CohortFacts DEF IInv, TypeOK
  <2> QED
    BY <1>1, <1>2, <1>3, <1>4, <2>1 DEF Knows, JournalIsPublished
<1>6. HoldsLock(p)'
  BY <1>1, <1>2 DEF HoldsLock
<1> QED
  BY <1>1, <1>2, <1>3, <1>5, <1>6, LocalStep DEF IInv, TypeOK

LEMMA ReplaceInv ==
  ASSUME IInv, NEW p \in Procs, NEW i \in Ids, Replace(p, i)
  PROVE  IInv'
<1> DEFINE r == [proc[p] EXCEPT !.todo = @ \ {i}]
<1>1. lock = p /\ proc[p] \in Process /\ Knows(p) /\ HoldsLock(p) /\ proc[p].work[i] \in Docs
  BY PublisherKnows DEF Replace, IInv
<1>2. r \in Process
  BY <1>1 DEF Process
<1>3. proc' = [proc EXCEPT ![p] = r] /\ proc'[p] = r
  BY DEF Replace, IInv, TypeOK
<1>4. entry' = [entry EXCEPT ![i] = proc[p].work[i]] /\ UNCHANGED <<pending, lock>>
  BY DEF Replace
<1>5. entry' \in [Ids -> Docs \cup {Missing, Bare}]
  BY <1>1, <1>4 DEF IInv, TypeOK
<1>6. DOMAIN pending \subseteq Ids
  BY CohortFacts DEF IInv, TypeOK
<1>7. Knows(p)'
  BY <1>1, <1>3, <1>4, <1>6 DEF Knows, JournalIsPublished, Process, IInv, TypeOK
<1>8. HoldsLock(p)'
  BY <1>1, <1>3 DEF HoldsLock, Process
<1> HIDE DEF r
<1> QED
  BY <1>1, <1>2, <1>3, <1>4, <1>5, <1>7, <1>8, LocalStep DEF IInv, TypeOK

-----------------------------------------------------------------------------
(* The bodies of the calls *)

\* The journal is written by a process that holds the lock.
LEMMA WriteBatchInv ==
  ASSUME IInv, NEW p \in Procs, WriteBatch(p)
  PROVE  IInv'
<1> DEFINE label == IF proc[p].docs = NoDocs THEN "ret" ELSE "commit"
           r == [proc[p] EXCEPT !.pc = label, !.work = proc[p].docs, !.todo = DOMAIN proc[p].docs]
<1>1. /\ proc[p] \in Process /\ Knows(p) /\ proc[p].op = "many"
      /\ proc[p].home = "in" /\ lock = p
  BY DEF IInv, TypeOK, WriteBatch, Doing, Knows, HoldsLock
<1>2. proc[p].docs \in Cohorts /\ DOMAIN proc[p].docs \subseteq Ids
  BY <1>1, CohortFacts DEF Process
<1>3. label \in {"ret", "commit"}
  OBVIOUS
<1>4. /\ proc' = [proc EXCEPT ![p] = r]
      /\ pending' = proc[p].docs /\ UNCHANGED <<entry, lock>>
  BY DEF WriteBatch
<1> HIDE DEF label
<1>5. r \in Process
  BY <1>1, <1>2, <1>3 DEF Process
<1>6. /\ proc'[p] = r /\ r.pc = label /\ r.op = "many" /\ r.home = "in"
      /\ r.work = pending' /\ r.todo = DOMAIN pending'
  BY <1>1, <1>4 DEF IInv, TypeOK, Process
<1>7. Knows(p)'
  BY <1>3, <1>6 DEF Knows, JournalIsPublished
<1>8. lock' = p /\ HoldsLock(p)'
  BY <1>1, <1>3, <1>4, <1>6 DEF HoldsLock
<1> HIDE DEF r
<1> QED
  BY <1>1, <1>2, <1>4, <1>5, <1>7, <1>8, LocalStep DEF IInv, TypeOK

\* A single save writes no journal.
LEMMA StartSaveInv ==
  ASSUME IInv, NEW p \in Procs, StartSave(p)
  PROVE  IInv'
<1> DEFINE r == [proc[p] EXCEPT !.pc = "commit", !.work = proc[p].docs, !.todo = {proc[p].id}]
<1>1. proc[p] \in Process /\ Knows(p) /\ ((lock = p) <=> HoldsLock(p))
  BY DEF IInv, TypeOK
<1>2. r \in Process
  BY <1>1 DEF Process, Knows, StartSave, Doing, IInv, TypeOK
<1>3. proc' = [proc EXCEPT ![p] = r] /\ proc'[p] = r
  BY <1>1 DEF StartSave, Doing, IInv, TypeOK
<1>4. Knows(p)'
  BY <1>1, <1>3 DEF StartSave, Doing, Knows, JournalIsPublished, Process
<1>5. (lock' = p) <=> HoldsLock(p)'
  BY <1>1, <1>3 DEF StartSave, Doing, Knows, HoldsLock, Process
<1> HIDE DEF r
<1> QED
  BY <1>1, <1>2, <1>3, <1>4, <1>5, LocalStep DEF StartSave, Doing, IInv, TypeOK, Knows, HoldsLock

\* The last document of the call is in its place.
LEMMA CommittedInv ==
  ASSUME IInv, NEW p \in Procs, Committed(p)
  PROVE  IInv'
<1> DEFINE r == [proc[p] EXCEPT !.pc = "ret"]
<1>1. proc[p] \in Process /\ Knows(p) /\ ((lock = p) <=> HoldsLock(p))
  BY DEF IInv, TypeOK
<1>2. r \in Process
  BY <1>1 DEF Process, Committed, IInv, TypeOK
<1>3. proc' = [proc EXCEPT ![p] = r] /\ proc'[p] = r
  BY <1>1 DEF Committed, IInv, TypeOK
<1>4. Knows(p)'
  BY <1>1, <1>3 DEF Committed, Knows, JournalIsPublished, Process
<1>5. (lock' = p) <=> HoldsLock(p)'
  BY <1>1, <1>3 DEF Committed, Knows, HoldsLock, Process
<1> HIDE DEF r
<1> QED
  BY <1>1, <1>2, <1>3, <1>4, <1>5, LocalStep, NoDocsFacts DEF Committed, IInv, TypeOK, Knows, HoldsLock

\* load reads the entry.
LEMMA ReadInv ==
  ASSUME IInv, NEW p \in Procs, Read(p)
  PROVE  IInv'
<1> DEFINE r == [proc[p] EXCEPT !.pc = "ret", !.got = [@ EXCEPT ![proc[p].id] = Readable(proc[p].id)]]
<1>1. proc[p] \in Process /\ Knows(p) /\ ((lock = p) <=> HoldsLock(p))
  BY DEF IInv, TypeOK
<1>0. \A i \in Ids : Readable(i) \in Docs \cup {Missing}
  BY DEF Readable, IInv, TypeOK
<1>2. r \in Process
  BY <1>1, <1>0 DEF Process, Read, Doing, IInv, TypeOK
<1>3. proc' = [proc EXCEPT ![p] = r] /\ proc'[p] = r
  BY <1>1 DEF Read, Doing, IInv, TypeOK
<1>4. Knows(p)'
  BY <1>1, <1>3 DEF Read, Doing, Knows, JournalIsPublished, Process
<1>5. (lock' = p) <=> HoldsLock(p)'
  BY <1>1, <1>3 DEF Read, Doing, Knows, HoldsLock, Process
<1> HIDE DEF r
<1> QED
  BY <1>1, <1>2, <1>3, <1>4, <1>5, LocalStep DEF Read, IInv, TypeOK

\* list_report reads one more entry.
LEMMA ReadNextInv ==
  ASSUME IInv, NEW p \in Procs, NEW i \in Ids, ReadNext(p, i)
  PROVE  IInv'
<1> DEFINE r == [proc[p] EXCEPT !.todo = @ \cup {i}, !.got = [@ EXCEPT ![i] = Readable(i)]]
<1>1. proc[p] \in Process /\ Knows(p) /\ ((lock = p) <=> HoldsLock(p))
  BY DEF IInv, TypeOK
<1>0. \A k \in Ids : Readable(k) \in Docs \cup {Missing}
  BY DEF Readable, IInv, TypeOK
<1>2. r \in Process
  BY <1>1, <1>0 DEF Process, ReadNext, Doing, IInv, TypeOK
<1>3. proc' = [proc EXCEPT ![p] = r] /\ proc'[p] = r
  BY <1>1 DEF ReadNext, Doing, IInv, TypeOK
<1>4. Knows(p)'
  BY <1>1, <1>3 DEF ReadNext, Doing, Knows, JournalIsPublished, Process
<1>5. (lock' = p) <=> HoldsLock(p)'
  BY <1>1, <1>3 DEF ReadNext, Doing, Knows, HoldsLock, Process
<1> HIDE DEF r
<1> QED
  BY <1>1, <1>2, <1>3, <1>4, <1>5, LocalStep DEF ReadNext, Doing, IInv, TypeOK, Knows, HoldsLock

\* list_report has read every entry.
LEMMA ReadAllInv ==
  ASSUME IInv, NEW p \in Procs, ReadAll(p)
  PROVE  IInv'
<1> DEFINE r == [proc[p] EXCEPT !.pc = "ret"]
<1>1. proc[p] \in Process /\ Knows(p) /\ ((lock = p) <=> HoldsLock(p))
  BY DEF IInv, TypeOK
<1>2. r \in Process
  BY <1>1 DEF Process, ReadAll, Doing, IInv, TypeOK
<1>3. proc' = [proc EXCEPT ![p] = r] /\ proc'[p] = r
  BY <1>1 DEF ReadAll, Doing, IInv, TypeOK
<1>4. Knows(p)'
  BY <1>1, <1>3 DEF ReadAll, Doing, Knows, JournalIsPublished, Process
<1>5. (lock' = p) <=> HoldsLock(p)'
  BY <1>1, <1>3 DEF ReadAll, Doing, Knows, HoldsLock, Process
<1> HIDE DEF r
<1> QED
  BY <1>1, <1>2, <1>3, <1>4, <1>5, LocalStep DEF ReadAll, Doing, IInv, TypeOK, Knows, HoldsLock

\* The directory of a stopped instance is renamed away.
LEMMA RemoveInv ==
  ASSUME IInv, NEW p \in Procs, Remove(p)
  PROVE  IInv'
<1> DEFINE r == [proc[p] EXCEPT !.pc = "ret"]
<1>1. proc[p] \in Process /\ Knows(p) /\ ((lock = p) <=> HoldsLock(p))
  BY DEF IInv, TypeOK
<1>2. r \in Process
  BY <1>1 DEF Process, Remove, Doing, IInv, TypeOK
<1>3. proc' = [proc EXCEPT ![p] = r] /\ proc'[p] = r
  BY <1>1 DEF Remove, Doing, IInv, TypeOK
<1>4. Knows(p)'
  BY <1>1, <1>3 DEF Remove, Doing, Knows, JournalIsPublished, Process
<1>5. (lock' = p) <=> HoldsLock(p)'
  BY <1>1, <1>3 DEF Remove, Doing, Knows, HoldsLock, Process
<1> HIDE DEF r
<1> QED
  BY <1>1, <1>2, <1>3, <1>4, <1>5, LocalStep DEF Remove, Doing, IInv, TypeOK, Knows, HoldsLock

LEMMA StepInv ==
  ASSUME IInv, [Next]_vars
  PROVE  IInv'
<1>1. ASSUME NEW p \in Procs, Call(p) \/ Step(p) \/ Fail(p)
      PROVE  IInv'
  <2>1. ASSUME NEW i \in Ids, Mkdir(p, i) \/ Replace(p, i) \/ ReadNext(p, i)
        PROVE  IInv'
    BY <2>1, MkdirInv, ReplaceInv, ReadNextInv
  <2> QED
    BY <1>1, <2>1, CallInv, LockInv, PeekInv, EnterInv, CheckInv, UnlinkRecoveredInv, WriteBatchInv,
       StartSaveInv, CommittedInv, ReadInv, ReadAllInv, RemoveInv DEF Step
<1>2. CASE UNCHANGED vars
  BY <1>2 DEF vars, IInv, TypeOK, Knows, HoldsLock, JournalIsPublished
<1> QED
  BY <1>1, <1>2 DEF Next

(***************************************************************************)
(* The lock has one holder, which alone writes, and a publication works on *)
(* the journal that is on disk: in every state of every behaviour.         *)
(***************************************************************************)
THEOREM StoreInvariant == Spec => []IInv
<1>1. Init => IInv
  BY InitInv
<1>2. IInv /\ [Next]_vars => IInv'
  BY StepInv
<1> QED
  BY <1>1, <1>2, PTL DEF Spec
-----------------------------------------------------------------------------
(* The store implements Inventory *)

Overridden(c) == [i \in Ids |-> IF i \in DOMAIN c THEN c[i] ELSE View[i]]

\* What a step of process p does to the inventory and to what p wants of it.
Effect(p) ==
  \/ View' = View /\ Wanted(p)' \in {Wanted(p), NoDocs}
  \/ View' = View /\ Wanted(p) = NoDocs /\ Wanted(p)' \in Cohorts
  \/ View' = Overridden(Wanted(p)) /\ Wanted(p)' = NoDocs
  \/ \E i \in Ids : /\ View[i] \in StoppedDocs
                    /\ View' = [View EXCEPT ![i] = Missing]
                    /\ Wanted(p)' = Wanted(p)

LEMMA SameView ==
  ASSUME UNCHANGED <<entry, pending>>
  PROVE  View' = View
BY DEF View, Readable

\* Unlinking a journal whose documents are all in place changes nothing.
LEMMA JournalGone ==
  ASSUME IInv, NEW p \in Procs, JournalIsPublished(p), proc[p].todo = {},
         entry' = entry, pending' = NoDocs
  PROVE  View' = View
<1>1. \A i \in DOMAIN pending : i \in Ids /\ pending[i] \in Docs /\ entry[i] = pending[i]
  BY CohortFacts DEF IInv, TypeOK, JournalIsPublished
<1> QED
  BY <1>1, NoDocsFacts DEF View, Readable

LEMMA CallEffect ==
  ASSUME IInv, NEW p \in Procs, Call(p)
  PROVE  Effect(p)
<1>1. IInv' /\ UNCHANGED <<entry, pending>>
  BY CallInv DEF Call, CallList, CallSaveMany, CallLoad, CallRemove, CallSave, Begin
<1>2. proc[p].op = "none"
  BY DEF Call, CallList, CallSaveMany, CallLoad, CallRemove, CallSave, IInv, Knows
<1>3. Wanted(p) = NoDocs
  BY <1>2 DEF Wanted
<1>4. Wanted(p)' \in Cohorts
  BY <1>1, NoDocsFacts DEF Wanted, IInv, TypeOK, Process
<1> QED
  BY <1>1, <1>3, <1>4, SameView DEF Effect

LEMMA EndEffect ==
  ASSUME IInv, NEW p \in Procs, Acquire(p) \/ Release(p) \/ Return(p) \/ Fail(p)
  PROVE  Effect(p)
<1>1. \E home \in {"out", "in"} : proc'[p] = Resting(home)
  BY DEF Acquire, Release, Return, Fail, IInv, TypeOK, Process
<1>2. Wanted(p)' = NoDocs
  BY <1>1, RestingType DEF Wanted
<1> QED
  BY <1>2, SameView DEF Effect, Acquire, Release, Return, Fail

\* Looking for a journal and reading entries.
LEMMA LookEffect ==
  ASSUME IInv, NEW p \in Procs,
         Peek(p) \/ Enter(p) \/ (Check(p) /\ UNCHANGED pending) \/ StartSave(p) \/ Read(p) \/ ReadAll(p)
  PROVE  Effect(p)
<1>1. proc[p] \in Process /\ Knows(p) /\ ((lock = p) <=> HoldsLock(p))
  BY DEF IInv, TypeOK
<1>2. UNCHANGED <<entry, pending>>
  BY DEF Peek, Enter, Check, StartSave, Read, ReadAll
<1>3. CASE Peek(p)
  <2>1. proc[p].op = "save" => lock = p
    BY <1>1, <1>3 DEF Peek, Knows, HoldsLock
  <2>2. proc'[p].op = proc[p].op /\ proc'[p].docs = proc[p].docs /\ proc'[p].todo = proc[p].todo
    BY <1>1, <1>3 DEF Peek, IInv, TypeOK, Process
  <2>3. lock = p => proc'[p].pc \in {"act", "check"}
    BY <1>1, <1>3 DEF Peek, IInv, TypeOK, Process
  <2>4. Wanted(p)' = Wanted(p)
    BY <1>1, <1>3, <2>1, <2>2, <2>3 DEF Wanted, Peek, Knows
  <2> QED
    BY <1>2, <2>4, SameView DEF Effect
<1>4. CASE Enter(p)
  <2>1. Wanted(p)' = Wanted(p)
    BY <1>1, <1>4 DEF Wanted, Enter, Knows, IInv, TypeOK, Process
  <2> QED
    BY <1>2, <2>1, SameView DEF Effect
<1>5. CASE Check(p)
  <2>1. Wanted(p)' = Wanted(p)
    BY <1>1, <1>5 DEF Wanted, Check, Recovered, IInv, TypeOK, Process
  <2> QED
    BY <1>2, <2>1, SameView DEF Effect
<1>6. CASE StartSave(p)
  <2>1. Wanted(p)' = Wanted(p)
    BY <1>1, <1>6 DEF Wanted, StartSave, Doing, IInv, TypeOK, Process
  <2> QED
    BY <1>2, <2>1, SameView DEF Effect
<1>7. CASE Read(p) \/ ReadAll(p)
  <2>1. Wanted(p)' = NoDocs
    BY <1>1, <1>7 DEF Wanted, Read, ReadAll, Doing, IInv, TypeOK, Process
  <2> QED
    BY <1>2, <2>1, SameView DEF Effect
<1> QED
  BY <1>3, <1>4, <1>5, <1>6, <1>7

LEMMA ReadNextEffect ==
  ASSUME IInv, NEW p \in Procs, NEW i \in Ids, ReadNext(p, i)
  PROVE  Effect(p)
<1>1. Wanted(p)' = NoDocs
  BY DEF Wanted, ReadNext, Doing, IInv, TypeOK, Process
<1> QED
  BY <1>1, SameView DEF Effect, ReadNext

LEMMA MkdirEffect ==
  ASSUME IInv, NEW p \in Procs, NEW i \in Ids, Mkdir(p, i)
  PROVE  Effect(p)
<1>1. \A j \in Ids : Readable(j)' = Readable(j)
  BY DEF Mkdir, Readable, IInv, TypeOK
<1>2. View' = View
  BY <1>1 DEF View, Mkdir
<1>3. Wanted(p)' = Wanted(p)
  BY DEF Wanted, Mkdir
<1> QED
  BY <1>2, <1>3 DEF Effect

\* A journalled document was already in view; a single save commits here.
LEMMA ReplaceEffect ==
  ASSUME IInv, NEW p \in Procs, NEW i \in Ids, Replace(p, i)
  PROVE  Effect(p)
<1>1. /\ proc[p] \in Process /\ Knows(p)
      /\ i \in DOMAIN proc[p].work /\ proc[p].work[i] \in Docs
      /\ i \in proc[p].todo
  BY PublisherKnows DEF Replace, Publishing, IInv
<1>2. /\ \A j \in Ids : Readable(j)' = IF j = i THEN proc[p].work[i] ELSE Readable(j)
      /\ pending' = pending
  BY <1>1 DEF Replace, Readable, IInv, TypeOK
<1>3. /\ proc'[p].pc = proc[p].pc /\ proc'[p].op = proc[p].op /\ proc'[p].docs = proc[p].docs
      /\ proc'[p].todo = proc[p].todo \ {i}
  BY <1>1 DEF Replace, IInv, TypeOK, Process
<1>4. CASE At(p, "recover") \/ proc[p].op = "many"
  <2>1. proc[p].work = pending
    BY <1>1, <1>4 DEF Replace, Publishing, Knows, JournalIsPublished
  <2>2. View' = View
    BY <1>1, <1>2, <2>1 DEF View
  <2>3. Wanted(p)' = Wanted(p)
    BY <1>1, <1>3, <1>4 DEF Wanted
  <2> QED
    BY <2>2, <2>3 DEF Effect
<1>5. CASE At(p, "commit") /\ proc[p].op = "save"
  <2>1. /\ pending = NoDocs /\ proc[p].work = proc[p].docs /\ i = proc[p].id
        /\ proc[p].todo = {i} /\ DOMAIN proc[p].docs = {i}
    BY <1>1, <1>5 DEF Knows
  <2>2. Wanted(p) = proc[p].docs /\ Wanted(p)' = NoDocs
    BY <1>3, <1>5, <2>1 DEF Wanted
  <2>3. View' = Overridden(proc[p].docs)
    BY <1>2, <2>1, NoDocsFacts DEF View, Overridden
  <2> QED
    BY <2>2, <2>3 DEF Effect
<1> QED
  BY <1>1, <1>4, <1>5 DEF Replace, Publishing, Knows

LEMMA UnlinkEffect ==
  ASSUME IInv, NEW p \in Procs, UnlinkRecovered(p) \/ Committed(p)
  PROVE  Effect(p)
<1>1. proc[p] \in Process /\ Knows(p) /\ proc[p].todo = {}
  BY DEF IInv, TypeOK, UnlinkRecovered, Committed
<1>2. View' = View
  <2>1. CASE pending = NoDocs
    BY <2>1, SameView DEF UnlinkRecovered, Committed
  <2>2. CASE pending # NoDocs
    BY <1>1, <2>2, JournalGone DEF Knows, UnlinkRecovered, Committed
  <2> QED
    BY <2>1, <2>2
<1>3. CASE UnlinkRecovered(p)
  <2>1. Wanted(p)' = Wanted(p)
    BY <1>1, <1>3 DEF Wanted, UnlinkRecovered, Recovered, IInv, TypeOK, Process
  <2> QED
    BY <1>2, <2>1 DEF Effect
<1>4. CASE Committed(p)
  <2>1. Wanted(p)' = NoDocs
    BY <1>1, <1>4 DEF Wanted, Committed, IInv, TypeOK, Process
  <2> QED
    BY <1>2, <2>1 DEF Effect
<1> QED
  BY <1>3, <1>4

\* The journal commits the whole cohort.
LEMMA WriteBatchEffect ==
  ASSUME IInv, NEW p \in Procs, WriteBatch(p)
  PROVE  Effect(p)
<1>1. proc[p] \in Process /\ proc[p].op = "many" /\ proc[p].pc = "act" /\ pending = NoDocs
  BY DEF IInv, TypeOK, WriteBatch, Doing, Knows
<1>2. pending' = proc[p].docs /\ entry' = entry
  BY DEF WriteBatch
<1>3. View' = Overridden(proc[p].docs)
  BY <1>1, <1>2, NoDocsFacts DEF View, Readable, Overridden
<1>4. Wanted(p) = proc[p].docs
  BY <1>1 DEF Wanted
<1>5. proc'[p].op = "many" /\ proc'[p].pc \in {"ret", "commit"}
  BY <1>1 DEF WriteBatch, IInv, TypeOK, Process
<1>6. Wanted(p)' = NoDocs
  BY <1>5 DEF Wanted
<1> QED
  BY <1>3, <1>4, <1>6 DEF Effect

LEMMA RemoveEffect ==
  ASSUME IInv, NEW p \in Procs, Remove(p)
  PROVE  Effect(p)
<1> DEFINE i == proc[p].id
<1>1. /\ proc[p] \in Process /\ pending = NoDocs /\ i \in Ids /\ proc[p].op = "remove"
      /\ entry[i] \in StoppedDocs
  BY DEF IInv, TypeOK, Remove, Doing, Knows
<1>2. View[i] \in StoppedDocs
  BY <1>1, NoDocsFacts DEF View, Readable
<1>3. entry' = [entry EXCEPT ![i] = Missing] /\ pending' = NoDocs
  BY <1>1 DEF Remove
<1>4. \A j \in Ids : View[j] = Readable(j) /\ View'[j] = Readable(j)'
  BY <1>1, <1>3, NoDocsFacts DEF View
<1>5. \A j \in Ids : Readable(j)' = IF j = i THEN Missing ELSE Readable(j)
  BY <1>1, <1>3 DEF Readable, IInv, TypeOK
<1>6. View' = [View EXCEPT ![i] = Missing]
  BY <1>1, <1>4, <1>5 DEF View
<1>7. Wanted(p)' = NoDocs /\ Wanted(p) = NoDocs
  BY <1>1 DEF Wanted, Remove, IInv, TypeOK, Process
<1> QED
  BY <1>1, <1>2, <1>6, <1>7 DEF Effect

LEMMA Effects ==
  ASSUME IInv, NEW p \in Procs, Call(p) \/ Step(p) \/ Fail(p)
  PROVE  Effect(p)
<1>1. ASSUME NEW i \in Ids, Mkdir(p, i) \/ Replace(p, i) \/ ReadNext(p, i)
      PROVE  Effect(p)
  BY <1>1, MkdirEffect, ReplaceEffect, ReadNextEffect
<1>2. Check(p) => UNCHANGED pending
  BY DEF Check
<1> QED
  BY <1>1, <1>2, CallEffect, EndEffect, LookEffect, UnlinkEffect, WriteBatchEffect, RemoveEffect DEF Step

\* A step of one process leaves what the others want.
LEMMA OthersWant ==
  ASSUME IInv, NEW p \in Procs, Call(p) \/ Step(p) \/ Fail(p)
  PROVE  [q \in Procs |-> Wanted(q)]' = [[q \in Procs |-> Wanted(q)] EXCEPT ![p] = Wanted(p)']
<1>1. \A q \in Procs \ {p} : proc'[q] = proc[q]
  BY DEF IInv, TypeOK, Call, CallList, CallSaveMany, CallLoad, CallRemove, CallSave, Begin, Step, Fail,
     Acquire, Release, Peek, Enter, Check, Recovered, Mkdir, Replace, ReadNext, UnlinkRecovered,
     WriteBatch, StartSave, Committed, Read, ReadAll, Remove, Return
<1>2. \A q \in Procs \ {p} : Wanted(q)' = Wanted(q)
  BY <1>1 DEF Wanted
<1> QED
  BY <1>2

LEMMA AbstractStep ==
  ASSUME IInv, [Next]_vars
  PROVE  [Store!Next]_(Store!inventoryVars)
<1> DEFINE asked == [q \in Procs |-> Wanted(q)]
<1>1. CASE UNCHANGED vars
  BY <1>1 DEF vars, Store!inventoryVars, View, Readable, Wanted
<1>2. ASSUME NEW p \in Procs, Call(p) \/ Step(p) \/ Fail(p)
      PROVE  [Store!Next]_(Store!inventoryVars)
  <2>1. asked' = [asked EXCEPT ![p] = Wanted(p)'] /\ asked[p] = Wanted(p)
    BY <1>2, OthersWant
  <2>2. CASE View' = View /\ Wanted(p)' = Wanted(p)
    <3>1. asked' = asked
      BY <2>1, <2>2
    <3> QED
      BY <2>2, <3>1 DEF Store!inventoryVars
  <2>3. CASE View' = View /\ Wanted(p)' = NoDocs
    BY <2>1, <2>3 DEF Store!Next, Store!Withdraw, Store!NoDocs, NoDocs
  <2>4. CASE View' = View /\ Wanted(p) = NoDocs /\ Wanted(p)' \in Cohorts
    <3>1. Wanted(p)' \in Store!Cohorts
      BY <2>4 DEF Cohorts, Store!Cohorts
    <3>2. Store!Ask(p, Wanted(p)')
      BY <2>1, <2>4 DEF Store!Ask, Store!NoDocs, NoDocs
    <3> QED
      BY <3>1, <3>2 DEF Store!Next
  <2>5. CASE View' = Overridden(Wanted(p)) /\ Wanted(p)' = NoDocs
    <3>1. Store!Commit(p)
      BY <2>1, <2>5 DEF Store!Commit, Store!NoDocs, NoDocs, Overridden
    <3> QED
      BY <3>1 DEF Store!Next
  <2>6. ASSUME NEW i \in Ids, View[i] \in StoppedDocs, View' = [View EXCEPT ![i] = Missing],
               Wanted(p)' = Wanted(p)
        PROVE  [Store!Next]_(Store!inventoryVars)
    <3>1. asked' = asked
      BY <2>1, <2>6
    <3> QED
      BY <2>6, <3>1 DEF Store!Next, Store!Forget
  <2> QED
    BY <1>2, <2>2, <2>3, <2>4, <2>5, <2>6, Effects DEF Effect
<1> QED
  BY <1>1, <1>2 DEF Next

(***************************************************************************)
(* The store implements Inventory, for any set of processes and instances: *)
(* cohorts are committed whole and once, whoever is killed and whoever     *)
(* completes them, and only stopped instances are forgotten.               *)
(***************************************************************************)
THEOREM StoreRefinement == Spec => ImplementsInventory
<1>1. Init => Store!Init
  <2> SUFFICES ASSUME Init PROVE Store!Init
    OBVIOUS
  <2>1. \A i \in Ids : Readable(i) = Missing
    BY DEF Init, Readable
  <2>2. View = [i \in Ids |-> Missing]
    BY <2>1, NoDocsFacts DEF Init, View
  <2>3. \A p \in Procs : Wanted(p) = NoDocs
    BY RestingType DEF Init, Wanted
  <2> QED
    BY <2>2, <2>3 DEF Store!Init, Store!NoDocs, NoDocs
<1>2. IInv /\ [Next]_vars => [Store!Next]_(Store!inventoryVars)
  BY AbstractStep
<1> QED
  BY <1>1, <1>2, StoreInvariant, PTL DEF Spec, ImplementsInventory, Store!Spec

-----------------------------------------------------------------------------
(* Reads are linearizable *)

\* What a read has seen is among the inventories that existed meanwhile.
SeenInv(p) ==
  /\ proc[p].op = "load" /\ proc[p].pc # "ret" => proc[p].got = Nothing
  /\ proc[p].op = "load" /\ proc[p].pc = "act" =>
       [Nothing EXCEPT ![proc[p].id] = Readable(proc[p].id)] \in views[p]
  /\ proc[p].op = "list" /\ proc[p].pc \in {"wait", "check"} => proc[p].todo = {}
  /\ proc[p].op = "list" /\ proc[p].pc = "act" =>
       View \in views[p] /\ \A i \in proc[p].todo : proc[p].got[i] = View[i]
  /\ proc[p].op \in {"load", "list"} /\ proc[p].pc = "ret" => proc[p].got \in views[p]

\* A changed entry is what the inventory holds after the step.
LEMMA EntriesAreInView ==
  ASSUME IInv, IInv', NEW p \in Procs, Call(p) \/ Step(p) \/ Fail(p), NEW i \in Ids
  PROVE  Readable(i)' = Readable(i) \/ Readable(i)' = View'[i]
<1>1. CASE entry' = entry
  BY <1>1 DEF Readable
<1>2. ASSUME NEW j \in Ids, Mkdir(p, j)
      PROVE  Readable(i)' = Readable(i)
  BY <1>2 DEF Mkdir, Readable, IInv, TypeOK
<1>3. ASSUME NEW j \in Ids, Replace(p, j)
      PROVE  Readable(i)' = Readable(i) \/ Readable(i)' = View'[i]
  <2>1. Knows(p) /\ j \in DOMAIN proc[p].work /\ proc[p].work[j] \in Docs
    BY <1>3, PublisherKnows DEF Replace, IInv
  <2>2. pending' = pending /\ entry' = [entry EXCEPT ![j] = proc[p].work[j]]
    BY <1>3 DEF Replace
  <2>3. CASE i # j
    BY <2>2, <2>3 DEF Readable, IInv, TypeOK
  <2>4. CASE i = j
    <3>1. Readable(i)' = proc[p].work[i]
      BY <2>1, <2>2, <2>4 DEF Readable, IInv, TypeOK
    <3>2. pending = proc[p].work \/ pending = NoDocs
      BY <1>3, <2>1 DEF Replace, Publishing, Knows, JournalIsPublished
    <3> QED
      BY <2>1, <2>2, <2>4, <3>1, <3>2, NoDocsFacts DEF View
  <2> QED
    BY <2>3, <2>4
<1>4. CASE Remove(p)
  <2>1. pending' = NoDocs
    BY <1>4 DEF Remove, Doing, IInv, Knows
  <2> QED
    BY <2>1, NoDocsFacts DEF View
<1> QED
  BY <1>1, <1>2, <1>3, <1>4 DEF Call, CallList, CallSaveMany, CallLoad, CallRemove, CallSave, Begin,
     Step, Fail, Acquire, Release, Peek, Enter, Check, ReadNext, UnlinkRecovered, WriteBatch,
     StartSave, Committed, Read, ReadAll, Return

\* Only the holder of the lock writes, and a step moves one process.
LEMMA StepFrame ==
  ASSUME IInv, NEW p \in Procs, Call(p) \/ Step(p) \/ Fail(p)
  PROVE  /\ \A q \in Procs \ {p} : proc'[q] = proc[q]
         /\ lock # p => UNCHANGED <<entry, pending>>
<1>1. ASSUME NEW i \in Ids, Mkdir(p, i) \/ Replace(p, i) \/ ReadNext(p, i)
      PROVE  /\ \A q \in Procs \ {p} : proc'[q] = proc[q]
             /\ lock # p => UNCHANGED <<entry, pending>>
  BY <1>1 DEF IInv, TypeOK, Mkdir, Replace, ReadNext, Publishing, HoldsLock
<1>2. CASE UnlinkRecovered(p) \/ WriteBatch(p) \/ Committed(p) \/ Remove(p)
  <2>1. lock = p
    BY <1>2 DEF UnlinkRecovered, WriteBatch, Committed, Remove, Doing, IInv, Knows, HoldsLock
  <2> QED
    BY <1>2, <2>1 DEF UnlinkRecovered, Recovered, WriteBatch, Committed, Remove, IInv, TypeOK
<1>3. CASE Acquire(p) \/ Release(p) \/ Peek(p) \/ Enter(p) \/ Check(p) \/ StartSave(p) \/ Read(p)
           \/ ReadAll(p) \/ Return(p) \/ Fail(p)
  BY <1>3 DEF Acquire, Release, Peek, Enter, Check, Recovered, StartSave, Read, ReadAll, Return, Fail,
     IInv, TypeOK
<1>4. CASE Call(p)
  BY <1>4 DEF Call, CallList, CallSaveMany, CallLoad, CallRemove, CallSave, Begin, IInv, TypeOK
<1> QED
  BY <1>1, <1>2, <1>3, <1>4 DEF Step

\* The reads of the processes that do not move.
LEMMA OthersSee ==
  ASSUME IInv, IInv', NEW p \in Procs, Call(p) \/ Step(p) \/ Fail(p), Watch,
         NEW q \in Procs \ {p}, SeenInv(q)
  PROVE  SeenInv(q)'
<1>1. proc'[q] = proc[q]
  BY StepFrame
<1>2. CASE proc[q].op = "load" /\ proc[q].pc = "act"
  <2> DEFINE i == proc[q].id
  <2>1. i \in Ids /\ proc'[q].id = i
    BY <1>1, <1>2 DEF IInv, Knows
  <2>2. views'[q] = views[q] \cup {Asked(proc[q], View), Asked(proc[q], View')}
    BY <1>1, <1>2 DEF Watch, Reading
  <2>3. Asked(proc[q], View') = [Nothing EXCEPT ![i] = View'[i]]
    BY <1>2 DEF Asked
  <2>4. Readable(i)' = Readable(i) \/ Readable(i)' = View'[i]
    BY <2>1, EntriesAreInView
  <2>5. [Nothing EXCEPT ![i] = Readable(i)] \in views[q]
    BY <1>2 DEF SeenInv
  <2>6. [Nothing EXCEPT ![i] = Readable(i)'] \in views'[q]
    BY <2>2, <2>3, <2>4, <2>5
  <2> QED
    BY <1>1, <1>2, <2>6 DEF SeenInv
<1>3. CASE proc[q].op = "list" /\ proc[q].pc = "act"
  <2>1. lock = q
    BY <1>3 DEF IInv, HoldsLock
  <2>2. View' = View
    BY <2>1, StepFrame, SameView
  <2>3. views[q] \subseteq views'[q]
    BY <1>1, <1>3 DEF Watch, Reading
  <2> QED
    BY <1>1, <1>3, <2>2, <2>3 DEF SeenInv
<1>4. CASE proc[q].op \in {"load", "list"} /\ proc[q].pc = "ret"
  <2>1. views'[q] = views[q]
    BY <1>1, <1>4 DEF Watch, Reading
  <2> QED
    BY <1>1, <1>4, <2>1 DEF SeenInv
<1>5. CASE /\ ~(proc[q].op \in {"load", "list"} /\ proc[q].pc = "ret")
           /\ ~(proc[q].op \in {"load", "list"} /\ proc[q].pc = "act")
  BY <1>1, <1>5 DEF SeenInv
<1> QED
  BY <1>2, <1>3, <1>4, <1>5

\* Without a journal the entries are the inventory, so a read may start.
LEMMA MayRead ==
  ASSUME IInv', NEW p \in Procs, Watch, pending' = NoDocs, proc'[p].pc = "act",
         proc'[p].op = "load" => proc'[p].got = Nothing,
         proc'[p].op = "list" => proc'[p].todo = {}
  PROVE  SeenInv(p)'
<1>1. CASE proc'[p].op = "load"
  <2>1. Asked(proc'[p], View') \in views'[p]
    BY <1>1 DEF Watch, Reading
  <2>2. proc'[p].id \in Ids
    BY <1>1 DEF IInv, Knows
  <2>3. View'[proc'[p].id] = Readable(proc[p].id)'
    BY <2>2, NoDocsFacts DEF View
  <2>4. Asked(proc'[p], View') = [Nothing EXCEPT ![proc'[p].id] = Readable(proc[p].id)']
    BY <1>1, <2>3 DEF Asked
  <2> QED
    BY <1>1, <2>1, <2>4 DEF SeenInv
<1>2. CASE proc'[p].op = "list"
  <2>1. Asked(proc'[p], View') \in views'[p]
    BY <1>2 DEF Watch, Reading
  <2> QED
    BY <1>2, <2>1 DEF SeenInv, Asked
<1>3. CASE proc'[p].op \notin {"load", "list"}
  BY <1>3 DEF SeenInv
<1> QED
  BY <1>1, <1>2, <1>3

\* The process that moves.
LEMMA MoverSees ==
  ASSUME IInv, IInv', NEW p \in Procs, Call(p) \/ Step(p) \/ Fail(p), Watch, SeenInv(p)
  PROVE  SeenInv(p)'
<1>1. proc[p] \in Process /\ Knows(p)
  BY DEF IInv, TypeOK
<1>2. CASE Acquire(p) \/ Release(p) \/ Return(p) \/ Fail(p)
  <2>1. \E home \in {"out", "in"} : proc'[p] = Resting(home)
    BY <1>1, <1>2 DEF Acquire, Release, Return, Fail, IInv, TypeOK, Process
  <2> QED
    BY <2>1, RestingType DEF SeenInv
<1>3. CASE Call(p)
  <2>1. ASSUME NEW label \in {"peek", "check", "wait"}, NEW op, NEW i, NEW docs,
               proc[p].pc \in {"out", "in"}, Begin(p, label, op, i, docs)
        PROVE  proc'[p].pc \in {"peek", "check", "wait"} /\ proc'[p].got = Nothing /\ proc'[p].todo = {}
    <3>1. proc'[p] = [Resting(proc[p].pc) EXCEPT !.pc = label, !.op = op, !.id = i, !.docs = docs]
      BY <2>1 DEF Begin, IInv, TypeOK
    <3> QED
      BY <2>1, <3>1, RestingType DEF Process
  <2>2. \E label \in {"peek", "check", "wait"} : \E op, i, docs : Begin(p, label, op, i, docs)
    <3>1. CASE CallList(p)
      BY <3>1 DEF CallList
    <3>2. CASE \E docs \in Cohorts : CallSaveMany(p, docs)
      BY <3>2 DEF CallSaveMany
    <3>3. CASE \E i \in Ids : CallLoad(p, i) \/ CallRemove(p, i) \/ \E d \in Docs : CallSave(p, i, d)
      BY <3>3 DEF CallLoad, CallRemove, CallSave
    <3> QED
      BY <1>3, <3>1, <3>2, <3>3 DEF Call
  <2>3. proc[p].pc \in {"out", "in"}
    BY <1>3 DEF Call, CallList, CallSaveMany, CallLoad, CallRemove, CallSave
  <2>4. proc'[p].pc \in {"peek", "check", "wait"} /\ proc'[p].got = Nothing /\ proc'[p].todo = {}
    BY <2>1, <2>2, <2>3
  <2> QED
    BY <2>4 DEF SeenInv
<1>4. CASE Peek(p)
  <2>1. /\ proc'[p].op = proc[p].op /\ proc'[p].got = proc[p].got
        /\ proc'[p].pc \in {"act", "check", "wait"}
        /\ proc'[p].pc = "act" => pending = NoDocs
        /\ UNCHANGED pending
    BY <1>1, <1>4 DEF Peek, IInv, TypeOK, Process
  <2>2. proc[p].op # "list" /\ (proc[p].op = "load" => proc[p].got = Nothing)
    BY <1>1, <1>4 DEF Peek, Knows, SeenInv
  <2>3. CASE proc'[p].pc = "act"
    BY <2>1, <2>2, <2>3, MayRead
  <2>4. CASE proc'[p].pc # "act"
    BY <2>1, <2>2, <2>4 DEF SeenInv
  <2> QED
    BY <2>3, <2>4
<1>5. CASE Enter(p)
  <2>1. proc'[p].pc = "check" /\ proc'[p].got = proc[p].got /\ proc'[p].op = proc[p].op
        /\ proc'[p].todo = proc[p].todo
    BY <1>1, <1>5 DEF Enter, IInv, TypeOK, Process
  <2> QED
    BY <1>5, <2>1 DEF SeenInv, Enter
<1>6. CASE (Check(p) /\ pending = NoDocs) \/ UnlinkRecovered(p)
  <2>1. /\ proc'[p].pc = "act" /\ proc'[p].got = proc[p].got /\ proc'[p].op = proc[p].op
        /\ proc'[p].todo = proc[p].todo /\ pending' = NoDocs
    BY <1>1, <1>6 DEF Check, UnlinkRecovered, Recovered, IInv, TypeOK, Process
  <2>2. proc[p].op = "list" => proc[p].todo = {}
    BY <1>6 DEF Check, UnlinkRecovered, SeenInv
  <2>3. proc[p].op = "load" => proc[p].got = Nothing
    BY <1>6 DEF Check, UnlinkRecovered, SeenInv
  <2> QED
    BY <2>1, <2>2, <2>3, MayRead
<1>7. CASE Check(p) /\ pending # NoDocs
  <2>1. proc'[p].pc = "recover" /\ proc'[p].got = proc[p].got /\ proc'[p].op = proc[p].op
    BY <1>1, <1>7 DEF Check, IInv, TypeOK, Process
  <2> QED
    BY <1>7, <2>1 DEF SeenInv, Check
<1>8. ASSUME NEW i \in Ids, Mkdir(p, i) \/ Replace(p, i)
      PROVE  SeenInv(p)'
  <2>1. proc'[p].pc = proc[p].pc /\ proc'[p].got = proc[p].got /\ proc'[p].op = proc[p].op
        /\ proc[p].pc \in {"recover", "commit"}
    BY <1>1, <1>8 DEF Mkdir, Replace, Publishing, IInv, TypeOK, Process
  <2> QED
    BY <2>1 DEF SeenInv
<1>9. CASE WriteBatch(p) \/ StartSave(p) \/ Committed(p) \/ Remove(p)
  <2>1. proc'[p].op \in {"save", "many", "remove"}
    BY <1>1, <1>9 DEF WriteBatch, StartSave, Committed, Remove, Doing, Knows, IInv, TypeOK, Process
  <2> QED
    BY <2>1 DEF SeenInv
<1>10. CASE Read(p)
  <2>1. proc[p].op = "load" /\ proc[p].pc = "act"
    BY <1>10 DEF Read, Doing
  <2>2. /\ proc'[p].op = "load" /\ proc'[p].pc = "ret"
        /\ proc'[p].got = [proc[p].got EXCEPT ![proc[p].id] = Readable(proc[p].id)]
    BY <1>1, <1>10, <2>1 DEF Read, IInv, TypeOK, Process
  <2>3. proc'[p].got \in views[p]
    BY <2>1, <2>2 DEF SeenInv
  <2>4. views'[p] = views[p]
    BY <2>2 DEF Watch, Reading
  <2> QED
    BY <2>2, <2>3, <2>4 DEF SeenInv
<1>11. ASSUME NEW i \in Ids, ReadNext(p, i)
       PROVE  SeenInv(p)'
  <2>1. proc[p].op = "list" /\ proc[p].pc = "act" /\ pending = NoDocs
    BY <1>1, <1>11 DEF ReadNext, Doing, Knows
  <2>2. /\ proc'[p].op = "list" /\ proc'[p].pc = "act"
        /\ proc'[p].got = [proc[p].got EXCEPT ![i] = Readable(i)]
        /\ proc'[p].todo = proc[p].todo \cup {i}
    BY <1>1, <1>11, <2>1 DEF ReadNext, IInv, TypeOK, Process
  <2>3. View[i] = Readable(i) /\ View' = View
    BY <1>11, <2>1, NoDocsFacts, SameView DEF View, ReadNext
  <2>4. proc[p].got \in [Ids -> Docs \cup {Missing}] /\ proc[p].todo \subseteq Ids
    BY <1>1 DEF Process
  <2>5. \A j \in proc'[p].todo : proc'[p].got[j] = View[j]
    BY <2>1, <2>2, <2>3, <2>4 DEF SeenInv
  <2>6. View \in views'[p]
    BY <2>1, <2>2 DEF Watch, Reading, SeenInv
  <2> QED
    BY <2>2, <2>3, <2>5, <2>6 DEF SeenInv
<1>12. CASE ReadAll(p)
  <2>1. proc[p].op = "list" /\ proc[p].pc = "act" /\ proc[p].todo = Ids
    BY <1>12 DEF ReadAll, Doing
  <2>2. proc'[p].op = "list" /\ proc'[p].pc = "ret" /\ proc'[p].got = proc[p].got
    BY <1>1, <1>12, <2>1 DEF ReadAll, IInv, TypeOK, Process
  <2>3. proc[p].got \in [Ids -> Docs \cup {Missing}]
    BY <1>1 DEF Process
  <2>4. proc[p].got = View
    BY <2>1, <2>3 DEF SeenInv, View
  <2>5. proc[p].got \in views[p]
    BY <2>1, <2>4 DEF SeenInv
  <2>6. views'[p] = views[p]
    BY <2>2 DEF Watch, Reading
  <2> QED
    BY <2>2, <2>5, <2>6 DEF SeenInv
<1> QED
  BY <1>2, <1>3, <1>4, <1>5, <1>6, <1>7, <1>8, <1>9, <1>10, <1>11, <1>12 DEF Step

ReadsInv == IInv /\ \A p \in Procs : SeenInv(p)

LEMMA ReadsInvariant == ReadsSpec => []ReadsInv
<1>1. ReadsInit => ReadsInv
  <2> SUFFICES ASSUME ReadsInit PROVE ReadsInv
    OBVIOUS
  <2>1. \A p \in Procs : proc[p].op = "none"
    BY RestingType DEF ReadsInit, Init
  <2> QED
    BY <2>1, InitInv DEF ReadsInit, ReadsInv, SeenInv
<1>2. ReadsInv /\ [ReadsNext]_readVars => ReadsInv'
  <2> SUFFICES ASSUME ReadsInv, [ReadsNext]_readVars PROVE ReadsInv'
    OBVIOUS
  <2>1. CASE UNCHANGED readVars
    <3>1. IInv'
      BY <2>1, StepInv DEF ReadsInv, readVars
    <3>2. \A p \in Procs : SeenInv(p)'
      BY <2>1 DEF ReadsInv, SeenInv, readVars, vars, View, Readable
    <3> QED
      BY <3>1, <3>2 DEF ReadsInv
  <2>2. CASE ReadsNext
    <3>1. IInv /\ IInv' /\ Watch
      BY <2>2, StepInv DEF ReadsInv, ReadsNext
    <3>2. PICK p \in Procs : Call(p) \/ Step(p) \/ Fail(p)
      BY <2>2 DEF ReadsNext, Next
    <3>3. \A q \in Procs : SeenInv(q)'
      BY <3>1, <3>2, OthersSee, MoverSees DEF ReadsInv
    <3> QED
      BY <3>1, <3>3 DEF ReadsInv
  <2> QED
    BY <2>1, <2>2
<1> QED
  BY <1>1, <1>2, PTL DEF ReadsSpec

(***************************************************************************)
(* A load that runs beside a publication, a recovery or a forget returns   *)
(* what the inventory held at some moment of the call.                     *)
(***************************************************************************)
THEOREM LoadsAreLinearizable == ReadsSpec => []LoadIsLinearizable
<1>1. ReadsInv => LoadIsLinearizable
  BY DEF ReadsInv, SeenInv, LoadIsLinearizable
<1> QED
  BY <1>1, ReadsInvariant, PTL

(***************************************************************************)
(* An enumeration returns the whole inventory of one moment.               *)
(***************************************************************************)
THEOREM ListsAreSnapshots == ReadsSpec => []ListIsSnapshot
<1>1. ReadsInv => ListIsSnapshot
  BY DEF ReadsInv, SeenInv, ListIsSnapshot
<1> QED
  BY <1>1, ReadsInvariant, PTL

=============================================================================
