--------------------------- MODULE InstanceStore -----------------------------
(***************************************************************************)
(* StateStore (src/src/cyclo/state.py): the instance documents of a realm. *)
(*                                                                         *)
(* A mutating command holds control.lock from its first read to its last   *)
(* write; a reader (load) takes no lock unless it meets an unfinished      *)
(* cohort, and an enumeration (list_report) holds it while it reads.  A    *)
(* cohort is journalled in pending-instance-batch.json, then its documents *)
(* are published one by one, then the journal is unlinked: whoever finds   *)
(* the journal first publishes it again.  A process may be killed, or a    *)
(* write may fail, between any two of those steps.                         *)
(*                                                                         *)
(* Each file replacement (temporary, fsync, rename) is one step; a         *)
(* document's contents are opaque except for the intent it records.        *)
(***************************************************************************)
EXTENDS Naturals, FiniteSets

CONSTANTS
  Ids,          \* instance identifiers
  Docs,         \* instance documents
  StoppedDocs,  \* the documents whose intent is "stopped"
  Procs,        \* processes that use the store
  Missing,      \* no instance directory (or, for a reader, no document)
  Bare,         \* an instance directory without run.json
  NoProc        \* nobody holds control.lock

ASSUME StoreAssumption ==
  /\ StoppedDocs \subseteq Docs
  /\ Missing \notin Docs /\ Bare \notin Docs /\ Missing # Bare
  /\ NoProc \notin Procs

VARIABLES
  entry,    \* what instances/ID holds
  pending,  \* pending-instance-batch.json: the empty cohort when it is absent
  lock,     \* the holder of control.lock
  proc      \* what each process is doing

vars == <<entry, pending, lock, proc>>

\* Documents for some of the instances; NoDocs for none of them.
Cohorts == UNION {[S -> Docs] : S \in SUBSET Ids}
NoDocs  == [i \in {} |-> Missing]

(***************************************************************************)
(* A process.  home is where it returns when the call is over: "in" the    *)
(* body of `with store.locked()`, or "out" of it.  work and todo belong to *)
(* the publication loop, got is what a read has returned so far.           *)
(***************************************************************************)
Labels == {"out", "in", "peek", "wait", "check", "recover", "act", "commit", "ret"}
Ops    == {"none", "load", "list", "save", "many", "remove"}

Process == [pc : Labels, op : Ops, home : {"out", "in"}, id : Ids \cup {Missing},
            docs : Cohorts, work : Cohorts, todo : SUBSET Ids,
            got : [Ids -> Docs \cup {Missing}]]

Nothing == [i \in Ids |-> Missing]
Resting(home) == [pc |-> home, op |-> "none", home |-> home, id |-> Missing,
                  docs |-> NoDocs, work |-> NoDocs, todo |-> {}, got |-> Nothing]

At(p, label) == proc[p].pc = label

\* The part of a document that a reader sees: an empty directory holds no instance.
Readable(i) == IF entry[i] = Bare THEN Missing ELSE entry[i]

-----------------------------------------------------------------------------
(* StateStore.locked *)

Acquire(p) ==
  /\ At(p, "out") /\ lock = NoProc
  /\ lock' = p
  /\ proc' = [proc EXCEPT ![p] = Resting("in")]
  /\ UNCHANGED <<entry, pending>>

Release(p) ==
  /\ At(p, "in")
  /\ lock' = NoProc
  /\ proc' = [proc EXCEPT ![p] = Resting("out")]
  /\ UNCHANGED <<entry, pending>>

-----------------------------------------------------------------------------
(* The calls.  Whoever calls save, save_many or remove holds the lock.       *)

Begin(p, label, op, i, docs) ==
  /\ proc' = [proc EXCEPT ![p] = [Resting(@.pc) EXCEPT !.pc = label, !.op = op, !.id = i, !.docs = docs]]
  /\ UNCHANGED <<entry, pending, lock>>

CallLoad(p, i) ==
  /\ At(p, "out") \/ At(p, "in")
  /\ Begin(p, "peek", "load", i, NoDocs)

\* list_report waits for the lock unless its process holds it.
CallList(p) ==
  /\ At(p, "out") \/ At(p, "in")
  /\ Begin(p, IF At(p, "in") THEN "check" ELSE "wait", "list", Missing, NoDocs)

CallSave(p, i, d) ==
  /\ At(p, "in")
  /\ Begin(p, "peek", "save", i, [j \in {i} |-> d])

CallSaveMany(p, docs) ==
  /\ At(p, "in")
  /\ Begin(p, "check", "many", Missing, docs)

CallRemove(p, i) ==
  /\ At(p, "in")
  /\ Begin(p, "peek", "remove", i, NoDocs)

-----------------------------------------------------------------------------
(* Recovery of an unfinished cohort                                          *)

\* _recover_pending_batch: the first look at the journal takes no lock.
\* Mutant: a reader does not look for a journal.
PeekSkipped(p) ==
  /\ At(p, "peek")
  /\ proc' = [proc EXCEPT ![p].pc = "act"]
  /\ UNCHANGED <<entry, pending, lock>>

Peek(p) ==
  /\ At(p, "peek")
  /\ proc' = [proc EXCEPT ![p].pc =
                CASE pending = NoDocs -> "act"
                  [] pending # NoDocs /\ lock = p -> "check"
                  [] OTHER -> "wait"]
  /\ UNCHANGED <<entry, pending, lock>>

Enter(p) ==
  /\ At(p, "wait") /\ lock = NoProc
  /\ lock' = p
  /\ proc' = [proc EXCEPT ![p].pc = "check"]
  /\ UNCHANGED <<entry, pending>>

\* A load that took the lock to recover gives it back before it reads.
Borrowed(p) == proc[p].op = "load" /\ proc[p].home = "out"

\* Mutant: the lock is given back after the recovery, whatever the call.
RecoveredUnlocked(p) ==
  /\ proc' = [proc EXCEPT ![p].pc = "act"]
  /\ lock' = IF proc[p].home = "out" THEN NoProc ELSE lock

Recovered(p) ==
  /\ proc' = [proc EXCEPT ![p].pc = "act"]
  /\ lock' = IF Borrowed(p) THEN NoProc ELSE lock

Check(p) ==
  /\ At(p, "check")
  /\ \/ /\ pending = NoDocs
        /\ Recovered(p)
     \/ /\ pending # NoDocs
        /\ proc' = [proc EXCEPT ![p].pc = "recover", ![p].work = pending, ![p].todo = DOMAIN pending]
        /\ UNCHANGED lock
  /\ UNCHANGED <<entry, pending>>

-----------------------------------------------------------------------------
(* _publish_instance_batch and _write_instance_document                      *)

Publishing(p, i) == (At(p, "recover") \/ At(p, "commit")) /\ i \in proc[p].todo

Mkdir(p, i) ==
  /\ Publishing(p, i) /\ entry[i] = Missing
  /\ entry' = [entry EXCEPT ![i] = Bare]
  /\ UNCHANGED <<pending, lock, proc>>

Replace(p, i) ==
  /\ Publishing(p, i) /\ entry[i] # Missing
  /\ entry' = [entry EXCEPT ![i] = proc[p].work[i]]
  /\ proc' = [proc EXCEPT ![p].todo = @ \ {i}]
  /\ UNCHANGED <<pending, lock>>

\* The end of a recovery.
UnlinkRecovered(p) ==
  /\ At(p, "recover") /\ proc[p].todo = {}
  /\ pending' = NoDocs
  /\ Recovered(p)
  /\ UNCHANGED entry

-----------------------------------------------------------------------------
(* The bodies of the calls, once no unfinished cohort was met                *)

Doing(p, op) == At(p, "act") /\ proc[p].op = op

\* Mutant: the cohort's documents are published without a journal.
WriteBatchUnjournalled(p) ==
  /\ Doing(p, "many")
  /\ proc' = [proc EXCEPT ![p].pc = IF proc[p].docs = NoDocs THEN "ret" ELSE "commit",
                          ![p].work = proc[p].docs, ![p].todo = DOMAIN proc[p].docs]
  /\ UNCHANGED <<entry, pending, lock>>

\* save_many returns at once when the cohort is empty.
WriteBatch(p) ==
  /\ Doing(p, "many")
  /\ pending' = proc[p].docs
  /\ proc' = [proc EXCEPT ![p].pc = IF proc[p].docs = NoDocs THEN "ret" ELSE "commit",
                          ![p].work = proc[p].docs, ![p].todo = DOMAIN proc[p].docs]
  /\ UNCHANGED <<entry, lock>>

StartSave(p) ==
  /\ Doing(p, "save")
  /\ proc' = [proc EXCEPT ![p].pc = "commit", ![p].work = proc[p].docs, ![p].todo = {proc[p].id}]
  /\ UNCHANGED <<entry, pending, lock>>

\* Every document is in place: a cohort's journal goes, a single save has none.
Committed(p) ==
  /\ At(p, "commit") /\ proc[p].todo = {}
  /\ pending' = NoDocs
  /\ proc' = [proc EXCEPT ![p].pc = "ret"]
  /\ UNCHANGED <<entry, lock>>

Read(p) ==
  /\ Doing(p, "load")
  /\ proc' = [proc EXCEPT ![p].pc = "ret", ![p].got = [@ EXCEPT ![proc[p].id] = Readable(proc[p].id)]]
  /\ UNCHANGED <<entry, pending, lock>>

\* The enumeration reads one directory after the other (todo: those behind it).
ReadNext(p, i) ==
  /\ Doing(p, "list") /\ i \notin proc[p].todo
  /\ proc' = [proc EXCEPT ![p].todo = @ \cup {i}, ![p].got = [@ EXCEPT ![i] = Readable(i)]]
  /\ UNCHANGED <<entry, pending, lock>>

ReadAll(p) ==
  /\ Doing(p, "list") /\ proc[p].todo = Ids
  /\ proc' = [proc EXCEPT ![p].pc = "ret"]
  /\ UNCHANGED <<entry, pending, lock>>

\* remove: the directory is renamed to a hidden name and deleted there.
Remove(p) ==
  /\ Doing(p, "remove") /\ entry[proc[p].id] \in StoppedDocs
  /\ entry' = [entry EXCEPT ![proc[p].id] = Missing]
  /\ proc' = [proc EXCEPT ![p].pc = "ret"]
  /\ UNCHANGED <<pending, lock>>

\* The call is over; an enumeration that took the lock itself gives it back.
Return(p) ==
  /\ At(p, "ret")
  /\ lock' = IF proc[p].home = "out" /\ lock = p THEN NoProc ELSE lock
  /\ proc' = [proc EXCEPT ![p] = Resting(@.home)]
  /\ UNCHANGED <<entry, pending>>

\* The process is killed, or an error (a refused write, an instance that is not
\* there or not stopped) unwinds it: either way the kernel or the `finally`
\* clause drops the lock, and the files stay as they are.
Fail(p) ==
  /\ ~At(p, "out")
  /\ lock' = IF lock = p THEN NoProc ELSE lock
  /\ proc' = [proc EXCEPT ![p] = Resting("out")]
  /\ UNCHANGED <<entry, pending>>

-----------------------------------------------------------------------------

Init ==
  /\ entry = [i \in Ids |-> Missing]
  /\ pending = NoDocs
  /\ lock = NoProc
  /\ proc = [p \in Procs |-> Resting("out")]

Call(p) ==
  \/ CallList(p)
  \/ \E docs \in Cohorts : CallSaveMany(p, docs)
  \/ \E i \in Ids : CallLoad(p, i) \/ CallRemove(p, i) \/ \E d \in Docs : CallSave(p, i, d)

Step(p) ==
  \/ Acquire(p) \/ Release(p) \/ Peek(p) \/ Enter(p) \/ Check(p)
  \/ \E i \in Ids : Mkdir(p, i) \/ Replace(p, i) \/ ReadNext(p, i)
  \/ UnlinkRecovered(p) \/ WriteBatch(p) \/ StartSave(p) \/ Committed(p)
  \/ Read(p) \/ ReadAll(p) \/ Remove(p) \/ Return(p)

Next == \E p \in Procs : Call(p) \/ Step(p) \/ Fail(p)

Spec == Init /\ [][Next]_vars

-----------------------------------------------------------------------------
(* Properties *)

TypeOK ==
  /\ entry \in [Ids -> Docs \cup {Missing, Bare}]
  /\ pending \in Cohorts
  /\ lock \in Procs \cup {NoProc}
  /\ proc \in [Procs -> Process]

\* The inventory the files stand for: a journalled cohort already counts.
View == [i \in Ids |-> IF i \in DOMAIN pending THEN pending[i] ELSE Readable(i)]

\* The cohort a call still has to commit: a save commits with its rename, a
\* save_many with its journal.
Wanted(p) ==
  IF \/ proc[p].op = "many" /\ proc[p].pc \in {"check", "recover", "act"}
     \/ proc[p].op = "save" /\ (proc[p].pc \in {"peek", "check", "recover", "act"} \/ proc[p].todo # {})
  THEN proc[p].docs ELSE NoDocs

Store == INSTANCE Inventory WITH committed <- View, asked <- [p \in Procs |-> Wanted(p)]

(***************************************************************************)
(* The store implements Inventory: the cohort a command saves appears in   *)
(* one step, for every instance or for none, and once, whatever kills the  *)
(* process that writes it and whoever completes it; a recovery changes     *)
(* nothing; only a stopped instance disappears.                            *)
(***************************************************************************)
ImplementsInventory == Store!Spec
-----------------------------------------------------------------------------
(* What each process may rely on, and why the store implements Inventory     *)

HoldsLock(p) ==
  \/ proc[p].pc \in {"in", "check", "recover", "commit"}
  \/ proc[p].home = "in" /\ proc[p].pc \in {"peek", "act", "ret"}
  \/ proc[p].op = "list" /\ proc[p].pc \in {"act", "ret"}

\* The documents of the journal that the loop has passed are in their places.
JournalIsPublished(p) ==
  /\ proc[p].work = pending
  /\ proc[p].todo \subseteq DOMAIN pending
  /\ \A i \in DOMAIN pending \ proc[p].todo : entry[i] = pending[i]

Knows(p) ==
  /\ proc[p].op \in {"save", "many", "remove"} => proc[p].home = "in"
  /\ proc[p].op \in {"load", "save", "remove"} => proc[p].id \in Ids
  /\ proc[p].pc \in {"out", "in"} <=> proc[p].op = "none"
  /\ At(p, "wait") => proc[p].home = "out"
  /\ At(p, "peek") => proc[p].op \in {"load", "save", "remove"}
  /\ proc[p].op = "save" => DOMAIN proc[p].docs = {proc[p].id}
  /\ At(p, "act") /\ proc[p].op # "load" => pending = NoDocs
  /\ At(p, "recover") => JournalIsPublished(p)
  /\ At(p, "commit") => proc[p].op \in {"save", "many"}
  /\ At(p, "commit") /\ proc[p].op = "many" => JournalIsPublished(p)
  /\ At(p, "commit") /\ proc[p].op = "save" =>
       pending = NoDocs /\ proc[p].work = proc[p].docs /\ proc[p].todo \subseteq {proc[p].id}

(***************************************************************************)
(* The inductive invariant: control.lock has one holder, which is the only *)
(* process that writes; between the check for a journal and the writes of  *)
(* the call itself no journal can appear; a publication loop always works  *)
(* on the journal that is on disk.                                         *)
(***************************************************************************)
IInv ==
  /\ TypeOK
  /\ \A p \in Procs : (lock = p) <=> HoldsLock(p)
  /\ \A p \in Procs : Knows(p)

=============================================================================
