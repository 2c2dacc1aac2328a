------------------------- MODULE InstanceStoreReads --------------------------
(***************************************************************************)
(* InstanceStore with a history variable: the inventories that existed     *)
(* while a read (load or list_report) was under way.                       *)
(***************************************************************************)
EXTENDS InstanceStore

VARIABLE views   \* for each process, what it could have read since its read began

readVars == <<vars, views>>

\* A load is under way from its call, an enumeration from when it has the lock.
Reading(q) == \/ q.op = "load" /\ q.pc # "ret"
              \/ q.op = "list" /\ q.pc \notin {"wait", "ret"}

\* The part of the inventory the read asks for.
Asked(q, inventory) ==
  IF q.op = "load" THEN [Nothing EXCEPT ![q.id] = inventory[q.id]] ELSE inventory

ReadsInit == Init /\ views = [p \in Procs |-> {}]

Watch ==
  views' = [p \in Procs |->
              CASE Reading(proc'[p]) -> views[p] \cup {Asked(proc'[p], View), Asked(proc'[p], View')}
                [] proc'[p].pc = "ret" -> views[p]
                [] OTHER -> {}]

ReadsNext == Next /\ Watch

ReadsSpec == ReadsInit /\ [][ReadsNext]_readVars

-----------------------------------------------------------------------------
(* Properties *)

(***************************************************************************)
(* load takes no lock when it meets no journal, and may run beside a       *)
(* cohort's publication, a recovery or a forget: still, the document it    *)
(* returns is the one the inventory had at some moment during the call.    *)
(* So a reader that saw one new document of a cohort never afterwards      *)
(* reads an old one.                                                       *)
(***************************************************************************)
LoadIsLinearizable ==
  \A p \in Procs : At(p, "ret") /\ proc[p].op = "load" =>
    proc[p].got \in views[p]

(***************************************************************************)
(* list_report reads one directory after another: still, what it returns   *)
(* is the whole inventory of one moment, with every cohort in it or none.  *)
(***************************************************************************)
ListIsSnapshot ==
  \A p \in Procs : At(p, "ret") /\ proc[p].op = "list" => proc[p].got \in views[p]
==============================================================================
