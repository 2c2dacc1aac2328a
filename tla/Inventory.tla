------------------------------ MODULE Inventory ------------------------------
(***************************************************************************)
(* What the instance store of a Cyclo realm promises its users: a map from *)
(* instance identifiers to documents.  A caller asks for a cohort of new   *)
(* documents; the whole cohort is committed in one step and once, or not   *)
(* at all.  Only a stopped instance can be forgotten.                      *)
(*                                                                         *)
(* InstanceStore implements it with one run.json per instance directory    *)
(* and one journal file for the cohort being published.                    *)
(***************************************************************************)

CONSTANTS
  Ids,          \* instance identifiers
  Docs,         \* instance documents (the contents of run.json)
  StoppedDocs,  \* the documents whose intent is "stopped"
  Procs,        \* callers
  Missing       \* no document: no such instance

VARIABLES
  committed,    \* the document of each instance
  asked         \* the cohort each caller wants to commit

inventoryVars == <<committed, asked>>

\* Documents for some of the instances; NoDocs for none of them.
Cohorts == UNION {[S -> Docs] : S \in SUBSET Ids}
NoDocs  == [i \in {} |-> Missing]

Init ==
  /\ committed = [i \in Ids |-> Missing]
  /\ asked = [p \in Procs |-> NoDocs]

Ask(p, cohort) ==
  /\ asked[p] = NoDocs
  /\ asked' = [asked EXCEPT ![p] = cohort]
  /\ UNCHANGED committed

Commit(p) ==
  /\ committed' = [i \in Ids |-> IF i \in DOMAIN asked[p] THEN asked[p][i] ELSE committed[i]]
  /\ asked' = [asked EXCEPT ![p] = NoDocs]

\* The caller dies, or is told of an error, before its cohort is committed.
Withdraw(p) ==
  /\ asked' = [asked EXCEPT ![p] = NoDocs]
  /\ UNCHANGED committed

Forget(i) ==
  /\ committed[i] \in StoppedDocs
  /\ committed' = [committed EXCEPT ![i] = Missing]
  /\ UNCHANGED asked

Next ==
  \/ \E p \in Procs : Commit(p) \/ Withdraw(p) \/ \E cohort \in Cohorts : Ask(p, cohort)
  \/ \E i \in Ids : Forget(i)

Spec == Init /\ [][Next]_inventoryVars
==============================================================================
