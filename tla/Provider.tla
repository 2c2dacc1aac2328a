------------------------------- MODULE Provider -------------------------------
(***************************************************************************)
(* The provider system of `provider pool pooler upstream=gateway.provider':*)
(* the pooler in front of the gateway.  The members of the pool are        *)
(* accounts of the gateway, so that a member that is called is a call the  *)
(* gateway accepts, and what the gateway answers is what the pooler gets.  *)
(* Accounts are logged in, out and renamed meanwhile.                      *)
(***************************************************************************)
EXTENDS Pooler, Gateway

CONSTANTS
  Workloads   \* what a behaviour starts with (store) and is asked: models (asks), calls,
              \* polls, commands, and how far the time goes (moments)

ASSUME ProviderAssumption ==
  /\ Members \in Seq(MemberSet) /\ Members # <<>>
  /\ None \notin Requests \cup MemberSet /\ IsFiniteSet(Names)
  /\ RetryTimes \subseteq Nat /\ MaxLife \in Nat
  /\ \A w \in Workloads :
       /\ w.store \in [Names -> Credentials] /\ Apart(w.store)
       /\ \A a \in Names : w.store[a].type # "none" => w.store[a].token \in 1..Cardinality(Names)

VARIABLE left   \* what is left of the workload

vars == <<now, poolvars, gatevars, left>>

MaxYields == 2

Idle == UNCHANGED <<now, left>>

-----------------------------------------------------------------------------
(* What comes from outside, as much as the workload has                     *)

Counted == {"calls", "polls", "commands", "moments"}
Spend(what) == left[what] > 0 /\ left' = [left EXCEPT ![what] = @ - 1]

Tick == Spend("moments") /\ now' = now + 1 /\ UNCHANGED <<poolvars, gatevars>>

Poll == Spend("polls") /\ BeginRefresh /\ UNCHANGED <<now, gatevars>>

Run(c) ==
  /\ Spend("commands")
  /\ \E a \in Names :
       \/ \E p \in Providers, t \in {"api_key", "oauth"} : BeginCommand(c, Login(a, p, t, MaxLife))
       \/ BeginCommand(c, Logout(a))
       \/ \E b \in Names : BeginCommand(c, Rename(a, b))
  /\ UNCHANGED <<now, poolvars>>

Ask(r) ==
  /\ Spend("calls")
  /\ \/ \E m \in Models \cap left.asks : Infer(r, m)
     \/ \E a \in Accounts \cap left.asks : InferDirect(r, a)
  /\ UNCHANGED <<now, gatevars>>

-----------------------------------------------------------------------------
(* Between pooler and gateway                                               *)

List == Idle /\ (\E f \in refreshes : \E l \in Listings : Listed(f, l)) /\ UNCHANGED gatevars
NoList == Idle /\ (\E f \in refreshes : ListFails(f)) /\ UNCHANGED gatevars
Go(r) == Idle /\ Begin(r) /\ UNCHANGED gatevars

Dispatch(r) == Idle /\ req[r].pc = "called" /\ Accept(r, Last(req[r].called)) /\ UNCHANGED poolvars

\* The first response is held, the next sends it on.
Yield(r) ==
  /\ Idle /\ gw[r].yields < MaxYields
  /\ BackendYields(r)
  /\ IF gw[r].held THEN Respond(r) ELSE UNCHANGED poolvars

Finish(r) == Idle /\ (\E o \in {"ok", "exhausted", "failed"} : BackendEnds(r, o)) /\ UNCHANGED poolvars
Audit(r) == Idle /\ (\E w \in BOOLEAN : Record(r, w)) /\ UNCHANGED poolvars

\* The call leaves the gateway; exhaustion names a time.
Return(r) ==
  /\ Idle /\ Leave(r)
  /\ CASE gw[r].outcome = "ok" -> End(r, gw[r].held)
       [] gw[r].outcome = "exhausted" /\ MayMove(req[r]) -> \E t \in RetryTimes : Exhausted(r, t)
       [] OTHER -> Break(r)

Refresh(a) ==
  /\ Idle /\ UNCHANGED poolvars
  /\ \/ RefreshLocked(a) \/ RefreshFails(a) \/ RefreshTimesOut(a)
     \/ \E life \in 1..MaxLife, synced \in BOOLEAN : RefreshAnswered(a, life, synced)

Administer(c) ==
  /\ Idle /\ UNCHANGED poolvars
  /\ CommandLocked(c) \/ CommandTimesOut(c) \/ \E ok \in BOOLEAN : LoginValidated(c, ok)

\* All that was asked for has ended.
Ended == \A r \in Requests : req[r].pc \in {"idle", "done", "failed", "refused"}
Settled ==
  /\ Ended /\ refreshes = {} /\ lock = Nobody
  /\ \A a \in Names : inflight[a].pc = "none"
  /\ \A c \in Commands : admin[c].pc \in {"idle", "done"}
Rest == Settled /\ (\A what \in Counted : left[what] = 0) /\ UNCHANGED vars

Init ==
  /\ now = 1 /\ PoolInit
  /\ left \in Workloads
  /\ store = left.store /\ serial = Cardinality(Names) /\ GateInit

Next ==
  \/ Tick \/ Poll \/ List \/ NoList \/ Rest
  \/ \E r \in Requests : Ask(r) \/ Go(r) \/ Dispatch(r) \/ Yield(r) \/ Finish(r) \/ Audit(r) \/ Return(r)
  \/ \E a \in Names : Refresh(a)
  \/ \E c \in Commands : Run(c) \/ Administer(c)

Spec == Init /\ [][Next]_vars

-----------------------------------------------------------------------------
(***************************************************************************)
(* A client that got a whole answer is charged for it: each call made for  *)
(* its request, the ones of exhausted members included, is in usage.jsonl  *)
(* once.                                                                   *)
(***************************************************************************)
AnsweredIsAudited == \A r \in Requests : req[r].pc = "done" => log[r] = Len(req[r].called)
==============================================================================
