---------------------------- MODULE ProviderProofs ----------------------------
(***************************************************************************)
(* Proofs about Provider, for any members, models, accounts, requests and  *)
(* commands, and however much a workload asks for.  The gateway's part     *)
(* rests on what the holder of the store's lock knows (LockInv) and on the *)
(* freshness of tokens (TokenInv); the pooler's on there being one         *)
(* scheduler, whose cooldowns are the latest times named (SchedulerInv),   *)
(* and one refresh per waiting request (RefreshInv); the composition on a  *)
(* call being recorded before it leaves the gateway (AuditInv).            *)
(***************************************************************************)
EXTENDS Provider, FiniteSetTheorems, WellFoundedInduction, TLAPS

-----------------------------------------------------------------------------
(* The gateway                                                              *)

CallPlaces == Names \cup Accounts \cup MemberSet \cup {None}

Calls == [pc : {"idle", "closed", "closing", "stream", "refresh"}, account : CallPlaces,
          credential : Credentials, held : BOOLEAN, yields : Nat, outcome : {"failed", "ok", "exhausted"}]
CommandStates == [pc : {"idle", "waiting", "validate", "done"}, kind : {"none", "login", "logout", "rename"},
                  account : Names \cup {"none"}, target : Names \cup {"none"}, credential : Credentials]

GateTypeOK ==
  /\ now \in Nat \ {0} /\ serial \in Nat
  /\ store \in [Names -> Credentials] /\ granted \in [Names -> Nat]
  /\ inflight \in [Names -> [pc : {"none", "waiting", "exchange"}, doc : [Names -> Credentials]]]
  /\ gw \in [Requests -> Calls]
  /\ admin \in [Commands -> CommandStates]
  /\ rotated \subseteq Nat
  /\ log \in [Requests -> Nat] /\ auditFailure \in BOOLEAN

\* Who is under the lock holds it, and the store is as it was read.
LockInv ==
  /\ \A a \in Names : inflight[a].pc = "exchange" =>
       lock = Refresher(a) /\ inflight[a].doc = store /\ CredentialFor(store, a)
  /\ \A c \in Commands : admin[c].pc = "validate" => lock = Command(c) /\ admin[c].kind = "login"

\* A command under way names accounts.
CommandInv ==
  \A c \in Commands : admin[c].pc # "idle" =>
    /\ admin[c].kind \in {"login", "logout", "rename"} /\ admin[c].account \in Names
    /\ admin[c].kind = "rename" => admin[c].target \in Names

\* Tokens in the store are distinct and have not been exchanged.
TokenInv ==
  /\ Apart(store)
  /\ \A a \in Names : store[a].type # "none" => store[a].token <= serial /\ store[a].token \notin rotated
  /\ \A t \in rotated : t <= serial

GateInv == GateTypeOK /\ LockInv /\ CommandInv /\ TokenInv /\ NoLostUpdate /\ DispatchedAsRouted

LEMMA Distinct ==
  /\ \A a, b : Refresher(a) = Refresher(b) => a = b
  /\ \A a, b : Command(a) = Command(b) => a = b
  /\ \A a, b : Refresher(a) # Command(b)
  /\ \A a : Refresher(a) # Nobody /\ Command(a) # Nobody
<1>1. \A a, b : Refresher(a)[2] = a /\ Command(b)[2] = b /\ Refresher(a)[1] # Command(b)[1]
  BY DEF Refresher, Command
<1>2. \A a : Refresher(a)[1] # Nobody[1] /\ Command(a)[1] # Nobody[1]
  BY DEF Refresher, Command, Nobody
<1> QED BY <1>1, <1>2

LEMMA NoCredentialType == NoCredential \in Credentials /\ NoCredential.type = "none" /\ NoCredential.grant = 0
BY DEF NoCredential, Credentials

LEMMA AcceptStep ==
  ASSUME GateInv, NEW r \in Requests, NEW account \in CallPlaces, Accept(r, account), now' = now PROVE GateInv'
<1> USE DEF GateInv
<1>1. GateTypeOK'
  BY NoCredentialType DEF GateTypeOK, Accept, NewCall, CallPlaces, Calls
<1>2. \A a \in Names : inflight'[a] = inflight[a] \/ inflight'[a].pc = "waiting"
  BY DEF GateTypeOK, Accept
<1>3. LockInv' /\ CommandInv' /\ TokenInv' /\ NoLostUpdate'
  BY <1>2 DEF Accept, LockInv, CommandInv, TokenInv, NoLostUpdate, CredentialFor, Apart
<1>4. ASSUME NEW q \in Requests, gw'[q].pc = "stream"
      PROVE  gw'[q].credential.provider = RouteOf[gw'[q].account]
  <2>1. CASE q # r
    BY <1>4, <2>1 DEF GateTypeOK, Accept, DispatchedAsRouted
  <2>2. CASE q = r
    BY <1>4, <2>2 DEF GateTypeOK, Accept, NewCall, CredentialFor
  <2> QED BY <2>1, <2>2
<1> QED BY <1>1, <1>3, <1>4 DEF DispatchedAsRouted

\* What ends a refresh, with a credential or without.
LEMMA DeliverStep ==
  ASSUME GateInv, NEW a \in Names, NEW credential \in Credentials, Deliver(a, credential),
         credential.type # "none" => credential.provider = RouteOf[a]
  PROVE  /\ DispatchedAsRouted'
         /\ gw' \in [Requests -> Calls]
         /\ inflight' \in [Names -> [pc : {"none", "waiting", "exchange"}, doc : [Names -> Credentials]]]
         /\ inflight'[a].pc = "none"
         /\ \A b \in Names \ {a} : inflight'[b] = inflight[b]
<1> USE DEF GateInv, GateTypeOK, Calls
<1>1. NoRefresh.pc = "none" /\ NoRefresh \in [pc : {"none", "waiting", "exchange"}, doc : [Names -> Credentials]]
  BY NoCredentialType DEF NoRefresh
<1>2. inflight' = [inflight EXCEPT ![a] = NoRefresh]
  BY DEF Deliver
<1>3. ASSUME NEW r \in Requests
      PROVE  /\ gw'[r] \in Calls
             /\ gw'[r].pc = "stream" => gw'[r].credential.provider = RouteOf[gw'[r].account]
  <2>1. CASE r \notin Joined(a)
    BY <2>1 DEF Deliver, DispatchedAsRouted
  <2>2. CASE r \in Joined(a)
    <3>1. gw[r].account = a /\ gw[r] \in Calls
      BY <2>2 DEF Joined
    <3>2. CASE credential.type = "none"
      <4>1. gw'[r] = [gw[r] EXCEPT !.pc = "closing"]
        BY <2>2, <3>2 DEF Deliver
      <4> QED BY <3>1, <4>1
    <3>3. CASE credential.type # "none"
      <4>1. gw'[r] = [gw[r] EXCEPT !.pc = "stream", !.credential = credential]
        BY <2>2, <3>3 DEF Deliver
      <4>2. gw'[r].credential = credential /\ gw'[r].account = a
        BY <3>1, <4>1
      <4>3. gw'[r] \in Calls
        BY <3>1, <4>1
      <4> QED BY <3>3, <4>2, <4>3
    <3> QED BY <3>2, <3>3
  <2> QED BY <2>1, <2>2
<1>4. gw' = [r \in Requests |-> gw'[r]]
  BY DEF Deliver
<1> QED BY <1>1, <1>2, <1>3, <1>4 DEF DispatchedAsRouted

\* A refresh that does not write: it joins the lock, or ends.
LEMMA RefreshEnds ==
  ASSUME GateInv, NEW a \in Names, NEW credential \in Credentials, Deliver(a, credential),
         credential.type # "none" => credential.provider = RouteOf[a],
         lock' = lock \/ (inflight[a].pc = "exchange" /\ lock' = Nobody),
         UNCHANGED <<now, store, admin, serial, granted, rotated, log, auditFailure>>
  PROVE  GateInv'
<1> USE DEF GateInv
<1>1. GateTypeOK' /\ DispatchedAsRouted'
  BY DeliverStep DEF GateTypeOK
<1>2. inflight'[a].pc = "none" /\ \A b \in Names \ {a} : inflight'[b] = inflight[b]
  BY DeliverStep
<1>3. LockInv'
  <2>1. ASSUME NEW b \in Names, inflight'[b].pc = "exchange"
        PROVE  lock' = Refresher(b) /\ inflight'[b].doc = store' /\ CredentialFor(store', b)
    <3>1. b # a /\ inflight'[b] = inflight[b]
      BY <1>2, <2>1
    <3> QED BY <2>1, <3>1, Distinct DEF LockInv, CredentialFor
  <2>2. ASSUME NEW c \in Commands, admin'[c].pc = "validate"
        PROVE  lock' = Command(c) /\ admin'[c].kind = "login"
    BY <2>2, Distinct DEF LockInv
  <2> QED BY <2>1, <2>2 DEF LockInv
<1>4. CommandInv' /\ TokenInv' /\ NoLostUpdate'
  BY DEF CommandInv, TokenInv, NoLostUpdate, Apart
<1> QED BY <1>1, <1>3, <1>4

LEMMA RefreshLockedStep ==
  ASSUME GateInv, NEW a \in Names, RefreshLocked(a), now' = now PROVE GateInv'
<1> USE DEF GateInv
<1>0. store[a] \in Credentials
  BY DEF GateTypeOK
<1>1. CASE ~CredentialFor(store, a) \/ store[a].type # "oauth"
  BY <1>1, NoCredentialType, RefreshEnds DEF RefreshLocked, ReadStore
<1>2. CASE CredentialFor(store, a) /\ store[a].type = "oauth" /\ NotExpired(store[a])
  BY <1>0, <1>2, RefreshEnds DEF RefreshLocked, ReadStore, CredentialFor
<1>3. CASE CredentialFor(store, a) /\ store[a].type = "oauth" /\ ~NotExpired(store[a])
  <2>1. /\ inflight' = [inflight EXCEPT ![a] = [pc |-> "exchange", doc |-> store]]
        /\ lock = Nobody /\ lock' = Refresher(a)
        /\ UNCHANGED <<gw, store, admin, serial, granted, rotated, log, auditFailure>>
    BY <1>3 DEF RefreshLocked, ReadStore, Free
  <2>2. GateTypeOK'
    BY <2>1 DEF GateTypeOK
  <2>3. LockInv'
    BY <1>3, <2>1, Distinct DEF LockInv, GateTypeOK, CredentialFor
  <2>4. CommandInv' /\ TokenInv' /\ NoLostUpdate' /\ DispatchedAsRouted'
    BY <2>1 DEF CommandInv, TokenInv, NoLostUpdate, DispatchedAsRouted, Apart
  <2> QED BY <2>2, <2>3, <2>4
<1> QED BY <1>1, <1>2, <1>3

\* Nobody else is under the lock.
LEMMA Holder ==
  ASSUME GateInv, NEW a \in Names, inflight[a].pc = "exchange"
  PROVE  /\ \A b \in Names \ {a} : inflight[b].pc # "exchange"
         /\ \A c \in Commands : admin[c].pc # "validate"
BY Distinct DEF GateInv, LockInv

LEMMA RefreshAnsweredStep ==
  ASSUME GateInv, NEW a \in Names, NEW life \in 1..MaxLife, NEW synced \in BOOLEAN,
         RefreshAnswered(a, life, synced), now' = now
  PROVE  GateInv'
<1> USE DEF GateInv
<1> DEFINE next == Merged(store[a], life)
           delivered == IF synced THEN next ELSE NoCredential
<1>1. /\ inflight[a].pc = "exchange" /\ inflight[a].doc = store /\ CredentialFor(store, a)
      /\ store[a] \in Credentials
  BY DEF RefreshAnswered, LockInv, GateTypeOK
<1>2. /\ store' = [store EXCEPT ![a] = next] /\ rotated' = rotated \cup {store[a].token}
      /\ Deliver(a, delivered) /\ serial' = serial + 1 /\ lock' = Nobody
      /\ UNCHANGED <<admin, granted, log, auditFailure>>
  BY <1>1 DEF RefreshAnswered
<1>3. /\ next \in Credentials /\ next.type = store[a].type /\ next.provider = store[a].provider
      /\ next.grant = store[a].grant /\ next.token = serial + 1
  <2>1. now + life \in Int /\ serial + 1 \in Nat
    BY ProviderAssumption DEF GateTypeOK
  <2> QED BY <1>1, <2>1 DEF Merged, Credentials
<1>4. /\ delivered \in Credentials
      /\ delivered.type # "none" => delivered.provider = RouteOf[a]
  BY <1>1, <1>3, NoCredentialType DEF CredentialFor
<1>5. GateTypeOK' /\ DispatchedAsRouted'
  <2>1. serial' \in Nat /\ rotated' \subseteq Nat /\ store' \in [Names -> Credentials]
    BY <1>1, <1>2, <1>3 DEF GateTypeOK, Credentials
  <2> QED BY <1>2, <1>3, <1>4, <2>1, DeliverStep DEF GateTypeOK
<1>6. \A b \in Names : inflight'[b].pc # "exchange"
  BY <1>1, <1>2, <1>3, <1>4, Holder, DeliverStep
<1>7. LockInv' /\ CommandInv'
  BY <1>1, <1>2, <1>6, Holder DEF LockInv, CommandInv
<1>8. TokenInv'
  <2>1. \A b \in Names : b # a => store'[b] = store[b]
    BY <1>2 DEF GateTypeOK
  <2>2. store'[a] = next
    BY <1>2 DEF GateTypeOK
  <2>3. \A b \in Names : store[b].token \in Nat
    BY DEF GateTypeOK, Credentials
  <2>4. store[a].type # "none"
    BY <1>1 DEF CredentialFor
  <2> QED BY <1>2, <1>3, <2>1, <2>2, <2>3, <2>4 DEF TokenInv, Apart, GateTypeOK
<1>9. NoLostUpdate'
  BY <1>2, <1>3 DEF NoLostUpdate, GateTypeOK
<1> QED BY <1>5, <1>7, <1>8, <1>9
LEMMA RefreshStep ==
  ASSUME GateInv, NEW a \in Names, now' = now,
         RefreshLocked(a) \/ RefreshFails(a) \/ RefreshTimesOut(a)
           \/ \E life \in 1..MaxLife, synced \in BOOLEAN : RefreshAnswered(a, life, synced)
  PROVE  GateInv'
<1>1. CASE RefreshLocked(a)
  BY <1>1, RefreshLockedStep
<1>2. CASE RefreshFails(a)
  BY <1>2, RefreshEnds, NoCredentialType DEF RefreshFails
<1>3. CASE RefreshTimesOut(a)
  BY <1>3, RefreshEnds, NoCredentialType DEF RefreshTimesOut
<1>4. CASE \E life \in 1..MaxLife, synced \in BOOLEAN : RefreshAnswered(a, life, synced)
  BY <1>4, RefreshAnsweredStep
<1> QED BY <1>1, <1>2, <1>3, <1>4

\* A command that begins or ends without touching the store.
LEMMA CommandMoves ==
  ASSUME GateInv, NEW c \in Commands, NEW x \in CommandStates, admin' = [admin EXCEPT ![c] = x],
         x.pc \in {"waiting", "done"}, x.kind # "none", x.account \in Names,
         x.kind = "rename" => x.target \in Names,
         lock' = lock \/ (admin[c].pc = "validate" /\ lock' = Nobody),
         UNCHANGED <<now, store, inflight, gw, serial, granted, rotated, log, auditFailure>>
  PROVE  GateInv'
<1> USE DEF GateInv
<1>1. x.kind \in {"login", "logout", "rename"}
  BY DEF CommandStates
<1>2. admin'[c] = x /\ \A d \in Commands \ {c} : admin'[d] = admin[d]
  BY DEF GateTypeOK
<1>3. GateTypeOK'
  BY DEF GateTypeOK
<1>4. LockInv'
  BY <1>1, <1>2, Distinct DEF LockInv, CredentialFor
<1>5. CommandInv'
  BY <1>1, <1>2 DEF CommandInv
<1>6. TokenInv' /\ NoLostUpdate' /\ DispatchedAsRouted'
  BY DEF TokenInv, NoLostUpdate, DispatchedAsRouted, Apart
<1> QED BY <1>3, <1>4, <1>5, <1>6

LEMMA CommandRecord ==
  ASSUME NEW y \in CommandStates, NEW pc \in {"waiting", "done"}, NEW x, x = [y EXCEPT !.pc = pc]
  PROVE  x \in CommandStates /\ x.pc = pc /\ x.kind = y.kind /\ x.account = y.account /\ x.target = y.target
BY DEF CommandStates

LEMMA BeginCommandStep ==
  ASSUME GateInv, NEW c \in Commands, now' = now, NEW y \in CommandStates, y.kind # "none", y.account \in Names,
         y.kind = "rename" => y.target \in Names, BeginCommand(c, y)
  PROVE  GateInv'
<1> DEFINE x == [y EXCEPT !.pc = "waiting"]
<1>1. x \in CommandStates /\ x.pc = "waiting" /\ x.kind = y.kind /\ x.account = y.account /\ x.target = y.target
  BY CommandRecord
<1>2. /\ admin' = [admin EXCEPT ![c] = x]
      /\ UNCHANGED <<now, store, lock, inflight, gw, serial, granted, rotated, log, auditFailure>>
  BY DEF BeginCommand
<1> HIDE DEF x
<1> QED BY <1>1, <1>2, CommandMoves

LEMMA CommandKinds ==
  ASSUME GateInv, NEW a \in Names
  PROVE  /\ \A p \in Providers, t \in {"api_key", "oauth"} :
              Login(a, p, t, MaxLife) \in CommandStates /\ Login(a, p, t, MaxLife).kind = "login"
                /\ Login(a, p, t, MaxLife).account = a
         /\ Logout(a) \in CommandStates /\ Logout(a).kind = "logout" /\ Logout(a).account = a
         /\ \A b \in Names : Rename(a, b) \in CommandStates /\ Rename(a, b).kind = "rename"
                /\ Rename(a, b).account = a /\ Rename(a, b).target = b
<1>1. NoCommand \in CommandStates
  BY NoCredentialType DEF NoCommand, CommandStates
<1>2. now + MaxLife \in Int
  BY ProviderAssumption DEF GateInv, GateTypeOK
<1>3. ASSUME NEW p \in Providers, NEW t \in {"api_key", "oauth"}
      PROVE  [type |-> t, provider |-> p, grant |-> 1, token |-> 0, expires |-> now + MaxLife] \in Credentials
  BY <1>2 DEF Credentials
<1>4. ASSUME NEW p \in Providers, NEW t \in {"api_key", "oauth"}
      PROVE  Login(a, p, t, MaxLife) \in CommandStates /\ Login(a, p, t, MaxLife).kind = "login"
                /\ Login(a, p, t, MaxLife).account = a
  BY <1>1, <1>3 DEF Login, CommandStates
<1>5. Logout(a) \in CommandStates /\ Logout(a).kind = "logout" /\ Logout(a).account = a
  BY <1>1 DEF Logout, CommandStates
<1>6. ASSUME NEW b \in Names
      PROVE  Rename(a, b) \in CommandStates /\ Rename(a, b).kind = "rename"
                /\ Rename(a, b).account = a /\ Rename(a, b).target = b
  BY <1>1 DEF Rename, CommandStates
<1> QED BY <1>4, <1>5, <1>6

\* A command writes auth.json: nobody is exchanging a token.
LEMMA StoreWritten ==
  ASSUME GateInv, NEW c \in Commands, admin[c].pc \in {"waiting", "validate"},
         lock \in {Nobody, Command(c)}, lock' = Nobody,
         admin' = [admin EXCEPT ![c].pc = "done"],
         UNCHANGED <<now, inflight, gw, rotated, log, auditFailure>>,
         store' \in [Names -> Credentials], granted' \in [Names -> Nat],
         serial' \in Nat, serial <= serial', TokenInv', NoLostUpdate'
  PROVE  GateInv'
<1> USE DEF GateInv
<1>1. GateTypeOK'
  <2>1. [admin[c] EXCEPT !.pc = "done"] \in CommandStates
    BY CommandRecord DEF GateTypeOK
  <2>2. admin' \in [Commands -> CommandStates]
    BY <2>1 DEF GateTypeOK
  <2> QED BY <2>2 DEF GateTypeOK
<1>2. \A a \in Names : inflight[a].pc # "exchange"
  BY Distinct DEF LockInv
<1>3. \A d \in Commands : d # c => admin[d].pc # "validate" /\ admin'[d] = admin[d]
  BY Distinct DEF LockInv, GateTypeOK
<1>4. /\ admin'[c].pc = "done" /\ admin'[c].kind = admin[c].kind
      /\ admin'[c].account = admin[c].account /\ admin'[c].target = admin[c].target
  BY DEF GateTypeOK
<1>5. LockInv' /\ CommandInv'
  BY <1>2, <1>3, <1>4 DEF LockInv, CommandInv
<1>6. DispatchedAsRouted'
  BY DEF DispatchedAsRouted
<1> QED BY <1>1, <1>5, <1>6


LEMMA CommandLockedStep ==
  ASSUME GateInv, NEW c \in Commands, CommandLocked(c), now' = now PROVE GateInv'
<1> USE DEF GateInv
<1> DEFINE x == admin[c]
<1>1. /\ x \in CommandStates /\ x.pc = "waiting" /\ x.kind \in {"login", "logout", "rename"} /\ x.account \in Names
      /\ x.kind = "rename" => x.target \in Names
      /\ lock = Nobody /\ UNCHANGED <<now, inflight, gw, serial, rotated, log, auditFailure>>
  BY DEF CommandLocked, CommandInv, GateTypeOK, Free
<1>2. CASE x.kind = "login"
  <2>1. /\ admin' = [admin EXCEPT ![c].pc = "validate"] /\ lock' = Command(c)
        /\ UNCHANGED <<store, granted>>
    BY <1>2 DEF CommandLocked
  <2>2. [x EXCEPT !.pc = "validate"] \in CommandStates
    BY <1>1 DEF CommandStates
  <2>3. GateTypeOK'
    BY <1>1, <2>1, <2>2 DEF GateTypeOK
  <2>4. LockInv'
    BY <1>1, <1>2, <2>1, Distinct DEF LockInv, GateTypeOK, CredentialFor
  <2>5. CommandInv' /\ TokenInv' /\ NoLostUpdate' /\ DispatchedAsRouted'
    BY <1>1, <1>2, <2>1 DEF CommandInv, TokenInv, NoLostUpdate, DispatchedAsRouted, Apart, GateTypeOK
  <2> QED BY <2>3, <2>4, <2>5
<1>3. CASE x.kind # "login" /\ UNCHANGED <<store, granted>>
  <2>1. admin' = [admin EXCEPT ![c].pc = "done"] /\ UNCHANGED <<lock, store, granted>>
    BY <1>3 DEF CommandLocked
  <2>2. TokenInv' /\ NoLostUpdate'
    BY <1>1, <2>1 DEF TokenInv, NoLostUpdate, Apart
  <2>h. /\ admin[c].pc \in {"waiting", "validate"} /\ lock \in {Nobody, Command(c)} /\ lock' = Nobody
        /\ admin' = [admin EXCEPT ![c].pc = "done"]
        /\ UNCHANGED <<now, inflight, gw, rotated, log, auditFailure>>
        /\ store' \in [Names -> Credentials] /\ granted' \in [Names -> Nat] /\ serial' \in Nat /\ serial <= serial'
    BY <1>1, <2>1, <2>2 DEF GateTypeOK
  <2> HIDE DEF GateInv
  <2> QED BY <2>2, <2>h, StoreWritten
<1>4. CASE x.kind # "login" /\ ~UNCHANGED <<store, granted>>
  <2>1. /\ admin' = [admin EXCEPT ![c].pc = "done"] /\ UNCHANGED lock
        /\ store' = Updated(store, x, NoCredential) /\ granted' = Granted(x, 0) /\ Possible(x)
    BY <1>4 DEF CommandLocked
  <2>2. CASE x.kind = "logout"
    <3>1. store' = [store EXCEPT ![x.account] = NoCredential] /\ granted' = [granted EXCEPT ![x.account] = 0]
      BY <2>1, <2>2 DEF Updated, Granted
    <3>2. store' \in [Names -> Credentials] /\ granted' \in [Names -> Nat]
      BY <1>1, <3>1, NoCredentialType DEF GateTypeOK
    <3>3. \A a \in Names : /\ a # x.account => store'[a] = store[a] /\ granted'[a] = granted[a]
                           /\ store'[x.account] = NoCredential /\ granted'[x.account] = 0
      BY <1>1, <3>1 DEF GateTypeOK
    <3>4. TokenInv' /\ NoLostUpdate'
      BY <1>1, <3>3, NoCredentialType DEF TokenInv, NoLostUpdate, Apart
    <3>h. /\ admin[c].pc \in {"waiting", "validate"} /\ lock \in {Nobody, Command(c)} /\ lock' = Nobody
          /\ admin' = [admin EXCEPT ![c].pc = "done"]
          /\ UNCHANGED <<now, inflight, gw, rotated, log, auditFailure>>
          /\ store' \in [Names -> Credentials] /\ granted' \in [Names -> Nat] /\ serial' \in Nat /\ serial <= serial'
      BY <1>1, <2>1, <3>2, <3>4 DEF GateTypeOK
    <3> HIDE DEF GateInv
    <3> QED BY <3>4, <3>h, StoreWritten
  <2>3. CASE x.kind = "rename"
    <3>0. x.target # x.account /\ store[x.target].type = "none" /\ x.target \in Names
      BY <1>1, <2>1, <2>3 DEF Possible
    <3>1. /\ store' = [store EXCEPT ![x.target] = store[x.account], ![x.account] = NoCredential]
          /\ granted' = [granted EXCEPT ![x.target] = granted[x.account], ![x.account] = 0]
      BY <2>1, <2>3 DEF Updated, Granted
    <3>2. store' \in [Names -> Credentials] /\ granted' \in [Names -> Nat]
      BY <1>1, <3>0, <3>1, NoCredentialType DEF GateTypeOK
    <3>3. /\ \A a \in Names \ {x.account, x.target} : store'[a] = store[a] /\ granted'[a] = granted[a]
          /\ store'[x.account] = NoCredential /\ granted'[x.account] = 0
          /\ store'[x.target] = store[x.account] /\ granted'[x.target] = granted[x.account]
      BY <1>1, <3>0, <3>1 DEF GateTypeOK
    <3>4. TokenInv' /\ NoLostUpdate'
      BY <1>1, <3>0, <3>3, NoCredentialType DEF TokenInv, NoLostUpdate, Apart
    <3>h. /\ admin[c].pc \in {"waiting", "validate"} /\ lock \in {Nobody, Command(c)} /\ lock' = Nobody
          /\ admin' = [admin EXCEPT ![c].pc = "done"]
          /\ UNCHANGED <<now, inflight, gw, rotated, log, auditFailure>>
          /\ store' \in [Names -> Credentials] /\ granted' \in [Names -> Nat] /\ serial' \in Nat /\ serial <= serial'
      BY <1>1, <2>1, <3>2, <3>4 DEF GateTypeOK
    <3> HIDE DEF GateInv
    <3> QED BY <3>4, <3>h, StoreWritten
  <2> QED BY <1>1, <1>4, <2>2, <2>3
<1> QED BY <1>2, <1>3, <1>4

LEMMA LoginValidatedStep ==
  ASSUME GateInv, NEW c \in Commands, NEW ok \in BOOLEAN, LoginValidated(c, ok), now' = now PROVE GateInv'
<1> USE DEF GateInv
<1> DEFINE x == admin[c]
           credential == [x.credential EXCEPT !.grant = serial + 1, !.token = serial + 1]
<1>1. /\ x \in CommandStates /\ x.pc = "validate" /\ x.kind = "login" /\ x.account \in Names
      /\ lock = Command(c) /\ lock' = Nobody /\ admin' = [admin EXCEPT ![c].pc = "done"]
      /\ UNCHANGED <<now, inflight, gw, rotated, log, auditFailure>>
  BY DEF LoginValidated, CommandInv, LockInv, GateTypeOK
<1>2. serial \in Nat /\ serial + 1 \in Nat
  BY DEF GateTypeOK
<1>3. CASE ~ok
  <2>1. UNCHANGED <<store, granted, serial>>
    BY <1>3 DEF LoginValidated
  <2>2. TokenInv' /\ NoLostUpdate'
    BY <1>1, <2>1 DEF TokenInv, NoLostUpdate, Apart
  <2>h. /\ admin[c].pc \in {"waiting", "validate"} /\ lock \in {Nobody, Command(c)} /\ lock' = Nobody
        /\ admin' = [admin EXCEPT ![c].pc = "done"]
        /\ UNCHANGED <<now, inflight, gw, rotated, log, auditFailure>>
        /\ store' \in [Names -> Credentials] /\ granted' \in [Names -> Nat] /\ serial' \in Nat /\ serial <= serial'
    BY <1>1, <1>2, <2>1, <2>2 DEF GateTypeOK
  <2> HIDE DEF GateInv
  <2> QED BY <2>2, <2>h, StoreWritten
<1>4. CASE ok
  <2>1. /\ store' = [store EXCEPT ![x.account] = credential]
        /\ granted' = [granted EXCEPT ![x.account] = serial + 1] /\ serial' = serial + 1
    BY <1>1, <1>4 DEF LoginValidated, Updated, Granted
  <2>2. x.credential \in Credentials
    BY <1>1 DEF CommandStates
  <2>3. credential \in Credentials /\ credential.grant = serial + 1 /\ credential.token = serial + 1
    BY <1>2, <2>2 DEF Credentials
  <2>4. store' \in [Names -> Credentials] /\ granted' \in [Names -> Nat]
    BY <1>1, <1>2, <2>1, <2>3 DEF GateTypeOK
  <2>5. /\ \A a \in Names \ {x.account} : store'[a] = store[a] /\ granted'[a] = granted[a]
        /\ store'[x.account] = credential /\ granted'[x.account] = serial + 1
    BY <1>1, <2>1 DEF GateTypeOK
  <2>6. \A a \in Names : store[a].token \in Nat
    BY DEF GateTypeOK, Credentials
  <2>7. rotated \subseteq Nat
    BY DEF GateTypeOK
  <2> HIDE DEF credential
  <2>8. TokenInv'
    BY <1>1, <1>2, <2>1, <2>3, <2>5, <2>6, <2>7 DEF TokenInv, Apart
  <2>9. NoLostUpdate'
    BY <2>3, <2>5 DEF NoLostUpdate
  <2>h. /\ admin[c].pc \in {"waiting", "validate"} /\ lock \in {Nobody, Command(c)} /\ lock' = Nobody
        /\ admin' = [admin EXCEPT ![c].pc = "done"]
        /\ UNCHANGED <<now, inflight, gw, rotated, log, auditFailure>>
        /\ store' \in [Names -> Credentials] /\ granted' \in [Names -> Nat] /\ serial' \in Nat /\ serial <= serial'
    BY <1>1, <1>2, <2>1, <2>4, <2>8, <2>9 DEF GateTypeOK
  <2> HIDE DEF GateInv
  <2> QED BY <2>8, <2>9, <2>h, StoreWritten
<1> QED BY <1>3, <1>4

LEMMA CommandTimesOutStep ==
  ASSUME GateInv, NEW c \in Commands, CommandTimesOut(c), now' = now PROVE GateInv'
<1> USE DEF GateInv
<1> DEFINE x == [admin[c] EXCEPT !.pc = "done"]
<1>1. /\ admin[c] \in CommandStates /\ admin[c].pc = "waiting"
      /\ admin[c].kind \in {"login", "logout", "rename"} /\ admin[c].account \in Names
      /\ admin[c].kind = "rename" => admin[c].target \in Names
  BY DEF CommandTimesOut, CommandInv, GateTypeOK
<1>2. /\ x \in CommandStates /\ x.pc = "done" /\ x.kind = admin[c].kind
      /\ x.account = admin[c].account /\ x.target = admin[c].target
  BY <1>1, CommandRecord
<1>3. /\ admin' = [admin EXCEPT ![c] = x]
      /\ UNCHANGED <<now, store, lock, inflight, gw, serial, granted, rotated, log, auditFailure>>
  BY DEF CommandTimesOut
<1> HIDE DEF x
<1> QED BY <1>1, <1>2, <1>3, CommandMoves

\* The calls themselves change nothing of the store.
LEMMA CallMoves ==
  ASSUME GateInv, NEW r \in Requests, NEW call \in Calls, MoveCall(r, call), now' = now,
         call.pc = "stream" => gw[r].pc = "stream" /\ call.credential = gw[r].credential /\ call.account = gw[r].account,
         log' \in [Requests -> Nat], auditFailure' \in BOOLEAN
  PROVE  GateInv'
<1> USE DEF GateInv, MoveCall
<1>1. GateTypeOK'
  BY DEF GateTypeOK
<1>2. LockInv' /\ CommandInv' /\ TokenInv' /\ NoLostUpdate'
  BY DEF LockInv, CommandInv, TokenInv, NoLostUpdate, Apart, CredentialFor
<1>3. DispatchedAsRouted'
  BY DEF DispatchedAsRouted, GateTypeOK
<1> QED BY <1>1, <1>2, <1>3

LEMMA CallStep ==
  ASSUME GateInv, NEW r \in Requests, now' = now,
         \/ BackendYields(r)
         \/ \E o \in {"ok", "exhausted", "failed"} : BackendEnds(r, o)
         \/ \E w \in BOOLEAN : Record(r, w)
         \/ Leave(r)
  PROVE  GateInv'
<1>0. gw[r] \in Calls /\ log \in [Requests -> Nat] /\ auditFailure \in BOOLEAN
  BY DEF GateInv, GateTypeOK
<1>1. CASE BackendYields(r)
  <2> DEFINE call == [gw[r] EXCEPT !.held = TRUE, !.yields = @ + 1]
  <2>1. call \in Calls /\ call.pc = gw[r].pc /\ call.credential = gw[r].credential /\ call.account = gw[r].account
    <3>1. gw[r].yields + 1 \in Nat
      BY <1>0 DEF Calls
    <3> QED BY <1>0, <3>1 DEF Calls
  <2>2. MoveCall(r, call) /\ gw[r].pc = "stream" /\ UNCHANGED <<log, auditFailure>>
    BY <1>1 DEF BackendYields
  <2> HIDE DEF call
  <2> QED BY <1>0, <2>1, <2>2, CallMoves
<1>2. CASE \E o \in {"ok", "exhausted", "failed"} : BackendEnds(r, o)
  <2>1. PICK o \in {"ok", "exhausted", "failed"} : BackendEnds(r, o)
    BY <1>2
  <2> DEFINE call == [gw[r] EXCEPT !.pc = "closing", !.outcome = o]
  <2>2. call \in Calls /\ call.pc = "closing"
    BY <1>0 DEF Calls
  <2>3. MoveCall(r, call) /\ UNCHANGED <<log, auditFailure>>
    BY <2>1 DEF BackendEnds
  <2> HIDE DEF call
  <2> QED BY <1>0, <2>2, <2>3, CallMoves
<1>3. CASE \E w \in BOOLEAN : Record(r, w)
  <2>1. PICK w \in BOOLEAN : Record(r, w)
    BY <1>3
  <2> DEFINE done == w /\ ~auditFailure
             call == [gw[r] EXCEPT !.pc = "closed", !.outcome = IF done THEN @ ELSE "failed"]
  <2>2. call \in Calls /\ call.pc = "closed"
    BY <1>0 DEF Calls
  <2>3. MoveCall(r, call)
    BY <2>1 DEF Record
  <2>4. auditFailure' \in BOOLEAN
    BY <1>0, <2>1 DEF Record
  <2>5. log' = IF done THEN [log EXCEPT ![r] = @ + 1] ELSE log
    BY <2>1 DEF Record
  <2>6. log' \in [Requests -> Nat]
    BY <1>0, <2>5
  <2> HIDE DEF call
  <2> QED BY <2>2, <2>3, <2>4, <2>6, CallMoves
<1>4. CASE Leave(r)
  <2>1. NewCall \in Calls /\ NewCall.pc = "idle"
    BY NoCredentialType DEF NewCall, Calls, CallPlaces, None
  <2>2. MoveCall(r, NewCall) /\ UNCHANGED <<log, auditFailure>>
    BY <1>4 DEF Leave
  <2> QED BY <1>0, <2>1, <2>2, CallMoves
<1> QED BY <1>1, <1>2, <1>3, <1>4

\* Time passes and nothing else.
LEMMA GateRests == ASSUME GateInv, now' \in Nat \ {0}, UNCHANGED gatevars PROVE GateInv'
<1>1. GateTypeOK' /\ LockInv'
  BY DEF GateInv, gatevars, GateTypeOK, LockInv, CredentialFor
<1>2. CommandInv' /\ TokenInv' /\ NoLostUpdate' /\ DispatchedAsRouted'
  BY DEF GateInv, gatevars, CommandInv, TokenInv, NoLostUpdate, DispatchedAsRouted, Apart
<1> QED BY <1>1, <1>2 DEF GateInv

\* What is being exchanged is in the store, and so is what anyone else exchanges.
LEMMA GateSafe == ASSUME GateInv PROVE NoLostUpdate /\ ExchangedOnce /\ DispatchedAsRouted
<1>1. ExchangedOnce
  BY Distinct DEF GateInv, LockInv, TokenInv, Apart, CredentialFor, ExchangedOnce
<1> QED BY <1>1 DEF GateInv

-----------------------------------------------------------------------------
(* The pooler                                                               *)

Asked ==
  [pc : {"idle", "listing", "routed", "called", "done", "failed", "refused"}, model : Models \cup {None},
   direct : BOOLEAN, eligible : SUBSET MemberSet, scheduler : {0, 1}, called : Seq(CallPlaces),
   responded : BOOLEAN, from : SUBSET CallPlaces, retryAt : Int]
SchedulerStates == [cursor : 0..Len(Members) - 1, cooldowns : [MemberSet -> Nat]]

\* There is one scheduler, and what it knows of a member is the latest time named.
SchedulerInv ==
  /\ told \in [MemberSet -> Nat]
  /\ schedulers = <<schedulers[1]>> /\ schedulers[1] \in SchedulerStates /\ schedulers[1].cooldowns = told
  /\ schedulerState = [memberIds |-> Members, scheduler |-> 1]

RoutesOK(routes) ==
  \A m \in DOMAIN routes : /\ m \in Models /\ routes[m].scheduler = 1
                           /\ routes[m].eligible \subseteq MemberSet /\ routes[m].eligible # {}

\* What is true of a call at each of its stages.
CallOK(q) ==
  /\ q.pc \in {"idle", "listing", "routed"} => q.called = <<>> /\ ~q.direct /\ ~q.responded
  /\ q.pc = "routed" => q.scheduler = 1 /\ q.eligible # {}
  /\ q.pc = "called" => q.called # <<>> /\ (~q.direct => q.scheduler = 1 /\ q.eligible # {})
  /\ ~q.responded => q.from = {}
  /\ \A m \in q.from : m = Last(q.called)
  /\ \A i, j \in DOMAIN q.called : q.called[i] = q.called[j] => i = j
  /\ ~q.direct => \A i \in DOMAIN q.called : q.called[i] \in MemberSet

CallsInv == req \in [Requests -> Asked] /\ \A r \in Requests : CallOK(req[r])

\* A generation is one refresh, and a call waits for one only.
RefreshInv ==
  /\ refreshGeneration \in Nat /\ newest.generation \in Nat /\ newest.generation <= refreshGeneration
  /\ \A f \in refreshes : /\ f \in [generation : Nat, by : Requests \cup {None}]
                          /\ f.generation <= refreshGeneration /\ f.generation # newest.generation
                          /\ f.by # None => req[f.by].pc = "listing"
  /\ \A f, g \in refreshes : f.generation = g.generation \/ (f.by = g.by /\ f.by # None) => f = g
  /\ newest.generation = refreshGeneration => catalogue = newest.result
  /\ newest.generation # refreshGeneration => \E f \in refreshes : f.generation = refreshGeneration

PoolInv == SchedulerInv /\ RoutesOK(catalogue.routes) /\ CallsInv /\ RefreshInv

LEMMA MinIsOne == ASSUME NEW S, S \subseteq Nat, S # {} PROVE Min(S) \in S
<1>1. IsWellFoundedOn({ss \in Nat \X Nat : ss[1] < ss[2]}, Nat)
  BY NatLessThanWellFounded DEF OpToRel
<1>2. PICK x \in S : \A y \in S : ~(<<y, x>> \in {ss \in Nat \X Nat : ss[1] < ss[2]})
  BY <1>1, WFMin
<1>3. ASSUME NEW y \in S PROVE x =< y
  <2>1. x \in Nat /\ y \in Nat
    OBVIOUS
  <2>2. ~(y < x)
    BY <1>2, <2>1
  <2> QED BY <2>1, <2>2
<1> QED BY <1>2, <1>3 DEF Min

LEMMA MaxOfTwo == ASSUME NEW a \in Nat, NEW b \in Nat PROVE Max({a, b}) \in Nat
<1>1. \E x \in {a, b} : \A y \in {a, b} : x >= y
  OBVIOUS
<1>2. Max({a, b}) \in {a, b}
  BY <1>1 DEF Max
<1> QED BY <1>2

LEMMA Remainder ==
  /\ \A a \in Nat, b \in Nat \ {0} : a % b \in 0..b - 1
  /\ \A a, b \in Nat : a < b => a % b = a /\ (a + b) % b = a
<1>1. ASSUME NEW a \in Nat, NEW b \in Nat \ {0} PROVE a % b \in 0..b - 1
  OBVIOUS
<1>2. ASSUME NEW c \in Nat, NEW b \in Nat, b > 0
      PROVE  c \div b \in Int /\ c = b * (c \div b) + (c % b)
  <2>1. c \div b \in Int
    BY <1>2
  <2>2. c = b * (c \div b) + (c % b)
    BY <1>2
  <2> QED BY <2>1, <2>2
<1>3. ASSUME NEW b \in Nat \ {0}, NEW q \in Int, NEW m \in 0..b - 1, NEW a \in 0..b - 1,
             a = b * q + m \/ a + b = b * q + m
      PROVE  m = a
  <2>1. CASE q >= 2
    <3>1. b * q >= b * 2
      BY <2>1
    <3> QED BY <1>3, <3>1
  <2>2. CASE q <= -1
    <3>1. b * q <= b * (-1)
      BY <2>2
    <3> QED BY <1>3, <3>1
  <2>3. CASE q = 0 \/ q = 1
    BY <1>3, <2>3
  <2> QED BY <2>1, <2>2, <2>3
<1>4. ASSUME NEW a \in Nat, NEW b \in Nat, a < b PROVE a % b = a /\ (a + b) % b = a
  <2>1. b \in Nat \ {0} /\ a \in 0..b - 1 /\ a + b \in Nat
    BY <1>4
  <2>2. a % b = a
    BY <2>1, <1>1, <1>2, <1>3
  <2>3. (a + b) % b = a
    BY <2>1, <1>1, <1>2, <1>3
  <2> QED BY <2>2, <2>3
<1> QED BY <1>1, <1>4

LEMMA MembersAre ==
  /\ Len(Members) \in Nat \ {0} /\ DOMAIN Members = 1..Len(Members)
  /\ \A i \in 1..Len(Members) : Members[i] \in MemberSet
  /\ \A m \in MemberSet : \E i \in 1..Len(Members) : Members[i] = m
<1>1. Members \in Seq(MemberSet) /\ Members # <<>>
  BY ProviderAssumption
<1>2. Len(Members) \in Nat \ {0} /\ DOMAIN Members = 1..Len(Members)
  BY <1>1
<1>3. \A m : m \in MemberSet <=> \E i \in DOMAIN Members : Members[i] = m
  BY DEF MemberSet, Range
<1> QED BY <1>2, <1>3

\* A member that is selected may be called now.
LEMMA SelectPicks ==
  ASSUME NEW s \in SchedulerStates, NEW eligible, NEW attempted, now \in Nat,
         NEW picked, picked = Select(s, eligible, attempted)
  PROVE  /\ picked.scheduler \in SchedulerStates /\ picked.scheduler.cooldowns = s.cooldowns
         /\ picked.member # None =>
              picked.member \in eligible \ attempted /\ picked.member \in MemberSet /\ s.cooldowns[picked.member] <= now
<1> DEFINE free == {o \in 0..Len(Members) - 1 :
                      LET m == MemberAt(Position(s, o)) IN m \in eligible \ attempted /\ s.cooldowns[m] <= now}
           position == Position(s, Min(free))
<1>1. CASE free = {}
  BY <1>1 DEF Select
<1>2. CASE free # {}
  <2>1. Min(free) \in free
    <3>1. free \subseteq Nat
      BY MembersAre
    <3> HIDE DEF free
    <3> QED BY <1>2, <3>1, MinIsOne
  <2>2. position \in 0..Len(Members) - 1
    <3>1. s.cursor + Min(free) \in Nat
      BY <2>1, MembersAre DEF SchedulerStates
    <3> QED BY <3>1, MembersAre, Remainder DEF Position
  <2>3. /\ MemberAt(position) \in eligible \ attempted /\ s.cooldowns[MemberAt(position)] <= now
        /\ MemberAt(position) \in MemberSet
    BY <2>1, <2>2, MembersAre DEF MemberAt
  <2>4. (position + 1) % Len(Members) \in 0..Len(Members) - 1
    BY <2>2, MembersAre, Remainder
  <2>5. picked = [member |-> MemberAt(position),
                  scheduler |-> [s EXCEPT !.cursor = (position + 1) % Len(Members)]]
    BY <1>2 DEF Select
  <2> HIDE DEF position
  <2> QED BY <2>3, <2>4, <2>5 DEF SchedulerStates
<1> QED BY <1>1, <1>2


\* When none is, each one was tried or is cooling.
LEMMA SelectFindsNone ==
  ASSUME NEW s \in SchedulerStates, NEW eligible, eligible \subseteq MemberSet, NEW attempted, now \in Nat,
         Select(s, eligible, attempted).member = None
  PROVE  \A m \in eligible : m \in attempted \/ s.cooldowns[m] > now
<1> DEFINE free == {o \in 0..Len(Members) - 1 :
                      LET m == MemberAt(Position(s, o)) IN m \in eligible \ attempted /\ s.cooldowns[m] <= now}
           L == Len(Members)
<1>1. CASE free # {}
  <2>1. Min(free) \in free
    <3>1. free \subseteq Nat
      BY MembersAre
    <3> HIDE DEF free
    <3> QED BY <1>1, <3>1, MinIsOne
  <2>2. Select(s, eligible, attempted).member = MemberAt(Position(s, Min(free)))
    BY <1>1 DEF Select
  <2>3. Position(s, Min(free)) \in 0..Len(Members) - 1
    <3>1. s.cursor + Min(free) \in Nat
      BY <2>1, MembersAre DEF SchedulerStates
    <3> QED BY <3>1, MembersAre, Remainder DEF Position
  <2>4. MemberAt(Position(s, Min(free))) \in MemberSet
    BY <2>3, MembersAre DEF MemberAt
  <2> QED BY <2>2, <2>4, ProviderAssumption
<1>2. CASE free = {}
  <2>1. SUFFICES ASSUME NEW m \in eligible, m \notin attempted PROVE s.cooldowns[m] > now
    OBVIOUS
  <2>2. PICK i \in 1..L : Members[i] = m
    BY MembersAre
  <2>3. s.cursor \in 0..L - 1 /\ L \in Nat \ {0}
    BY MembersAre DEF SchedulerStates
  <2> DEFINE o == IF i - 1 >= s.cursor THEN i - 1 - s.cursor ELSE i - 1 - s.cursor + L
  <2>4. o \in 0..L - 1 /\ (s.cursor + o) % L = i - 1
    <3>1. o \in 0..L - 1 /\ (s.cursor + o = i - 1 \/ s.cursor + o = (i - 1) + L)
      BY <2>2, <2>3
    <3>2. i - 1 \in Nat /\ i - 1 < L /\ L \in Nat
      BY <2>2, <2>3
    <3> HIDE DEF o
    <3> QED BY <3>1, <3>2, Remainder
  <2>5. MemberAt(Position(s, o)) = m
    BY <2>2, <2>4 DEF MemberAt, Position
  <2>6. s.cooldowns[m] \in Nat
    BY DEF SchedulerStates
  <2> HIDE DEF o
  <2> QED BY <1>2, <2>1, <2>4, <2>5, <2>6
<1> QED BY <1>1, <1>2

LEMMA EarliestIs ==
  ASSUME NEW s \in SchedulerStates, NEW eligible, eligible \subseteq MemberSet, NEW attempted
  PROVE  /\ EarliestRetry(s, eligible, attempted) \in Int
         /\ eligible # {} /\ (\A m \in eligible : m \in attempted \/ s.cooldowns[m] # 0) =>
              EarliestRetry(s, eligible, attempted) = Min({s.cooldowns[m] : m \in eligible})
<1> DEFINE considered == {n \in eligible : n \in attempted \/ s.cooldowns[n] # 0}
           times == {s.cooldowns[m] : m \in considered}
<1>1. times \subseteq Nat
  BY DEF SchedulerStates
<1>2. EarliestRetry(s, eligible, attempted) = IF times = {} THEN -1 ELSE Min(times)
  BY DEF EarliestRetry
<1>3. EarliestRetry(s, eligible, attempted) \in Int
  <2>1. times # {} => Min(times) \in Nat
    <3> HIDE DEF times
    <3> QED BY <1>1, MinIsOne
  <2>2. -1 \in Int
    OBVIOUS
  <2> HIDE DEF times
  <2>3. CASE times = {}
    BY <1>2, <2>2, <2>3
  <2>4. CASE times # {}
    BY <1>2, <2>1, <2>4
  <2> QED BY <2>3, <2>4
<1>4. ASSUME eligible # {}, \A m \in eligible : m \in attempted \/ s.cooldowns[m] # 0
      PROVE  EarliestRetry(s, eligible, attempted) = Min({s.cooldowns[m] : m \in eligible})
  <2>1. considered = eligible
    BY <1>4
  <2>2. times # {} /\ times = {s.cooldowns[m] : m \in eligible}
    BY <1>4, <2>1
  <2> QED BY <1>2, <2>2
<1> QED BY <1>3, <1>4

\* What the loop of infer makes of a call.
MemberCalled(q, r2, s) ==
  r2.pc = "called" /\ \E m \in MemberSet : r2.called = Append(q.called, m) /\ s.cooldowns[m] <= now
CallRefused(q, r2, s) ==
  /\ r2.pc = "refused" /\ r2.called = q.called
  /\ \A m \in r2.eligible : m \in Range(r2.called) \/ s.cooldowns[m] > now
  /\ r2.retryAt = Min({s.cooldowns[m] : m \in r2.eligible})

LEMMA ProceedStep ==
  ASSUME NEW r \in Requests, NEW q \in Asked, NEW s \in SchedulerStates, now \in Nat \ {0},
         req \in [Requests -> Asked], schedulers = <<schedulers[1]>>,
         q.scheduler = 1, ~q.direct, ~q.responded, q.from = {}, q.eligible # {},
         \A i, j \in DOMAIN q.called : q.called[i] = q.called[j] => i = j,
         \A i \in DOMAIN q.called : q.called[i] \in MemberSet,
         Proceed(r, q, s)
  PROVE  \E q2 \in Asked, s2 \in SchedulerStates :
            /\ req' = [req EXCEPT ![r] = q2] /\ schedulers' = <<s2>> /\ s2.cooldowns = s.cooldowns
            /\ CallOK(q2) /\ ~q2.direct /\ q2.pc # "listing" /\ q2.pc # "done" /\ q2.responded = FALSE
            /\ MemberCalled(q, q2, s) \/ CallRefused(q, q2, s)
<1> DEFINE tried == Range(q.called)
           picked == Select(s, q.eligible, tried)
<1>1. q.eligible \subseteq MemberSet /\ q.called \in Seq(CallPlaces)
  BY DEF Asked
<1>2. /\ picked.scheduler \in SchedulerStates /\ picked.scheduler.cooldowns = s.cooldowns
      /\ picked.member # None =>
           picked.member \in q.eligible \ tried /\ picked.member \in MemberSet /\ s.cooldowns[picked.member] <= now
  BY SelectPicks
<1>3. schedulers' = <<picked.scheduler>>
  BY DEF Proceed
<1>4. CASE picked.member # None
  <2> DEFINE m == picked.member
             q2 == [q EXCEPT !.pc = "called", !.called = Append(@, m)]
  <2>1. req' = [req EXCEPT ![r] = q2]
    BY <1>4 DEF Proceed
  <2>2. m \in MemberSet /\ m \in CallPlaces /\ m \notin tried /\ s.cooldowns[m] <= now
    BY <1>2, <1>4 DEF CallPlaces
  <2> DEFINE called2 == Append(q.called, m)
  <2>3. called2 \in Seq(CallPlaces) /\ called2 # <<>>
    BY <1>1, <2>2
  <2>4. q2 \in Asked
    BY <2>3 DEF Asked
  <2>5. /\ q2.pc = "called" /\ q2.called = called2 /\ q2.scheduler = 1 /\ ~q2.direct /\ q2.eligible = q.eligible
        /\ q2.from = {} /\ q2.responded = FALSE
    BY DEF Asked
  <2>6. /\ Len(called2) = Len(q.called) + 1 /\ DOMAIN called2 = 1..Len(q.called) + 1
        /\ called2[Len(q.called) + 1] = m /\ DOMAIN q.called = 1..Len(q.called) /\ Len(q.called) \in Nat
        /\ \A i \in 1..Len(q.called) : called2[i] = q.called[i]
    BY <1>1, <2>2
  <2>7. \A i \in DOMAIN q.called : q.called[i] # m
    BY <2>2 DEF Range
  <2>8. /\ \A i, j \in DOMAIN called2 : called2[i] = called2[j] => i = j
        /\ \A i \in DOMAIN called2 : called2[i] \in MemberSet
    <3> HIDE DEF called2, m
    <3>1. ASSUME NEW i \in DOMAIN called2, NEW j \in DOMAIN called2, called2[i] = called2[j] PROVE i = j
      BY <2>6, <2>7, <3>1
    <3>2. ASSUME NEW i \in DOMAIN called2 PROVE called2[i] \in MemberSet
      BY <2>2, <2>6
    <3> QED BY <3>1, <3>2
  <2> HIDE DEF q2
  <2>9. CallOK(q2)
    BY <2>3, <2>5, <2>8 DEF CallOK
  <2>10. MemberCalled(q, q2, s)
    BY <2>2, <2>5 DEF MemberCalled
  <2> QED BY <1>2, <1>3, <2>1, <2>4, <2>5, <2>9, <2>10
<1>5. CASE picked.member = None
  <2> DEFINE q2 == [q EXCEPT !.pc = "refused", !.retryAt = EarliestRetry(s, q.eligible, tried)]
  <2>1. req' = [req EXCEPT ![r] = q2]
    BY <1>5 DEF Proceed
  <2>2. \A m \in q.eligible : m \in tried \/ s.cooldowns[m] > now
    BY <1>1, <1>5, SelectFindsNone
  <2>3. \A m \in q.eligible : m \in tried \/ s.cooldowns[m] # 0
    BY <1>1, <2>2 DEF SchedulerStates
  <2>4. /\ EarliestRetry(s, q.eligible, tried) \in Int
        /\ EarliestRetry(s, q.eligible, tried) = Min({s.cooldowns[m] : m \in q.eligible})
    BY <1>1, <2>3, EarliestIs
  <2>5. q2 \in Asked
    BY <2>4 DEF Asked
  <2>6. /\ q2.pc = "refused" /\ q2.called = q.called /\ ~q2.direct /\ q2.from = {} /\ q2.responded = FALSE
        /\ q2.eligible = q.eligible /\ q2.retryAt = EarliestRetry(s, q.eligible, tried)
    BY DEF Asked
  <2> HIDE DEF q2
  <2>7. CallOK(q2)
    BY <2>6 DEF CallOK
  <2>8. CallRefused(q, q2, s)
    BY <2>2, <2>4, <2>6 DEF CallRefused
  <2> QED BY <1>2, <1>3, <2>1, <2>5, <2>6, <2>7, <2>8
<1> QED BY <1>4, <1>5

\* What the two action properties of the pooler ask of a step.
Cooled ==
  \A r \in Requests :
    Len(req'[r].called) > Len(req[r].called) /\ ~req'[r].direct => told'[Last(req'[r].called)] <= now
RefusedRightly ==
  \A r \in Requests :
    req'[r].pc = "refused" /\ req[r].pc # "refused" =>
      LET q == req'[r]
      IN /\ \A m \in q.eligible : m \in Range(q.called) \/ told'[m] > now
         /\ q.retryAt = Min({told'[m] : m \in q.eligible})

\* A call that has not been sent goes on, perhaps to its first member ...
AsksOn(r) ==
  /\ req[r].pc \in {"idle", "listing", "routed"}
  /\ req'[r].pc \in {"listing", "routed", "called", "refused", "failed"}
  /\ req'[r].pc = "called" => Len(req'[r].called) = 1
Asking == \A r \in Requests : req'[r] = req[r] \/ AsksOn(r)

\* ... and the loop of infer sends it to one more, or refuses it.
Looped(r) ==
  /\ \A p \in Requests \ {r} : req'[p] = req[p]
  /\ req'[r].pc \in {"called", "refused"}
  /\ req'[r].pc = "called" => Len(req'[r].called) = Len(req[r].called) + 1

\* A call moves on; the refreshes do not.
LEMMA OneCall ==
  ASSUME PoolInv, NEW r \in Requests, NEW q \in Asked, CallOK(q), req' = [req EXCEPT ![r] = q],
         req[r].pc # "listing", UNCHANGED <<catalogue, refreshGeneration, refreshes, newest>>
  PROVE  CallsInv' /\ RefreshInv' /\ RoutesOK(catalogue'.routes)
<1> USE DEF PoolInv
<1>1. \A p \in Requests : req'[p] = IF p = r THEN q ELSE req[p]
  BY DEF CallsInv
<1>2. CallsInv'
  <2>1. req' \in [Requests -> Asked]
    BY DEF CallsInv
  <2>2. \A p \in Requests : CallOK(req'[p])
    BY <1>1 DEF CallsInv
  <2> QED BY <2>1, <2>2 DEF CallsInv
<1>3. \A f \in refreshes : f.by # None => f.by # r /\ f.by \in Requests /\ req'[f.by] = req[f.by]
  <2>1. \A f \in refreshes : f.by \in Requests \cup {None}
    BY DEF RefreshInv
  <2> QED BY <1>1, <2>1 DEF RefreshInv
<1>4. RefreshInv'
  BY <1>3 DEF RefreshInv
<1> QED BY <1>2, <1>4

\* A call that is not sent to another member neither calls one nor is refused.
LEMMA Quiet ==
  ASSUME PoolInv, NEW r \in Requests, NEW q \in Asked, CallOK(q), req' = [req EXCEPT ![r] = q],
         req[r].pc # "listing", q.pc # "refused", Len(q.called) > Len(req[r].called) => q.direct,
         UNCHANGED <<schedulers, schedulerState, catalogue, refreshGeneration, refreshes, told, newest>>
  PROVE  PoolInv' /\ Cooled /\ RefusedRightly
<1>1. CallsInv' /\ RefreshInv' /\ RoutesOK(catalogue'.routes)
  BY OneCall DEF PoolInv
<1>2. \A p \in Requests : req'[p] = IF p = r THEN q ELSE req[p]
  BY DEF PoolInv, CallsInv
<1>3. \A p \in Requests : Len(req[p].called) \in Nat
  BY DEF PoolInv, CallsInv, Asked
<1>4. Cooled /\ RefusedRightly
  BY <1>2, <1>3 DEF Cooled, RefusedRightly
<1> QED BY <1>1, <1>4 DEF PoolInv, SchedulerInv

\* The loop of infer.
LEMMA Loop ==
  ASSUME PoolInv, now \in Nat \ {0}, NEW r \in Requests, NEW q \in Asked, NEW s \in SchedulerStates,
         req[r].pc # "listing", q.scheduler = 1, ~q.direct, ~q.responded, q.from = {}, q.eligible # {},
         q.called = req[r].called, ~req[r].direct, Proceed(r, q, s), told' = s.cooldowns,
         UNCHANGED <<schedulerState, catalogue, refreshGeneration, refreshes, newest>>
  PROVE  PoolInv' /\ Cooled /\ RefusedRightly /\ Looped(r)
<1>0. /\ \A i, j \in DOMAIN q.called : q.called[i] = q.called[j] => i = j
      /\ ~req[r].direct => \A i \in DOMAIN q.called : q.called[i] \in MemberSet
  BY DEF PoolInv, CallsInv, CallOK
<1>1. schedulers = <<schedulers[1]>> /\ req \in [Requests -> Asked]
  BY DEF PoolInv, SchedulerInv, CallsInv
<1>2. PICK q2 \in Asked, s2 \in SchedulerStates :
        /\ req' = [req EXCEPT ![r] = q2] /\ schedulers' = <<s2>> /\ s2.cooldowns = s.cooldowns
        /\ CallOK(q2) /\ ~q2.direct /\ q2.pc # "listing" /\ q2.pc # "done" /\ q2.responded = FALSE
        /\ MemberCalled(q, q2, s) \/ CallRefused(q, q2, s)
  BY <1>0, <1>1, ProceedStep
<1>3. CallsInv' /\ RefreshInv' /\ RoutesOK(catalogue'.routes)
  BY <1>2, OneCall DEF PoolInv
<1>4. SchedulerInv'
  <2>1. schedulers'[1] = s2 /\ s.cooldowns \in [MemberSet -> Nat]
    BY <1>2 DEF SchedulerStates
  <2> QED BY <1>2, <2>1 DEF SchedulerInv, PoolInv
<1>5. \A p \in Requests : req'[p] = IF p = r THEN q2 ELSE req[p]
  BY <1>1, <1>2
<1>6. \A p \in Requests : Len(req[p].called) \in Nat
  BY <1>1 DEF Asked
<1>7. q2.pc = "called" => told'[Last(q2.called)] <= now
  <2>1. SUFFICES ASSUME q2.pc = "called" PROVE told'[Last(q2.called)] <= now
    OBVIOUS
  <2>2. PICK m \in MemberSet : q2.called = Append(q.called, m) /\ s.cooldowns[m] <= now
    BY <1>2, <2>1 DEF MemberCalled, CallRefused
  <2>3. Last(q2.called) = m
    <3>1. q.called \in Seq(CallPlaces)
      BY DEF Asked
    <3> QED BY <2>2, <3>1 DEF Last
  <2> QED BY <2>2, <2>3
<1>8. Cooled
  <2>1. ASSUME Len(q2.called) > Len(req[r].called) PROVE told'[Last(q2.called)] <= now
    <3>1. q2.pc # "called" => q2.called = q.called
      BY <1>2 DEF MemberCalled, CallRefused
    <3> QED BY <1>6, <1>7, <2>1, <3>1
  <2> QED BY <1>5, <1>6, <2>1 DEF Cooled
<1>9. RefusedRightly
  <2>1. q2.pc = "refused" => CallRefused(q, q2, s)
    BY <1>2 DEF MemberCalled
  <2> QED BY <1>5, <2>1 DEF RefusedRightly, CallRefused
<1>10. Looped(r)
  <2>1. q2.pc \in {"called", "refused"}
    BY <1>2 DEF MemberCalled, CallRefused
  <2>2. q2.pc = "called" => Len(q2.called) = Len(req[r].called) + 1
    <3>1. q.called \in Seq(CallPlaces)
      BY DEF Asked
    <3>2. q2.pc = "called" => \E m : q2.called = Append(q.called, m)
      BY <1>2 DEF MemberCalled, CallRefused
    <3> QED BY <3>1, <3>2
  <2> QED BY <1>5, <2>1, <2>2 DEF Looped
<1> QED BY <1>3, <1>4, <1>8, <1>9, <1>10 DEF PoolInv


LEMMA InferDirectStep ==
  ASSUME PoolInv, NEW r \in Requests, NEW account \in Accounts, InferDirect(r, account)
  PROVE  PoolInv' /\ Cooled /\ RefusedRightly /\ Asking
<1> DEFINE q == [req[r] EXCEPT !.pc = "called", !.direct = TRUE, !.called = <<account>>]
<1>1. req[r] \in Asked /\ CallOK(req[r]) /\ req[r].pc = "idle"
  BY DEF InferDirect, PoolInv, CallsInv
<1>2. req' = [req EXCEPT ![r] = q]
  BY DEF InferDirect
<1>3. <<account>> \in Seq(CallPlaces) /\ <<account>> # <<>> /\ DOMAIN <<account>> = {1}
  BY DEF CallPlaces
<1>4. q \in Asked
  BY <1>1, <1>3 DEF Asked
<1>5. /\ q.pc = "called" /\ q.direct = TRUE /\ q.called = <<account>> /\ q.responded = req[r].responded
      /\ q.from = req[r].from
  BY <1>1 DEF Asked
<1> HIDE DEF q
<1>6. ~req[r].responded /\ req[r].from = {}
  BY <1>1 DEF CallOK
<1>7. CallOK(q)
  BY <1>3, <1>5, <1>6 DEF CallOK
<1>8. PoolInv' /\ Cooled /\ RefusedRightly
  BY <1>1, <1>2, <1>4, <1>5, <1>7, Quiet DEF InferDirect
<1>9. \A p \in Requests : req'[p] = IF p = r THEN q ELSE req[p]
  BY <1>2 DEF PoolInv, CallsInv
<1>10. Asking
  BY <1>1, <1>5, <1>9 DEF Asking, AsksOn
<1> QED BY <1>8, <1>10

LEMMA BeginStep ==
  ASSUME PoolInv, now \in Nat \ {0}, NEW r \in Requests, Begin(r)
  PROVE  PoolInv' /\ Cooled /\ RefusedRightly /\ Asking
<1> DEFINE q == req[r]
<1>1. /\ q \in Asked /\ q.pc = "routed" /\ q.scheduler = 1 /\ q.eligible # {} /\ ~q.direct /\ ~q.responded /\ q.from = {}
      /\ q.called = <<>>
  BY DEF Begin, PoolInv, CallsInv, CallOK
<1>2. schedulers[1] \in SchedulerStates /\ told = schedulers[1].cooldowns
  BY DEF PoolInv, SchedulerInv
<1>3. Proceed(r, q, schedulers[1])
  BY <1>1 DEF Begin
<1>4. PoolInv' /\ Cooled /\ RefusedRightly /\ Looped(r)
  BY <1>1, <1>2, <1>3, Loop DEF Begin
<1>5. Asking
  BY <1>1, <1>4 DEF Looped, Asking, AsksOn
<1> QED BY <1>4, <1>5

\* A model that has a route gets it, another goes on as it is.
LEMMA RouteInStep ==
  ASSUME NEW routes, RoutesOK(routes), NEW q \in Asked, CallOK(q), q.called = <<>>, ~q.direct, ~q.responded
  PROVE  LET q2 == RouteIn(routes, q)
         IN /\ q2 \in Asked /\ CallOK(q2) /\ q2.responded = FALSE /\ q2.from = {}
            /\ \/ q2.pc = "called" /\ q2.direct /\ Len(q2.called) = 1
               \/ q2.pc = "routed" /\ ~q2.direct /\ q2.called = <<>> /\ q2.scheduler = 1 /\ q2.eligible # {}
<1> DEFINE q2 == RouteIn(routes, q)
<1>0. q.from = {}
  BY DEF CallOK
<1>1. CASE q.model \in DOMAIN routes
  <2> DEFINE e == routes[q.model].eligible
  <2>1. q2 = [q EXCEPT !.pc = "routed", !.eligible = e, !.scheduler = 1]
    BY <1>1 DEF RouteIn, RoutesOK
  <2>2. e \subseteq MemberSet /\ e # {}
    BY <1>1 DEF RoutesOK
  <2> HIDE DEF e
  <2>3. q2 \in Asked
    BY <2>1, <2>2 DEF Asked
  <2>4. /\ q2.pc = "routed" /\ ~q2.direct /\ q2.called = <<>> /\ q2.scheduler = 1 /\ q2.eligible = e
        /\ q2.responded = FALSE /\ q2.from = {}
    BY <1>0, <2>1 DEF Asked
  <2> HIDE DEF q2
  <2>5. CallOK(q2)
    BY <2>2, <2>4 DEF CallOK
  <2> QED BY <2>2, <2>3, <2>4, <2>5 DEF q2
<1>2. CASE q.model \notin DOMAIN routes
  <2>1. q2 = [q EXCEPT !.pc = "called", !.direct = TRUE, !.called = <<None>>]
    BY <1>2 DEF RouteIn
  <2>2. <<None>> \in Seq(CallPlaces) /\ <<None>> # <<>> /\ DOMAIN <<None>> = {1}
    BY DEF CallPlaces
  <2>3. q2 \in Asked
    BY <2>1, <2>2 DEF Asked
  <2>4. q2.pc = "called" /\ q2.direct = TRUE /\ q2.called = <<None>> /\ q2.responded = FALSE /\ q2.from = {}
    BY <1>0, <2>1 DEF Asked
  <2> HIDE DEF q2
  <2>5. CallOK(q2)
    BY <2>2, <2>4 DEF CallOK
  <2> QED BY <2>3, <2>4, <2>5 DEF q2
<1> QED BY <1>1, <1>2

\* A refresh begins, for a call or for nobody.
LEMMA RefreshBegins ==
  ASSUME PoolInv, NEW by \in Requests \cup {None},
         \A f \in refreshes : f.by # None => f.by # by /\ req'[f.by].pc = "listing",
         by # None => req'[by].pc = "listing",
         refreshGeneration' = refreshGeneration + 1, refreshes' = refreshes \cup {Fresh(by)},
         UNCHANGED <<catalogue, newest>>
  PROVE  RefreshInv'
<1> DEFINE fresh == Fresh(by)
<1>1. /\ refreshGeneration \in Nat /\ fresh = [generation |-> refreshGeneration + 1, by |-> by]
      /\ fresh.generation = refreshGeneration' /\ fresh.by = by
      /\ fresh \in [generation : Nat, by : Requests \cup {None}]
  BY DEF PoolInv, RefreshInv, Fresh
<1>2. newest'.generation \in Nat /\ newest'.generation < refreshGeneration'
  BY <1>1 DEF PoolInv, RefreshInv
<1> HIDE DEF fresh
<1>3. \A f \in refreshes' :
         /\ f \in [generation : Nat, by : Requests \cup {None}]
         /\ f.generation <= refreshGeneration' /\ f.generation # newest'.generation
         /\ f.by # None => req'[f.by].pc = "listing"
  BY <1>1, <1>2 DEF PoolInv, RefreshInv, fresh
<1>4. \A f \in refreshes : f.generation # fresh.generation /\ ~(f.by = fresh.by /\ f.by # None)
  BY <1>1 DEF PoolInv, RefreshInv
<1>5. \A f, g \in refreshes' : f.generation = g.generation \/ (f.by = g.by /\ f.by # None) => f = g
  BY <1>4 DEF PoolInv, RefreshInv, fresh
<1>6. fresh \in refreshes'
  BY DEF fresh
<1> QED BY <1>1, <1>2, <1>3, <1>5, <1>6 DEF RefreshInv

LEMMA BeginRefreshStep == ASSUME PoolInv, BeginRefresh PROVE PoolInv' /\ Cooled /\ RefusedRightly
<1> USE DEF BeginRefresh
<1>1. RefreshInv'
  BY RefreshBegins DEF PoolInv, RefreshInv
<1>2. SchedulerInv' /\ RoutesOK(catalogue'.routes) /\ CallsInv'
  BY DEF PoolInv, SchedulerInv, CallsInv
<1>3. Cooled /\ RefusedRightly
  <2>1. \A r \in Requests : Len(req[r].called) \in Nat
    BY DEF PoolInv, CallsInv, Asked
  <2> QED BY <2>1 DEF Cooled, RefusedRightly
<1> QED BY <1>1, <1>2, <1>3 DEF PoolInv

LEMMA InferStep ==
  ASSUME PoolInv, now \in Nat \ {0}, NEW r \in Requests, NEW model \in Models, Infer(r, model)
  PROVE  PoolInv' /\ Cooled /\ RefusedRightly /\ Asking
<1> DEFINE q == [req[r] EXCEPT !.model = model]
           routed == RouteIn(catalogue.routes, q)
<1>1. req[r] \in Asked /\ CallOK(req[r]) /\ req[r].pc = "idle"
  BY DEF Infer, PoolInv, CallsInv
<1>2. /\ q \in Asked /\ q.pc = "idle" /\ q.called = <<>> /\ q.called = req[r].called
      /\ ~q.direct /\ ~q.responded /\ q.from = {} /\ ~req[r].direct
  BY <1>1 DEF Asked, CallOK
<1>3. CallOK(q)
  BY <1>2 DEF CallOK
<1>4. CASE ~catalogue.known
  <2> DEFINE q2 == [q EXCEPT !.pc = "listing"]
  <2>1. /\ req' = [req EXCEPT ![r] = q2] /\ refreshGeneration' = refreshGeneration + 1
        /\ refreshes' = refreshes \cup {Fresh(r)}
        /\ UNCHANGED <<schedulers, schedulerState, catalogue, told, newest>>
    BY <1>4 DEF Infer
  <2>2. /\ q2 \in Asked /\ q2.pc = "listing" /\ q2.called = <<>> /\ ~q2.direct /\ ~q2.responded /\ q2.from = {}
    BY <1>2 DEF Asked
  <2> HIDE DEF q2
  <2>3. CallOK(q2)
    BY <2>2 DEF CallOK
  <2>4. \A p \in Requests : req'[p] = IF p = r THEN q2 ELSE req[p]
    BY <2>1 DEF PoolInv, CallsInv
  <2>5. CallsInv'
    BY <2>1, <2>2, <2>3, <2>4 DEF PoolInv, CallsInv
  <2>6. \A f \in refreshes : f.by # None => f.by # r /\ req'[f.by].pc = "listing"
    <3>1. \A f \in refreshes : f.by \in Requests \cup {None}
      BY DEF PoolInv, RefreshInv
    <3> QED BY <1>1, <2>4, <3>1 DEF PoolInv, RefreshInv
  <2>7. RefreshInv'
    BY <2>1, <2>2, <2>4, <2>6, RefreshBegins
  <2>8. Cooled /\ RefusedRightly
    <3>1. \A p \in Requests : Len(req[p].called) \in Nat
      BY DEF PoolInv, CallsInv, Asked
    <3> QED BY <1>2, <2>2, <2>4, <3>1 DEF Cooled, RefusedRightly
  <2>9. SchedulerInv' /\ RoutesOK(catalogue'.routes)
    BY <2>1 DEF PoolInv, SchedulerInv
  <2>10. Asking
    BY <1>1, <2>2, <2>4 DEF Asking, AsksOn
  <2> QED BY <2>5, <2>7, <2>8, <2>9, <2>10 DEF PoolInv
<1>5. CASE catalogue.known
  <2>1. /\ routed \in Asked /\ CallOK(routed) /\ routed.responded = FALSE /\ routed.from = {}
        /\ \/ routed.pc = "called" /\ routed.direct /\ Len(routed.called) = 1
           \/ /\ routed.pc = "routed" /\ ~routed.direct /\ routed.called = <<>>
              /\ routed.scheduler = 1 /\ routed.eligible # {}
    <3>1. RoutesOK(catalogue.routes)
      BY DEF PoolInv
    <3> HIDE DEF q
    <3> QED BY <1>2, <1>3, <3>1, RouteInStep
  <2>2. UNCHANGED <<schedulerState, catalogue, refreshGeneration, refreshes, told, newest>>
    BY <1>5 DEF Infer
  <2>3. CASE routed.direct
    <3>1. req' = [req EXCEPT ![r] = routed] /\ UNCHANGED schedulers
      BY <1>5, <2>3 DEF Infer
    <3> HIDE DEF routed
    <3>2. \A p \in Requests : req'[p] = IF p = r THEN routed ELSE req[p]
      BY <3>1 DEF PoolInv, CallsInv
    <3>3. Asking
      BY <1>1, <2>1, <2>3, <3>2 DEF Asking, AsksOn
    <3> QED BY <1>1, <2>1, <2>2, <2>3, <3>1, <3>3, Quiet
  <2>4. CASE ~routed.direct
    <3>1. Proceed(r, routed, schedulers[1])
      BY <1>5, <2>1, <2>4 DEF Infer
    <3>2. schedulers[1] \in SchedulerStates /\ told' = schedulers[1].cooldowns
      BY <2>2 DEF PoolInv, SchedulerInv
    <3>3. /\ routed \in Asked /\ routed.called = req[r].called /\ ~req[r].direct /\ req[r].pc # "listing"
          /\ routed.scheduler = 1 /\ ~routed.direct /\ ~routed.responded /\ routed.from = {} /\ routed.eligible # {}
      BY <1>1, <1>2, <2>1, <2>4
    <3> HIDE DEF routed, q
    <3>5. PoolInv' /\ Cooled /\ RefusedRightly /\ Looped(r)
      BY <2>2, <3>1, <3>2, <3>3, Loop
    <3>4. Asking
      <4>1. Len(req[r].called) + 1 = 1 /\ req[r].pc = "idle"
        BY <1>1, <1>2
      <4>2. AsksOn(r)
        BY <3>5, <4>1 DEF Looped, AsksOn
      <4>3. \A p \in Requests : p # r => req'[p] = req[p]
        BY <3>5 DEF Looped
      <4> QED BY <4>2, <4>3 DEF Asking
    <3> QED BY <3>4, <3>5
  <2> QED BY <2>3, <2>4
<1> QED BY <1>4, <1>5

\* A refresh ends with a result, whoever is newer.
LEMMA Settles ==
  ASSUME PoolInv, NEW f \in refreshes, NEW result, Settle(f, result), UNCHANGED refreshGeneration,
         \A r \in Requests : r # f.by /\ req[r].pc = "listing" => req'[r].pc = "listing"
  PROVE  RefreshInv' /\ (catalogue' = catalogue \/ catalogue' = result)
<1>1. /\ refreshes' = refreshes \ {f}
      /\ catalogue' = IF f.generation = refreshGeneration THEN result ELSE catalogue
      /\ newest' = IF f.generation > newest.generation
                   THEN [generation |-> f.generation, result |-> result] ELSE newest
  BY DEF Settle, Later
<1>2. /\ f.generation \in Nat /\ f.generation <= refreshGeneration /\ f.generation # newest.generation
      /\ refreshGeneration \in Nat /\ newest.generation \in Nat /\ newest.generation <= refreshGeneration
  BY DEF PoolInv, RefreshInv
<1>3. newest'.generation \in {f.generation, newest.generation}
  BY <1>1
<1>4. ASSUME NEW g \in refreshes'
      PROVE  /\ g \in [generation : Nat, by : Requests \cup {None}]
             /\ g.generation <= refreshGeneration' /\ g.generation # newest'.generation
             /\ g.by # None => req'[g.by].pc = "listing"
  <2>1. g \in refreshes /\ g # f
    BY <1>1
  <2>2. /\ g \in [generation : Nat, by : Requests \cup {None}] /\ g.generation <= refreshGeneration
        /\ g.generation # newest.generation /\ g.generation # f.generation
        /\ g.by # None => g.by # f.by /\ req[g.by].pc = "listing"
    BY <2>1 DEF PoolInv, RefreshInv
  <2>3. g.by # None => g.by \in Requests
    BY <2>2
  <2> QED BY <1>3, <2>2, <2>3
<1>5. \A g, h \in refreshes' : g.generation = h.generation \/ (g.by = h.by /\ g.by # None) => g = h
  BY <1>1 DEF PoolInv, RefreshInv
<1>6. CASE f.generation = refreshGeneration
  <2>1. newest'.generation = refreshGeneration' /\ catalogue' = newest'.result
    BY <1>1, <1>2, <1>6
  <2> QED BY <1>1, <1>2, <1>4, <1>5, <2>1 DEF RefreshInv
<1>7. CASE f.generation # refreshGeneration
  <2>1. catalogue' = catalogue
    BY <1>1, <1>7
  <2>2. newest'.generation = refreshGeneration => newest' = newest
    BY <1>1, <1>2, <1>7
  <2>3. newest'.generation # refreshGeneration => newest.generation # refreshGeneration
    BY <1>1, <1>2, <1>7
  <2>4. newest'.generation # refreshGeneration => \E g \in refreshes' : g.generation = refreshGeneration
    BY <1>1, <1>7, <2>3 DEF PoolInv, RefreshInv
  <2>5. newest'.generation = refreshGeneration => catalogue' = newest'.result
    BY <2>1, <2>2 DEF PoolInv, RefreshInv
  <2> QED BY <1>1, <1>2, <1>3, <1>4, <1>5, <2>4, <2>5 DEF RefreshInv
<1> QED BY <1>1, <1>6, <1>7

\* Only the call that waited for it goes on.
LEMMA WaiterGoesOn ==
  ASSUME PoolInv, NEW f \in refreshes, f.by # None, NEW q \in Asked, CallOK(q), req' = [req EXCEPT ![f.by] = q],
         q.pc \in {"routed", "called", "failed"}, Len(q.called) > 0 => q.direct,
         q.pc = "called" => Len(q.called) = 1, UNCHANGED told
  PROVE  /\ CallsInv' /\ Cooled /\ RefusedRightly /\ Asking
         /\ \A r \in Requests : r # f.by /\ req[r].pc = "listing" => req'[r].pc = "listing"
<1>1. f.by \in Requests /\ req[f.by].pc = "listing"
  BY DEF PoolInv, RefreshInv
<1>2. \A r \in Requests : req'[r] = IF r = f.by THEN q ELSE req[r]
  BY <1>1 DEF PoolInv, CallsInv
<1>3. CallsInv'
  BY <1>1, <1>2 DEF PoolInv, CallsInv
<1>4. /\ \A r \in Requests : Len(req[r].called) \in Nat
      /\ req[f.by].called = <<>>
  BY <1>1 DEF PoolInv, CallsInv, CallOK, Asked
<1>5. Cooled /\ RefusedRightly
  BY <1>1, <1>2, <1>4 DEF Cooled, RefusedRightly
<1>6. Asking
  BY <1>1, <1>2 DEF Asking, AsksOn
<1> QED BY <1>2, <1>3, <1>5, <1>6

LEMMA ListedStep ==
  ASSUME PoolInv, NEW f \in refreshes, NEW listing, Listed(f, listing)
  PROVE  PoolInv' /\ Cooled /\ RefusedRightly /\ Asking
<1> DEFINE active == ActivateCatalogue(listing)
<1>1. SchedulerOf = 1 /\ ~(1 > Len(schedulers))
  <2>1. schedulerState = [memberIds |-> Members, scheduler |-> 1] /\ schedulers = <<schedulers[1]>>
    BY DEF PoolInv, SchedulerInv
  <2>2. Len(schedulers) = 1
    BY <2>1
  <2> QED BY <2>1, <2>2 DEF SchedulerOf
<1>2. schedulers' = schedulers /\ schedulerState' = schedulerState /\ UNCHANGED <<refreshGeneration, told>>
  BY <1>1 DEF Listed, PoolInv, SchedulerInv
<1>3. RoutesOK(active.routes)
  <2>1. \A m \in Pools(listing) : m \in Models /\ Cardinality(listing.members[m] \cap MemberSet) >= 2
    BY DEF Pools
  <2>2. \A m \in Pools(listing) : listing.members[m] \cap MemberSet # {}
    BY <2>1, FS_EmptySet
  <2>3. active.routes = [m \in Pools(listing) |->
                           [eligible |-> listing.members[m] \cap MemberSet, scheduler |-> 1]]
    BY <1>1 DEF ActivateCatalogue
  <2> HIDE DEF active
  <2>4. DOMAIN active.routes = Pools(listing)
    BY <2>3
  <2>5. \A m \in Pools(listing) : /\ active.routes[m].scheduler = 1
                                  /\ active.routes[m].eligible = listing.members[m] \cap MemberSet
    BY <2>3
  <2> QED BY <2>1, <2>2, <2>4, <2>5 DEF RoutesOK
<1>4. Settle(f, active)
  BY DEF Listed
<1>5. /\ CallsInv' /\ Cooled /\ RefusedRightly
      /\ Asking /\ \A r \in Requests : r # f.by /\ req[r].pc = "listing" => req'[r].pc = "listing"
  <2>1. CASE f.by = None
    <3>1. req' = req
      BY <2>1 DEF Listed
    <3>2. \A r \in Requests : Len(req[r].called) \in Nat
      BY DEF PoolInv, CallsInv, Asked
    <3> QED BY <3>1, <3>2 DEF PoolInv, CallsInv, Cooled, RefusedRightly, Asking
  <2>2. CASE f.by # None
    <3> DEFINE q == req[f.by]
               q2 == RouteIn(active.routes, q)
    <3>1. f.by \in Requests /\ q.pc = "listing" /\ q \in Asked /\ CallOK(q)
      BY <2>2 DEF PoolInv, RefreshInv, CallsInv
    <3>2. q.called = <<>> /\ ~q.direct /\ ~q.responded
      BY <3>1 DEF CallOK
    <3>3. req' = [req EXCEPT ![f.by] = q2]
      BY <2>2 DEF Listed
    <3> HIDE DEF active, q
    <3>4. /\ q2 \in Asked /\ CallOK(q2)
          /\ (q2.pc = "called" /\ q2.direct /\ Len(q2.called) = 1) \/ (q2.pc = "routed" /\ q2.called = <<>>)
      BY <1>3, <3>1, <3>2, RouteInStep
    <3> HIDE DEF q2
    <3>5. /\ q2.pc \in {"routed", "called", "failed"} /\ (Len(q2.called) > 0 => q2.direct)
          /\ q2.pc = "called" => Len(q2.called) = 1
      BY <3>4
    <3> QED BY <1>2, <2>2, <3>3, <3>4, <3>5, WaiterGoesOn
  <2> QED BY <2>1, <2>2
<1>6. RefreshInv' /\ (catalogue' = catalogue \/ catalogue' = active)
  BY <1>2, <1>4, <1>5, Settles
<1>7. RoutesOK(catalogue'.routes) /\ SchedulerInv'
  BY <1>2, <1>3, <1>6 DEF PoolInv, SchedulerInv
<1> QED BY <1>5, <1>6, <1>7 DEF PoolInv

LEMMA ListFailsStep ==
  ASSUME PoolInv, NEW f \in refreshes, ListFails(f) PROVE PoolInv' /\ Cooled /\ RefusedRightly /\ Asking
<1>1. UNCHANGED <<schedulers, schedulerState, refreshGeneration, told>> /\ Settle(f, NoCatalogue)
  BY DEF ListFails
<1>2. RoutesOK(NoCatalogue.routes)
  <2>1. DOMAIN NoCatalogue.routes = {}
    BY DEF NoCatalogue
  <2> QED BY <2>1 DEF RoutesOK
<1>3. /\ CallsInv' /\ Cooled /\ RefusedRightly
      /\ Asking /\ \A r \in Requests : r # f.by /\ req[r].pc = "listing" => req'[r].pc = "listing"
  <2>1. CASE f.by = None
    <3>1. req' = req
      BY <2>1 DEF ListFails
    <3>2. \A r \in Requests : Len(req[r].called) \in Nat
      BY DEF PoolInv, CallsInv, Asked
    <3> QED BY <3>1, <3>2 DEF PoolInv, CallsInv, Cooled, RefusedRightly, Asking
  <2>2. CASE f.by # None
    <3> DEFINE q == req[f.by]
               q2 == [q EXCEPT !.pc = "failed"]
    <3>1. f.by \in Requests /\ q.pc = "listing" /\ q \in Asked /\ CallOK(q)
      BY <2>2 DEF PoolInv, RefreshInv, CallsInv
    <3>2. q.called = <<>> /\ ~q.direct /\ ~q.responded /\ q.from = {}
      BY <3>1 DEF CallOK
    <3>3. req' = [req EXCEPT ![f.by] = q2]
      BY <2>2 DEF ListFails
    <3>4. /\ q2 \in Asked /\ q2.pc = "failed" /\ q2.called = <<>> /\ ~q2.direct /\ ~q2.responded /\ q2.from = {}
      BY <3>1, <3>2 DEF Asked
    <3> HIDE DEF q2
    <3>5. CallOK(q2) /\ ~(Len(q2.called) > 0)
      BY <3>4 DEF CallOK
    <3> QED BY <1>1, <2>2, <3>3, <3>4, <3>5, WaiterGoesOn
  <2> QED BY <2>1, <2>2
<1>4. RefreshInv' /\ (catalogue' = catalogue \/ catalogue' = NoCatalogue)
  BY <1>1, <1>3, Settles
<1>5. RoutesOK(catalogue'.routes) /\ SchedulerInv'
  BY <1>1, <1>2, <1>4 DEF PoolInv, SchedulerInv
<1> QED BY <1>3, <1>4, <1>5 DEF PoolInv

\* Responses, the end of a call and its failure.
LEMMA RespondedStep ==
  ASSUME NEW q \in Asked, CallOK(q), q.pc = "called"
  PROVE  LET q2 == Responded(q)
         IN /\ q2 \in Asked /\ CallOK(q2) /\ q2.pc = "called" /\ q2.called = q.called /\ q2.direct = q.direct
<1> DEFINE q2 == Responded(q)
           last == Last(q.called)
<1>1. last \in CallPlaces
  <2>1. q.called \in Seq(CallPlaces) /\ q.called # <<>>
    BY DEF Asked, CallOK
  <2> QED BY <2>1 DEF Last
<1>2. q2 = [q EXCEPT !.responded = TRUE, !.from = q.from \cup {last}]
  BY DEF Responded
<1> HIDE DEF last
<1>3. /\ q2 \in Asked /\ q2.pc = "called" /\ q2.called = q.called /\ q2.direct = q.direct /\ q2.scheduler = q.scheduler
      /\ q2.eligible = q.eligible /\ q2.responded = TRUE /\ q2.from = q.from \cup {last}
  <2> DEFINE from == q.from \cup {last}
  <2>1. from \in SUBSET CallPlaces
    BY <1>1 DEF Asked
  <2>2. q2 = [q EXCEPT !.responded = TRUE, !.from = from]
    BY <1>2
  <2> HIDE DEF from, q2
  <2>3. /\ q2 \in Asked /\ q2.pc = "called" /\ q2.called = q.called /\ q2.direct = q.direct
        /\ q2.scheduler = q.scheduler /\ q2.eligible = q.eligible /\ q2.responded = TRUE /\ q2.from = from
    BY <2>1, <2>2 DEF Asked
  <2> QED BY <2>3 DEF from
<1> HIDE DEF q2
<1>4. CallOK(q2)
  BY <1>3 DEF CallOK, last
<1> QED BY <1>3, <1>4 DEF q2

LEMMA EndsOK ==
  ASSUME NEW q \in Asked, CallOK(q), q.pc = "called", NEW pc \in {"done", "failed"}
  PROVE  LET q2 == [q EXCEPT !.pc = pc]
         IN q2 \in Asked /\ CallOK(q2) /\ q2.pc = pc /\ q2.called = q.called /\ q2.direct = q.direct
<1> DEFINE q2 == [q EXCEPT !.pc = pc]
<1>1. /\ q2 \in Asked /\ q2.pc = pc /\ q2.called = q.called /\ q2.direct = q.direct
      /\ q2.responded = q.responded /\ q2.from = q.from
  BY DEF Asked
<1> HIDE DEF q2
<1>2. CallOK(q2)
  BY <1>1 DEF CallOK
<1> QED BY <1>1, <1>2 DEF q2

LEMMA AnswerStep ==
  ASSUME PoolInv, NEW r \in Requests, Respond(r) \/ (\E last \in BOOLEAN : End(r, last)) \/ Break(r)
  PROVE  PoolInv' /\ Cooled /\ RefusedRightly
<1> DEFINE q == req[r]
           s == Responded(q)
<1>1. q \in Asked /\ CallOK(q) /\ q.pc = "called" /\ ~(Len(q.called) > Len(q.called))
  BY DEF Respond, End, Break, Update, PoolInv, CallsInv, Asked
<1>2. s \in Asked /\ CallOK(s) /\ s.pc = "called" /\ s.called = q.called
  BY <1>1, RespondedStep
<1>3. ASSUME NEW q2 \in Asked, CallOK(q2), q2.pc # "refused", q2.called = q.called, Update(r, q2)
      PROVE  PoolInv' /\ Cooled /\ RefusedRightly
  BY <1>1, <1>3, Quiet DEF Update
<1>4. CASE Respond(r)
  BY <1>2, <1>3, <1>4 DEF Respond
<1>5. CASE \E last \in BOOLEAN : End(r, last)
  <2>1. PICK last \in BOOLEAN : End(r, last)
    BY <1>5
  <2>2. CASE last
    <3>1. Update(r, [s EXCEPT !.pc = "done"])
      BY <2>1, <2>2 DEF End
    <3> HIDE DEF s
    <3>2. LET q2 == [s EXCEPT !.pc = "done"] IN q2 \in Asked /\ CallOK(q2) /\ q2.pc = "done" /\ q2.called = s.called
      BY <1>2, EndsOK
    <3> QED BY <1>2, <1>3, <3>1, <3>2
  <2>3. CASE ~last
    <3>1. Update(r, [q EXCEPT !.pc = "done"])
      BY <2>1, <2>3 DEF End
    <3>2. LET q2 == [q EXCEPT !.pc = "done"] IN q2 \in Asked /\ CallOK(q2) /\ q2.pc = "done" /\ q2.called = q.called
      BY <1>1, EndsOK
    <3> QED BY <1>3, <3>1, <3>2
  <2> QED BY <2>2, <2>3
<1>6. CASE Break(r)
  <2>1. Update(r, [q EXCEPT !.pc = "failed"])
    BY <1>6 DEF Break
  <2>2. LET q2 == [q EXCEPT !.pc = "failed"] IN q2 \in Asked /\ CallOK(q2) /\ q2.pc = "failed" /\ q2.called = q.called
    BY <1>1, EndsOK
  <2> QED BY <1>3, <2>1, <2>2
<1> QED BY <1>4, <1>5, <1>6

LEMMA ExhaustedStep ==
  ASSUME PoolInv, now \in Nat \ {0}, NEW r \in Requests, NEW t \in RetryTimes, Exhausted(r, t)
  PROVE  PoolInv' /\ Cooled /\ RefusedRightly /\ Looped(r)
<1> DEFINE q == req[r]
           m == Last(q.called)
           s == Cool(schedulers[1], m, t)
<1>1. /\ q \in Asked /\ q.pc = "called" /\ ~q.direct /\ ~q.responded /\ q.scheduler = 1 /\ q.eligible # {}
      /\ q.from = {} /\ q.called # <<>> /\ \A i \in DOMAIN q.called : q.called[i] \in MemberSet
  BY DEF Exhausted, MayMove, PoolInv, CallsInv, CallOK
<1>2. m \in MemberSet
  <2>1. q.called \in Seq(CallPlaces)
    BY <1>1 DEF Asked
  <2> QED BY <1>1, <2>1 DEF Last
<1>3. schedulers[1] \in SchedulerStates /\ told = schedulers[1].cooldowns /\ told \in [MemberSet -> Nat]
  BY DEF PoolInv, SchedulerInv
<1>4. t \in Nat /\ Max({told[m], t}) \in Nat
  <2>1. t \in Nat /\ told[m] \in Nat
    BY <1>2, <1>3, ProviderAssumption
  <2> QED BY <2>1, MaxOfTwo
<1>5. told' = [told EXCEPT ![m] = Max({told[m], t})]
  BY DEF Exhausted
<1>6. s = [schedulers[1] EXCEPT !.cooldowns = told']
  BY <1>3, <1>5 DEF Cool, SchedulerStates
<1>7. told' \in [MemberSet -> Nat]
  BY <1>3, <1>4, <1>5
<1>8. s \in SchedulerStates /\ told' = s.cooldowns
  BY <1>3, <1>6, <1>7 DEF SchedulerStates
<1>9. Proceed(r, q, s)
  BY <1>1 DEF Exhausted
<1>10. UNCHANGED <<schedulerState, catalogue, refreshGeneration, refreshes, newest>>
  BY DEF Exhausted
<1> HIDE DEF s
<1> QED BY <1>1, <1>8, <1>9, <1>10, Loop


-----------------------------------------------------------------------------
(* The composition                                                          *)

\* A call in the gateway is recorded when it leaves it, unless it fails.
AuditOK(r) ==
  /\ gw[r].pc # "idle" => req[r].pc = "called"
  /\ req[r].pc \in {"idle", "listing", "routed"} => log[r] = 0
  /\ req[r].pc = "called" /\ gw[r].pc # "closed" => log[r] + 1 = Len(req[r].called)
  /\ gw[r].pc = "closed" /\ gw[r].outcome # "failed" => log[r] = Len(req[r].called)
  /\ req[r].pc = "done" => log[r] = Len(req[r].called)
AuditInv == \A r \in Requests : AuditOK(r)

IInv == GateInv /\ PoolInv /\ AuditInv

\* What a step of the pooler alone may do.
LEMMA AuditOfAsking == ASSUME IInv, Asking, UNCHANGED gatevars PROVE AuditInv'
<1>1. \A r \in Requests : req'[r] = req[r] => AuditOK(r)'
  BY DEF IInv, AuditInv, AuditOK, gatevars
<1>2. ASSUME NEW r \in Requests, AsksOn(r) PROVE AuditOK(r)'
  <2>1. log[r] = 0 /\ gw[r].pc = "idle" /\ gw' = gw /\ log' = log
    BY <1>2 DEF IInv, AuditInv, AuditOK, gatevars, AsksOn
  <2>2. log'[r] = 0 /\ gw'[r].pc = "idle"
    BY <2>1
  <2>3. req'[r].pc \notin {"done"} /\ (req'[r].pc = "called" => log'[r] + 1 = Len(req'[r].called))
    BY <1>2, <2>2 DEF AsksOn
  <2> QED BY <2>2, <2>3 DEF AuditOK
<1> QED BY <1>1, <1>2 DEF Asking, AuditInv

\* What goes on in the gateway while nothing is recorded.
LEMMA AuditOfCalls ==
  ASSUME IInv, UNCHANGED log,
         \A r \in Requests : req'[r].pc = req[r].pc /\ req'[r].called = req[r].called,
         \A r \in Requests : \/ gw'[r] = gw[r]
                             \/ gw[r].pc \notin {"idle", "closed"} /\ gw'[r].pc # "closed"
  PROVE  AuditInv'
BY DEF IInv, AuditInv, AuditOK

LEMMA AuditOfRefresh ==
  ASSUME IInv, NEW a \in Names, UNCHANGED req,
         RefreshLocked(a) \/ RefreshFails(a) \/ RefreshTimesOut(a)
           \/ \E life \in 1..MaxLife, synced \in BOOLEAN : RefreshAnswered(a, life, synced)
  PROVE  AuditInv'
<1>1. UNCHANGED log
  BY DEF RefreshLocked, RefreshFails, RefreshTimesOut, RefreshAnswered
<1>2. gw' = gw \/ \E credential : Deliver(a, credential)
  BY DEF RefreshLocked, RefreshFails, RefreshTimesOut, RefreshAnswered
<1>3. ASSUME NEW credential, Deliver(a, credential), NEW r \in Requests
      PROVE  gw'[r] = gw[r] \/ (gw[r].pc \notin {"idle", "closed"} /\ gw'[r].pc # "closed")
  <2>1. CASE r \notin Joined(a)
    BY <1>3, <2>1 DEF Deliver
  <2>2. CASE r \in Joined(a)
    <3>1. gw[r] \in Calls /\ gw[r].pc = "refresh"
      BY <2>2 DEF Joined, IInv, GateInv, GateTypeOK
    <3>2. gw'[r] \in {[gw[r] EXCEPT !.pc = "closing"], [gw[r] EXCEPT !.pc = "stream", !.credential = credential]}
      BY <1>3, <2>2 DEF Deliver
    <3> QED BY <3>1, <3>2 DEF Calls
  <2> QED BY <2>1, <2>2
<1> QED BY <1>1, <1>2, <1>3, AuditOfCalls

\* A call's own steps: the others are not affected.
LEMMA AuditOfOne ==
  ASSUME IInv, NEW r \in Requests, AuditOK(r)',
         \A p \in Requests : p # r => req'[p] = req[p] /\ gw'[p] = gw[p] /\ log'[p] = log[p]
  PROVE  AuditInv'
BY DEF IInv, AuditInv, AuditOK

LEMMA DispatchAudited == ASSUME IInv, NEW r \in Requests, Dispatch(r) PROVE AuditInv'
<1> DEFINE account == Last(req[r].called)
<1>1. req[r].pc = "called" /\ gw[r].pc = "idle" /\ UNCHANGED <<req, log>> /\ Accept(r, account)
  BY DEF Dispatch, Accept, poolvars
<1>2. \A p \in Requests : p # r => gw'[p] = gw[p]
  BY <1>1 DEF Accept, IInv, GateInv, GateTypeOK
<1>3. gw'[r].pc = "closed" => gw'[r].outcome = "failed"
  BY <1>1 DEF Accept, IInv, GateInv, GateTypeOK, NewCall
<1>4. AuditOK(r)'
  BY <1>1, <1>3 DEF IInv, AuditInv, AuditOK
<1> QED BY <1>1, <1>2, <1>4, AuditOfOne

LEMMA YieldAudited == ASSUME IInv, NEW r \in Requests, Yield(r) PROVE AuditInv'
<1>1. /\ gw[r].pc = "stream" /\ UNCHANGED log
      /\ gw' = [gw EXCEPT ![r] = [gw[r] EXCEPT !.held = TRUE, !.yields = @ + 1]]
  BY DEF Yield, BackendYields, MoveCall
<1>2. gw[r] \in Calls /\ gw \in [Requests -> Calls]
  BY DEF IInv, GateInv, GateTypeOK
<1>3. gw'[r].pc = "stream" /\ \A p \in Requests : p # r => gw'[p] = gw[p]
  BY <1>1, <1>2 DEF Calls
<1>4. \A p \in Requests : req'[p].pc = req[p].pc /\ req'[p].called = req[p].called
  <2>1. CASE gw[r].held
    <3>1. req' = [req EXCEPT ![r] = Responded(req[r])] /\ req[r].pc = "called"
      BY <2>1 DEF Yield, Respond, Update
    <3>2. req[r] \in Asked /\ CallOK(req[r]) /\ req \in [Requests -> Asked]
      BY DEF IInv, PoolInv, CallsInv
    <3>3. Responded(req[r]).pc = "called" /\ Responded(req[r]).called = req[r].called
      BY <3>1, <3>2, RespondedStep
    <3> QED BY <3>1, <3>2, <3>3
  <2>2. CASE ~gw[r].held
    BY <2>2 DEF Yield, poolvars
  <2> QED BY <2>1, <2>2
<1> QED BY <1>1, <1>3, <1>4, AuditOfCalls

LEMMA FinishAudited == ASSUME IInv, NEW r \in Requests, Finish(r) PROVE AuditInv'
<1>1. PICK o \in {"ok", "exhausted", "failed"} : BackendEnds(r, o)
  BY DEF Finish
<1>2. /\ gw[r].pc = "stream" /\ UNCHANGED <<log, req>>
      /\ gw' = [gw EXCEPT ![r] = [gw[r] EXCEPT !.pc = "closing", !.outcome = o]]
  BY <1>1 DEF Finish, BackendEnds, MoveCall, poolvars
<1>3. gw[r] \in Calls /\ gw \in [Requests -> Calls]
  BY DEF IInv, GateInv, GateTypeOK
<1>4. gw'[r].pc = "closing" /\ \A p \in Requests : p # r => gw'[p] = gw[p]
  BY <1>2, <1>3 DEF Calls
<1> QED BY <1>2, <1>4, AuditOfCalls

LEMMA AuditAudited == ASSUME IInv, NEW r \in Requests, Audit(r) PROVE AuditInv'
<1>1. PICK w \in BOOLEAN : Record(r, w)
  BY DEF Audit
<1> DEFINE done == w /\ ~auditFailure
           call == [gw[r] EXCEPT !.pc = "closed", !.outcome = IF done THEN @ ELSE "failed"]
<1>2. gw[r] \in Calls /\ gw \in [Requests -> Calls] /\ log \in [Requests -> Nat]
  BY DEF IInv, GateInv, GateTypeOK
<1>3. /\ gw[r].pc = "closing" /\ UNCHANGED req /\ gw' = [gw EXCEPT ![r] = call]
      /\ log' = IF done THEN [log EXCEPT ![r] = @ + 1] ELSE log
  BY <1>1 DEF Audit, Record, MoveCall, poolvars
<1>4. call.pc = "closed" /\ (~done => call.outcome = "failed")
  BY <1>2 DEF Calls
<1> HIDE DEF call
<1>5. /\ gw'[r].pc = "closed" /\ (~done => gw'[r].outcome = "failed") /\ (done => log'[r] = log[r] + 1)
      /\ \A p \in Requests : p # r => gw'[p] = gw[p] /\ log'[p] = log[p]
  BY <1>2, <1>3, <1>4
<1>6. req[r].pc = "called" /\ log[r] + 1 = Len(req[r].called)
  BY <1>3 DEF IInv, AuditInv, AuditOK
<1>7. AuditOK(r)'
  BY <1>3, <1>5, <1>6 DEF AuditOK
<1> QED BY <1>3, <1>5, <1>7, AuditOfOne

LEMMA ReturnStep ==
  ASSUME IInv, NEW r \in Requests, Return(r)
  PROVE  PoolInv' /\ Cooled /\ RefusedRightly /\ AuditInv'
<1>1. /\ gw[r].pc = "closed" /\ gw' = [gw EXCEPT ![r] = NewCall] /\ UNCHANGED log
      /\ req[r].pc = "called"
  BY DEF Return, Leave, MoveCall, IInv, AuditInv, AuditOK
<1>2. /\ gw[r] \in Calls /\ gw \in [Requests -> Calls] /\ now \in Nat \ {0} /\ PoolInv
      /\ req[r] \in Asked /\ CallOK(req[r]) /\ req \in [Requests -> Asked]
  BY DEF IInv, GateInv, GateTypeOK, PoolInv, CallsInv
<1>3. gw'[r].pc = "idle" /\ \A p \in Requests : p # r => gw'[p] = gw[p]
  BY <1>1, <1>2 DEF NewCall
<1>4. gw[r].outcome # "failed" => log[r] = Len(req[r].called)
  BY <1>1 DEF IInv, AuditInv, AuditOK
<1>5. CASE gw[r].outcome = "ok"
  <2>1. End(r, gw[r].held) /\ gw[r].held \in BOOLEAN
    BY <1>2, <1>5 DEF Return, Calls
  <2>2. PoolInv' /\ Cooled /\ RefusedRightly
    BY <1>2, <2>1, AnswerStep
  <2> DEFINE q == IF gw[r].held THEN Responded(req[r]) ELSE req[r]
             q2 == [q EXCEPT !.pc = "done"]
  <2>3. q \in Asked /\ CallOK(q) /\ q.pc = "called" /\ q.called = req[r].called
    BY <1>1, <1>2, RespondedStep
  <2>4. req' = [req EXCEPT ![r] = q2]
    BY <2>1 DEF End, Update
  <2> HIDE DEF q
  <2>5. q2.pc = "done" /\ q2.called = req[r].called
    BY <2>3, EndsOK
  <2> HIDE DEF q2
  <2>6. req'[r] = q2 /\ \A p \in Requests : p # r => req'[p] = req[p]
    BY <1>2, <2>4
  <2>7. AuditOK(r)'
    BY <1>1, <1>3, <1>4, <1>5, <2>5, <2>6 DEF AuditOK
  <2>8. AuditInv'
    BY <1>1, <1>3, <2>6, <2>7, AuditOfOne
  <2> QED BY <2>2, <2>8
<1>6. CASE gw[r].outcome = "exhausted" /\ MayMove(req[r])
  <2>1. PICK t \in RetryTimes : Exhausted(r, t)
    BY <1>6 DEF Return
  <2>2. PoolInv' /\ Cooled /\ RefusedRightly /\ Looped(r)
    BY <1>2, <2>1, ExhaustedStep
  <2>3. Len(req[r].called) \in Nat
    BY <1>2 DEF Asked
  <2>4. AuditOK(r)'
    BY <1>1, <1>3, <1>4, <1>6, <2>2, <2>3 DEF AuditOK, Looped
  <2>5. AuditInv'
    BY <1>1, <1>3, <2>2, <2>4, AuditOfOne DEF Looped
  <2> QED BY <2>2, <2>5
<1>7. CASE gw[r].outcome # "ok" /\ ~(gw[r].outcome = "exhausted" /\ MayMove(req[r]))
  <2>1. Break(r)
    BY <1>7 DEF Return
  <2>2. PoolInv' /\ Cooled /\ RefusedRightly
    BY <1>2, <2>1, AnswerStep
  <2> DEFINE q2 == [req[r] EXCEPT !.pc = "failed"]
  <2>3. req' = [req EXCEPT ![r] = q2]
    BY <2>1 DEF Break, Update
  <2>4. q2.pc = "failed"
    BY <1>1, <1>2, EndsOK
  <2> HIDE DEF q2
  <2>5. req'[r] = q2 /\ \A p \in Requests : p # r => req'[p] = req[p]
    BY <1>2, <2>3
  <2>6. AuditOK(r)'
    BY <1>3, <2>4, <2>5 DEF AuditOK
  <2>7. AuditInv'
    BY <1>1, <1>3, <2>5, <2>6, AuditOfOne
  <2> QED BY <2>2, <2>7
<1> QED BY <1>5, <1>6, <1>7

-----------------------------------------------------------------------------
(* The steps of the system                                                  *)

\* The pooler rests.
LEMMA PoolRests ==
  ASSUME PoolInv, UNCHANGED poolvars PROVE PoolInv' /\ Cooled /\ RefusedRightly
<1>1. SchedulerInv' /\ RoutesOK(catalogue'.routes) /\ CallsInv' /\ RefreshInv'
  BY DEF PoolInv, poolvars, SchedulerInv, CallsInv, RefreshInv
<1>2. \A r \in Requests : Len(req[r].called) \in Nat
  BY DEF PoolInv, CallsInv, Asked
<1>3. Cooled /\ RefusedRightly
  BY <1>2 DEF poolvars, Cooled, RefusedRightly
<1> QED BY <1>1, <1>3 DEF PoolInv

LEMMA AuditRests == ASSUME IInv, UNCHANGED <<req, gw, log>> PROVE AuditInv'
BY DEF IInv, AuditInv, AuditOK

\* A step of the pooler alone.
LEMMA PoolerMoves ==
  ASSUME IInv, UNCHANGED now, UNCHANGED gatevars, PoolInv', Cooled, RefusedRightly, Asking
  PROVE  IInv' /\ Cooled /\ RefusedRightly
<1>1. GateInv'
  BY GateRests DEF IInv, GateInv, GateTypeOK
<1> QED BY <1>1, AuditOfAsking DEF IInv

THEOREM ProviderInit == Init => IInv
<1> SUFFICES ASSUME Init PROVE IInv
  OBVIOUS
<1> USE DEF Init, GateInit, PoolInit
<1>1. /\ left.store \in [Names -> Credentials] /\ Apart(left.store) /\ store = left.store
      /\ \A a \in Names : left.store[a].type # "none" => left.store[a].token \in 1..Cardinality(Names)
      /\ Cardinality(Names) \in Nat
  BY ProviderAssumption, FS_CardinalityType
<1>2. NoRefresh \in [pc : {"none", "waiting", "exchange"}, doc : [Names -> Credentials]] /\ NoRefresh.pc = "none"
  BY NoCredentialType DEF NoRefresh
<1>3. NewCall \in Calls /\ NewCall.pc = "idle"
  BY NoCredentialType DEF NewCall, Calls, CallPlaces, None
<1>4. NoCommand \in CommandStates /\ NoCommand.pc = "idle"
  BY NoCredentialType DEF NoCommand, CommandStates
<1>5. GateInv
  <2>1. GateTypeOK
    <3>1. granted \in [Names -> Nat]
      BY <1>1 DEF Credentials
    <3>2. now \in Nat \ {0} /\ serial \in Nat /\ store \in [Names -> Credentials]
      BY <1>1
    <3>3. inflight \in [Names -> [pc : {"none", "waiting", "exchange"}, doc : [Names -> Credentials]]]
      BY <1>2
    <3>4. gw \in [Requests -> Calls] /\ admin \in [Commands -> CommandStates]
      BY <1>3, <1>4
    <3>5. rotated \subseteq Nat /\ log \in [Requests -> Nat] /\ auditFailure \in BOOLEAN
      OBVIOUS
    <3> QED BY <3>1, <3>2, <3>3, <3>4, <3>5 DEF GateTypeOK
  <2>2. LockInv /\ CommandInv
    BY <1>2, <1>4 DEF LockInv, CommandInv
  <2>3. TokenInv
    BY <1>1 DEF TokenInv
  <2>4. NoLostUpdate /\ DispatchedAsRouted
    BY <1>1, <1>3 DEF NoLostUpdate, DispatchedAsRouted
  <2> QED BY <2>1, <2>2, <2>3, <2>4 DEF GateInv
<1>6. PoolInv
  <2>1. SchedulerInv
    <3>1. 0 \in 0..Len(Members) - 1
      BY MembersAre
    <3>2. NewScheduler \in SchedulerStates /\ NewScheduler.cooldowns = told
      BY <3>1 DEF NewScheduler, SchedulerStates
    <3>3. schedulers[1] = NewScheduler
      OBVIOUS
    <3> QED BY <3>2, <3>3 DEF SchedulerInv
  <2>2. RoutesOK(catalogue.routes)
    <3>1. DOMAIN NoCatalogue.routes = {}
      BY DEF NoCatalogue
    <3> QED BY <3>1 DEF RoutesOK
  <2>3. /\ NewRequest \in Asked /\ NewRequest.pc = "idle" /\ NewRequest.called = <<>> /\ ~NewRequest.direct
        /\ ~NewRequest.responded /\ NewRequest.from = {}
    <3>1. <<>> \in Seq(CallPlaces)
      OBVIOUS
    <3> QED BY <3>1 DEF NewRequest, Asked
  <2>4. CallOK(NewRequest)
    BY <2>3 DEF CallOK
  <2>5. CallsInv
    BY <2>3, <2>4 DEF CallsInv
  <2>6. RefreshInv
    BY DEF RefreshInv
  <2> QED BY <2>1, <2>2, <2>5, <2>6 DEF PoolInv
<1>7. AuditInv
  <2>1. NewRequest.pc = "idle"
    BY DEF NewRequest
  <2> QED BY <1>3, <2>1 DEF AuditInv, AuditOK
<1> QED BY <1>5, <1>6, <1>7 DEF IInv

THEOREM ProviderStep == IInv /\ [Next]_vars => IInv' /\ Cooled /\ RefusedRightly
<1> SUFFICES ASSUME IInv, [Next]_vars PROVE IInv' /\ Cooled /\ RefusedRightly
  OBVIOUS
<1>0. GateInv /\ PoolInv /\ AuditInv /\ now \in Nat \ {0}
  BY DEF IInv, GateInv, GateTypeOK
<1>1. CASE UNCHANGED vars
  <2>1. GateInv' /\ PoolInv' /\ Cooled /\ RefusedRightly
    BY <1>0, <1>1, GateRests, PoolRests DEF vars
  <2>2. AuditInv'
    BY <1>1, AuditRests DEF vars, poolvars, gatevars
  <2> QED BY <2>1, <2>2 DEF IInv
<1>2. CASE Rest
  BY <1>1, <1>2 DEF Rest
<1>3. CASE Tick
  <2>1. GateInv' /\ PoolInv' /\ Cooled /\ RefusedRightly
    BY <1>0, <1>3, GateRests, PoolRests DEF Tick
  <2>2. AuditInv'
    BY <1>3, AuditRests DEF Tick, poolvars, gatevars
  <2> QED BY <2>1, <2>2 DEF IInv
<1>4. CASE Poll
  <2>1. BeginRefresh /\ UNCHANGED now /\ UNCHANGED gatevars
    BY <1>4 DEF Poll
  <2>2. Asking
    BY <2>1 DEF BeginRefresh, Asking
  <2> QED BY <1>0, <2>1, <2>2, BeginRefreshStep, PoolerMoves
<1>5. CASE List
  <2>1. PICK f \in refreshes, l \in Listings : Listed(f, l)
    BY <1>5 DEF List
  <2> QED BY <1>0, <1>5, <2>1, ListedStep, PoolerMoves DEF List, Idle
<1>6. CASE NoList
  <2>1. PICK f \in refreshes : ListFails(f)
    BY <1>6 DEF NoList
  <2> QED BY <1>0, <1>6, <2>1, ListFailsStep, PoolerMoves DEF NoList, Idle
<1>7. ASSUME NEW r \in Requests, Ask(r) PROVE IInv' /\ Cooled /\ RefusedRightly
  <2>1. UNCHANGED now /\ UNCHANGED gatevars
    BY <1>7 DEF Ask
  <2>2. CASE \E m \in Models : Infer(r, m)
    BY <1>0, <2>1, <2>2, InferStep, PoolerMoves
  <2>3. CASE \E a \in Accounts : InferDirect(r, a)
    BY <1>0, <2>1, <2>3, InferDirectStep, PoolerMoves
  <2> QED BY <1>7, <2>2, <2>3 DEF Ask
<1>8. ASSUME NEW r \in Requests, Go(r) PROVE IInv' /\ Cooled /\ RefusedRightly
  BY <1>0, <1>8, BeginStep, PoolerMoves DEF Go, Idle
<1>9. ASSUME NEW r \in Requests, Dispatch(r) PROVE IInv' /\ Cooled /\ RefusedRightly
  <2>1. req[r].pc = "called" /\ Accept(r, Last(req[r].called)) /\ UNCHANGED now /\ UNCHANGED poolvars
    BY <1>9 DEF Dispatch, Idle
  <2>2. Last(req[r].called) \in CallPlaces
    <3>1. req[r].called \in Seq(CallPlaces) /\ req[r].called # <<>>
      BY <1>0, <2>1 DEF PoolInv, CallsInv, CallOK, Asked
    <3> QED BY <3>1 DEF Last
  <2>3. GateInv'
    BY <1>0, <2>1, <2>2, AcceptStep
  <2> QED BY <1>0, <1>9, <2>1, <2>3, PoolRests, DispatchAudited DEF IInv
<1>10. ASSUME NEW r \in Requests, Yield(r) PROVE IInv' /\ Cooled /\ RefusedRightly
  <2>1. GateInv'
    BY <1>0, <1>10, CallStep DEF Yield, Idle
  <2>2. PoolInv' /\ Cooled /\ RefusedRightly
    BY <1>0, <1>10, AnswerStep, PoolRests DEF Yield
  <2> QED BY <1>10, <2>1, <2>2, YieldAudited DEF IInv
<1>11. ASSUME NEW r \in Requests, Finish(r) PROVE IInv' /\ Cooled /\ RefusedRightly
  <2>1. GateInv'
    BY <1>0, <1>11, CallStep DEF Finish, Idle
  <2>2. PoolInv' /\ Cooled /\ RefusedRightly
    BY <1>0, <1>11, PoolRests DEF Finish
  <2> QED BY <1>11, <2>1, <2>2, FinishAudited DEF IInv
<1>12. ASSUME NEW r \in Requests, Audit(r) PROVE IInv' /\ Cooled /\ RefusedRightly
  <2>1. GateInv'
    BY <1>0, <1>12, CallStep DEF Audit, Idle
  <2>2. PoolInv' /\ Cooled /\ RefusedRightly
    BY <1>0, <1>12, PoolRests DEF Audit
  <2> QED BY <1>12, <2>1, <2>2, AuditAudited DEF IInv
<1>13. ASSUME NEW r \in Requests, Return(r) PROVE IInv' /\ Cooled /\ RefusedRightly
  <2>1. GateInv'
    BY <1>0, <1>13, CallStep DEF Return, Idle
  <2> QED BY <1>13, <2>1, ReturnStep DEF IInv
<1>14. ASSUME NEW a \in Names, Refresh(a) PROVE IInv' /\ Cooled /\ RefusedRightly
  <2>1. /\ UNCHANGED now /\ UNCHANGED poolvars
        /\ \/ RefreshLocked(a) \/ RefreshFails(a) \/ RefreshTimesOut(a)
           \/ \E life \in 1..MaxLife, synced \in BOOLEAN : RefreshAnswered(a, life, synced)
    BY <1>14 DEF Refresh, Idle
  <2>2. GateInv'
    BY <1>0, <2>1, RefreshStep
  <2>3. AuditInv'
    BY <2>1, AuditOfRefresh DEF poolvars
  <2> QED BY <1>0, <2>1, <2>2, <2>3, PoolRests DEF IInv
<1>15. ASSUME NEW c \in Commands, Run(c) PROVE IInv' /\ Cooled /\ RefusedRightly
  <2>1. PICK a \in Names : \/ \E p \in Providers, t \in {"api_key", "oauth"} : BeginCommand(c, Login(a, p, t, MaxLife))
                           \/ BeginCommand(c, Logout(a))
                           \/ \E b \in Names : BeginCommand(c, Rename(a, b))
    BY <1>15 DEF Run
  <2>2. UNCHANGED now /\ UNCHANGED poolvars
    BY <1>15 DEF Run
  <2>3. \E y \in CommandStates : /\ BeginCommand(c, y) /\ y.kind # "none" /\ y.account \in Names
                                 /\ y.kind = "rename" => y.target \in Names
    BY <1>0, <2>1, CommandKinds
  <2>4. GateInv' /\ UNCHANGED <<gw, log>>
    BY <1>0, <2>2, <2>3, BeginCommandStep DEF BeginCommand
  <2>5. AuditInv'
    BY <2>2, <2>4, AuditRests DEF poolvars
  <2> QED BY <1>0, <2>2, <2>4, <2>5, PoolRests DEF IInv
<1>16. ASSUME NEW c \in Commands, Administer(c) PROVE IInv' /\ Cooled /\ RefusedRightly
  <2>1. /\ UNCHANGED now /\ UNCHANGED poolvars
        /\ CommandLocked(c) \/ CommandTimesOut(c) \/ \E ok \in BOOLEAN : LoginValidated(c, ok)
    BY <1>16 DEF Administer, Idle
  <2>2. GateInv'
    BY <1>0, <2>1, CommandLockedStep, CommandTimesOutStep, LoginValidatedStep
  <2>3. UNCHANGED <<gw, log>>
    BY <2>1 DEF CommandLocked, CommandTimesOut, LoginValidated
  <2>4. AuditInv'
    BY <2>1, <2>3, AuditRests DEF poolvars
  <2> QED BY <1>0, <2>1, <2>2, <2>4, PoolRests DEF IInv
<1> QED
  BY <1>1, <1>2, <1>3, <1>4, <1>5, <1>6, <1>7, <1>8, <1>9, <1>10, <1>11, <1>12, <1>13, <1>14, <1>15, <1>16 DEF Next


-----------------------------------------------------------------------------
(* The results                                                              *)

\* What the properties below follow from holds in every reachable state.
THEOREM ProviderInvariant == Spec => []IInv
<1>1. IInv /\ [Next]_vars => IInv'
  BY ProviderStep
<1> QED BY ProviderInit, <1>1, PTL DEF Spec

\* auth.json: no update is lost (store.mjs withFileLock, credentials.mjs freshOAuth).
THEOREM NoUpdateIsLost == Spec => []NoLostUpdate
<1>1. IInv => NoLostUpdate
  BY DEF IInv, GateInv
<1> QED BY ProviderInvariant, <1>1, PTL

\* A refresh token is exchanged once (credentials.mjs freshOAuth, accounts.mjs rename).
THEOREM TokensAreExchangedOnce == Spec => []ExchangedOnce
<1>1. IInv => ExchangedOnce
  BY GateSafe DEF IInv
<1> QED BY ProviderInvariant, <1>1, PTL

\* A call has a credential of the provider it was routed to (credentials.mjs credentialFor).
THEOREM CallsGoWhereRouted == Spec => []DispatchedAsRouted
<1>1. IInv => DispatchedAsRouted
  BY DEF IInv, GateInv
<1> QED BY ProviderInvariant, <1>1, PTL

\* A client gets responses of one member (pooler/src/services.mjs infer, pool.mjs PoolAttempt).
THEOREM NothingIsReplayed == Spec => []NoReplay
<1>1. IInv => NoReplay
  BY DEF IInv, PoolInv, CallsInv, CallOK, NoReplay
<1> QED BY ProviderInvariant, <1>1, PTL

\* The catalogue is that of the newest refresh (pooler/src/services.mjs refreshCatalogue).
THEOREM NewestCatalogueSettles == Spec => []SettledIsNewest
<1>1. IInv => SettledIsNewest
  BY DEF IInv, PoolInv, RefreshInv, SettledIsNewest
<1> QED BY ProviderInvariant, <1>1, PTL

\* A member is left alone until the time it named (pooler/src/pool.mjs select, markExhausted).
THEOREM MembersCoolDown == Spec => CoolingIsRespected
<1>1. IInv /\ [Next]_vars => [Cooled]_<<now, poolvars>>
  BY ProviderStep
<1>2. [Cooled]_<<now, poolvars>> <=>
        [\A r \in Requests :
           Len(req'[r].called) > Len(req[r].called) /\ ~req'[r].direct =>
             told'[Last(req'[r].called)] <= now]_<<now, poolvars>>
  BY DEF Cooled
<1> QED BY ProviderInvariant, <1>1, <1>2, PTL DEF Spec, CoolingIsRespected

\* A refusal is right and names the earliest time (pooler/src/pool.mjs next, earliestRetry).
THEOREM RefusalsAreRight == Spec => RefusedIsEarliest
<1>1. IInv /\ [Next]_vars => [RefusedRightly]_<<now, poolvars>>
  BY ProviderStep
<1>2. [RefusedRightly]_<<now, poolvars>> <=>
        [\A r \in Requests :
           req'[r].pc = "refused" /\ req[r].pc # "refused" =>
             LET q == req'[r]
             IN /\ \A m \in q.eligible : m \in Range(q.called) \/ told'[m] > now
                /\ q.retryAt = Min({told'[m] : m \in q.eligible})]_<<now, poolvars>>
  BY DEF RefusedRightly
<1> QED BY ProviderInvariant, <1>1, <1>2, PTL DEF Spec, RefusedIsEarliest

\* A whole answer is charged for (gateway/src/services.mjs infer, audit.mjs).
THEOREM AnswersAreAudited == Spec => []AnsweredIsAudited
<1>1. IInv => AnsweredIsAudited
  BY DEF IInv, AuditInv, AuditOK, AnsweredIsAudited
<1> QED BY ProviderInvariant, <1>1, PTL

===============================================================================
