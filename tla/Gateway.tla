-------------------------------- MODULE Gateway --------------------------------
(***************************************************************************)
(* The gateway's inference calls, from the credential to the audit         *)
(* (components/gateway/src: services.mjs, credentials.mjs, store.mjs,      *)
(* audit.mjs), with the commands that change the credential store in       *)
(* processes of their own (login.mjs, accounts.mjs).  auth.json is         *)
(* replaced whole under a kernel lock; the gateway keeps that lock while   *)
(* it exchanges an OAuth refresh token over the network, and who waits     *)
(* longer than 10 s gives up.                                              *)
(*                                                                         *)
(* `expires' is the moment REFRESH_SKEW_MS before a credential expires.  A *)
(* grant is what one login obtained; its tokens are its credentials, old   *)
(* and refreshed.                                                          *)
(***************************************************************************)
EXTENDS Traffic

CONSTANTS
  Names,      \* account names
  Providers,  \* concrete providers
  RouteOf,    \* the provider each account had when the gateway started
  Commands,   \* login, logout and rename processes
  MaxLife     \* how long an access token lives, at most

VARIABLES
  store,      \* auth.json: the credential of each account, or NoCredential
  lock,       \* who holds auth.json.lock
  inflight,   \* refreshInFlight, with the state of the refresh it holds
  gw,         \* the inference calls
  admin,      \* the commands
  serial,     \* tokens issued so far
  granted,    \* history: the grant each account should have, by the commands that wrote
  rotated,    \* history: refresh tokens whose successor was stored
  log,        \* usage.jsonl: how often each call is recorded
  auditFailure

gatevars == <<store, lock, inflight, gw, admin, serial, granted, rotated, log, auditFailure>>

Nobody == <<"nobody">>
Refresher(a) == <<"refresh", a>>
Command(c) == <<"command", c>>

NoCredential == [type |-> "none", provider |-> "none", grant |-> 0, token |-> 0, expires |-> 0]
NotExpired(credential) == now < credential.expires

Credentials ==
  [type : {"none", "api_key", "oauth"}, provider : Providers \cup {"none"}, grant : Nat, token : Nat, expires : Int]

\* Accounts do not share a token.
Apart(doc) ==
  \A a, b \in Names : doc[a].type # "none" /\ doc[b].type # "none" /\ doc[a].token = doc[b].token => a = b

\* credentialFor and validateOAuth: the account's, and still of its provider.
CredentialFor(doc, account) == doc[account].type # "none" /\ doc[account].provider = RouteOf[account]

-----------------------------------------------------------------------------
(* A call: resolve                                                          *)

NewCall == [pc |-> "idle", account |-> "none", credential |-> NoCredential, held |-> FALSE, yields |-> 0, outcome |-> "failed"]
NoRefresh == [pc |-> "none", doc |-> [a \in Names |-> NoCredential]]

\* The credential is read and the refresh begun or joined without an await.
Accept(r, account) ==
  /\ gw[r].pc = "idle"
  /\ LET call == [NewCall EXCEPT !.account = account]
         credential == store[account]
         known == account \in Names /\ CredentialFor(store, account)
     IN /\ gw' = [gw EXCEPT ![r] =
             IF account \notin Names THEN [call EXCEPT !.pc = "closed"]
             ELSE IF ~known THEN [call EXCEPT !.pc = "closing"]
             ELSE IF credential.type = "api_key" \/ NotExpired(credential)
             THEN [call EXCEPT !.pc = "stream", !.credential = credential]
             ELSE [call EXCEPT !.pc = "refresh"]]
        /\ inflight' = IF gw'[r].pc = "refresh" /\ inflight[account].pc = "none"
                       THEN [inflight EXCEPT ![account] = [pc |-> "waiting", doc |-> store]]
                       ELSE inflight
  /\ UNCHANGED <<store, lock, admin, serial, granted, rotated, log, auditFailure>>

-----------------------------------------------------------------------------
(* freshOAuth: one refresh of an account at a time, in withFileLock         *)

\* Everyone who joined the refresh gets its credential or its failure.
Joined(a) == {r \in Requests : gw[r].pc = "refresh" /\ gw[r].account = a}
Deliver(a, credential) ==
  /\ gw' = [r \in Requests |-> IF r \notin Joined(a) THEN gw[r]
                            ELSE IF credential.type = "none" THEN [gw[r] EXCEPT !.pc = "closing"]
                            ELSE [gw[r] EXCEPT !.pc = "stream", !.credential = credential]]
  /\ inflight' = [inflight EXCEPT ![a] = NoRefresh]

\* Mutant: the store is the one that was read before the lock was waited for.
ReadBefore(a) == inflight[a].doc

\* The store is read again under the lock.
ReadStore(a) == store

Free == lock = Nobody

\* Under the lock: gone, fresh already, or to be exchanged.
RefreshLocked(a) ==
  /\ inflight[a].pc = "waiting" /\ Free
  /\ LET doc == ReadStore(a)
     IN IF ~CredentialFor(doc, a) \/ doc[a].type # "oauth" THEN Deliver(a, NoCredential) /\ UNCHANGED lock
        ELSE IF NotExpired(doc[a]) THEN Deliver(a, doc[a]) /\ UNCHANGED lock
        ELSE /\ inflight' = [inflight EXCEPT ![a] = [pc |-> "exchange", doc |-> doc]]
             /\ lock' = Refresher(a) /\ UNCHANGED gw
  /\ UNCHANGED <<store, admin, serial, granted, rotated, log, auditFailure>>

\* Mutant: what the store had goes over what the provider answered.
MergedUnder(current, life) == [current EXCEPT !.expires = now + life]

\* The answer, with a new refresh token, goes over what the store had.
Merged(current, life) == [current EXCEPT !.token = serial + 1, !.expires = now + life]

\* The provider answers and the store is replaced; the refresh fails even so when
\* the directory cannot be synced after the rename.
RefreshAnswered(a, life, synced) ==
  /\ inflight[a].pc = "exchange"
  /\ LET doc  == inflight[a].doc
         next == Merged(doc[a], life)
     IN /\ store' = [doc EXCEPT ![a] = next]
        /\ rotated' = rotated \cup {doc[a].token}
        /\ Deliver(a, IF synced THEN next ELSE NoCredential)
  /\ serial' = serial + 1
  /\ lock' = Nobody
  /\ UNCHANGED <<admin, granted, log, auditFailure>>

\* It does not, it answers nonsense, or the store cannot be replaced: then the
\* successor is lost and the store keeps the token that was exchanged for it.
RefreshFails(a) ==
  /\ inflight[a].pc = "exchange"
  /\ Deliver(a, NoCredential)
  /\ lock' = Nobody
  /\ UNCHANGED <<store, admin, serial, granted, rotated, log, auditFailure>>

\* flock gives up after LOCK_TIMEOUT_MS.
RefreshTimesOut(a) ==
  /\ inflight[a].pc = "waiting" /\ lock # Nobody
  /\ Deliver(a, NoCredential)
  /\ UNCHANGED <<store, lock, admin, serial, granted, rotated, log, auditFailure>>

-----------------------------------------------------------------------------
(* The commands                                                             *)

BeginCommand(c, command) ==
  /\ admin[c].pc = "idle"
  /\ admin' = [admin EXCEPT ![c] = [command EXCEPT !.pc = "waiting"]]
  /\ UNCHANGED <<store, lock, inflight, gw, serial, granted, rotated, log, auditFailure>>

NoCommand == [pc |-> "idle", kind |-> "none", account |-> "none", target |-> "none", credential |-> NoCredential]
Login(a, provider, type, life) ==
  [NoCommand EXCEPT !.kind = "login", !.account = a,
                    !.credential = [type |-> type, provider |-> provider, grant |-> 1, token |-> 0, expires |-> now + life]]
Logout(a) == [NoCommand EXCEPT !.kind = "logout", !.account = a]
Rename(a, b) == [NoCommand EXCEPT !.kind = "rename", !.account = a, !.target = b]

\* The update, or an error when the accounts are not as it needs them.
Possible(x) ==
  /\ x.kind # "login" => store[x.account].type # "none"
  /\ x.kind = "rename" => x.target # x.account /\ store[x.target].type = "none"

Updated(doc, x, credential) ==
  CASE x.kind = "login"  -> [doc EXCEPT ![x.account] = credential]
    [] x.kind = "logout" -> [doc EXCEPT ![x.account] = NoCredential]
    [] x.kind = "rename" -> [doc EXCEPT ![x.target] = doc[x.account], ![x.account] = NoCredential]

Granted(x, grant) ==
  CASE x.kind = "login"  -> [granted EXCEPT ![x.account] = grant]
    [] x.kind = "logout" -> [granted EXCEPT ![x.account] = 0]
    [] x.kind = "rename" -> [granted EXCEPT ![x.target] = granted[x.account], ![x.account] = 0]

\* logout and rename do all of it at once, or nothing: what they need is not there,
\* or the store cannot be replaced.  login waits for its validation.
CommandLocked(c) ==
  /\ admin[c].pc = "waiting" /\ Free
  /\ LET x == admin[c]
     IN IF x.kind = "login"
        THEN /\ admin' = [admin EXCEPT ![c].pc = "validate"] /\ lock' = Command(c)
             /\ UNCHANGED <<store, granted>>
        ELSE /\ admin' = [admin EXCEPT ![c].pc = "done"] /\ UNCHANGED lock
             /\ \/ Possible(x) /\ store' = Updated(store, x, NoCredential) /\ granted' = Granted(x, 0)
                \/ UNCHANGED <<store, granted>>
  /\ UNCHANGED <<inflight, gw, serial, rotated, log, auditFailure>>

\* storeCredential after validate; either may refuse.
LoginValidated(c, ok) ==
  /\ admin[c].pc = "validate"
  /\ LET credential == [admin[c].credential EXCEPT !.grant = serial + 1, !.token = serial + 1]
     IN IF ok
        THEN store' = Updated(store, admin[c], credential) /\ granted' = Granted(admin[c], serial + 1) /\ serial' = serial + 1
        ELSE UNCHANGED <<store, granted, serial>>
  /\ admin' = [admin EXCEPT ![c].pc = "done"]
  /\ lock' = Nobody
  /\ UNCHANGED <<inflight, gw, rotated, log, auditFailure>>

CommandTimesOut(c) ==
  /\ admin[c].pc = "waiting" /\ lock # Nobody
  /\ admin' = [admin EXCEPT ![c].pc = "done"]
  /\ UNCHANGED <<store, lock, inflight, gw, serial, granted, rotated, log, auditFailure>>

-----------------------------------------------------------------------------
(* A call: the responses, of which one is held back, and the audit          *)

MoveCall(r, call) ==
  /\ gw' = [gw EXCEPT ![r] = call]
  /\ UNCHANGED <<store, lock, inflight, admin, serial, granted, rotated>>

\* The backend yields: the response is held, and the one held before goes out.
BackendYields(r) ==
  /\ gw[r].pc = "stream"
  /\ MoveCall(r, [gw[r] EXCEPT !.held = TRUE, !.yields = @ + 1])
  /\ UNCHANGED <<log, auditFailure>>

\* It ends: "ok", "exhausted" or "failed".
BackendEnds(r, outcome) ==
  /\ gw[r].pc = "stream"
  /\ MoveCall(r, [gw[r] EXCEPT !.pc = "closing", !.outcome = outcome])
  /\ UNCHANGED <<log, auditFailure>>

\* Mutant: an append that fails does not fail the call.
RecordMaybe(r, written) ==
  /\ gw[r].pc = "closing"
  /\ log' = IF written /\ ~auditFailure THEN [log EXCEPT ![r] = @ + 1] ELSE log
  /\ auditFailure' = (auditFailure \/ ~written)
  /\ MoveCall(r, [gw[r] EXCEPT !.pc = "closed"])

\* The call is recorded before its last response, or its error, goes out; when
\* that fails the call fails, and nothing is appended any more.
Record(r, written) ==
  /\ gw[r].pc = "closing"
  /\ LET done == written /\ ~auditFailure
     IN /\ log' = IF done THEN [log EXCEPT ![r] = @ + 1] ELSE log
        /\ auditFailure' = (auditFailure \/ ~written)
        /\ MoveCall(r, [gw[r] EXCEPT !.pc = "closed", !.outcome = IF done THEN @ ELSE "failed"])

\* The last response, or the error, is on its way.
Leave(r) ==
  /\ gw[r].pc = "closed"
  /\ MoveCall(r, NewCall)
  /\ UNCHANGED <<log, auditFailure>>

GateInit ==
  /\ lock = Nobody /\ inflight = [a \in Names |-> NoRefresh]
  /\ gw = [r \in Requests |-> NewCall] /\ admin = [c \in Commands |-> NoCommand]
  /\ granted = [a \in Names |-> store[a].grant]
  /\ rotated = {} /\ log = [r \in Requests |-> 0] /\ auditFailure = FALSE

-----------------------------------------------------------------------------
(***************************************************************************)
(* No update of auth.json is lost: each account has the grant that the     *)
(* commands' writes so far gave it, whatever refreshes of it or of other   *)
(* accounts were on their way over the network meanwhile.                  *)
(***************************************************************************)
NoLostUpdate == \A a \in Names : store[a].grant = granted[a]

(***************************************************************************)
(* A refresh token whose successor was stored is never exchanged again,    *)
(* and no other account exchanges the one that is being exchanged, though  *)
(* many calls find it expired at once, rename may move it to another       *)
(* account, and a refresh may fail with its successor in the store.        *)
(***************************************************************************)
ExchangedOnce ==
  LET Exchanging == {a \in Names : inflight[a].pc = "exchange"}
  IN \A a \in Exchanging : /\ inflight[a].doc[a].token \notin rotated
                           /\ \A b \in Exchanging : inflight[a].doc[a].token = inflight[b].doc[b].token => a = b

(***************************************************************************)
(* A call is dispatched with a credential of the provider its account was  *)
(* routed to, although the account may be logged in anew, renamed or       *)
(* replaced between the route, the wait for a refresh and its end.         *)
(***************************************************************************)
DispatchedAsRouted ==
  \A r \in Requests : gw[r].pc = "stream" => gw[r].credential.provider = RouteOf[gw[r].account]
==============================================================================
