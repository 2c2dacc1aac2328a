-------------------------------- MODULE Pooler --------------------------------
(***************************************************************************)
(* The pooler (components/pooler/src: pool.mjs, services.mjs,              *)
(* catalog.mjs), with a list of member providers.  It is one JavaScript    *)
(* process: what runs between two awaits is one step, and what it awaits   *)
(* -- the upstream catalogue, the responses of an upstream inference --    *)
(* comes in any order.                                                     *)
(***************************************************************************)
EXTENDS Traffic

CONSTANTS
  Members,   \* the member providers, in the order they are configured
  Models,    \* the local models, and so the virtual ones
  Listings,  \* what the upstream may list
  Accounts,  \* whose models are also asked for directly
  RetryTimes \* what an exhausted member may name

VARIABLES
  schedulers,         \* every PoolScheduler made, by its place in the sequence
  schedulerState,     \* the one the next catalogue will use again
  catalogue,          \* the catalogue, or NoCatalogue
  refreshGeneration,
  refreshes,          \* the refreshes that wait for the upstream's list
  req,                \* the inference calls
  told,               \* history: the latest retry time each member has named
  newest              \* history: of the refreshes that have ended, the one that began last

poolvars == <<schedulers, schedulerState, catalogue, refreshGeneration, refreshes, req, told, newest>>

None == "none"
NoCatalogue == [known |-> FALSE, routes |-> <<>>]
MemberSet == Range(Members)

-----------------------------------------------------------------------------
(* PoolScheduler and PoolAttempt                                            *)

NewScheduler == [cursor |-> 0, cooldowns |-> [m \in MemberSet |-> 0]]

Position(s, offset) == (s.cursor + offset) % Len(Members)
MemberAt(position) == Members[position + 1]

\* select: the first member from the cursor on that may be called now.
Select(s, eligible, attempted) ==
  LET free == {o \in 0..Len(Members) - 1 :
                 LET m == MemberAt(Position(s, o))
                 IN m \in eligible \ attempted /\ s.cooldowns[m] <= now}
      position == Position(s, Min(free))
  IN IF free = {} THEN [member |-> None, scheduler |-> s]
     ELSE [member |-> MemberAt(position),
           scheduler |-> [s EXCEPT !.cursor = (position + 1) % Len(Members)]]

Cool(s, member, retryAt) == [s EXCEPT !.cooldowns[member] = Max({@, retryAt})]

\* -1 stands for undefined, on which next() throws an error of its own.
EarliestRetry(s, eligible, attempted) ==
  LET times == {s.cooldowns[m] : m \in {n \in eligible : n \in attempted \/ s.cooldowns[n] # 0}}
  IN IF times = {} THEN -1 ELSE Min(times)

\* The loop of infer: attempt.next(), and the upstream call of what it selects.
Proceed(r, q, s) ==
  LET tried  == Range(q.called)
      picked == Select(s, q.eligible, tried)
  IN /\ req' = [req EXCEPT ![r] =
          IF picked.member # None
          THEN [q EXCEPT !.pc = "called", !.called = Append(@, picked.member)]
          ELSE [q EXCEPT !.pc = "refused", !.retryAt = EarliestRetry(s, q.eligible, tried)]]
     /\ schedulers' = [schedulers EXCEPT ![q.scheduler] = picked.scheduler]

-----------------------------------------------------------------------------
(* The catalogue                                                            *)

\* composeCatalog: the models two members list make a pool; the members of a
\* pool must be alike, every member must list something, one pool must result.
Pools(listing) == {m \in Models : Cardinality(listing.members[m] \cap MemberSet) >= 2}
ComposeCatalog(listing) ==
  /\ MemberSet \subseteq UNION {listing.members[m] : m \in Models}
  /\ listing.alike /\ Pools(listing) # {}

\* Mutant: every catalogue gets a scheduler of its own.
OwnScheduler == Len(schedulers) + 1

\* activateCatalogue keeps the scheduler of the same members.
SchedulerOf == IF schedulerState.memberIds = Members THEN schedulerState.scheduler ELSE Len(schedulers) + 1

ActivateCatalogue(listing) ==
  [known |-> TRUE,
   routes |-> [m \in Pools(listing) |-> [eligible |-> listing.members[m] \cap MemberSet, scheduler |-> SchedulerOf]]]

Fresh(by) == [generation |-> refreshGeneration + 1, by |-> by]

\* health and listModels.
BeginRefresh ==
  /\ refreshGeneration' = refreshGeneration + 1
  /\ refreshes' = refreshes \cup {Fresh(None)}
  /\ UNCHANGED <<schedulers, schedulerState, catalogue, req, told, newest>>

\* The later one of two refreshes that have come to something.
Later(f, result) ==
  IF f.generation > newest.generation THEN [generation |-> f.generation, result |-> result] ELSE newest

\* Mutant: a refresh that fails clears the catalogue whoever is newer.
SettleAny(f, result) ==
  /\ refreshes' = refreshes \ {f}
  /\ catalogue' = IF f.generation = refreshGeneration \/ ~result.known THEN result ELSE catalogue
  /\ newest' = Later(f, result)

\* The outcome counts if no refresh has begun since.
Settle(f, result) ==
  /\ refreshes' = refreshes \ {f}
  /\ catalogue' = IF f.generation = refreshGeneration THEN result ELSE catalogue
  /\ newest' = Later(f, result)

\* A virtual model that has no route is sent on as it is.
RouteIn(routes, q) ==
  IF q.model \in DOMAIN routes
  THEN [q EXCEPT !.pc = "routed", !.eligible = routes[q.model].eligible, !.scheduler = routes[q.model].scheduler]
  ELSE [q EXCEPT !.pc = "called", !.direct = TRUE, !.called = <<None>>]

\* Whoever asked goes on with the answer it got itself, the newest or not.
Listed(f, listing) ==
  /\ f \in refreshes /\ ComposeCatalog(listing)
  /\ LET active == ActivateCatalogue(listing)
     IN /\ Settle(f, active)
        /\ req' = IF f.by = None THEN req ELSE [req EXCEPT ![f.by] = RouteIn(active.routes, @)]
        /\ schedulers' = IF SchedulerOf > Len(schedulers) THEN Append(schedulers, NewScheduler) ELSE schedulers
        /\ schedulerState' = IF f.generation = refreshGeneration
                             THEN [memberIds |-> Members, scheduler |-> SchedulerOf] ELSE schedulerState
  /\ UNCHANGED <<refreshGeneration, told>>

\* The list does not come, or the catalogue is rejected.
ListFails(f) ==
  /\ f \in refreshes
  /\ Settle(f, NoCatalogue)
  /\ req' = IF f.by = None THEN req ELSE [req EXCEPT ![f.by].pc = "failed"]
  /\ UNCHANGED <<schedulers, schedulerState, refreshGeneration, told>>

-----------------------------------------------------------------------------
(* infer                                                                    *)

NewRequest == [pc |-> "idle", model |-> None, direct |-> FALSE, eligible |-> {}, scheduler |-> 0,
               called |-> <<>>, responded |-> FALSE, from |-> {}, retryAt |-> 0]

\* A model of the upstream's own.
InferDirect(r, account) ==
  /\ req[r].pc = "idle"
  /\ req' = [req EXCEPT ![r] = [@ EXCEPT !.pc = "called", !.direct = TRUE, !.called = <<account>>]]
  /\ UNCHANGED <<schedulers, schedulerState, catalogue, refreshGeneration, refreshes, told, newest>>

\* A virtual model: from the catalogue, or after a refresh when there is none.
Infer(r, model) ==
  /\ req[r].pc = "idle"
  /\ LET q == [req[r] EXCEPT !.model = model]
         routed == RouteIn(catalogue.routes, q)
     IN IF ~catalogue.known
        THEN /\ req' = [req EXCEPT ![r] = [q EXCEPT !.pc = "listing"]]
             /\ refreshGeneration' = refreshGeneration + 1
             /\ refreshes' = refreshes \cup {Fresh(r)}
             /\ UNCHANGED schedulers
        ELSE /\ IF routed.direct THEN req' = [req EXCEPT ![r] = routed] /\ UNCHANGED schedulers
                ELSE Proceed(r, routed, schedulers[routed.scheduler])
             /\ UNCHANGED <<refreshGeneration, refreshes>>
  /\ UNCHANGED <<schedulerState, catalogue, told, newest>>

\* The call that waited for a catalogue goes on.
Begin(r) ==
  /\ req[r].pc = "routed"
  /\ Proceed(r, req[r], schedulers[req[r].scheduler])
  /\ UNCHANGED <<schedulerState, catalogue, refreshGeneration, refreshes, told, newest>>

Update(r, q) ==
  /\ req[r].pc = "called" /\ req' = [req EXCEPT ![r] = q]
  /\ UNCHANGED <<schedulers, schedulerState, catalogue, refreshGeneration, refreshes, told, newest>>

\* A response, which may be the last one, goes to the client.
Responded(q) == [q EXCEPT !.responded = TRUE, !.from = @ \cup {Last(q.called)}]
Respond(r) == Update(r, Responded(req[r]))
End(r, last) == Update(r, [IF last THEN Responded(req[r]) ELSE req[r] EXCEPT !.pc = "done"])

\* Any error but exhaustion before the first response is thrown.
Break(r) == Update(r, [req[r] EXCEPT !.pc = "failed"])

\* Mutant: a member is left after a response too.
MayMoveAlways(q) == ~q.direct

MayMove(q) == ~q.direct /\ ~q.responded

\* markExhausted, and the next member at once.
Exhausted(r, retryAt) ==
  /\ req[r].pc = "called" /\ MayMove(req[r])
  /\ LET q == req[r]
         m == Last(q.called)
     IN /\ Proceed(r, q, Cool(schedulers[q.scheduler], m, retryAt))
        /\ told' = [told EXCEPT ![m] = Max({@, retryAt})]
  /\ UNCHANGED <<schedulerState, catalogue, refreshGeneration, refreshes, newest>>

PoolInit ==
  /\ schedulers = <<NewScheduler>> /\ schedulerState = [memberIds |-> Members, scheduler |-> 1]
  /\ catalogue = NoCatalogue /\ refreshGeneration = 0 /\ refreshes = {}
  /\ req = [r \in Requests |-> NewRequest]
  /\ told = [m \in MemberSet |-> 0] /\ newest = [generation |-> 0, result |-> NoCatalogue]

-----------------------------------------------------------------------------
(***************************************************************************)
(* No replay: the responses a client gets come from one member, the one    *)
(* called last, and a request is sent to no member twice, though requests  *)
(* move on after exhaustion and share cursor and cooldowns.                *)
(***************************************************************************)
NoReplay ==
  \A r \in Requests : /\ \A m \in req[r].from : m = Last(req[r].called)
                      /\ \A i, j \in DOMAIN req[r].called : req[r].called[i] = req[r].called[j] => i = j

(***************************************************************************)
(* When every list has come, in whatever order, the catalogue served is    *)
(* the one of the refresh that began last, or none if that one failed.     *)
(***************************************************************************)
SettledIsNewest == refreshes = {} => catalogue = newest.result

(***************************************************************************)
(* A member is never called before the latest time it has named to any     *)
(* request, whichever model the request was for and however many           *)
(* catalogues have been activated since.                                   *)
(***************************************************************************)
CoolingIsRespected ==
  [][\A r \in Requests :
       Len(req'[r].called) > Len(req[r].called) /\ ~req'[r].direct => told'[Last(req'[r].called)] <= now]_<<now, poolvars>>

(***************************************************************************)
(* A request is refused only when each member of its route was tried by it *)
(* or is cooling, and the time it is given is the earliest at which one of *)
(* them may answer again: never an internal error, never a later time.     *)
(***************************************************************************)
RefusedIsEarliest ==
  [][\A r \in Requests :
       req'[r].pc = "refused" /\ req[r].pc # "refused" =>
         LET q == req'[r]
         IN /\ \A m \in q.eligible : m \in Range(q.called) \/ told'[m] > now
            /\ q.retryAt = Min({told'[m] : m \in q.eligible})]_<<now, poolvars>>
==============================================================================
