----------------------------- MODULE RealmProofs -----------------------------
(***************************************************************************)
(* Proofs about Realm, for any teams, images and provider components.  The *)
(* argument: the command that holds the lock is the only one that moves    *)
(* the store, the files and DComp's target, so what its plan was made from *)
(* is still committed when DComp has applied it (Planned, Recorded); an    *)
(* operation that is not pending has left nothing behind (Quiet).          *)
(***************************************************************************)
EXTENDS Realm, TLAPS

\* The invariant without its types.
Parts == /\ SelectedIsWhole /\ ForgottenIsGone
         /\ Flow /\ Writing /\ Planned /\ Recorded /\ Quiet /\ Leaving

USE DEF At, Goto, store, files, dcomp, Parts

LEMMA InitInv == Init => IInv
<1> SUFFICES ASSUME Init PROVE IInv
  OBVIOUS
<1>1. NoImages \in [Teams -> Images]
  BY RealmAssumption DEF NoImages
<1>2. cmd \in Command
  BY <1>1 DEF Init, Command, Kinds, Labels, Idle
<1>3. TypeOK
  BY <1>1, <1>2 DEF Init, TypeOK
<1>4. cmd.pc = "idle" /\ cmd.kind = "none" /\ cmd.base = FALSE
  BY DEF Init, Idle
<1> QED BY <1>3, <1>4 DEF Init, IInv, SelectedIsWhole, ForgottenIsGone, TeamsIn, Flow, Writing, Planned, Recorded, Quiet, Leaving

\* Every step keeps the types.
LEMMA TypeStep == ASSUME TypeOK, [Next]_vars PROVE TypeOK'
<1> USE DEF TypeOK
<1> DEFINE C == cmd \in Command
<1>0. Idle \in Command
  BY RealmAssumption DEF Command, Kinds, Labels, Idle, NoImages
<1>1. ASSUME NEW k \in Kinds, NEW l \in Labels, NEW ts \in SUBSET Teams, NEW im \in [Teams -> Images], NEW b \in BOOLEAN
      PROVE  [Idle EXCEPT !.kind = k, !.pc = l, !.teams = ts, !.images = im, !.base = b] \in Command
  BY <1>0, <1>1 DEF Command, Idle
<1>2. ASSUME NEW l \in Labels PROVE [cmd EXCEPT !.pc = l] \in Command
  BY DEF Command
<1>3. NoImages \in [Teams -> Images]
  BY RealmAssumption DEF NoImages
<1>4. CASE UNCHANGED vars
  BY <1>4 DEF vars
<1>5. CASE Start \/ BeginRepair
  <2>1. ASSUME NEW k \in Kinds, NEW l \in Labels, NEW ts \in SUBSET Teams, NEW im \in [Teams -> Images], NEW b \in BOOLEAN,
               Begin(k, l, ts, im, b)
        PROVE  TypeOK'
    BY <1>1, <2>1 DEF Begin
  <2>2. ASSUME NEW ts \in SUBSET Teams, NEW im \in [Teams -> Images], BeginRun(ts, im) PROVE TypeOK'
    BY <2>1, <2>2 DEF BeginRun, Kinds, Labels
  <2>3. ASSUME NEW im \in [Teams -> Images], BeginRefresh(im) PROVE TypeOK'
    <3>1. {t \in Teams : Wanted(t)} \in SUBSET Teams
      OBVIOUS
    <3> QED BY <2>1, <2>3, <3>1 DEF BeginRefresh, Kinds, Labels
  <2>4. ASSUME NEW ts \in SUBSET Teams, BeginStop(ts) PROVE TypeOK'
    BY <1>3, <2>1, <2>4 DEF BeginStop, Kinds, Labels
  <2>5. ASSUME NEW t \in Teams, BeginStart(t) \/ BeginForget(t) PROVE TypeOK'
    BY <1>3, <2>1, <2>5 DEF BeginStart, BeginForget, Kinds, Labels
  <2>6. ASSUME BeginRepair \/ BeginShutdown \/ BeginGateway PROVE TypeOK'
    BY <1>3, <2>1, <2>6 DEF BeginRepair, BeginShutdown, BeginGateway, Kinds, Labels
  <2> QED BY <1>5, <2>2, <2>3, <2>4, <2>5, <2>6 DEF Start
<1>6. CASE Work
  <2>1. CASE Commit
    <3>1. cmd' \in Command
      BY <2>1 DEF Commit, Command, Labels
    <3>2. intent' \in [Teams -> {"absent", "running", "stopped"}]
      BY <2>1 DEF Commit
    <3>3. image' \in [Teams -> Images]
      BY <2>1 DEF Commit, Command
    <3> QED BY <2>1, <3>1, <3>2, <3>3 DEF Commit
  <2>2. CASE Build
    <3>1. built' \in HostImages
      BY <2>2 DEF Build
    <3>2. Plan \subseteq Descriptors
      BY <3>1, RealmAssumption DEF Plan, HostPlan, TeamPlan, Descriptors
    <3> HIDE DEF TypeOK
    <3>3. cmd' \in Command
      BY <2>2, <3>2 DEF Build, Command, Labels, TypeOK
    <3> QED BY <2>2, <3>1, <3>3 DEF Build, TypeOK
  <2>3. CASE \E d \in Descriptors : WriteDescriptor(d) \/ Unlink(d) \/ RmdirStale(d)
    <3>1. PICK d \in Descriptors : WriteDescriptor(d) \/ Unlink(d) \/ RmdirStale(d)
      BY <2>3
    <3>2. cmd' \in Command
      <4>1. CASE WriteDescriptor(d)
        BY <4>1 DEF WriteDescriptor, Command
      <4>2. CASE Unlink(d)
        BY <4>2 DEF Unlink, Command, Labels
      <4>3. CASE RmdirStale(d)
        BY <4>3 DEF RmdirStale
      <4> QED BY <3>1, <4>1, <4>2, <4>3
    <3> QED BY <3>1, <3>2 DEF WriteDescriptor, Unlink, RmdirStale
  <2>4. CASE Rmdir
    <3>1. cmd' \in Command
      BY <2>4 DEF Rmdir, Command, Labels
    <3> QED BY <2>4, <3>1 DEF Rmdir
  <2>5. CASE Finish
    <3>1. cmd' \in Command
      BY <1>0, <2>5 DEF Finish
    <3>2. intent' \in [Teams -> {"absent", "running", "stopped"}]
      BY <2>5 DEF Finish
    <3> QED BY <2>5, <3>1, <3>2 DEF Finish
  <2>6. CASE Select \/ Swept \/ Up \/ Down \/ Settle \/ PrepareStore
    <3>1. cmd' \in Command
      BY <1>2, <2>6 DEF Select, Swept, Up, Down, Settle, PrepareStore, Labels
    <3>2. selected' \subseteq Descriptors /\ target' \subseteq Descriptors
      BY <2>6 DEF Select, Swept, Up, Down, Settle, PrepareStore, Command
    <3> QED BY <2>6, <3>1, <3>2 DEF Select, Swept, Up, Down, Settle, PrepareStore
  <2> QED BY <1>6, <2>1, <2>2, <2>3, <2>4, <2>5, <2>6 DEF Work
<1>7. CASE External
  BY <1>2, <1>7 DEF External, Applied, DestroyContainer, CreateContainer, Labels
<1>8. CASE Refuse \/ NotReady \/ Fail \/ Cease \/ \E d \in Descriptors : Exit(d)
  BY <1>0, <1>8 DEF Refuse, NotReady, Fail, Cease, Exit
<1> QED BY <1>4, <1>5, <1>6, <1>7, <1>8 DEF Next

-----------------------------------------------------------------------------

\* What moving to another label, or ending, does to the fields of the command.
LEMMA GotoFields ==
  ASSUME cmd \in Command, NEW l, Goto(l)
  PROVE  /\ cmd'.pc = l /\ cmd'.kind = cmd.kind /\ cmd'.teams = cmd.teams
         /\ cmd'.base = cmd.base /\ cmd'.plan = cmd.plan /\ cmd'.todo = cmd.todo
BY DEF Command

LEMMA IdleFields ==
  ASSUME cmd' = Idle
  PROVE  cmd'.pc = "idle" /\ cmd'.kind = "none" /\ cmd'.base = FALSE
BY DEF Idle

\* The commands start with an invariant that asks nothing of them.
LEMMA BeginStep ==
  ASSUME IInv, NEW k \in Kinds, NEW l \in {"build", "commit", "down", "store"},
         NEW ts \in SUBSET Teams, NEW im, NEW b \in BOOLEAN, Begin(k, l, ts, im, b),
         b => k \in {"run", "refresh"},
         l = "commit" => k \in {"start", "stop"},
         l = "down" <=> k = "shutdown",
         l = "store" => k = "gateway",
         k = "forget" => \A t \in ts : intent[t] = "stopped",
         k = "stop" => l = "commit"
  PROVE  Parts'
<1>1. cmd'.pc = l /\ cmd'.kind = k /\ cmd'.teams = ts /\ cmd'.base = b
  BY DEF Begin, Idle
<1>2. UNCHANGED <<intent, image, whole, selected, target, op, running>>
  BY DEF Begin
<1>3. (Flow /\ Writing /\ Planned /\ Recorded)'
  BY <1>1 DEF Flow, Writing, Planned, Recorded
<1>4. (SelectedIsWhole /\ ForgottenIsGone)'
  BY <1>2 DEF IInv, SelectedIsWhole, ForgottenIsGone, TeamsIn
<1>5. (Quiet /\ Leaving)'
  BY <1>1, <1>2 DEF IInv, Quiet, Leaving
<1> QED BY <1>3, <1>4, <1>5

\* A command that ends leaves what holds without one.
LEMMA EndStep ==
  ASSUME IInv, cmd' = Idle, UNCHANGED <<intent, image, whole, selected, target, op, running>>
  PROVE  Parts'
<1>1. (Flow /\ Writing /\ Planned /\ Recorded /\ Leaving)'
  BY IdleFields DEF Flow, Writing, Planned, Recorded, Leaving
<1>2. (SelectedIsWhole /\ ForgottenIsGone)'
  BY DEF IInv, SelectedIsWhole, ForgottenIsGone, TeamsIn
<1>3. Quiet'
  BY IdleFields DEF IInv, Quiet
<1> QED BY <1>1, <1>2, <1>3
\* The store: the one step that moves an intent under a command.
LEMMA CommitStep == ASSUME IInv, Commit PROVE Parts'
<1>0. cmd \in Command /\ intent \in [Teams -> {"absent", "running", "stopped"}]
  BY DEF IInv, TypeOK
<1>1. cmd'.pc = "build" /\ cmd'.kind = cmd.kind /\ cmd'.teams = cmd.teams /\ cmd'.base = FALSE
  BY <1>0 DEF Commit, Command
<1>2. \A t \in Teams : intent'[t] = "absent" => intent[t] = "absent"
  BY <1>0 DEF Commit
<1>3. cmd.kind = "stop" => \A t \in cmd.teams : intent'[t] = "stopped"
  BY <1>0 DEF Commit, Command
<1>4. cmd.kind \in {"run", "refresh", "start", "stop"} /\ UNCHANGED <<whole, selected, target, op, running>>
  BY DEF IInv, Flow, Commit
<1>5. (Flow /\ Writing /\ Planned /\ Recorded)'
  BY <1>1, <1>4 DEF Flow, Writing, Planned, Recorded
<1>6. (SelectedIsWhole /\ ForgottenIsGone)'
  BY <1>2, <1>4 DEF IInv, SelectedIsWhole, ForgottenIsGone, TeamsIn
<1>7. (Quiet /\ Leaving)'
  BY <1>1, <1>3, <1>4 DEF IInv, Quiet, Leaving
<1> QED BY <1>5, <1>6, <1>7

\* An apply plans what is committed.
LEMMA BuildStep == ASSUME IInv, Build PROVE Parts'
<1>0. cmd \in Command /\ built' \in HostImages
  BY DEF IInv, TypeOK, Build
<1>1. cmd'.pc = "write" /\ cmd'.kind = cmd.kind /\ cmd'.teams = cmd.teams /\ cmd'.base = cmd.base /\ cmd'.plan = Plan /\ cmd'.todo = Plan
  BY <1>0 DEF Build, Command
<1>2. UNCHANGED <<intent, image, whole, selected, target, op, running>>
  BY DEF Build
<1>3. \A t \in Teams, i \in Images : <<t, i>> \in Plan => Wanted(t) /\ image[t] = i
  BY RealmAssumption DEF Plan, HostPlan, TeamPlan
<1>4. (Writing /\ Planned /\ Recorded)'
  BY <1>1, <1>2, <1>3 DEF Writing, Planned, Recorded, Committed, Wanted
<1>5. (SelectedIsWhole /\ ForgottenIsGone)'
  BY <1>2 DEF IInv, SelectedIsWhole, ForgottenIsGone, TeamsIn
<1>6. (Flow /\ Quiet /\ Leaving)'
  BY <1>1, <1>2 DEF IInv, Flow, Quiet, Leaving, Build
<1> QED BY <1>4, <1>5, <1>6

\* The files: descriptors come before, and go after, the system that names them.
LEMMA FileStep ==
  ASSUME IInv, Select \/ Rmdir \/ Swept \/ \E d \in Descriptors : WriteDescriptor(d) \/ Unlink(d) \/ RmdirStale(d)
  PROVE  Parts'
<1>0. cmd \in Command
  BY DEF IInv, TypeOK
<1>1. UNCHANGED <<intent, image, target, op, running>>
  BY DEF Select, Rmdir, Swept, WriteDescriptor, Unlink, RmdirStale
<1>2. cmd.pc \in {"write", "sweep", "rmdir"} /\ cmd'.pc \in {"write", "sweep", "rmdir", "check"}
  BY <1>0 DEF Select, Rmdir, Swept, WriteDescriptor, Unlink, RmdirStale, Command
<1>3. cmd'.kind = cmd.kind /\ cmd'.teams = cmd.teams /\ cmd'.base = cmd.base /\ cmd'.plan = cmd.plan
  BY <1>0 DEF Select, Rmdir, Swept, WriteDescriptor, Unlink, RmdirStale, Command
<1>4. ForgottenIsGone'
  BY <1>1 DEF IInv, ForgottenIsGone, TeamsIn
<1>5. (Planned /\ Recorded)'
  BY <1>1, <1>2, <1>3 DEF IInv, Planned, Recorded, Committed, Wanted
<1>6. (Flow /\ Quiet /\ Leaving)'
  BY <1>1, <1>2, <1>3 DEF IInv, Flow, Quiet, Leaving
<1>7. SelectedIsWhole' /\ Writing'
  <2>1. CASE Select
    BY <1>0, <2>1 DEF IInv, SelectedIsWhole, Writing, Select, Command
  <2>2. CASE Rmdir
    BY <1>0, <2>2 DEF IInv, SelectedIsWhole, Writing, Rmdir, Command
  <2>3. CASE Swept
    BY <1>0, <2>3 DEF IInv, SelectedIsWhole, Writing, Swept, Command
  <2>4. ASSUME NEW d \in Descriptors, WriteDescriptor(d) PROVE SelectedIsWhole' /\ Writing'
    BY <1>0, <2>4 DEF IInv, SelectedIsWhole, Writing, WriteDescriptor, Command
  <2>5. ASSUME NEW d \in Descriptors, Unlink(d) PROVE SelectedIsWhole' /\ Writing'
    BY <1>0, <2>5 DEF IInv, SelectedIsWhole, Writing, Unlink, Command
  <2>6. ASSUME NEW d \in Descriptors, RmdirStale(d) PROVE SelectedIsWhole' /\ Writing'
    BY <2>6 DEF IInv, SelectedIsWhole, Writing, RmdirStale
  <2> QED BY <2>1, <2>2, <2>3, <2>4, <2>5, <2>6
<1> QED BY <1>4, <1>5, <1>6, <1>7

\* DComp is told what was planned, and nothing else.
LEMMA TargetStep == ASSUME IInv, Up \/ Down PROVE Parts'
<1>0. cmd \in Command /\ Goto("up") /\ op' = TRUE /\ UNCHANGED <<intent, image, whole, selected, running>>
  BY DEF IInv, TypeOK, Up, Down
<1>1. cmd'.pc = "up" /\ cmd'.kind = cmd.kind /\ cmd'.teams = cmd.teams /\ cmd'.base = cmd.base
  BY <1>0, GotoFields
<1>2. Committed(target')
  BY DEF IInv, Writing, Planned, Committed, Up, Down
<1>3. SelectedIsWhole'
  BY <1>0 DEF IInv, SelectedIsWhole
<1>4. ForgottenIsGone'
  BY <1>0, <1>2 DEF IInv, ForgottenIsGone, TeamsIn, Committed, Wanted
<1>5. (Writing /\ Planned /\ Recorded)'
  BY <1>0, <1>1, <1>2 DEF Writing, Planned, Recorded, Committed, Wanted
<1>6. (Flow /\ Quiet /\ Leaving)'
  BY <1>0, <1>1 DEF IInv, Flow, Quiet, Leaving, Up, Down
<1> QED BY <1>3, <1>4, <1>5, <1>6

\* DComp's own steps, and containers that stop by themselves.
LEMMA ContainerStep ==
  ASSUME IInv, \/ Applied
               \/ \E d \in Descriptors : DestroyContainer(d) \/ CreateContainer(d) \/ Exit(d)
  PROVE  Parts'
<1>0. cmd \in Command /\ UNCHANGED <<intent, image, whole, selected, target>> /\ running' \subseteq running \cup target
  BY DEF IInv, TypeOK, Applied, DestroyContainer, CreateContainer, Exit
<1>1. \/ UNCHANGED cmd /\ UNCHANGED op
      \/ Applied
  BY DEF DestroyContainer, CreateContainer, Exit
<1>2. ForgottenIsGone'
  BY <1>0 DEF IInv, ForgottenIsGone, TeamsIn
<1>3. CASE UNCHANGED cmd /\ UNCHANGED op
  <2>1. (SelectedIsWhole /\ Flow /\ Writing)'
    BY <1>0, <1>3 DEF IInv, SelectedIsWhole, Flow, Writing
  <2>2. (Planned /\ Recorded)'
    BY <1>0, <1>3 DEF IInv, Planned, Recorded, Committed, Wanted
  <2>3. (Quiet /\ Leaving)'
    BY <1>0, <1>3 DEF IInv, Quiet, Leaving
  <2> QED BY <1>2, <2>1, <2>2, <2>3
<1>4. CASE Applied
  <2>1. /\ cmd'.kind = cmd.kind /\ cmd'.teams = cmd.teams /\ cmd'.base = cmd.base /\ cmd'.plan = cmd.plan /\ cmd'.todo = cmd.todo
        /\ cmd'.pc = cmd.pc \/ (cmd.pc = "up" /\ cmd'.pc = "wait")
    BY <1>0, <1>4, GotoFields DEF Applied
  <2>2. op' = FALSE /\ running' = target
    BY <1>4 DEF Applied
  <2>3. (SelectedIsWhole /\ Flow /\ Writing)'
    BY <1>0, <2>1 DEF IInv, SelectedIsWhole, Flow, Writing
  <2>4. (Planned /\ Recorded)'
    BY <1>0, <2>1 DEF IInv, Planned, Recorded, Committed, Wanted
  <2>5. (Quiet /\ Leaving)'
    BY <1>0, <2>1, <2>2 DEF IInv, Quiet, Leaving
  <2> QED BY <1>2, <2>3, <2>4, <2>5
<1> QED BY <1>1, <1>3, <1>4

\* After the apply.
LEMMA AfterStep == ASSUME IInv, Settle \/ PrepareStore PROVE Parts'
<1>0. cmd \in Command /\ UNCHANGED <<intent, image, whole, selected, target, op, running>>
  BY DEF IInv, TypeOK, Settle, PrepareStore
<1>1. cmd'.kind = cmd.kind /\ cmd'.teams = cmd.teams /\ cmd'.base = cmd.base
  BY <1>0, GotoFields DEF Settle, PrepareStore
<1>2. \/ cmd.pc = "wait" /\ cmd.base /\ cmd'.pc = "commit"
      \/ cmd.pc = "wait" /\ ~cmd.base /\ cmd'.pc = "finish"
      \/ cmd.pc = "store" /\ ~op /\ cmd'.pc \in {"build", "finish"}
  BY <1>0, GotoFields DEF Settle, PrepareStore
<1>3. cmd.pc = "store" => cmd.kind = "gateway"
  BY DEF IInv, Flow
<1>4. (SelectedIsWhole /\ ForgottenIsGone)'
  BY <1>0 DEF IInv, SelectedIsWhole, ForgottenIsGone, TeamsIn
<1>5. (Flow /\ Writing)'
  BY <1>0, <1>1, <1>2, <1>3 DEF IInv, Flow, Writing
<1>6. (Planned /\ Recorded)'
  BY <1>0, <1>1, <1>2, <1>3 DEF IInv, Planned, Recorded, Committed, Wanted
<1>7. (Quiet /\ Leaving)'
  BY <1>0, <1>1, <1>2 DEF IInv, Quiet, Leaving
<1> QED BY <1>4, <1>5, <1>6, <1>7

\* A forget removes the document of a team that has no container.
LEMMA FinishStep == ASSUME IInv, Finish PROVE Parts'
<1>0. cmd \in Command /\ UNCHANGED <<image, whole, selected, target, op>> /\ cmd' = Idle /\ ~op /\ running \subseteq target
  BY DEF IInv, TypeOK, Quiet, Finish
<1>1. running' \subseteq running \cup target
  BY DEF Finish
<1>2. (SelectedIsWhole /\ Flow /\ Writing /\ Planned /\ Recorded /\ Leaving)'
  BY <1>0, IdleFields DEF IInv, SelectedIsWhole, Flow, Writing, Planned, Recorded, Leaving
<1>3. Quiet'
  BY <1>0, <1>1, IdleFields DEF IInv, Quiet
<1>4. ForgottenIsGone'
  <2> SUFFICES ASSUME NEW t \in Teams, intent'[t] = "absent", NEW i \in Images
               PROVE  <<t, i>> \notin running' /\ <<t, i>> \notin target'
    BY DEF ForgottenIsGone, TeamsIn
  <2>1. CASE intent[t] = "absent"
    BY <1>0, <1>1, <2>1 DEF IInv, ForgottenIsGone, TeamsIn
  <2>2. CASE intent[t] # "absent"
    <3>1. cmd.kind = "forget" /\ t \in cmd.teams
      BY <2>2 DEF IInv, TypeOK, Finish
    <3>2. intent[t] = "stopped" /\ Committed(target)
      BY <3>1 DEF IInv, Leaving, Recorded, Finish
    <3> QED BY <1>0, <1>1, <3>2 DEF Committed, Wanted
  <2> QED BY <2>1, <2>2
<1> QED BY <1>2, <1>3, <1>4

LEMMA Step == ASSUME IInv, [Next]_vars PROVE IInv'
<1>1. TypeOK'
  BY TypeStep DEF IInv
<1> SUFFICES Parts'
  BY <1>1 DEF IInv
<1>2. CASE UNCHANGED vars
  BY <1>2 DEF vars, IInv, SelectedIsWhole, ForgottenIsGone, TeamsIn, Flow, Writing, Planned, Recorded, Quiet, Leaving, Committed, Wanted
<1>3. CASE Start \/ BeginRepair
  <2>1. ASSUME NEW ts \in SUBSET Teams, NEW im \in [Teams -> Images], BeginRun(ts, im) PROVE Parts'
    BY <2>1, BeginStep DEF BeginRun, Kinds
  <2>2. ASSUME NEW im \in [Teams -> Images], BeginRefresh(im) PROVE Parts'
    <3>1. {t \in Teams : Wanted(t)} \in SUBSET Teams
      OBVIOUS
    <3> QED BY <2>2, <3>1, BeginStep DEF BeginRefresh, Kinds
  <2>3. ASSUME NEW ts \in SUBSET Teams, BeginStop(ts) PROVE Parts'
    BY <2>3, BeginStep DEF BeginStop, Kinds
  <2>4. ASSUME NEW t \in Teams, BeginStart(t) PROVE Parts'
    BY <2>4, BeginStep DEF BeginStart, Kinds
  <2>5. ASSUME NEW t \in Teams, BeginForget(t) PROVE Parts'
    BY <2>5, BeginStep DEF BeginForget, Kinds
  <2>6. ASSUME BeginRepair \/ BeginShutdown \/ BeginGateway PROVE Parts'
    BY <2>6, BeginStep DEF BeginRepair, BeginShutdown, BeginGateway, Kinds
  <2> QED BY <1>3, <2>1, <2>2, <2>3, <2>4, <2>5, <2>6 DEF Start
<1>4. CASE Work
  <2> HIDE DEF Parts
  <2> QED BY <1>4, CommitStep, BuildStep, FileStep, TargetStep, AfterStep, FinishStep DEF Work
<1>5. CASE External \/ \E d \in Descriptors : Exit(d)
  BY <1>5, ContainerStep DEF External
<1>6. CASE Refuse \/ NotReady \/ Fail
  BY <1>6, EndStep DEF Refuse, NotReady, Fail
<1>7. CASE Cease
  BY <1>7 DEF Cease, IInv, SelectedIsWhole, ForgottenIsGone, TeamsIn, Flow, Writing, Planned, Recorded, Quiet, Leaving, Committed, Wanted
<1> QED BY <1>2, <1>3, <1>4, <1>5, <1>6, <1>7 DEF Next

-----------------------------------------------------------------------------

\* Only Settle goes from "wait" to "finish".
LEMMA WaitEnds == ASSUME cmd \in Command, [Next]_vars, At("wait"), cmd'.pc = "finish" PROVE Settle
<1>1. cmd'.pc # cmd.pc /\ cmd' # Idle
  BY DEF Idle
<1>2. ~UNCHANGED cmd
  BY <1>1
<1>3. ~(Start \/ BeginRepair)
  BY DEF Start, BeginRepair, BeginRun, BeginRefresh, BeginStart, BeginStop, BeginForget, BeginShutdown, BeginGateway, Begin
<1>4. ~External /\ ~(\E d \in Descriptors : Exit(d))
  BY <1>2 DEF External, Applied, DestroyContainer, CreateContainer, Exit
<1>5. ~(Refuse \/ NotReady \/ Fail \/ Cease)
  BY <1>1, <1>2 DEF Refuse, NotReady, Fail, Cease
<1>6. Work
  BY <1>2, <1>3, <1>4, <1>5 DEF Next, vars
<1> QED BY <1>6 DEF Work, Commit, Build, Select, Rmdir, Swept, Up, Down, Finish, PrepareStore, WriteDescriptor, Unlink, RmdirStale

\* However commands fail, are killed and are met by the next one, the invariant
\* of the realm holds: for any teams, images and provider components.
THEOREM RealmInvariant == Spec => []IInv
<1>1. IInv /\ [Next]_vars => IInv'
  BY Step
<1> QED BY InitInv, <1>1, PTL DEF Spec

\* The system file of materialize never names a descriptor that is not there.
THEOREM SystemsAreWhole == Spec => []SelectedIsWhole
<1>1. IInv => SelectedIsWhole
  BY DEF IInv
<1> QED BY RealmInvariant, <1>1, PTL

\* cmd_forget deletes a document only when the team has, and will get, no container.
THEOREM ForgottenTeamsAreGone == Spec => []ForgottenIsGone
<1>1. IInv => ForgottenIsGone
  BY DEF IInv
<1> QED BY RealmInvariant, <1>1, PTL

\* Intent is committed before DComp is asked for it, by every command.
THEOREM CommittedFirst == Spec => []AppliedIsCommitted
<1>1. IInv => AppliedIsCommitted
  BY DEF IInv, AppliedIsCommitted, Recorded, Committed
<1> QED BY RealmInvariant, <1>1, PTL

\* No command reports a start, a stop, a forget or a shutdown that did not happen.
THEOREM ReportsAreTrue == Spec => SuccessIsReal
<1> DEFINE True == At("wait") /\ cmd'.pc = "finish" =>
       /\ cmd.kind \in {"run", "refresh", "start"} =>
            \A t \in cmd.teams : Wanted(t) /\ <<t, image[t]>> \in running
       /\ cmd.kind \in {"stop", "forget"} => cmd.teams \cap TeamsIn(running) = {}
       /\ cmd.kind = "shutdown" => running = {}
<1>1. IInv /\ [Next]_vars => [True]_vars
  <2> SUFFICES ASSUME IInv, [Next]_vars, At("wait"), cmd'.pc = "finish" PROVE True
    OBVIOUS
  <2>1. cmd \in Command /\ running \subseteq target /\ target \subseteq Descriptors /\ Committed(target)
    BY DEF IInv, TypeOK, Quiet, Recorded
  <2>2. CASE cmd.kind \in {"run", "refresh", "start"}
    <3>1. Settle
      BY WaitEnds DEF IInv, TypeOK
    <3>2. MustBeReady /\ Ready
      BY <2>1, <2>2, <3>1, GotoFields DEF Settle, MustBeReady
    <3> SUFFICES ASSUME NEW t \in cmd.teams PROVE Wanted(t) /\ <<t, image[t]>> \in running
      BY <2>2
    <3>3. t \in Teams /\ Alive(t)
      BY <2>1, <3>2 DEF Ready, Command
    <3>4. PICK d \in running : d[1] = t
      BY <3>3 DEF Alive
    <3>5. PICK i \in Images : d = <<t, i>>
      BY <2>1, <3>3, <3>4, RealmAssumption DEF Descriptors
    <3> QED BY <2>1, <3>3, <3>4, <3>5 DEF Committed
  <2>3. CASE cmd.kind \in {"stop", "forget"}
    BY <2>1, <2>3 DEF IInv, Leaving, Committed, Wanted, TeamsIn, Command
  <2>4. CASE cmd.kind = "shutdown"
    BY <2>1, <2>4 DEF IInv, Leaving
  <2> QED BY <2>2, <2>3, <2>4
<1> QED BY RealmInvariant, <1>1, PTL DEF Spec, SuccessIsReal

=============================================================================
