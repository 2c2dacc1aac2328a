-------------------------------- MODULE Realm --------------------------------
(***************************************************************************)
(* The lifecycle commands of a realm (cli.py, runtime.py, dcomp_system.py, *)
(* gateway_admin.py): run, refresh, start, stop, forget, repair, shutdown  *)
(* and the administration of the gateway.  Each holds control.lock from    *)
(* its first read to its last write, so one command runs at a time; it may *)
(* fail or be killed at any step, and the next command meets what is left. *)
(*                                                                         *)
(* A command commits what is wanted to the instance store (InstanceStore   *)
(* shows that this is one step), generates a system file that refers to    *)
(* one descriptor directory for each component, and has DComp apply it.    *)
(* DComp is external: it records the target, then removes and creates      *)
(* containers one by one, and may go on when the command that called it    *)
(* has died.                                                               *)
(***************************************************************************)
EXTENDS FiniteSets

CONSTANTS
  Teams,       \* team instances
  Images,      \* immutable team images
  Hosts,       \* the components of the provider system
  Gateway,     \* the one of them that keeps the credentials
  Outer,       \* the one of them that the teams talk to
  HostImages   \* the images a build of the provider system may yield

ASSUME RealmAssumption ==
  /\ Gateway \in Hosts /\ Outer \in Hosts /\ Teams \cap Hosts = {}
  /\ Images # {} /\ HostImages # {}

VARIABLES
  intent,   \* the committed intent of each instance
  image,    \* the image its document selects
  built,    \* the image of the provider system's last build
  whole,    \* descriptor directories with their component.dcomp
  hollow,   \* descriptor directories without it
  selected, \* the descriptors system.dcomp refers to
  target,   \* the components DComp has recorded as wanted
  op,       \* a DComp operation is pending
  running,  \* the containers that run
  cmd,      \* the command that holds the lock
  calm      \* nothing fails any more, and the operator only repairs

store == <<intent, image>>
files == <<whole, hollow, selected>>
dcomp == <<target, op, running>>
vars  == <<store, built, files, dcomp, cmd, calm>>

\* A descriptor is named after its component and the digest of its contents.
Descriptors == (Teams \X Images) \cup (Hosts \X HostImages)

Kinds  == {"none", "run", "refresh", "start", "stop", "forget", "repair", "shutdown", "gateway"}
Labels == {"idle", "commit", "build", "write", "sweep", "rmdir", "check", "up", "wait",
           "down", "store", "finish"}

(***************************************************************************)
(* A command: the instances it is about, the images it gives them, whether *)
(* the apply under way is the one before or after its commit, the          *)
(* components of that apply and what is left of the loop it is in.         *)
(***************************************************************************)
Command == [kind : Kinds, pc : Labels, teams : SUBSET Teams, images : [Teams -> Images],
            base : BOOLEAN, plan : SUBSET Descriptors, todo : SUBSET Descriptors]

NoImages == [t \in Teams |-> CHOOSE i \in Images : TRUE]
Idle == [kind |-> "none", pc |-> "idle", teams |-> {}, images |-> NoImages,
         base |-> FALSE, plan |-> {}, todo |-> {}]

At(label) == cmd.pc = label
Goto(label) == cmd' = [cmd EXCEPT !.pc = label]

Wanted(t) == intent[t] = "running"
HostPlan == {<<h, built>> : h \in Hosts}
TeamPlan == {<<t, image[t]>> : t \in {u \in Teams : Wanted(u)}}

-----------------------------------------------------------------------------
(* The commands: what they require before they change anything               *)

Begin(kind, label, teams, images, base) ==
  /\ At("idle")
  /\ cmd' = [Idle EXCEPT !.kind = kind, !.pc = label, !.teams = teams, !.images = images, !.base = base]
  /\ UNCHANGED <<store, built, files, dcomp, calm>>

\* run brings the provider system up to check the models, then commits.
BeginRun(teams, images) ==
  /\ ~calm /\ teams # {} /\ \A t \in teams : intent[t] = "absent"
  /\ Begin("run", "build", teams, images, TRUE)

\* refresh rebuilds every running team and applies the provider system alone first.
BeginRefresh(images) ==
  /\ ~calm
  /\ Begin("refresh", "build", {t \in Teams : Wanted(t)}, images, TRUE)

BeginStart(t) ==
  /\ ~calm /\ intent[t] = "stopped"
  /\ Begin("start", "commit", {t}, NoImages, FALSE)

BeginStop(teams) ==
  /\ ~calm /\ teams # {} /\ \A t \in teams : intent[t] # "absent"
  /\ Begin("stop", "commit", teams, NoImages, FALSE)

\* Mutant: the document goes without an apply that took the team away.
ForgetUnapplied(t) ==
  /\ ~calm /\ intent[t] = "stopped"
  /\ Begin("forget", "finish", {t}, NoImages, FALSE)

BeginForget(t) ==
  /\ ~calm /\ intent[t] = "stopped"
  /\ Begin("forget", "build", {t}, NoImages, FALSE)

\* repair, models, providers restart and gateway build apply what is committed.
BeginRepair == Begin("repair", "build", {}, NoImages, FALSE)

BeginShutdown == ~calm /\ Begin("shutdown", "down", {}, NoImages, FALSE)

BeginGateway == ~calm /\ Begin("gateway", "store", {}, NoImages, FALSE)

-----------------------------------------------------------------------------
(* The instance store                                                        *)

Commit ==
  /\ At("commit")
  /\ intent' = [t \in Teams |-> CASE t \notin cmd.teams -> intent[t]
                                  [] t \in cmd.teams /\ cmd.kind = "stop" -> "stopped"
                                  [] OTHER -> "running"]
  /\ image' = [t \in Teams |-> IF t \in cmd.teams /\ cmd.kind \in {"run", "refresh"}
                               THEN cmd.images[t] ELSE image[t]]
  /\ cmd' = [cmd EXCEPT !.pc = "build", !.base = FALSE]
  /\ UNCHANGED <<built, files, dcomp, calm>>

-----------------------------------------------------------------------------
(* CycloRuntime.apply: build, materialize, check, up                         *)

\* Refresh's first apply leaves the teams out; gateway administration applies
\* the gateway alone; every other apply is the committed inventory.
Plan == CASE cmd.kind = "gateway" -> {<<Gateway, built'>>}
          [] cmd.kind = "refresh" /\ cmd.base -> HostPlan'
          [] OTHER -> HostPlan' \cup TeamPlan

\* The second apply of a command finds the images of the first in its caches.
Cached == calm \/ (cmd.kind \in {"run", "refresh"} /\ ~cmd.base)

Build ==
  /\ At("build")
  /\ built' \in IF Cached THEN {built} ELSE HostImages
  /\ cmd' = [cmd EXCEPT !.pc = "write", !.plan = Plan, !.todo = Plan]
  /\ UNCHANGED <<store, files, dcomp, calm>>

\* _write_descriptor: a directory that is whole is left alone; a new one is
\* renamed into place; one without component.dcomp is refused (Refuse).
WriteDescriptor(d) ==
  /\ At("write") /\ d \in cmd.todo /\ d \notin hollow
  /\ whole' = whole \cup {d}
  /\ cmd' = [cmd EXCEPT !.todo = @ \ {d}]
  /\ UNCHANGED <<store, built, hollow, selected, dcomp, calm>>

Select ==
  /\ At("write") /\ cmd.todo = {}
  /\ selected' = cmd.plan
  /\ Goto("sweep")
  /\ UNCHANGED <<store, built, whole, hollow, dcomp, calm>>

\* _remove_unused_descriptors: unlink the one file, then the directory.
Unlink(d) ==
  /\ At("sweep") /\ d \in whole \ cmd.plan
  /\ whole' = whole \ {d} /\ hollow' = hollow \cup {d}
  /\ cmd' = [cmd EXCEPT !.pc = "rmdir", !.todo = {d}]
  /\ UNCHANGED <<store, built, selected, dcomp, calm>>

Rmdir ==
  /\ At("rmdir")
  /\ hollow' = hollow \ cmd.todo
  /\ cmd' = [cmd EXCEPT !.pc = "sweep", !.todo = {}]
  /\ UNCHANGED <<store, built, whole, selected, dcomp, calm>>

\* An empty directory that a dead process left is removed.
RmdirStale(d) ==
  /\ At("sweep") /\ d \in hollow \ cmd.plan
  /\ hollow' = hollow \ {d}
  /\ UNCHANGED <<store, built, whole, selected, dcomp, cmd, calm>>

Swept ==
  /\ At("sweep") /\ (whole \cup hollow) \subseteq cmd.plan
  /\ Goto("check")
  /\ UNCHANGED <<store, built, files, dcomp, calm>>

\* Mutant: a system that was applied before is not applied again.
UpOnce ==
  /\ At("check") /\ selected \subseteq whole
  /\ target' = selected /\ op' = (op \/ selected # target)
  /\ Goto(IF selected = target THEN "wait" ELSE "up")
  /\ UNCHANGED <<store, built, files, running, calm>>

\* dcomp check and dcomp up: the target is recorded before anything changes.
Up ==
  /\ At("check") /\ selected \subseteq whole
  /\ target' = selected /\ op' = TRUE
  /\ Goto("up")
  /\ UNCHANGED <<store, built, files, running, calm>>

Down ==
  /\ At("down")
  /\ target' = {} /\ op' = TRUE
  /\ Goto("up")
  /\ UNCHANGED <<store, built, files, running, calm>>

-----------------------------------------------------------------------------
(* DComp: works towards its target while an operation is pending             *)

DestroyContainer(d) ==
  /\ op /\ d \in running \ target
  /\ running' = running \ {d}
  /\ UNCHANGED <<store, built, files, target, op, cmd, calm>>

CreateContainer(d) ==
  /\ op /\ d \in target \ running
  /\ running' = running \cup {d}
  /\ UNCHANGED <<store, built, files, target, op, cmd, calm>>

\* The operation is complete; the command that waits for it goes on.
Applied ==
  /\ op /\ running = target
  /\ op' = FALSE
  /\ IF At("up") THEN Goto("wait") ELSE UNCHANGED cmd
  /\ UNCHANGED <<store, built, files, target, running, calm>>

\* A container stops by itself.
Exit(d) ==
  /\ ~calm /\ d \in running
  /\ running' = running \ {d}
  /\ UNCHANGED <<store, built, files, target, op, cmd, calm>>

-----------------------------------------------------------------------------
(* After the apply                                                           *)

\* require_instances_ready: no pending operation, and the provider and every
\* requested team run.  It looks at names, not at images.
Alive(c) == \E d \in running : d[1] = c

\* Mutant: a team counts as ready when DComp has finished.
ReadyOnceApplied == cmd.teams = {} \/ (~op /\ Alive(Outer))

Ready == cmd.teams = {} \/ (~op /\ Alive(Outer) /\ \A t \in cmd.teams : Alive(t))

MustBeReady == cmd.kind \in {"run", "refresh", "start"} /\ ~cmd.base

\* wait_status; after a first apply the catalogue and the models are checked.
Settle ==
  /\ At("wait")
  /\ MustBeReady => Ready
  /\ Goto(IF cmd.base THEN "commit" ELSE "finish")
  /\ UNCHANGED <<store, built, files, dcomp, calm>>

\* The command ends: forget removes the document, the administration of the
\* gateway restarts it.
Finish ==
  /\ At("finish")
  /\ intent' = IF cmd.kind = "forget"
               THEN [t \in Teams |-> IF t \in cmd.teams THEN "absent" ELSE intent[t]]
               ELSE intent
  /\ running' = IF cmd.kind = "gateway" THEN running \cup {d \in target : d[1] = Gateway} ELSE running
  /\ cmd' = Idle
  /\ UNCHANGED <<image, built, files, target, op, calm>>

\* _prepare_store: resume what is pending (DComp's own steps), apply the gateway
\* alone when nothing was applied, and do not reconcile anything else.
PrepareStore ==
  /\ At("store") /\ ~op
  /\ Goto(IF target = {} THEN "build" ELSE "finish")
  /\ UNCHANGED <<store, built, files, dcomp, calm>>

-----------------------------------------------------------------------------
(* What goes wrong                                                           *)

\* The command finds an empty descriptor directory where it needs one.
Refuse ==
  /\ At("write") /\ cmd.todo \cap hollow # {}
  /\ cmd' = Idle
  /\ UNCHANGED <<store, built, files, dcomp, calm>>

\* A requested team, or the provider, does not run.
NotReady ==
  /\ At("wait") /\ MustBeReady /\ ~Ready
  /\ cmd' = Idle
  /\ UNCHANGED <<store, built, files, dcomp, calm>>

\* A build, a validation, DComp or a write fails, or the process is killed:
\* the lock is free, the rest stays.
Fail ==
  /\ ~calm /\ ~At("idle")
  /\ cmd' = Idle
  /\ UNCHANGED <<store, built, files, dcomp, calm>>

Cease ==
  /\ ~calm
  /\ calm' = TRUE
  /\ UNCHANGED <<store, built, files, dcomp, cmd>>

-----------------------------------------------------------------------------

Init ==
  /\ intent = [t \in Teams |-> "absent"]
  /\ image = NoImages
  /\ built \in HostImages
  /\ whole = {} /\ hollow = {} /\ selected = {}
  /\ target = {} /\ op = FALSE /\ running = {}
  /\ cmd = Idle /\ calm = FALSE

Start ==
  \/ \E teams \in SUBSET Teams : BeginStop(teams) \/ \E images \in [Teams -> Images] : BeginRun(teams, images)
  \/ \E images \in [Teams -> Images] : BeginRefresh(images)
  \/ \E t \in Teams : BeginStart(t) \/ BeginForget(t)
  \/ BeginShutdown \/ BeginGateway

Work ==
  \/ Commit \/ Build \/ Select \/ Rmdir \/ Swept \/ Up \/ Down \/ Settle \/ Finish \/ PrepareStore
  \/ \E d \in Descriptors : WriteDescriptor(d) \/ Unlink(d) \/ RmdirStale(d)

External == Applied \/ \E d \in Descriptors : DestroyContainer(d) \/ CreateContainer(d)

Next ==
  \/ Start \/ BeginRepair \/ Work \/ Refuse \/ NotReady \/ External \/ Fail \/ Cease
  \/ \E d \in Descriptors : Exit(d)

Spec == Init /\ [][Next]_vars

(***************************************************************************)
(* A command that has begun goes on until it ends or fails, DComp makes    *)
(* progress while a command waits for it (not when it is left alone), and  *)
(* once nothing fails any more the operator repairs as often as it takes.  *)
(***************************************************************************)
Driven == (At("up") \/ At("store")) /\ External

FairSpec == Spec /\ WF_vars(BeginRepair) /\ WF_vars(Work \/ Refuse \/ NotReady) /\ WF_vars(Driven)

-----------------------------------------------------------------------------
(* Properties *)

TypeOK ==
  /\ intent \in [Teams -> {"absent", "running", "stopped"}]
  /\ image \in [Teams -> Images]
  /\ built \in HostImages
  /\ whole \subseteq Descriptors /\ hollow \subseteq Descriptors /\ selected \subseteq Descriptors
  /\ target \subseteq Descriptors /\ running \subseteq Descriptors
  /\ op \in BOOLEAN /\ calm \in BOOLEAN
  /\ cmd \in Command

\* The team containers that a set of components stands for.
TeamsIn(components) == {t \in Teams : \E i \in Images : <<t, i>> \in components}

(***************************************************************************)
(* system.dcomp never refers to a descriptor that is not there: whichever  *)
(* step of a materialization is the last, the previous system or the next  *)
(* one can be applied.                                                     *)
(***************************************************************************)
SelectedIsWhole == selected \subseteq whole

(***************************************************************************)
(* A forgotten instance has no container and DComp will create none: its   *)
(* state was deleted only after an apply that had taken it away.           *)
(***************************************************************************)
ForgottenIsGone ==
  \A t \in Teams : intent[t] = "absent" => t \notin TeamsIn(running) \cup TeamsIn(target)

(***************************************************************************)
(* What a live command has DComp start is committed: the intent is         *)
(* "running" and the image is the document's, so a crash in the middle of  *)
(* the apply leaves an intent from which it can be repeated.               *)
(***************************************************************************)
AppliedIsCommitted ==
  At("up") => \A t \in Teams, i \in Images : <<t, i>> \in target => Wanted(t) /\ image[t] = i

(***************************************************************************)
(* A command that goes on to report success has seen what it reports: a    *)
(* started team runs its committed image, a stopped or forgotten one does  *)
(* not run, and after a shutdown nothing does.                             *)
(***************************************************************************)
SuccessIsReal ==
  [][At("wait") /\ cmd'.pc = "finish" =>
       /\ cmd.kind \in {"run", "refresh", "start"} =>
            \A t \in cmd.teams : Wanted(t) /\ <<t, image[t]>> \in running
       /\ cmd.kind \in {"stop", "forget"} => cmd.teams \cap TeamsIn(running) = {}
       /\ cmd.kind = "shutdown" => running = {}]_vars

\* Every team of a set of components is wanted, with the image it has there.
Committed(components) ==
  \A t \in Teams, i \in Images : <<t, i>> \in components => Wanted(t) /\ image[t] = i

(***************************************************************************)
(* The inductive invariant.  Flow: which command is where.  Writing: what  *)
(* a materialization has done so far.  Planned and Recorded: the store     *)
(* does not move under an apply.  Quiet: DComp leaves nothing behind.      *)
(* Leaving: what stop, forget and shutdown know of their targets.          *)
(***************************************************************************)
Flow ==
  /\ At("commit") => cmd.kind \in {"run", "refresh", "start", "stop"}
  /\ cmd.base => cmd.kind \in {"run", "refresh"}
  /\ cmd.kind = "shutdown" => cmd.pc \in {"down", "up", "wait", "finish"}
  /\ At("down") => cmd.kind = "shutdown"
  /\ At("store") => cmd.kind = "gateway"

Writing ==
  /\ At("write") => cmd.plan \ cmd.todo \subseteq whole
  /\ cmd.pc \in {"sweep", "rmdir", "check"} => selected = cmd.plan

Planned == cmd.pc \in {"write", "sweep", "rmdir", "check"} => Committed(cmd.plan)

Recorded ==
  cmd.pc \in {"up", "wait"} \/ (At("finish") /\ cmd.kind # "gateway") => Committed(target)

Quiet ==
  /\ ~op => running \subseteq target
  /\ cmd.pc \in {"wait", "finish"} => ~op

Leaving ==
  /\ cmd.kind = "forget" \/ (cmd.kind = "stop" /\ ~At("commit")) =>
       \A t \in cmd.teams : intent[t] = "stopped"
  /\ cmd.kind = "shutdown" /\ ~At("down") => target = {}

IInv == /\ TypeOK /\ SelectedIsWhole /\ ForgottenIsGone
        /\ Flow /\ Writing /\ Planned /\ Recorded /\ Quiet /\ Leaving

\* The containers that run are those of the committed intent.
Converged == running = HostPlan \cup TeamPlan

(***************************************************************************)
(* The committed intent is repairable: when nothing fails any more and the *)
(* operator repairs, the containers become, and stay, what is committed.   *)
(* It fails when a command was killed between the unlink and the rmdir of  *)
(* a descriptor that is wanted again.                                      *)
(***************************************************************************)
RepairConverges == calm ~> []Converged

(***************************************************************************)
(* Nothing but such an empty descriptor directory keeps repair from        *)
(* converging: whatever else the commands that failed have left, repair    *)
(* comes to the committed intent.                                          *)
(***************************************************************************)
RepairConvergesUnlessHollow == <>[](calm => Converged \/ hollow # {})
==============================================================================
