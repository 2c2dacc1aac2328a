-------------------------------- MODULE Launch --------------------------------
(***************************************************************************)
(* How run, refresh, start, stop and forget get from what an operator      *)
(* wrote to what is committed and applied (cli.py, project_run.py,         *)
(* runtime.py, team/component.py), while the operator goes on editing: the *)
(* project files, the team repositories, host.conf, the directories and    *)
(* the provider's catalogue may change between any two reads of a command. *)
(*                                                                         *)
(* One command runs at a time: they hold control.lock, and the reads run   *)
(* makes before it takes the lock touch nothing another command writes.    *)
(* Failures and kills are Realm's matter and what DComp does is too; here  *)
(* `applied' is the system the last generated file asks for.               *)
(***************************************************************************)
EXTENDS HostGraph

CONSTANTS
  Disk0,       \* the directories, files and catalogue an operator starts with
  Files,       \* the paths a project may be selected by
  Texts,       \* what project.cyclo may hold, for each file
  Rosters, Roles, Protocols, Dockerfiles, Commits,   \* what a team repository may hold
  HostPath, HostLines,   \* host.conf and what it may hold
  Catalogues,  \* what the outer provider may list
  FixedRoots,  \* the state root, host Pi configuration, Docker socket, ...
  Moves,       \* what may come to a path: pairs of a path and a link or a new directory
  MaxInputs,   \* commands and edits an operator makes
  MaxEdits     \* edits among them

\* What an operator writes: lists of directives and of declarations.
ProjectText(lines) ==
  /\ IsList(lines.team) /\ IsList(lines.mount) /\ IsList(lines.name)
  /\ \A n \in Range(lines.name) : IsList(n)

HostText(lines) == IsList(lines.provider) /\ IsList(lines.component)

ASSUME TextsAreLists ==
  /\ \A f \in DOMAIN Disk0.text : \A lines \in Texts[f] \cup {Disk0.text[f]} : ProjectText(lines)
  /\ \A lines \in HostLines \cup {Disk0.hostconf} : HostText(lines)

\* One new directory may take the place of another, and that does not come back:
\* a directory that does could not be told from one that never left.
ASSUME DirectoriesDoNotReturn ==
  /\ \A p \in DOMAIN Disk0.place : IsList(p)
  /\ \A m \in Moves :
       /\ m[1] \in DOMAIN Disk0.place
       /\ m[2].kind = "dir" =>
            /\ m[2].inode # Disk0.place[m[1]].inode
            /\ \A n \in Moves : n[1] = m[1] /\ n[2].kind = "dir" => n[2] = m[2]

VARIABLES
  place,      \* directories and links
  text,       \* project files
  repo,       \* the files of the team repositories, by directory
  hostconf,   \* host.conf
  catalogue,  \* what the provider lists now
  docs,       \* the committed instances
  configs,    \* project-config/GENERATION/project.cyclo of the instances
  applied,    \* the system asked for last: the docs it is of and the binds it has
  cmd,        \* the command in progress
  inputs, edits

disk   == <<place, text, repo, hostconf, catalogue>>
store  == <<docs, configs, applied>>
counts == <<inputs, edits>>
vars   == <<disk, store, cmd, counts>>

LoadOrder     == <<"roster", "roles", "protocol", "dockerfile", "git">>
GenerateOrder == <<"git", "roster", "roles", "protocol", "dockerfile">>

NoHost == [ok |-> FALSE, path |-> <<>>]
Idle == [kind |-> "none", pc |-> "idle", source |-> <<>>, ids |-> {}, definition |-> Refused,
         todo |-> <<>>, teams |-> <<>>, home |-> <<>>, root |-> 0, read |-> <<>>, images |-> <<>>, sources |-> {},
         bindings |-> <<>>, work |-> {}, binds |-> {}, host |-> NoHost, base |-> FALSE, served |-> {}]

At(label) == cmd.pc = label
Goto(c, label) == [c EXCEPT !.pc = label]

\* A CycloError ends the command.
Check(ok, next) == cmd' = IF ok THEN next ELSE Idle

Running == {d \in docs : d.intent = "running"}
Doc(id) == CHOOSE d \in docs : d.id = id
Ids == {d.id : d \in docs}

-----------------------------------------------------------------------------
(* The commands                                                             *)

Begin(command) ==
  /\ At("idle") /\ inputs < MaxInputs
  /\ cmd' = command
  /\ inputs' = inputs + 1
  /\ UNCHANGED <<disk, store, edits>>

BeginRun(source) == Begin([Idle EXCEPT !.kind = "run", !.pc = "load", !.source = source])

\* Every running instance, one after the other.
BeginRefresh ==
  Begin([Idle EXCEPT !.kind = "refresh", !.pc = "next", !.work = {d.id : d \in Running}])

BeginStart(id) ==
  /\ id \in Ids /\ Doc(id).intent = "stopped"
  /\ Begin([Idle EXCEPT !.kind = "start", !.pc = "commit", !.ids = {id}])

BeginStop(id) ==
  id \in Ids /\ Begin([Idle EXCEPT !.kind = "stop", !.pc = "commit", !.ids = {id}])

\* _stop_targets: the IDs the project selects now; each must be an instance.
BeginStopProject(source) ==
  LET definition == LoadProject(place, text, source)
      ids == {ProjectInstanceId(definition, definition.teams[i]) : i \in DOMAIN definition.teams}
  IN /\ definition.ok /\ ids \subseteq Ids
     /\ Begin([Idle EXCEPT !.kind = "stop", !.pc = "commit", !.source = source, !.ids = ids])

BeginForget(id) ==
  /\ id \in Ids /\ Doc(id).intent = "stopped"
  /\ Begin([Idle EXCEPT !.kind = "forget", !.pc = "validate", !.ids = {id}])

-----------------------------------------------------------------------------
(* Reading the definition: run reads one project, refresh that of each      *)
(* running instance                                                         *)

NextInstance ==
  /\ At("next")
  /\ \/ /\ cmd.work = {}
        /\ cmd' = Goto(cmd, "check")
     \/ \E id \in cmd.work :
          cmd' = [cmd EXCEPT !.pc = "load", !.work = @ \ {id}, !.ids = {id}, !.source = Doc(id).project_file]
  /\ UNCHANGED <<disk, store, counts>>

Load ==
  /\ At("load")
  /\ LET definition == LoadProject(place, text, cmd.source)
     IN Check(definition.ok,
              [cmd EXCEPT !.pc = "read", !.definition = definition, !.todo = definition.teams,
                          !.teams = <<>>, !.read = <<>>])
  /\ UNCHANGED <<disk, store, counts>>

Snapshot(order, parts) ==
  [name \in Range(order) |-> parts[CHOOSE i \in DOMAIN order : order[i] = name]]

IsTeam(path) == Canonical(place, path) /\ Inode(place, path) \in DOMAIN repo

\* _read_team_snapshot opens the directory, which may be no link, with the
\* roster and reads the other files from what it opened; git goes by the path
\* and follows a link.
OpenTeam(part, path) == IF part = "roster" THEN Inode(place, path) ELSE cmd.root
GitCommit(path) ==
  LET target == Resolve(place, path)
  IN IF IsTeam(target) THEN repo[Inode(place, target)].git ELSE "none"
ReadPart(part, path) == IF part = "git" THEN GitCommit(path) ELSE repo[OpenTeam(part, path)][part]

\* load_project_teams: read a file of the next team; after the last, parse.
\* load_team resolves the path of the entry and keeps to what it leads to.
ReadTeam ==
  /\ At("read")
  /\ LET entry == Head(cmd.todo)
         part  == LoadOrder[Len(cmd.read) + 1]
         home  == IF part = "roster" THEN Resolve(place, entry.path) ELSE cmd.home
         found == part \in {"roster", "git"} => IsTeam(home)
         parts == Append(cmd.read, ReadPart(part, home))
         team  == Snapshot(LoadOrder, parts)
     IN IF Len(cmd.read) + 1 < Len(LoadOrder)
        THEN Check(found, [cmd EXCEPT !.home = home, !.root = OpenTeam(part, home), !.read = parts])
        ELSE Check(found /\ LoadsTeam(team),
                   [cmd EXCEPT !.read = <<>>, !.home = <<>>, !.root = 0, !.todo = Tail(@),
                               !.teams = Append(@, [entry |-> entry, root |-> home, roster |-> team.roster,
                                                    protocol |-> team.protocol]),
                               !.pc = IF Tail(cmd.todo) = <<>> THEN "authority" ELSE "read"])
  /\ UNCHANGED <<disk, store, counts>>

\* CycloRuntime.host: host.conf is read once in a command.
HostOf(c) == IF c.host.ok THEN c.host ELSE LoadHost(place, HostPath, hostconf)
Protected(host) == FixedRoots \cup TrustedHostRoots(host)

\* validate_project_mounts; then run takes the lock and refuses an ID that exists,
\* and refresh looks for the team that has its instance's ID.
Authority ==
  /\ At("authority")
  /\ LET host  == HostOf(cmd)
         roots == [i \in DOMAIN cmd.teams |-> cmd.teams[i].root]
         next  == IF cmd.kind = "run" THEN "collide" ELSE "select"
     IN Check(/\ host.ok /\ Distinct(roots)
              /\ ValidateMountAuthority(place, Range(roots), Range(Paths(cmd.definition.mounts)), Protected(host)),
              [cmd EXCEPT !.pc = next, !.host = host])
  /\ UNCHANGED <<disk, store, counts>>

NewIds == {ProjectInstanceId(cmd.definition, cmd.teams[i].entry) : i \in DOMAIN cmd.teams}

Collide ==
  /\ At("collide")
  /\ Check(NewIds \cap Ids = {}, [cmd EXCEPT !.pc = "validate", !.base = TRUE, !.todo = cmd.teams])
  /\ UNCHANGED <<disk, store, counts>>

Candidates == {i \in DOMAIN cmd.teams : ProjectInstanceId(cmd.definition, cmd.teams[i].entry) \in cmd.ids}

Select ==
  /\ At("select")
  /\ LET found == <<cmd.teams[CHOOSE i \in Candidates : TRUE]>>
     IN Check(Cardinality(Candidates) = 1,
              [cmd EXCEPT !.pc = "image", !.todo = found, !.teams = found, !.images = <<>>])
  /\ UNCHANGED <<disk, store, counts>>

-----------------------------------------------------------------------------
(* Building, and binding what was built to what was read                    *)

\* Docker reads the Dockerfile as it is now; every image is built first.
BuildTeam ==
  /\ At("image")
  /\ LET root  == Resolve(place, Head(cmd.todo).root)
         image == repo[Inode(place, root)].dockerfile
         last  == Tail(cmd.todo) = <<>>
     IN Check(IsTeam(root) /\ image.final /\ image.entrypoint,
              [cmd EXCEPT !.images = Append(@, image),
                          !.todo = IF last THEN cmd.teams ELSE Tail(@),
                          !.pc = CASE ~last -> "image" [] last /\ cmd.kind = "run" -> "generate"
                                   [] OTHER -> "capture"])
  /\ UNCHANGED <<disk, store, counts>>

Sources == {Head(cmd.todo).root} \cup Range(Paths(cmd.definition.mounts))

\* capture_source_identities: run does it after the generation, refresh before.
Capture ==
  /\ At("capture")
  /\ Check(\A p \in Sources : Canonical(place, p),
           [cmd EXCEPT !.pc = IF cmd.kind = "run" THEN "bind" ELSE "generate",
                       !.sources = CaptureSourceIdentities(place, Sources)])
  /\ UNCHANGED <<disk, store, counts>>

\* team_generation: every file is read again.
Generate ==
  /\ At("generate")
  /\ LET team  == Head(cmd.todo)
         part  == GenerateOrder[Len(cmd.read) + 1]
         parts == Append(cmd.read, ReadPart(part, team.root))
         whole == Len(cmd.read) + 1 = Len(GenerateOrder)
     IN Check(/\ part = "roster" => IsTeam(team.root)
              /\ whole => GenerationAgrees(Snapshot(GenerateOrder, parts), team),
              [cmd EXCEPT !.read = parts, !.root = OpenTeam(part, team.root),
                          !.pc = CASE ~whole -> "generate" [] whole /\ cmd.kind = "run" -> "capture"
                                   [] OTHER -> "bind"])
  /\ UNCHANGED <<disk, store, counts>>

\* new_instance, or the replacement _refresh_instance makes.
Instance(team, image, generation) ==
  LET d == cmd.definition
  IN [id |-> ProjectInstanceId(d, team.entry), team |-> team.root, write |-> team.entry.mode = "rw",
      generation |-> generation, models |-> AgentModels(team.roster), protocol |-> team.protocol # "none",
      image |-> image, intent |-> "running", project_file |-> Resolve(place, d.path),
      project_generation |-> d.generation, config |-> RenderContainerProject(d, team.entry),
      mounts |-> d.mounts]

\* A binding also remembers the directory its generation was read from.
Bind ==
  /\ At("bind")
  /\ LET team    == Head(cmd.todo)
         image   == cmd.images[Len(cmd.images) + 1 - Len(cmd.todo)]
         binding == [doc |-> Instance(team, image, Snapshot(GenerateOrder, cmd.read)),
                     roster |-> team.roster, sources |-> cmd.sources, root |-> cmd.root]
     IN cmd' = [cmd EXCEPT !.bindings = Append(@, binding), !.todo = Tail(@), !.read = <<>>, !.root = 0,
                           !.sources = {}, !.pc = IF Tail(cmd.todo) = <<>> THEN "verify" ELSE "generate"]
  /\ UNCHANGED <<disk, store, counts>>

\* Refresh verifies each instance after it is bound, run all of them together.
Verify ==
  /\ At("verify")
  /\ LET fresh == IF cmd.kind = "run" THEN Range(cmd.bindings) ELSE {Last(cmd.bindings)}
     IN Check(\A b \in fresh : VerifySourceIdentities(place, b.sources),
              Goto(cmd, IF cmd.kind = "run" THEN "check" ELSE "next"))
  /\ UNCHANGED <<disk, store, counts>>

-----------------------------------------------------------------------------
(* CycloRuntime.validate_instances                                          *)

MountsOf(ds) == UNION {Range(Paths(d.mounts)) : d \in ds}
TeamsOf(ds)  == {Resolve(place, d.team) : d \in ds}
Group(ds, d) == {e \in ds : <<e.project_file, e.project_generation>> = <<d.project_file, d.project_generation>>}

\* decode_instance_project finds no error.
Decodes(d) == d.mounts # <<>> /\ \A m \in Range(d.mounts) : m.mode \in {"ro", "rw"}

\* Mutant: each project is looked at alone.
ValidateProjects(host, ds) ==
  ds # {} => /\ host.ok
             /\ \A d \in ds : /\ Decodes(d) /\ IsDirectory(place, d.team)
                              /\ ValidateMountAuthority(place, TeamsOf(Group(ds, d)), MountsOf(Group(ds, d)), Protected(host))

ValidateInstances(host, ds) ==
  ds # {} =>
    /\ host.ok
    /\ \A d \in ds :
         /\ Decodes(d) /\ IsDirectory(place, d.team)
         /\ ValidateMountAuthority(place, TeamsOf(Group(ds, d)), MountsOf(Group(ds, d)), Protected(host))
    /\ ValidateStrictSourceRootSeparation(place, TeamsOf(ds) \cup MountsOf(ds))
    /\ ValidateTeamMountSeparation(place, TeamsOf(ds), MountsOf(ds))

NewDocs == {b.doc : b \in Range(cmd.bindings)}

\* The instances as they will be: the prepared ones in place of those they refresh.
Prepared == {d \in docs : d.id \notin {n.id : n \in NewDocs}} \cup NewDocs
PreparedRunning == {d \in Prepared : d.intent = "running"}

CheckInstances ==
  /\ At("check")
  /\ LET host == HostOf(cmd)
         next == IF cmd.kind = "run" THEN "commit" ELSE "validate"
     IN Check(ValidateInstances(host, PreparedRunning),
              [cmd EXCEPT !.pc = next, !.host = IF PreparedRunning = {} THEN @ ELSE host, !.base = cmd.kind = "refresh"])
  /\ UNCHANGED <<disk, store, counts>>

-----------------------------------------------------------------------------
(* Committing and applying                                                  *)

Commit ==
  /\ At("commit")
  /\ docs' = CASE cmd.kind \in {"run", "refresh"} -> Prepared
               [] cmd.kind = "start" -> {IF d.id \in cmd.ids THEN [d EXCEPT !.intent = "running"] ELSE d : d \in docs}
               [] cmd.kind = "stop"  -> {IF d.id \in cmd.ids THEN [d EXCEPT !.intent = "stopped"] ELSE d : d \in docs}
  /\ cmd' = [cmd EXCEPT !.pc = "validate", !.base = FALSE]
  /\ UNCHANGED <<disk, configs, applied, counts>>

\* Refresh's first apply has no team in it.
Target == IF cmd.kind = "refresh" /\ cmd.base THEN {} ELSE Running

\* apply looks at the instances before it builds the images of the host ...
Validate ==
  /\ At("validate")
  /\ LET host == HostOf(cmd)
     IN Check(host.ok /\ ValidateInstances(host, Target), [cmd EXCEPT !.pc = "system", !.host = host])
  /\ UNCHANGED <<disk, store, counts>>

\* A bind: the source that was checked, and what will be mounted for it.
Checked(id, role, path) == [id |-> id, role |-> role, checked |-> path, path |-> path]
BindSources(d) == {Checked(d.id, "team", Resolve(place, d.team))}
                  \cup {Checked(d.id, "mount", p) : p \in Range(Paths(d.mounts))}

\* ... and system again before it compiles them.
Recheck ==
  /\ At("system")
  /\ Check(ValidateInstances(cmd.host, Target),
           [cmd EXCEPT !.pc = "compile", !.work = {d.id : d \in Target},
                       !.binds = UNION {BindSources(d) : d \in Target}])
  /\ UNCHANGED <<disk, store, counts>>

ConfigOf(d) == [id |-> d.id, generation |-> d.project_generation, content |-> d.config]

\* _immutable_file: a file that is there must have the content.
Immutable(d) == \A c \in configs : c.id = d.id /\ c.generation = d.project_generation => c.content = d.config

\* make_team_component, one instance after the other: it writes the project file,
\* and resolves the path of the team once more.
MakeTeam ==
  /\ At("compile")
  /\ \E id \in cmd.work :
       LET d     == Doc(id)
           path  == Resolve(place, d.team)
           binds == {IF b.id = id /\ b.role = "team" THEN [b EXCEPT !.path = path] ELSE b : b \in cmd.binds}
       IN /\ Check(Immutable(d) /\ IsDirectory(place, d.team),
                   [cmd EXCEPT !.work = @ \ {id}, !.binds = binds])
          /\ configs' = IF Immutable(d) THEN configs \cup {ConfigOf(d)} ELSE configs
  /\ UNCHANGED <<disk, docs, applied, counts>>

Wired == SystemValid(Components(cmd.host, Target), Links(cmd.host, Target))

\* Materializer.materialize: of a bind's source System.validate asks only that
\* it is canonical.
Materialize ==
  /\ At("compile") /\ cmd.work = {}
  /\ LET ok == Wired /\ \A b \in cmd.binds : Canonical(place, b.path)
     IN /\ Check(ok, [cmd EXCEPT !.pc = IF cmd.base THEN "catalogue" ELSE "finish", !.binds = {}])
        /\ applied' = IF ok THEN [docs |-> Target, sources |-> cmd.binds] ELSE applied
  /\ UNCHANGED <<disk, docs, configs, counts>>

\* The models of the teams that were loaded, in what the provider lists now.
Catalogue ==
  /\ At("catalogue")
  /\ LET rosters == IF cmd.kind = "run" THEN {t.roster : t \in Range(cmd.teams)}
                    ELSE {b.roster : b \in Range(cmd.bindings)}
     IN Check(\A r \in rosters : ValidatePiTeamModels(r, catalogue),
              [cmd EXCEPT !.pc = IF cmd.kind = "run" THEN "image" ELSE "commit",
                          !.served = ServedModels(catalogue)])
  /\ UNCHANGED <<disk, store, counts>>

\* forget removes the instance and its files once it is out of the system.
Finish ==
  /\ At("finish")
  /\ docs' = IF cmd.kind = "forget" THEN {d \in docs : d.id \notin cmd.ids} ELSE docs
  /\ configs' = IF cmd.kind = "forget" THEN {c \in configs : c.id \notin cmd.ids} ELSE configs
  /\ cmd' = Idle
  /\ UNCHANGED <<disk, applied, counts>>

-----------------------------------------------------------------------------
(* The operator's edits                                                     *)

Edit ==
  /\ inputs < MaxInputs /\ edits < MaxEdits
  /\ inputs' = inputs + 1 /\ edits' = edits + 1
  /\ UNCHANGED <<store, cmd>>

EditProject ==
  /\ Edit
  /\ \E f \in DOMAIN text : \E lines \in Texts[f] \ {text[f]} : text' = [text EXCEPT ![f] = lines]
  /\ UNCHANGED <<place, repo, hostconf, catalogue>>

EditTeam ==
  /\ Edit
  /\ \E t \in {place[p].inode : p \in DOMAIN place} \cap DOMAIN repo :
       \/ \E v \in Rosters \ {repo[t].roster} : repo' = [repo EXCEPT ![t].roster = v]
       \/ \E v \in Roles \ {repo[t].roles} : repo' = [repo EXCEPT ![t].roles = v]
       \/ \E v \in Protocols \ {repo[t].protocol} : repo' = [repo EXCEPT ![t].protocol = v]
       \/ \E v \in Dockerfiles \ {repo[t].dockerfile} : repo' = [repo EXCEPT ![t].dockerfile = v]
       \/ \E v \in Commits \ {repo[t].git} : repo' = [repo EXCEPT ![t].git = v]
  /\ UNCHANGED <<place, text, hostconf, catalogue>>

Move ==
  /\ Edit
  /\ \E m \in Moves : place[m[1]] # m[2] /\ place' = [place EXCEPT ![m[1]] = m[2]]
  /\ UNCHANGED <<text, repo, hostconf, catalogue>>

EditHost ==
  /\ Edit
  /\ \E lines \in HostLines \ {hostconf} : hostconf' = lines
  /\ UNCHANGED <<place, text, repo, catalogue>>

ChangeCatalogue ==
  /\ Edit
  /\ \E c \in Catalogues \ {catalogue} : catalogue' = c
  /\ UNCHANGED <<place, text, repo, hostconf>>

-----------------------------------------------------------------------------
Init ==
  /\ place = Disk0.place /\ text = Disk0.text /\ repo = Disk0.repo
  /\ hostconf = Disk0.hostconf /\ catalogue = Disk0.catalogue
  /\ docs = {} /\ configs = {} /\ applied = [docs |-> {}, sources |-> {}]
  /\ cmd = Idle /\ inputs = 0 /\ edits = 0

Next ==
  \/ \E f \in Files : BeginRun(f) \/ BeginStopProject(f)
  \/ BeginRefresh
  \/ \E id \in Ids : BeginStart(id) \/ BeginStop(id) \/ BeginForget(id)
  \/ NextInstance \/ Load \/ ReadTeam \/ Authority \/ Collide \/ Select
  \/ BuildTeam \/ Capture \/ Generate \/ Bind \/ Verify \/ CheckInstances
  \/ Commit \/ Validate \/ Recheck \/ MakeTeam \/ Materialize \/ Catalogue \/ Finish
  \/ EditProject \/ EditTeam \/ Move \/ EditHost \/ ChangeCatalogue

Spec == Init /\ [][Next]_vars

-----------------------------------------------------------------------------
(* Properties                                                               *)

(***************************************************************************)
(* An instance is committed with the models, the protocol flag and a       *)
(* Dockerfile that belong to the files its generation names, and with      *)
(* models the catalogue of its command could serve, however the team is    *)
(* edited while run or refresh reads it, parses it and reads it again.     *)
(***************************************************************************)
CommittedIsCoherent ==
  /\ \A d \in docs : /\ ParsesRoster(d.generation) /\ ValidateTeamDockerfile(d.generation)
                     /\ d.models = AgentModels(d.generation.roster)
                     /\ d.protocol = (d.generation.protocol # "none")
  /\ At("commit") => \A d \in NewDocs : AgentModels(d.generation.roster) \subseteq cmd.served

(***************************************************************************)
(* Of the sources a generated system mounts where they were last checked   *)
(* none lies inside another, a team's never coincides with a mount, and    *)
(* none reaches the roots of the host: across all running projects, and    *)
(* although directories may have become links since the instances were     *)
(* committed.  A mount is always mounted where it was checked.  A team is, *)
(* unless its directory became a link between the check and its mounting:  *)
(* the target it is mounted at then was compared with nothing.             *)
(***************************************************************************)
AppliedIsSeparate ==
  /\ \A s \in applied.sources : s.role = "mount" => s.path = s.checked
  /\ LET kept == {s \in applied.sources : s.path = s.checked}
     IN \A s, t \in kept :
          /\ s.path # t.path => ~PathsOverlap(s.path, t.path)
          /\ s.role # t.role => s.path # t.path
          /\ \A r \in FixedRoots \cup {HostPath} : ~PathsOverlap(s.path, r)

(***************************************************************************)
(* Whatever host.conf and projects the parsers accept, the system compiled *)
(* from them is one System.validate accepts: no command commits instances  *)
(* and then finds that a link or a mount target is wrong.                  *)
(***************************************************************************)
SystemIsWired == At("compile") => Wired

(***************************************************************************)
(* What refresh is about to commit was read from the very directory whose  *)
(* identity it took and checked again: a repository that is swapped for    *)
(* another in between is noticed, if it is not swapped back                *)
(* (DirectoriesDoNotReturn).  (run takes the identity after it has read    *)
(* the generation, and promises less.)                                     *)
(***************************************************************************)
RefreshReadsOneDirectory ==
  cmd.kind = "refresh" /\ ~At("verify") =>
    \A b \in Range(cmd.bindings) : \A s \in b.sources : s.path = b.doc.team => s.inode = b.root

(***************************************************************************)
(* Refresh finds the team of an instance whose project is unchanged, by    *)
(* whatever path the project was selected when it was run, as long as the  *)
(* ID is readable.  (A long ID holds a digest of that path.)               *)
(***************************************************************************)
RefreshFindsItsTeam ==
  At("select") /\ (\A i \in DOMAIN cmd.definition.teams : Readable(cmd.definition.name, cmd.definition.teams[i])) =>
    \A id \in cmd.ids : Doc(id).project_generation = cmd.definition.generation => Cardinality(Candidates) = 1

==============================================================================
