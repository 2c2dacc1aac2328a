----------------------------- MODULE LaunchProofs -----------------------------
(***************************************************************************)
(* The safety properties of Launch, for any disk, any edits and any number *)
(* of instances.  The inductive invariant says of each step of a command   *)
(* what the steps before it have established and the operator cannot take  *)
(* back: what load_project and load_host promise (GoodDefinition,          *)
(* GoodHost), that the teams, images and bindings go on in the order of    *)
(* the definition (TeamsInv, RunInv, RefreshInv), that a generation that   *)
(* is bound agrees with the team that was parsed (ReadInv), what is        *)
(* prepared and committed (BindingsInv, GoodDoc), how an identity that was *)
(* taken relates to the directory that was opened (DirectoryInv), and that *)
(* the checked paths of the binds under way are separate (GoodBinds).      *)
(* There is a lemma for each action; the last part shows that a host and   *)
(* instances of this kind compile to a system System.validate accepts.     *)
(*                                                                         *)
(* DirectoryInv needs that a directory that was replaced does not return   *)
(* (DirectoriesDoNotReturn): the identity refresh takes before it reads is *)
(* compared with the one at the end only.                                  *)
(***************************************************************************)
EXTENDS Launch, SequenceTheorems, FiniteSetTheorems, TLAPS

-----------------------------------------------------------------------------
(* The inductive invariant                                                  *)

CmdFields == DOMAIN Idle

DocFields == {"id", "team", "write", "generation", "models", "protocol", "image", "intent", "project_file",
              "project_generation", "config", "mounts"}

\* What load_project promises of a definition.
GoodDefinition(d) ==
  /\ IsList(d.name) /\ IsList(d.teams) /\ d.teams # <<>>
  /\ \A i, j \in DOMAIN d.teams : TeamName(d.teams[i]) = TeamName(d.teams[j]) => i = j
  /\ IsList(d.mounts) /\ NamedOnce(d.mounts)
  /\ d.generation = DefinitionSha256(d.name, d.description, d.context, d.teams, d.mounts)

\* What load_host promises of a host.
GoodHost(h) ==
  /\ h.path = HostPath
  /\ IsList(h.providers)
  /\ NamedOnce(h.providers) /\ NamedOnce(h.components)
  /\ Names(h.providers) \cap Names(h.components) = {}
  /\ "gateway" \notin Names(h.providers) \cup Names(h.components)
  /\ \A i \in DOMAIN h.providers : /\ LoadsComponent(h.providers[i].contract)
                                   /\ BindsEveryInput(OutputsOf(h.providers), h.providers[i])

\* An instance and the files its generation names.
Coherent(d) ==
  /\ ParsesRoster(d.generation) /\ ValidateTeamDockerfile(d.generation)
  /\ d.models = AgentModels(d.generation.roster)
  /\ d.protocol = (d.generation.protocol # "none")

\* An instance and the project it was made from.
FromProject(d) ==
  LET project == d.project_generation
  IN /\ IsList(d.mounts) /\ NamedOnce(d.mounts)
     /\ \E i \in DOMAIN project.teams :
          Readable(project.name, project.teams[i])
            => d.id = [name |-> ReadableId(project.name, project.teams[i]), digest |-> <<>>]

GoodDoc(d) == DOMAIN d = DocFields /\ Coherent(d) /\ FromProject(d)

DiskInv ==
  /\ DOMAIN text = DOMAIN Disk0.text
  /\ \A f \in DOMAIN text : ProjectText(text[f])
  /\ HostText(hostconf)
  /\ DOMAIN place = DOMAIN Disk0.place
  /\ \A p \in DOMAIN place : place[p] = Disk0.place[p] \/ \E m \in Moves : m[1] = p /\ m[2] = place[p]

DocsInv ==
  /\ \A d \in docs : GoodDoc(d)
  /\ \A d, e \in docs : d.id = e.id => d = e

\* The steps of a command that work on the teams it has loaded.
Based(c) == c.kind = "run" /\ c.base /\ c.pc \in {"validate", "system", "compile", "catalogue"}
Building == {"image", "capture", "generate", "bind"}
Chosen(c) == c.pc \in Building \/ Based(c)
Loaded(c) == c.pc \in {"authority", "collide", "select"} \/ Chosen(c)
Refreshing == {"next", "load", "read", "authority", "select", "verify"} \cup Building

KindInv ==
  /\ DOMAIN cmd = CmdFields
  /\ IsList(cmd.todo) /\ IsList(cmd.teams) /\ IsList(cmd.read) /\ IsList(cmd.bindings)
  /\ cmd.pc \in {"idle", "next", "load", "read", "authority", "collide", "select", "verify", "check",
                 "commit", "validate", "system", "compile", "catalogue", "finish"} \cup Building
  /\ cmd.kind \in {"none", "run", "refresh", "start", "stop", "forget"}
  /\ At("idle") => cmd = Idle
  /\ cmd.pc \in {"load", "read", "authority", "verify", "check", "catalogue"} \cup Building \/ cmd.base = TRUE
       => cmd.kind \in {"run", "refresh"}
  /\ At("commit") => cmd.kind \in {"run", "refresh", "start", "stop"}
  /\ At("catalogue") => cmd.base = TRUE
  /\ At("collide") => cmd.kind = "run"
  /\ cmd.pc \in {"next", "select"} => cmd.kind = "refresh"
  /\ cmd.base \in BOOLEAN

DefinitionInv ==
  /\ cmd.definition.ok => GoodDefinition(cmd.definition)
  /\ At("read") \/ Loaded(cmd) => cmd.definition.ok

ReadInv ==
  /\ ~At("read") /\ ~At("generate") /\ ~At("bind") /\ ~(At("capture") /\ cmd.kind = "run") => cmd.read = <<>>
  /\ At("generate") => Len(cmd.read) < 5
  /\ At("bind") \/ (At("capture") /\ cmd.kind = "run")
       => GenerationAgrees(Snapshot(GenerateOrder, cmd.read), Head(cmd.todo))

\* The teams that are loaded are those of the definition, in order.
Follows(c) == \A i \in DOMAIN c.teams : c.teams[i].entry = c.definition.teams[i]

TeamsInv ==
  LET all == cmd.definition.teams
  IN /\ At("read") =>
          /\ Follows(cmd) /\ cmd.todo # <<>> /\ Len(cmd.teams) + Len(cmd.todo) = Len(all)
          /\ \A i \in DOMAIN cmd.todo : cmd.todo[i] = all[Len(cmd.teams) + i]
     /\ cmd.pc \in {"authority", "collide", "select"} => Follows(cmd) /\ Len(cmd.teams) = Len(all)
     /\ Loaded(cmd) =>
          /\ cmd.teams # <<>>
          /\ \A i \in DOMAIN cmd.teams : \E j \in DOMAIN all : cmd.teams[i].entry = all[j]
          /\ \A i, j \in DOMAIN cmd.teams : TeamName(cmd.teams[i].entry) = TeamName(cmd.teams[j].entry) => i = j
     /\ Chosen(cmd) => cmd.todo # <<>> /\ \A i \in DOMAIN cmd.todo : cmd.todo[i] \in Range(cmd.teams)

IdOf(c, team) == ProjectInstanceId(c.definition, team.entry)

\* Run binds its teams in order, refresh the one team of each instance.
RunInv ==
  cmd.kind = "run" =>
    /\ cmd.pc \in {"load", "read", "authority", "collide", "image"} \/ Based(cmd) => cmd.bindings = <<>>
    /\ cmd.pc \in {"capture", "generate", "bind"} =>
         /\ Len(cmd.bindings) + Len(cmd.todo) = Len(cmd.teams)
         /\ \A i \in DOMAIN cmd.todo : cmd.todo[i] = cmd.teams[Len(cmd.bindings) + i]
         /\ \A i \in DOMAIN cmd.bindings : cmd.bindings[i].doc.id = IdOf(cmd, cmd.teams[i])

BoundIds == {cmd.bindings[i].doc.id : i \in DOMAIN cmd.bindings}

RefreshInv ==
  cmd.kind = "refresh" =>
    /\ cmd.pc \in Refreshing => cmd.work \subseteq Ids /\ cmd.work \cap BoundIds = {}
    /\ cmd.pc \in Refreshing \ {"next", "verify"} =>
         \E id \in Ids : cmd.ids = {id} /\ id \notin cmd.work /\ id \notin BoundIds
    /\ cmd.pc \in Building => Len(cmd.teams) = 1 /\ cmd.todo = cmd.teams /\ IdOf(cmd, cmd.teams[1]) \in cmd.ids

BindingsInv ==
  /\ cmd.kind \notin {"run", "refresh"} => cmd.bindings = <<>>
  /\ \A i \in DOMAIN cmd.bindings : /\ GoodDoc(cmd.bindings[i].doc)
                                    /\ cmd.bindings[i].doc.generation.roster = cmd.bindings[i].roster
  /\ \A i, j \in DOMAIN cmd.bindings : cmd.bindings[i].doc.id = cmd.bindings[j].doc.id => i = j

ServedInv ==
  /\ cmd.kind = "run" /\ cmd.pc \in Building =>
       \A i \in DOMAIN cmd.teams : AgentModels(cmd.teams[i].roster) \subseteq cmd.served
  /\ At("commit") \/ (cmd.kind = "run" /\ cmd.pc \in Building \cup {"verify", "check"}) =>
       \A i \in DOMAIN cmd.bindings : AgentModels(cmd.bindings[i].roster) \subseteq cmd.served

\* The sources of these binds were apart when they were checked.
WereApart(binds) ==
  \A s, t \in binds :
    /\ s.checked # t.checked => ~PathsOverlap(s.checked, t.checked)
    /\ s.role # t.role => s.checked # t.checked
    /\ \A r \in FixedRoots \cup {HostPath} : ~PathsOverlap(s.checked, r)

\* The binds of a system that is being compiled: a team's may be looked up again.
GoodBinds(binds) ==
  /\ \A b \in binds : /\ DOMAIN b = {"id", "role", "checked", "path"}
                      /\ b.role = "mount" => b.path = b.checked
  /\ WereApart(binds)

\* The host that was read, and what is compiled for it.
HostInv ==
  /\ cmd.host.ok => GoodHost(cmd.host)
  /\ At("system") \/ At("compile") => cmd.host.ok
  /\ At("compile") => GoodBinds(cmd.binds)

\* The directory of the start is at p.
Original(p) == place[p] = Disk0.place[p] /\ Disk0.place[p].kind = "dir"

\* The identity i was taken of p.
Taken(p, i) ==
  IF p \in DOMAIN place
  THEN \/ Disk0.place[p].kind = "dir" /\ i = Disk0.place[p].inode
       \/ ~Original(p) /\ \E m \in Moves : m[1] = p /\ m[2].kind = "dir" /\ i = m[2].inode
  ELSE i = 0

\* After the identity i was taken of p, the directory j was opened there.
Opened(p, i, j) ==
  i = j \/ (p \in DOMAIN place /\ Disk0.place[p].kind = "dir" /\ i = Disk0.place[p].inode /\ ~Original(p))

DirectoryInv ==
  cmd.kind = "refresh" =>
    /\ At("generate") \/ At("bind") =>
         \A s \in cmd.sources : s.path = Head(cmd.todo).root =>
           /\ Taken(s.path, s.inode)
           /\ At("bind") \/ Len(cmd.read) >= 2 => Opened(s.path, s.inode, cmd.root)
    /\ \A i \in DOMAIN cmd.bindings : \A s \in cmd.bindings[i].sources :
         s.path = cmd.bindings[i].doc.team =>
           IF At("verify") /\ i = Len(cmd.bindings) THEN Opened(s.path, s.inode, cmd.bindings[i].root)
           ELSE s.inode = cmd.bindings[i].root

CmdInv ==
  /\ KindInv /\ DefinitionInv /\ ReadInv /\ TeamsInv /\ RunInv /\ RefreshInv
  /\ BindingsInv /\ ServedInv /\ HostInv /\ DirectoryInv

IInv == DiskInv /\ DocsInv /\ CmdInv /\ AppliedIsSeparate

-----------------------------------------------------------------------------
(* Lists                                                                    *)

\* A list is a function over the first numbers; the empty one has length 0.
LEMMA ListShape ==
  ASSUME NEW s, IsList(s)
  PROVE  /\ Len(s) \in Nat /\ DOMAIN s = 1..Len(s)
         /\ s # <<>> <=> Len(s) > 0
         /\ \A i \in DOMAIN s : s[i] \in Range(s)
<1>1. s \in Seq(Range(s)) BY DEF IsList
<1>2. Len(s) \in Nat /\ DOMAIN s = 1..Len(s) BY <1>1, LenProperties
<1>3. Len(<<>>) = 0 BY EmptySeq
<1>4. s # <<>> => Len(s) \in Nat \ {0} BY <1>1, EmptySeq
<1> QED BY <1>2, <1>3, <1>4 DEF Range

\* What has the elements of a list over 1..n is one.
LEMMA ListOf ==
  ASSUME NEW n \in Nat, NEW s, s = [i \in 1..n |-> s[i]]
  PROVE  IsList(s) /\ Len(s) = n
<1>1. DOMAIN s = 1..n OBVIOUS
<1>2. s \in [1..n -> Range(s)] BY <1>1 DEF Range
<1>3. s \in Seq(Range(s)) BY <1>2, SeqDef
<1>4. Len(s) \in Nat /\ DOMAIN s = 1..Len(s) BY <1>3, LenProperties
<1> QED BY <1>1, <1>3, <1>4 DEF IsList

\* Append adds one element at the end.
LEMMA ListAppend ==
  ASSUME NEW s, IsList(s), NEW e
  PROVE  /\ IsList(Append(s, e))
         /\ Len(Append(s, e)) = Len(s) + 1
         /\ DOMAIN Append(s, e) = 1..(Len(s) + 1)
         /\ \A i \in 1..Len(s) : Append(s, e)[i] = s[i]
         /\ Append(s, e)[Len(s) + 1] = e
         /\ Append(s, e) # <<>>
<1> DEFINE S == Range(s) \cup {e}
           t == Append(s, e)
<1>1. s \in Seq(S) BY SeqMonotonic DEF IsList
<1>2. /\ t \in Seq(S) /\ Len(t) = Len(s) + 1 /\ t # <<>>
      /\ \A i \in 1..Len(s) : t[i] = s[i]
      /\ t[Len(s) + 1] = e
  BY <1>1, AppendProperties
<1>3. Len(s) \in Nat /\ t \in [1..Len(t) -> S] /\ DOMAIN t = 1..Len(t) BY <1>1, <1>2, LenProperties
<1>4. Len(t) \in Nat BY <1>2, <1>3
<1>5. IsList(t) BY <1>3, <1>4, ListOf
<1> QED BY <1>2, <1>3, <1>5

\* Head and Tail take a list that is not empty apart.
LEMMA ListTail ==
  ASSUME NEW s, IsList(s), s # <<>>
  PROVE  /\ Len(s) \in Nat \ {0} /\ Head(s) = s[1]
         /\ IsList(Tail(s)) /\ Len(Tail(s)) = Len(s) - 1
         /\ DOMAIN Tail(s) = 1..(Len(s) - 1)
         /\ \A i \in DOMAIN Tail(s) : Tail(s)[i] = s[i + 1]
         /\ Tail(s) = <<>> <=> Len(s) = 1
<1> DEFINE t == Tail(s)
<1>1. s \in Seq(Range(s)) BY DEF IsList
<1>2. Len(s) \in Nat \ {0} BY <1>1, EmptySeq
<1>3. /\ t \in Seq(Range(s)) /\ Len(t) = Len(s) - 1
      /\ \A i \in 1..Len(t) : t[i] = s[i + 1]
  BY <1>1, HeadTailProperties
<1>4. t \in [1..Len(t) -> Range(s)] /\ DOMAIN t = 1..Len(t) /\ Len(t) \in Nat BY <1>3, LenProperties
<1>5. IsList(t) BY <1>4, ListOf
<1>6. t # <<>> <=> Len(t) > 0 BY <1>5, ListShape
<1>7. Head(s) = s[1] OBVIOUS
<1> QED BY <1>2, <1>3, <1>4, <1>5, <1>6, <1>7

\* The list of nothing and the list of one.
LEMMA ShortLists ==
  /\ IsList(<<>>) /\ Len(<<>>) = 0
  /\ \A e : IsList(<<e>>) /\ Len(<<e>>) = 1 /\ DOMAIN <<e>> = {1} /\ <<e>>[1] = e /\ <<e>> # <<>>
<1>1. Len(<<>>) = 0 /\ <<>> \in Seq(Range(<<>>)) BY EmptySeq
<1>2. ASSUME NEW e PROVE IsList(<<e>>) /\ Len(<<e>>) = 1 /\ DOMAIN <<e>> = {1} /\ <<e>>[1] = e /\ <<e>> # <<>>
  <2>1. <<e>> = [i \in 1..1 |-> <<e>>[i]] OBVIOUS
  <2>2. IsList(<<e>>) /\ Len(<<e>>) = 1 BY <2>1, ListOf
  <2>3. DOMAIN <<e>> = 1..1 BY <2>1
  <2>4. <<e>> # <<>> BY <2>2, <1>1
  <2> QED BY <2>2, <2>3, <2>4
<1> QED BY <1>1, <1>2 DEF IsList

-----------------------------------------------------------------------------
(* What the parsers promise                                                 *)

\* load_project yields a definition whose teams and mounts are named once.
LEMMA DefinitionIsGood ==
  ASSUME DiskInv, NEW source, LoadProject(place, text, source).ok
  PROVE  GoodDefinition(LoadProject(place, text, source))
<1> DEFINE lines == ReadText(place, text, source)
           teams == TeamEntries(place, lines)
           mounts == MountEntries(place, lines)
           d == LoadProject(place, text, source)
<1>1. /\ HasText(place, text, source) /\ Complete(lines) /\ EntriesFit(place, teams, mounts)
      /\ d.name = lines.name[1] /\ d.teams = teams /\ d.mounts = mounts
      /\ d.generation = DefinitionSha256(d.name, d.description, d.context, d.teams, d.mounts)
  BY DEF LoadProject, Refused
<1>2. ProjectText(lines) BY <1>1 DEF DiskInv, HasText, ReadText
<1>3. Len(lines.team) \in Nat /\ DOMAIN lines.team = 1..Len(lines.team) /\ Len(lines.team) > 0
  BY <1>1, <1>2, ListShape DEF ProjectText, Complete
<1>4. Len(lines.mount) \in Nat /\ DOMAIN lines.mount = 1..Len(lines.mount)
  BY <1>2, ListShape DEF ProjectText
<1>5. teams = [i \in 1..Len(lines.team) |-> teams[i]] BY <1>3 DEF TeamEntries
<1>6. IsList(teams) /\ Len(teams) = Len(lines.team) BY <1>3, <1>5, ListOf
<1>7. teams # <<>> BY <1>3, <1>6, ListShape
<1>8. mounts = [i \in 1..Len(lines.mount) |-> mounts[i]] BY <1>4 DEF MountEntries
<1>9. IsList(mounts) BY <1>4, <1>8, ListOf
<1>10. \A i, j \in DOMAIN teams : TeamName(teams[i]) = TeamName(teams[j]) => i = j
  BY <1>1 DEF EntriesFit, Distinct
<1>11. NamedOnce(mounts) BY <1>1 DEF EntriesFit, NamedOnce
<1>12. IsList(d.name)
  <2>1. Len(lines.name) = 1 BY <1>1 DEF Complete
  <2>2. DOMAIN lines.name = 1..1 /\ lines.name[1] \in Range(lines.name)
    BY <1>2, <2>1, ListShape DEF ProjectText
  <2> QED BY <1>1, <1>2, <2>2 DEF ProjectText
<1> HIDE DEF teams, mounts, d
<1>13. GoodDefinition(d)
  BY <1>1, <1>6, <1>7, <1>9, <1>10, <1>11, <1>12 DEF GoodDefinition
<1> QED BY <1>13 DEF d

\* load_host yields providers and components that are named once, with every input bound.
LEMMA HostIsGood ==
  ASSUME DiskInv, HostInv, HostOf(cmd).ok
  PROVE  GoodHost(HostOf(cmd))
<1> DEFINE h == HostOf(cmd)
<1>1. CASE cmd.host.ok BY <1>1 DEF HostOf, HostInv
<1>2. CASE ~cmd.host.ok
  <2> DEFINE given == hostconf.provider
  <2>1. h = LoadHost(place, HostPath, hostconf) BY <1>2 DEF HostOf
  <2>2. /\ h.path = HostPath /\ h.components = hostconf.component
        /\ h.providers = [i \in DOMAIN given |->
             [name |-> given[i].name, context |-> Resolve(place, given[i].context),
              contract |-> given[i].contract, bindings |-> given[i].bindings]]
        /\ NamedOnce(given) /\ NamedOnce(hostconf.component)
        /\ Names(given) \cap Names(hostconf.component) = {}
        /\ "gateway" \notin Names(given) \cup Names(hostconf.component)
        /\ \A i \in DOMAIN given : /\ LoadsComponent(given[i].contract)
                                   /\ BindsEveryInput(OutputsOf(given), given[i])
    BY <2>1 DEF LoadHost, Refused
  <2>3. Len(given) \in Nat /\ DOMAIN given = 1..Len(given) BY ListShape DEF DiskInv, HostText
  <2> HIDE DEF given, h
  <2>4. /\ DOMAIN h.providers = DOMAIN given
        /\ \A i \in DOMAIN given : /\ h.providers[i].name = given[i].name
                                   /\ h.providers[i].contract = given[i].contract
                                   /\ h.providers[i].bindings = given[i].bindings
    BY <2>2
  <2>5. IsList(h.providers)
    <3>1. h.providers = [i \in 1..Len(given) |-> h.providers[i]] BY <2>2, <2>3, <2>4
    <3> QED BY <2>3, <3>1, ListOf
  <2>6. NamedOnce(h.providers) /\ Names(h.providers) = Names(given)
    BY <2>2, <2>4 DEF NamedOnce, Distinct, Names
  <2>7. OutputsOf(h.providers) = OutputsOf(given)
    <3> DEFINE Of(p) == {[component |-> p.name, output |-> p.contract.outputs[k].name,
                          service |-> p.contract.outputs[k].service] : k \in DOMAIN p.contract.outputs}
    <3>1. \A i \in DOMAIN given : Of(h.providers[i]) = Of(given[i]) BY <2>4
    <3> HIDE DEF Of
    <3>2. {Of(p) : p \in Range(h.providers)} = {Of(p) : p \in Range(given)} BY <2>4, <3>1 DEF Range
    <3> QED BY <3>2 DEF OutputsOf, Of
  <2>8. \A i \in DOMAIN given : BindsEveryInput(OutputsOf(given), h.providers[i])
    BY <2>2, <2>4 DEF BindsEveryInput
  <2>9. GoodHost(h) BY <2>2, <2>4, <2>5, <2>6, <2>7, <2>8 DEF GoodHost
  <2> QED BY <2>9 DEF h
<1> QED BY <1>1, <1>2

\* Two teams of one definition with one instance ID have one name.
LEMMA IdsNameTeams ==
  ASSUME NEW d, IsList(d.name), NEW e, NEW f, ProjectInstanceId(d, e) = ProjectInstanceId(d, f)
  PROVE  TeamName(e) = TeamName(f)
<1>1. \A g : Readable(d.name, g) => ProjectInstanceId(d, g) = [name |-> ReadableId(d.name, g), digest |-> <<>>]
  BY DEF ProjectInstanceId
<1>2. \A g : ~Readable(d.name, g) => ProjectInstanceId(d, g).digest = <<d.path, g.path>>
  BY DEF ProjectInstanceId
<1>3. \A a, b : <<a, b>> # <<>>
  <2>1. \A a, b : Len(<<a, b>>) = 2 OBVIOUS
  <2> QED BY <2>1, ShortLists
<1>4. \A g : Readable(d.name, g) => ProjectInstanceId(d, g).digest = <<>> BY <1>1
<1>5. CASE Readable(d.name, e) /\ Readable(d.name, f)
  <2>1. ReadableId(d.name, e) = ReadableId(d.name, f) BY <1>1, <1>5
  <2> QED BY <2>1, ListAppend DEF ReadableId
<1>6. CASE ~Readable(d.name, e) /\ ~Readable(d.name, f)
  <2>1. <<d.path, e.path>> = <<d.path, f.path>> BY <1>2, <1>6
  <2>2. e.path = f.path BY <2>1
  <2> QED BY <2>2 DEF TeamName
<1>7. ~(Readable(d.name, e) /\ ~Readable(d.name, f)) BY <1>2, <1>3, <1>4
<1>8. ~(~Readable(d.name, e) /\ Readable(d.name, f)) BY <1>2, <1>3, <1>4
<1> QED BY <1>5, <1>6, <1>7, <1>8

-----------------------------------------------------------------------------
(* Beginning and ending a command                                           *)

\* A command that has ended, or failed, is bound to nothing.
LEMMA IdleIsFine ==
  ASSUME cmd' = Idle
  PROVE  CmdInv'
<1>1. KindInv' BY ShortLists DEF KindInv, Idle, At, CmdFields, NoHost, Building
<1>2. DefinitionInv' BY DEF DefinitionInv, Idle, At, Refused, Loaded, Chosen, Based, Building
<1>3. ReadInv' BY DEF ReadInv, Idle, At
<1>4. TeamsInv' BY DEF TeamsInv, Idle, At, Loaded, Chosen, Based, Building
<1>5. RunInv' BY DEF RunInv, Idle
<1>6. RefreshInv' BY DEF RefreshInv, Idle
<1>7. BindingsInv' BY DEF BindingsInv, Idle
<1>8. ServedInv' BY DEF ServedInv, Idle, At, Building
<1>9. HostInv' BY DEF HostInv, Idle, NoHost, At
<1>10. DirectoryInv' BY DEF DirectoryInv, Idle
<1> QED BY <1>1, <1>2, <1>3, <1>4, <1>5, <1>6, <1>7, <1>8, <1>9, <1>10 DEF CmdInv

\* A command that begins has read nothing.
Fresh(c, kind, pc, ids, work) ==
  /\ c.kind = kind /\ c.pc = pc /\ c.ids = ids /\ c.work = work
  /\ c.definition = Refused /\ c.todo = <<>> /\ c.teams = <<>> /\ c.read = <<>>
  /\ c.bindings = <<>> /\ c.host = NoHost /\ c.base = FALSE /\ DOMAIN c = CmdFields

LEMMA BeginIsFine ==
  ASSUME IInv, NEW kind, NEW pc, NEW ids, NEW work,
         \/ kind = "run" /\ pc = "load"
         \/ kind = "refresh" /\ pc = "next" /\ work \subseteq Ids
         \/ kind \in {"start", "stop"} /\ pc = "commit"
         \/ kind = "forget" /\ pc = "validate",
         UNCHANGED docs,
         Fresh(cmd', kind, pc, ids, work)
  PROVE  CmdInv'
<1>1. /\ cmd'.kind = kind /\ cmd'.pc = pc /\ cmd'.ids = ids /\ cmd'.work = work
      /\ cmd'.definition = Refused /\ cmd'.todo = <<>> /\ cmd'.teams = <<>> /\ cmd'.read = <<>>
      /\ cmd'.bindings = <<>> /\ cmd'.host = NoHost /\ cmd'.base = FALSE /\ DOMAIN cmd' = CmdFields
  BY DEF Fresh
<1>2. KindInv' BY <1>1, ShortLists DEF KindInv, At, NoHost, Building
<1>3. DefinitionInv' BY <1>1 DEF DefinitionInv, At, Refused, Loaded, Chosen, Based, Building
<1>4. ReadInv' BY <1>1 DEF ReadInv, At
<1>5. TeamsInv' BY <1>1 DEF TeamsInv, At, Loaded, Chosen, Based, Building
<1>6. RunInv' BY <1>1 DEF RunInv
<1>7. RefreshInv' BY <1>1 DEF RefreshInv, Refreshing, Building, BoundIds, Ids
<1>8. BindingsInv' BY <1>1 DEF BindingsInv
<1>9. ServedInv' BY <1>1 DEF ServedInv, At, Building
<1>10. HostInv' BY <1>1 DEF HostInv, NoHost, At
<1>11. DirectoryInv' BY <1>1 DEF DirectoryInv, At
<1> QED BY <1>2, <1>3, <1>4, <1>5, <1>6, <1>7, <1>8, <1>9, <1>10, <1>11 DEF CmdInv

\* The operator's commands.
LEMMA BeginStep ==
  ASSUME IInv,
         \/ \E f \in Files : BeginRun(f) \/ BeginStopProject(f)
         \/ BeginRefresh
         \/ \E id \in Ids : BeginStart(id) \/ BeginStop(id) \/ BeginForget(id)
  PROVE  CmdInv' /\ UNCHANGED <<disk, docs, applied>>
<1>1. ASSUME NEW f \in Files, BeginRun(f) PROVE CmdInv' /\ UNCHANGED <<disk, docs, applied>>
  <2>1. /\ Fresh(cmd', "run", "load", {}, {})
        /\ UNCHANGED <<disk, docs, applied>>
    BY <1>1 DEF BeginRun, Begin, Idle, Fresh, CmdFields, store
  <2> QED BY <2>1, BeginIsFine
<1>2. ASSUME NEW f \in Files, BeginStopProject(f) PROVE CmdInv' /\ UNCHANGED <<disk, docs, applied>>
  <2>1. PICK ids : Begin([Idle EXCEPT !.kind = "stop", !.pc = "commit", !.source = f, !.ids = ids])
    BY <1>2 DEF BeginStopProject
  <2>2. /\ Fresh(cmd', "stop", "commit", ids, {})
        /\ UNCHANGED <<disk, docs, applied>>
    BY <2>1 DEF Begin, Idle, Fresh, CmdFields, store
  <2> QED BY <2>2, BeginIsFine
<1>3. ASSUME BeginRefresh PROVE CmdInv' /\ UNCHANGED <<disk, docs, applied>>
  <2> DEFINE work == {d.id : d \in Running}
  <2>1. /\ Fresh(cmd', "refresh", "next", {}, work)
        /\ UNCHANGED <<disk, docs, applied>>
    BY <1>3 DEF BeginRefresh, Begin, Idle, Fresh, CmdFields, store
  <2>2. work \subseteq Ids BY DEF Running, Ids
  <2> QED BY <2>1, <2>2, BeginIsFine
<1>4. ASSUME NEW id \in Ids, BeginStart(id) \/ BeginStop(id) \/ BeginForget(id)
      PROVE  CmdInv' /\ UNCHANGED <<disk, docs, applied>>
  <2>1. \E kind, pc : /\ (kind \in {"start", "stop"} /\ pc = "commit") \/ (kind = "forget" /\ pc = "validate")
                      /\ Fresh(cmd', kind, pc, {id}, {})
                      /\ UNCHANGED <<disk, docs, applied>>
    <3>1. CASE BeginStart(id) BY <3>1 DEF BeginStart, Begin, Idle, Fresh, CmdFields, store
    <3>2. CASE BeginStop(id) BY <3>2 DEF BeginStop, Begin, Idle, Fresh, CmdFields, store
    <3>3. CASE BeginForget(id) BY <3>3 DEF BeginForget, Begin, Idle, Fresh, CmdFields, store
    <3> QED BY <1>4, <3>1, <3>2, <3>3
  <2> QED BY <2>1, BeginIsFine
<1> QED BY <1>1, <1>2, <1>3, <1>4

-----------------------------------------------------------------------------
(* Reading the definition                                                   *)

\* Refresh turns to the next instance, or has prepared every one.
LEMMA NextInstanceStep ==
  ASSUME IInv, NextInstance
  PROVE  CmdInv'
<1>1. /\ At("next") /\ UNCHANGED <<place, docs>> /\ DOMAIN cmd' = DOMAIN cmd
      /\ cmd'.kind = cmd.kind /\ cmd'.definition = cmd.definition /\ cmd'.todo = cmd.todo
      /\ cmd'.teams = cmd.teams /\ cmd'.read = cmd.read /\ cmd'.bindings = cmd.bindings
      /\ cmd'.host = cmd.host /\ cmd'.base = cmd.base /\ cmd'.served = cmd.served
      /\ \/ cmd'.pc = "check"
         \/ \E id \in cmd.work : cmd'.pc = "load" /\ cmd'.ids = {id} /\ cmd'.work = cmd.work \ {id}
  BY DEF NextInstance, disk, store, Goto, IInv, CmdInv, KindInv, CmdFields, Idle
<1>2. cmd.pc = "next" /\ cmd.kind = "refresh" BY <1>1 DEF IInv, CmdInv, KindInv, At
<1> USE DEF IInv, CmdInv, At
<1>3. KindInv' BY <1>1, <1>2 DEF KindInv, Building
<1>4. DefinitionInv' BY <1>1, <1>2 DEF DefinitionInv, Loaded, Chosen, Based, Building
<1>5. ReadInv' BY <1>1, <1>2 DEF ReadInv
<1>6. TeamsInv' BY <1>1, <1>2 DEF TeamsInv, Loaded, Chosen, Based, Building
<1>7. RunInv' BY <1>1, <1>2 DEF RunInv
<1>8. RefreshInv' BY <1>1, <1>2 DEF RefreshInv, Refreshing, Building, BoundIds, Ids
<1>9. BindingsInv' BY <1>1, <1>2 DEF BindingsInv
<1>10. ServedInv' BY <1>1, <1>2 DEF ServedInv, Building
<1>11. HostInv' BY <1>1, <1>2 DEF HostInv
<1>12. DirectoryInv' BY <1>1, <1>2 DEF DirectoryInv
<1> QED BY <1>3, <1>4, <1>5, <1>6, <1>7, <1>8, <1>9, <1>10, <1>11, <1>12

\* Load_project.
LEMMA LoadStep ==
  ASSUME IInv, Load
  PROVE  CmdInv'
<1> DEFINE definition == LoadProject(place, text, cmd.source)
<1> SUFFICES ASSUME cmd' # Idle PROVE CmdInv'
  BY IdleIsFine
<1>1. /\ At("load") /\ UNCHANGED <<place, docs>> /\ DOMAIN cmd' = DOMAIN cmd
      /\ definition.ok /\ cmd'.pc = "read" /\ cmd'.definition = definition /\ cmd'.todo = definition.teams
      /\ cmd'.teams = <<>> /\ cmd'.read = <<>>
      /\ cmd'.kind = cmd.kind /\ cmd'.bindings = cmd.bindings /\ cmd'.ids = cmd.ids /\ cmd'.work = cmd.work
      /\ cmd'.host = cmd.host /\ cmd'.base = cmd.base /\ cmd'.served = cmd.served
  BY DEF Load, Check, disk, store, IInv, CmdInv, KindInv, CmdFields, Idle
<1>2. GoodDefinition(definition) BY <1>1, DefinitionIsGood DEF IInv
<1> HIDE DEF definition
<1>3. cmd.pc = "load" /\ cmd.kind \in {"run", "refresh"} BY <1>1 DEF IInv, CmdInv, KindInv, At
<1> USE DEF IInv, CmdInv, At
<1>4. KindInv' BY <1>1, <1>2, <1>3, ShortLists DEF KindInv, GoodDefinition, Building
<1>5. DefinitionInv' BY <1>1, <1>2, <1>3 DEF DefinitionInv, Loaded, Chosen, Based, Building
<1>6. ReadInv' BY <1>1, <1>3 DEF ReadInv
<1>7. TeamsInv'
  <2>1. DOMAIN <<>> = {} /\ Len(<<>>) = 0 BY ShortLists
  <2>2. Len(definition.teams) \in Nat /\ DOMAIN definition.teams = 1..Len(definition.teams)
    BY <1>2, ListShape DEF GoodDefinition
  <2> QED BY <1>1, <1>2, <1>3, <2>1, <2>2
          DEF TeamsInv, Follows, GoodDefinition, Loaded, Chosen, Based, Building
<1>8. RunInv' BY <1>1, <1>3 DEF RunInv, Based
<1>9. RefreshInv' BY <1>1, <1>3 DEF RefreshInv, Refreshing, Building, BoundIds, Ids
<1>10. BindingsInv' BY <1>1, <1>3 DEF BindingsInv
<1>11. ServedInv' BY <1>1, <1>3 DEF ServedInv, Building
<1>12. HostInv' BY <1>1, <1>3 DEF HostInv
<1>13. DirectoryInv' BY <1>1, <1>3 DEF DirectoryInv
<1> QED BY <1>4, <1>5, <1>6, <1>7, <1>8, <1>9, <1>10, <1>11, <1>12, <1>13

\* A file of the next team is read, or the team is whole and parsed.
LEMMA ReadTeamStep ==
  ASSUME IInv, ReadTeam
  PROVE  CmdInv'
<1> SUFFICES ASSUME cmd' # Idle PROVE CmdInv'
  BY IdleIsFine
<1> DEFINE entry == Head(cmd.todo)
<1>1. /\ At("read") /\ UNCHANGED <<place, docs>>
      /\ \/ \E home, root, x : cmd' = [cmd EXCEPT !.home = home, !.root = root, !.read = Append(cmd.read, x)]
         \/ \E t : /\ t.entry = entry
                   /\ cmd' = [cmd EXCEPT !.read = <<>>, !.home = <<>>, !.root = 0, !.todo = Tail(cmd.todo),
                                         !.teams = Append(cmd.teams, t),
                                         !.pc = IF Tail(cmd.todo) = <<>> THEN "authority" ELSE "read"]
  <2>1. CASE Len(cmd.read) + 1 < Len(LoadOrder) BY <2>1 DEF ReadTeam, Check, disk, store
  <2>2. CASE ~(Len(cmd.read) + 1 < Len(LoadOrder))
    <3> DEFINE part  == LoadOrder[Len(cmd.read) + 1]
               home  == IF part = "roster" THEN Resolve(place, entry.path) ELSE cmd.home
               parts == Append(cmd.read, ReadPart(part, home))
               team  == Snapshot(LoadOrder, parts)
               t     == [entry |-> entry, root |-> home, roster |-> team.roster, protocol |-> team.protocol]
    <3>1. cmd' = [cmd EXCEPT !.read = <<>>, !.home = <<>>, !.root = 0, !.todo = Tail(cmd.todo), !.teams = Append(cmd.teams, t),
                             !.pc = IF Tail(cmd.todo) = <<>> THEN "authority" ELSE "read"]
      BY <2>2 DEF ReadTeam, Check
    <3>2. t.entry = entry OBVIOUS
    <3> HIDE DEF t
    <3> QED BY <3>1, <3>2 DEF ReadTeam, disk, store
  <2> QED BY <2>1, <2>2
<1>2. DOMAIN cmd = CmdFields /\ cmd.pc = "read" /\ UNCHANGED <<place, docs>> BY <1>1 DEF IInv, CmdInv, KindInv, At
<1>21. /\ DOMAIN cmd' = DOMAIN cmd
       /\ cmd'.kind = cmd.kind /\ cmd'.definition = cmd.definition /\ cmd'.bindings = cmd.bindings
       /\ cmd'.ids = cmd.ids /\ cmd'.work = cmd.work
       /\ cmd'.host = cmd.host /\ cmd'.base = cmd.base /\ cmd'.served = cmd.served
  BY <1>1, <1>2 DEF CmdFields, Idle
<1>22. \/ /\ cmd'.pc = "read" /\ cmd'.todo = cmd.todo /\ cmd'.teams = cmd.teams
          /\ \E x : cmd'.read = Append(cmd.read, x)
       \/ /\ cmd'.read = <<>> /\ cmd'.todo = Tail(cmd.todo)
          /\ cmd'.pc = IF Tail(cmd.todo) = <<>> THEN "authority" ELSE "read"
          /\ \E t : t.entry = entry /\ cmd'.teams = Append(cmd.teams, t)
  <2>1. ASSUME NEW home, NEW root, NEW x,
               cmd' = [cmd EXCEPT !.home = home, !.root = root, !.read = Append(cmd.read, x)]
        PROVE  cmd'.pc = "read" /\ cmd'.todo = cmd.todo /\ cmd'.teams = cmd.teams /\ cmd'.read = Append(cmd.read, x)
    BY <1>2, <2>1 DEF CmdFields, Idle
  <2>2. ASSUME NEW t, t.entry = entry,
               cmd' = [cmd EXCEPT !.read = <<>>, !.home = <<>>, !.root = 0, !.todo = Tail(cmd.todo),
                                  !.teams = Append(cmd.teams, t),
                                  !.pc = IF Tail(cmd.todo) = <<>> THEN "authority" ELSE "read"]
        PROVE  /\ cmd'.read = <<>> /\ cmd'.todo = Tail(cmd.todo) /\ cmd'.teams = Append(cmd.teams, t)
               /\ cmd'.pc = IF Tail(cmd.todo) = <<>> THEN "authority" ELSE "read"
    BY <1>2, <2>2 DEF CmdFields, Idle
  <2>3. CASE \E home, root, x : cmd' = [cmd EXCEPT !.home = home, !.root = root, !.read = Append(cmd.read, x)]
    BY <2>1, <2>3
  <2> QED BY <1>1, <2>2, <2>3
<1> HIDE DEF entry
<1>3. cmd.pc = "read" /\ cmd.kind \in {"run", "refresh"} BY <1>2, <1>1 DEF IInv, CmdInv, KindInv, At
<1> USE DEF IInv, CmdInv, At
<1>4. cmd'.pc \in {"read", "authority"} BY <1>22
<1>5. IsList(cmd.todo) /\ IsList(cmd.teams) /\ IsList(cmd.read) /\ cmd.todo # <<>> BY <1>3 DEF KindInv, TeamsInv
<1>6. /\ Len(cmd.todo) \in Nat \ {0} /\ DOMAIN cmd.todo = 1..Len(cmd.todo) /\ entry = cmd.todo[1]
      /\ IsList(Tail(cmd.todo)) /\ Len(Tail(cmd.todo)) = Len(cmd.todo) - 1
      /\ DOMAIN Tail(cmd.todo) = 1..(Len(cmd.todo) - 1)
      /\ \A i \in DOMAIN Tail(cmd.todo) : Tail(cmd.todo)[i] = cmd.todo[i + 1]
      /\ Tail(cmd.todo) = <<>> <=> Len(cmd.todo) = 1
  BY <1>5, ListTail, ListShape DEF entry
<1>7. Len(cmd.teams) \in Nat /\ DOMAIN cmd.teams = 1..Len(cmd.teams) BY <1>5, ListShape
<1>8. KindInv'
  <2>1. IsList(cmd'.todo) BY <1>22, <1>5, <1>6
  <2>2. \A s, x : IsList(s) => IsList(Append(s, x)) BY ListAppend
  <2>3. IsList(cmd'.teams) /\ IsList(cmd'.read) BY <1>22, <1>5, <2>2, ShortLists
  <2> QED BY <1>2, <1>21, <1>3, <1>4, <2>1, <2>3 DEF KindInv, Building
<1>9. DefinitionInv' BY <1>2, <1>21, <1>3, <1>4 DEF DefinitionInv
<1>10. ReadInv' BY <1>2, <1>21, <1>22, <1>3, <1>4 DEF ReadInv
<1>11. TeamsInv'
  <2> DEFINE all == cmd.definition.teams
  <2>1. GoodDefinition(cmd.definition) BY <1>3 DEF DefinitionInv
  <2>2. /\ Follows(cmd) /\ Len(cmd.teams) + Len(cmd.todo) = Len(all)
        /\ \A i \in DOMAIN cmd.todo : cmd.todo[i] = all[Len(cmd.teams) + i]
    BY <1>3 DEF TeamsInv
  <2>3. Len(all) \in Nat /\ DOMAIN all = 1..Len(all) BY <2>1, ListShape DEF GoodDefinition
  <2>4. CASE cmd'.todo = cmd.todo /\ cmd'.teams = cmd.teams /\ cmd'.pc = "read"
    BY <1>2, <1>21, <2>4 DEF TeamsInv, Follows, Loaded, Chosen, Based, Building
  <2>5. ASSUME NEW t, t.entry = entry, cmd'.teams = Append(cmd.teams, t), cmd'.todo = Tail(cmd.todo),
               cmd'.pc = IF Tail(cmd.todo) = <<>> THEN "authority" ELSE "read"
        PROVE  TeamsInv'
    <3> HIDE DEF all
    <3>1. /\ Len(cmd'.teams) = Len(cmd.teams) + 1 /\ DOMAIN cmd'.teams = 1..(Len(cmd.teams) + 1)
          /\ \A i \in 1..Len(cmd.teams) : cmd'.teams[i] = cmd.teams[i]
          /\ cmd'.teams[Len(cmd.teams) + 1] = t /\ cmd'.teams # <<>>
      <4> DEFINE old == cmd.teams
      <4>1. IsList(old) /\ cmd'.teams = Append(old, t) BY <1>5, <2>5
      <4> HIDE DEF old
      <4>2. /\ Len(Append(old, t)) = Len(old) + 1 /\ DOMAIN Append(old, t) = 1..(Len(old) + 1)
            /\ \A i \in 1..Len(old) : Append(old, t)[i] = old[i]
            /\ Append(old, t)[Len(old) + 1] = t /\ Append(old, t) # <<>>
        BY ONLY <4>1, ListAppend
      <4> QED BY ONLY <4>1, <4>2 DEF old
    <3>2. cmd'.definition.teams = all BY <1>21 DEF all
    <3>20. Len(cmd'.todo) = Len(cmd.todo) - 1 /\ Len(all) \in Nat BY <1>6, <2>3, <2>5
    <3> DEFINE m == Len(cmd.teams)
               n == Len(cmd.todo)
               total == Len(all)
    <3>21. m \in Nat /\ n \in Nat \ {0} BY <1>6, <1>7
    <3>22. Len(cmd'.teams) = m + 1 /\ Len(cmd'.todo) = n - 1 BY <3>1, <3>20
    <3>23. m + n = total /\ total \in Nat BY <2>2, <3>20
    <3>24. (m + 1) + (n - 1) = total /\ m + 1 <= total
      <4> HIDE DEF m, n, total
      <4> QED BY <3>21, <3>23
    <3>25. \A i \in Int : m + (i + 1) = (m + 1) + i
      <4> HIDE DEF m
      <4> QED BY <3>21
    <3>3. entry = all[Len(cmd.teams) + 1]
      <4>1. 1 \in DOMAIN cmd.todo BY <1>6
      <4> QED BY <1>6, <2>2, <4>1
    <3>4. \A i \in DOMAIN cmd'.teams : cmd'.teams[i].entry = all[i]
      BY <1>7, <2>2, <2>5, <3>1, <3>3 DEF Follows, all
    <3>5. Len(cmd'.teams) + Len(cmd'.todo) = Len(all) BY <3>22, <3>24
    <3>6. \A i \in DOMAIN cmd'.todo : cmd'.todo[i] = all[Len(cmd'.teams) + i]
      <4> TAKE i \in DOMAIN cmd'.todo
      <4>1. i \in 1..(Len(cmd.todo) - 1) /\ cmd'.todo[i] = cmd.todo[i + 1] BY <1>6, <2>5
      <4>2. i + 1 \in DOMAIN cmd.todo /\ i \in Int BY <1>6, <4>1
      <4>3. cmd.todo[i + 1] = all[Len(cmd.teams) + (i + 1)] BY <2>2, <4>2
      <4>4. Len(cmd.teams) + (i + 1) = Len(cmd'.teams) + i BY <3>22, <3>25, <4>2
      <4> QED BY <4>1, <4>3, <4>4
    <3>7. cmd'.pc = "read" => cmd'.todo # <<>> BY <2>5
    <3>8. cmd'.pc = "authority" => Len(cmd'.teams) = Len(all) BY <1>6, <1>7, <2>2, <2>5, <3>1, <3>20
    <3>9. \A i, j \in DOMAIN all : TeamName(all[i]) = TeamName(all[j]) => i = j
      BY <2>1 DEF GoodDefinition, all
    <3>10. DOMAIN cmd'.teams \subseteq DOMAIN all
      <4>1. DOMAIN all = 1..Len(all) /\ DOMAIN cmd'.teams = 1..(Len(cmd.teams) + 1) BY <2>3, <3>1
      <4>2. Len(cmd.teams) + 1 <= Len(all) BY <3>24
      <4> QED BY <3>20, <3>21, <4>1, <4>2
    <3>11. Follows(cmd)' BY <3>2, <3>4 DEF Follows
    <3>12. ~Chosen(cmd)' BY <1>4 DEF Chosen, Based, Building
    <3>13. \A i, j \in DOMAIN cmd'.teams : TeamName(cmd'.teams[i].entry) = TeamName(cmd'.teams[j].entry) => i = j
      BY <3>4, <3>9, <3>10
    <3>14. \A i \in DOMAIN cmd'.teams : \E j \in DOMAIN all : cmd'.teams[i].entry = all[j] BY <3>4, <3>10
    <3> QED BY <1>4, <3>1, <3>2, <3>5, <3>6, <3>7, <3>8, <3>11, <3>12, <3>13, <3>14 DEF TeamsInv
  <2> QED BY <1>22, <2>4, <2>5
<1>12. RunInv' BY <1>2, <1>21, <1>3, <1>4 DEF RunInv, Based
<1>13. RefreshInv' BY <1>2, <1>21, <1>3, <1>4 DEF RefreshInv, Refreshing, Building, BoundIds, Ids
<1>14. BindingsInv' BY <1>2, <1>21, <1>3 DEF BindingsInv
<1>15. ServedInv' BY <1>2, <1>21, <1>3, <1>4 DEF ServedInv, Building
<1>16. HostInv' BY <1>2, <1>21, <1>3, <1>4 DEF HostInv
<1>17. DirectoryInv' BY <1>2, <1>21, <1>3, <1>4 DEF DirectoryInv
<1> QED BY <1>8, <1>9, <1>10, <1>11, <1>12, <1>13, <1>14, <1>15, <1>16, <1>17

\* The steps that only decide whether to go on.
Keeps ==
  /\ UNCHANGED <<place, docs>> /\ DOMAIN cmd' = DOMAIN cmd
  /\ cmd'.kind = cmd.kind /\ cmd'.definition = cmd.definition /\ cmd'.bindings = cmd.bindings
  /\ cmd'.ids = cmd.ids /\ cmd'.work = cmd.work /\ cmd'.read = cmd.read

\* validate_project_mounts.
LEMMA AuthorityStep ==
  ASSUME IInv, Authority
  PROVE  CmdInv'
<1> SUFFICES ASSUME cmd' # Idle PROVE CmdInv'
  BY IdleIsFine
<1>1. /\ At("authority") /\ Keeps /\ HostOf(cmd).ok /\ cmd'.host = HostOf(cmd)
      /\ cmd'.teams = cmd.teams /\ cmd'.todo = cmd.todo
      /\ cmd'.base = cmd.base /\ cmd'.served = cmd.served
      /\ cmd'.pc = IF cmd.kind = "run" THEN "collide" ELSE "select"
  BY DEF Authority, Keeps, Check, disk, store, IInv, CmdInv, KindInv, CmdFields, Idle
<1>2. GoodHost(cmd'.host) BY <1>1, HostIsGood DEF IInv, CmdInv
<1>3. cmd.pc = "authority" /\ cmd.kind \in {"run", "refresh"} BY <1>1 DEF IInv, CmdInv, KindInv, At
<1> USE <1>1, <1>3 DEF IInv, CmdInv, At, Keeps
<1>4. KindInv' BY DEF KindInv, Building
<1>5. DefinitionInv' BY DEF DefinitionInv, Loaded
<1>6. ReadInv' BY DEF ReadInv
<1>7. TeamsInv' BY DEF TeamsInv, Follows, Loaded, Chosen, Based, Building
<1>8. RunInv' BY DEF RunInv, Based
<1>9. RefreshInv' BY DEF RefreshInv, Refreshing, Building, BoundIds, Ids
<1>10. BindingsInv' BY DEF BindingsInv
<1>11. ServedInv' BY DEF ServedInv, Building
<1>12. HostInv' BY <1>2 DEF HostInv
<1>13. DirectoryInv' BY DEF DirectoryInv
<1> QED BY <1>4, <1>5, <1>6, <1>7, <1>8, <1>9, <1>10, <1>11, <1>12, <1>13

\* Run refuses an ID that exists.
LEMMA CollideStep ==
  ASSUME IInv, Collide
  PROVE  CmdInv'
<1> SUFFICES ASSUME cmd' # Idle PROVE CmdInv'
  BY IdleIsFine
<1>1. /\ At("collide") /\ Keeps /\ cmd'.host = cmd.host
      /\ cmd'.teams = cmd.teams /\ cmd'.todo = cmd.teams
      /\ cmd'.base = TRUE /\ cmd'.served = cmd.served /\ cmd'.pc = "validate"
  BY DEF Collide, Keeps, Check, disk, store, IInv, CmdInv, KindInv, CmdFields, Idle
<1>2. cmd.pc = "collide" /\ cmd.kind = "run" BY <1>1 DEF IInv, CmdInv, KindInv, At
<1> USE <1>1, <1>2 DEF IInv, CmdInv, At, Keeps
<1>3. KindInv' BY DEF KindInv, Building
<1>4. DefinitionInv' BY DEF DefinitionInv, Loaded
<1>5. ReadInv' BY DEF ReadInv
<1>6. TeamsInv' BY DEF TeamsInv, Follows, Loaded, Chosen, Based, Building, Range
<1>7. RunInv' BY DEF RunInv, Based
<1>8. RefreshInv' BY DEF RefreshInv
<1>9. BindingsInv' BY DEF BindingsInv
<1>10. ServedInv' BY DEF ServedInv, Building
<1>11. HostInv' BY DEF HostInv
<1>12. DirectoryInv' BY DEF DirectoryInv
<1> QED BY <1>3, <1>4, <1>5, <1>6, <1>7, <1>8, <1>9, <1>10, <1>11, <1>12

\* Refresh goes on with the one team that has its instance's ID.
LEMMA SelectStep ==
  ASSUME IInv, Select
  PROVE  CmdInv'
<1> SUFFICES ASSUME cmd' # Idle PROVE CmdInv'
  BY IdleIsFine
<1> DEFINE k == CHOOSE i \in Candidates : TRUE
           t == cmd.teams[k]
<1>1. /\ At("select") /\ Keeps /\ cmd'.host = cmd.host /\ Cardinality(Candidates) = 1
      /\ cmd'.teams = <<t>> /\ cmd'.todo = <<t>>
      /\ cmd'.base = cmd.base /\ cmd'.served = cmd.served /\ cmd'.pc = "image"
  BY DEF Select, Keeps, Check, disk, store, IInv, CmdInv, KindInv, CmdFields, Idle
<1>2. cmd.pc = "select" /\ cmd.kind = "refresh" BY <1>1 DEF IInv, CmdInv, KindInv, At
<1>3. Candidates # {} BY <1>1, FS_EmptySet
<1>4. k \in DOMAIN cmd.teams /\ IdOf(cmd, t) \in cmd.ids BY <1>3 DEF Candidates, IdOf
<1>5. \E j \in DOMAIN cmd.definition.teams : t.entry = cmd.definition.teams[j]
  BY <1>2, <1>4 DEF IInv, CmdInv, TeamsInv, Loaded
<1> HIDE DEF k, t
<1>6. /\ IsList(<<t>>) /\ Len(<<t>>) = 1 /\ DOMAIN <<t>> = {1} /\ <<t>>[1] = t /\ <<t>> # <<>>
  BY ShortLists
<1> USE <1>1, <1>2, <1>6 DEF IInv, CmdInv, At, Keeps
<1>7. KindInv' BY DEF KindInv, Building
<1>8. DefinitionInv' BY DEF DefinitionInv, Loaded
<1>9. ReadInv' BY DEF ReadInv
<1>10. TeamsInv' BY <1>5 DEF TeamsInv, Loaded, Chosen, Based, Building, Range
<1>11. RunInv' BY DEF RunInv
<1>12. RefreshInv' BY <1>4 DEF RefreshInv, Refreshing, Building, BoundIds, Ids, IdOf
<1>13. BindingsInv' BY DEF BindingsInv
<1>14. ServedInv' BY DEF ServedInv, Building
<1>15. HostInv' BY DEF HostInv
<1>16. DirectoryInv' BY DEF DirectoryInv
<1> QED BY <1>7, <1>8, <1>9, <1>10, <1>11, <1>12, <1>13, <1>14, <1>15, <1>16

-----------------------------------------------------------------------------
(* Building and binding                                                     *)

\* An image is built; after the last one the teams are taken up again.
LEMMA BuildTeamStep ==
  ASSUME IInv, BuildTeam
  PROVE  CmdInv'
<1> SUFFICES ASSUME cmd' # Idle PROVE CmdInv'
  BY IdleIsFine
<1> DEFINE last == Tail(cmd.todo) = <<>>
<1>1. /\ At("image") /\ Keeps /\ cmd'.host = cmd.host
      /\ cmd'.teams = cmd.teams /\ cmd'.todo = IF last THEN cmd.teams ELSE Tail(cmd.todo)
      /\ cmd'.base = cmd.base /\ cmd'.served = cmd.served
      /\ cmd'.pc = CASE ~last -> "image" [] last /\ cmd.kind = "run" -> "generate" [] OTHER -> "capture"
  BY DEF BuildTeam, Keeps, Check, disk, store, IInv, CmdInv, KindInv, CmdFields, Idle
<1>2. cmd.pc = "image" /\ cmd.kind \in {"run", "refresh"} BY <1>1 DEF IInv, CmdInv, KindInv, At, Building
<1>3. /\ IsList(cmd.todo) /\ IsList(cmd.teams) /\ cmd.todo # <<>> /\ cmd.teams # <<>>
      /\ \A i \in DOMAIN cmd.todo : cmd.todo[i] \in Range(cmd.teams)
  BY <1>2 DEF IInv, CmdInv, KindInv, TeamsInv, Loaded, Chosen, Building
<1>4. /\ IsList(Tail(cmd.todo)) /\ DOMAIN Tail(cmd.todo) \subseteq 1..(Len(cmd.todo) - 1)
      /\ \A i \in DOMAIN Tail(cmd.todo) : i + 1 \in DOMAIN cmd.todo /\ Tail(cmd.todo)[i] = cmd.todo[i + 1]
  <2> DEFINE n == Len(cmd.todo)
  <2>1. n \in Nat \ {0} /\ IsList(Tail(cmd.todo)) /\ DOMAIN Tail(cmd.todo) = 1..(n - 1) /\ DOMAIN cmd.todo = 1..n
        /\ \A i \in DOMAIN Tail(cmd.todo) : Tail(cmd.todo)[i] = cmd.todo[i + 1]
    BY <1>3, ListTail, ListShape
  <2>2. \A i \in 1..(n - 1) : i + 1 \in 1..n
    <3> HIDE DEF n
    <3> QED BY <2>1
  <2> QED BY <2>1, <2>2
<1>5. cmd.kind = "refresh" => Len(cmd.teams) = 1 /\ cmd.todo = cmd.teams /\ IdOf(cmd, cmd.teams[1]) \in cmd.ids
  BY <1>2 DEF IInv, CmdInv, RefreshInv, Building
<1>6. cmd.kind = "refresh" => last BY <1>3, <1>5, ListTail
<1>7. cmd'.pc \in {"image", "generate", "capture"} /\ (last => cmd'.pc # "image")
      /\ (cmd'.pc = "generate" => last /\ cmd.kind = "run") /\ (cmd'.pc = "capture" => last /\ cmd.kind = "refresh")
  BY <1>1, <1>2
<1> HIDE DEF last
<1> USE <1>1, <1>2 DEF IInv, CmdInv, At, Keeps
<1>8. KindInv' BY <1>3, <1>4, <1>7 DEF KindInv, Building
<1>9. DefinitionInv' BY <1>7 DEF DefinitionInv, Loaded, Chosen, Building
<1>10. ReadInv'
  <2>1. cmd.read = <<>> BY DEF ReadInv
  <2> QED BY <1>7, <2>1, ShortLists DEF ReadInv
<1>11. TeamsInv'
  <2> DEFINE Among(list) == list # <<>> /\ \A i \in DOMAIN list : list[i] \in Range(cmd.teams)
  <2>1. Among(cmd.teams) BY ONLY <1>3 DEF Range
  <2>2. last \/ Among(Tail(cmd.todo)) BY ONLY <1>3, <1>4 DEF last
  <2>3. Among(cmd'.todo)
    <3> HIDE DEF Among
    <3> QED BY ONLY <1>1, <2>1, <2>2
  <2>4. cmd'.todo # <<>> /\ \A i \in DOMAIN cmd'.todo : cmd'.todo[i] \in Range(cmd'.teams) BY <1>1, <2>3
  <2> QED BY <1>7, <2>4 DEF TeamsInv, Loaded, Chosen, Building
<1>12. RunInv'
  <2>1. CASE cmd'.pc = "image" BY <1>7, <2>1 DEF RunInv, Based
  <2>2. CASE cmd'.pc = "generate"
    <3>1. cmd'.bindings = <<>> /\ cmd'.todo = cmd'.teams BY <1>7, <2>2 DEF RunInv
    <3>2. Len(cmd'.bindings) + Len(cmd'.todo) = Len(cmd'.teams)
          /\ \A i \in DOMAIN cmd'.todo : cmd'.todo[i] = cmd'.teams[Len(cmd'.bindings) + i]
      <4> DEFINE n == Len(cmd'.teams)
      <4>1. Len(cmd'.bindings) = 0 /\ n \in Nat /\ DOMAIN cmd'.teams = 1..n BY <1>3, <3>1, ListShape, ShortLists
      <4>2. 0 + n = n /\ \A i \in 1..n : 0 + i = i
        <5> HIDE DEF n
        <5> QED BY <4>1
      <4> QED BY <3>1, <4>1, <4>2
    <3>3. DOMAIN cmd'.bindings = {} BY <3>1
    <3> QED BY <2>2, <3>2, <3>3 DEF RunInv, Based
  <2>3. CASE cmd'.pc = "capture" BY <1>7, <2>3 DEF RunInv
  <2> QED BY <1>7, <2>1, <2>2, <2>3
<1>13. RefreshInv' BY <1>5, <1>6, <1>7 DEF RefreshInv, Refreshing, Building, BoundIds, Ids, IdOf
<1>14. BindingsInv' BY DEF BindingsInv
<1>15. ServedInv' BY <1>7 DEF ServedInv, Building
<1>16. HostInv' BY <1>7 DEF HostInv
<1>17. DirectoryInv' BY <1>7 DEF DirectoryInv, Opened, Original
<1> QED BY <1>8, <1>9, <1>10, <1>11, <1>12, <1>13, <1>14, <1>15, <1>16, <1>17

\* What an identity is taken of is a directory.
LEMMA IdentityIsTaken ==
  ASSUME DiskInv, NEW p, Canonical(place, p)
  PROVE  /\ Taken(p, Inode(place, p))
         /\ p \in DOMAIN place => place[p].kind = "dir"
<1>1. CASE p \notin DOMAIN place BY <1>1 DEF Taken, Inode
<1>2. CASE p \in DOMAIN place
  <2>1. IsList(p) BY <1>2, DirectoriesDoNotReturn DEF DiskInv
  <2>2. IsPrefix(p, p) BY <2>1 DEF IsPrefix, IsList
  <2>3. place[p].kind = "dir" BY <1>2, <2>2 DEF Canonical, IsDirectory
  <2> QED BY <1>2, <2>3 DEF Taken, Inode, Original, DiskInv
<1> QED BY <1>1, <1>2

\* capture_source_identities.
LEMMA CaptureStep ==
  ASSUME IInv, Capture
  PROVE  CmdInv'
<1> SUFFICES ASSUME cmd' # Idle PROVE CmdInv'
  BY IdleIsFine
<1>1. /\ At("capture") /\ Keeps /\ cmd'.host = cmd.host
      /\ cmd'.teams = cmd.teams /\ cmd'.todo = cmd.todo
      /\ cmd'.base = cmd.base /\ cmd'.served = cmd.served
      /\ \A p \in Sources : Canonical(place, p)
      /\ cmd'.sources = {SourceIdentity(place, p) : p \in Sources}
      /\ cmd'.pc = IF cmd.kind = "run" THEN "bind" ELSE "generate"
  BY DEF Capture, CaptureSourceIdentities, Keeps, Check, disk, store, IInv, CmdInv, KindInv, CmdFields, Idle
<1>2. cmd.pc = "capture" /\ cmd.kind \in {"run", "refresh"} BY <1>1 DEF IInv, CmdInv, KindInv, At, Building
<1> USE <1>1, <1>2 DEF IInv, CmdInv, At, Keeps
<1>3. KindInv' BY DEF KindInv, Building
<1>4. DefinitionInv' BY DEF DefinitionInv, Loaded, Chosen, Building
<1>5. ReadInv' BY ShortLists DEF ReadInv
<1>6. TeamsInv' BY DEF TeamsInv, Loaded, Chosen, Building
<1>7. RunInv' BY DEF RunInv, Based, IdOf
<1>8. RefreshInv' BY DEF RefreshInv, Refreshing, Building, BoundIds, Ids, IdOf
<1>9. BindingsInv' BY DEF BindingsInv
<1>10. ServedInv' BY DEF ServedInv, Building
<1>11. HostInv' BY DEF HostInv
<1>12. DirectoryInv'
  <2> SUFFICES ASSUME cmd.kind = "refresh" PROVE DirectoryInv'
    BY DEF DirectoryInv
  <2>1. cmd'.read = <<>> /\ ~(Len(<<>>) >= 2) BY ShortLists DEF ReadInv
  <2>2. \A s \in cmd'.sources : Taken(s.path, s.inode)' 
    BY IdentityIsTaken DEF SourceIdentity, Taken, Original
  <2> QED BY <2>1, <2>2 DEF DirectoryInv, Opened, Original
<1> QED BY <1>3, <1>4, <1>5, <1>6, <1>7, <1>8, <1>9, <1>10, <1>11, <1>12

\* A file is read again; the last one makes the generation agree with the team.
LEMMA GenerateStep ==
  ASSUME IInv, Generate
  PROVE  CmdInv'
<1> SUFFICES ASSUME cmd' # Idle PROVE CmdInv'
  BY IdleIsFine
<1> DEFINE team  == Head(cmd.todo)
           path  == team.root
           k     == Len(cmd.read)
           part  == GenerateOrder[k + 1]
           parts == Append(cmd.read, ReadPart(part, path))
           whole == k + 1 = Len(GenerateOrder)
<1>1. /\ At("generate") /\ UNCHANGED <<place, docs>> /\ (part = "roster" => IsTeam(path))
      /\ whole => GenerationAgrees(Snapshot(GenerateOrder, parts), team)
      /\ cmd' = [cmd EXCEPT !.read = parts, !.root = OpenTeam(part, path),
                            !.pc = CASE ~whole -> "generate" [] whole /\ cmd.kind = "run" -> "capture"
                                     [] OTHER -> "bind"]
  BY DEF Generate, Check, disk, store
<1>2. cmd.pc = "generate" /\ cmd.kind \in {"run", "refresh"} BY <1>1 DEF IInv, CmdInv, KindInv, At, Building
<1>3. k \in 0..4 /\ IsList(cmd.read)
  <2>1. IsList(cmd.read) /\ k < 5 BY <1>1 DEF IInv, CmdInv, KindInv, ReadInv
  <2>2. k \in Nat BY <2>1, ListShape
  <2> HIDE DEF k
  <2> QED BY <2>1, <2>2
<1> HIDE DEF k
<1>4. whole <=> k = 4
  <2>1. Len(GenerateOrder) = 5 BY DEF GenerateOrder
  <2> QED BY <1>3, <2>1
<1>5. IsList(parts) /\ Len(parts) = k + 1 BY <1>3, ListAppend DEF k
<1>6. part = "roster" <=> k = 1
  <2>1. /\ GenerateOrder[1] = "git" /\ GenerateOrder[2] = "roster" /\ GenerateOrder[3] = "roles"
        /\ GenerateOrder[4] = "protocol" /\ GenerateOrder[5] = "dockerfile"
    BY DEF GenerateOrder
  <2> QED BY <1>3, <2>1
<1> HIDE DEF part, parts, whole
<1>7. /\ UNCHANGED <<place, docs>> /\ DOMAIN cmd' = DOMAIN cmd
      /\ cmd'.kind = cmd.kind /\ cmd'.definition = cmd.definition /\ cmd'.bindings = cmd.bindings
      /\ cmd'.ids = cmd.ids /\ cmd'.work = cmd.work /\ cmd'.host = cmd.host
      /\ cmd'.teams = cmd.teams /\ cmd'.todo = cmd.todo
      /\ cmd'.base = cmd.base /\ cmd'.served = cmd.served /\ cmd'.sources = cmd.sources
      /\ cmd'.read = parts /\ cmd'.root = OpenTeam(part, path)
      /\ cmd'.pc = CASE ~whole -> "generate" [] whole /\ cmd.kind = "run" -> "capture" [] OTHER -> "bind"
  BY <1>1 DEF IInv, CmdInv, KindInv, CmdFields, Idle
<1>8. /\ cmd'.pc \in {"generate", "capture", "bind"}
      /\ cmd'.pc = "generate" => ~whole
      /\ cmd'.pc = "capture" => whole /\ cmd.kind = "run"
      /\ cmd'.pc = "bind" => whole /\ cmd.kind = "refresh"
  BY <1>2, <1>7
<1> USE <1>2, <1>7, <1>8 DEF IInv, CmdInv, At
<1>9. KindInv' BY <1>5 DEF KindInv, Building
<1>10. DefinitionInv' BY DEF DefinitionInv, Loaded, Chosen, Building
<1>11. ReadInv'
  <2>1. cmd'.pc = "generate" => Len(cmd'.read) < 5 BY <1>3, <1>4, <1>5
  <2>2. whole => GenerationAgrees(Snapshot(GenerateOrder, cmd'.read), Head(cmd'.todo)) BY <1>1
  <2> QED BY <2>1, <2>2 DEF ReadInv
<1>12. TeamsInv' BY DEF TeamsInv, Loaded, Chosen, Building
<1>13. RunInv' BY DEF RunInv, Based, IdOf
<1>14. RefreshInv' BY DEF RefreshInv, Refreshing, Building, BoundIds, Ids, IdOf
<1>15. BindingsInv' BY DEF BindingsInv
<1>16. ServedInv' BY DEF ServedInv, Building
<1>17. HostInv' BY DEF HostInv
<1>18. DirectoryInv'
  <2> SUFFICES ASSUME cmd.kind = "refresh" PROVE DirectoryInv'
    BY DEF DirectoryInv
  <2>1. path = Head(cmd'.todo).root OBVIOUS
  <2>2. ASSUME NEW s \in cmd.sources, s.path = path
        PROVE  /\ Taken(s.path, s.inode)
               /\ k >= 1 => Opened(s.path, s.inode, cmd'.root)
    <3>1. Taken(s.path, s.inode) /\ (k >= 2 => Opened(s.path, s.inode, cmd.root))
      BY <2>2 DEF DirectoryInv, k
    <3>2. CASE k >= 2
      <4>1. part # "roster" BY <1>3, <1>6, <3>2
      <4> QED BY <3>1, <3>2, <4>1 DEF OpenTeam
    <3>3. CASE k = 1
      <4>1. part = "roster" BY <1>6, <3>3
      <4>2. cmd'.root = Inode(place, s.path) /\ Canonical(place, s.path)
        BY <1>1, <2>2, <4>1 DEF OpenTeam, IsTeam
      <4>3. CASE s.path \notin DOMAIN place BY <3>1, <4>2, <4>3 DEF Taken, Opened, Inode
      <4>4. CASE s.path \in DOMAIN place
        <5> DEFINE p == s.path
        <5>1. place[p].kind = "dir" /\ cmd'.root = place[p].inode BY <4>2, <4>4, IdentityIsTaken DEF Inode
        <5>2. CASE Original(p) BY <3>1, <4>4, <5>1, <5>2 DEF Taken, Opened, Original
        <5>3. CASE ~Original(p)
          <6>1. PICK m \in Moves : m[1] = p /\ m[2] = place[p]
            BY <4>4, <5>1, <5>3 DEF Original, DiskInv
          <6>2. \A n \in Moves : n[1] = p /\ n[2].kind = "dir" => n[2].inode = cmd'.root
            BY <5>1, <6>1, DirectoriesDoNotReturn
          <6> QED BY <3>1, <4>4, <5>3, <6>2 DEF Taken, Opened
        <5> QED BY <5>2, <5>3
      <4> QED BY <4>3, <4>4
    <3> QED BY <1>3, <3>1, <3>2, <3>3
  <2>3. cmd'.pc \in {"generate", "bind"} BY <1>8
  <2>4. cmd'.pc = "bind" => k >= 1 BY <1>3, <1>4
  <2>5. Len(cmd'.read) >= 2 => k >= 1 BY <1>3, <1>5
  <2> HIDE DEF path
  <2>6. \A s \in cmd'.sources : s.path = Head(cmd'.todo).root =>
           /\ Taken(s.path, s.inode)'
           /\ cmd'.pc = "bind" \/ Len(cmd'.read) >= 2 => Opened(s.path, s.inode, cmd.root)'
    BY <2>1, <2>2, <2>4, <2>5 DEF Taken, Opened, Original
  <2>7. \A i \in DOMAIN cmd'.bindings : \A s \in cmd'.bindings[i].sources :
          s.path = cmd'.bindings[i].doc.team => s.inode = cmd'.bindings[i].root
    BY DEF DirectoryInv
  <2> QED BY <2>3, <2>6, <2>7 DEF DirectoryInv
<1> QED BY <1>9, <1>10, <1>11, <1>12, <1>13, <1>14, <1>15, <1>16, <1>17, <1>18

\* What run and refresh make an instance of fits the team that was read and parsed.
LEMMA InstanceIsGood ==
  ASSUME NEW team, NEW image, NEW generation,
         GoodDefinition(cmd.definition), GenerationAgrees(generation, team),
         \E j \in DOMAIN cmd.definition.teams : team.entry = cmd.definition.teams[j]
  PROVE  /\ GoodDoc(Instance(team, image, generation))
         /\ Instance(team, image, generation).id = IdOf(cmd, team)
         /\ Instance(team, image, generation).team = team.root
         /\ Instance(team, image, generation).generation.roster = team.roster
<1> DEFINE d == cmd.definition
           doc == Instance(team, image, generation)
<1>1. /\ DOMAIN doc = DocFields /\ doc.id = IdOf(cmd, team) /\ doc.team = team.root
      /\ doc.generation = generation /\ doc.models = AgentModels(team.roster)
      /\ doc.protocol = (team.protocol # "none") /\ doc.mounts = d.mounts
      /\ doc.project_generation = d.generation
  BY DEF Instance, DocFields, IdOf
<1> HIDE DEF doc
<1>2. Coherent(doc) BY <1>1 DEF GenerationAgrees, Coherent
<1>3. /\ doc.project_generation.name = d.name /\ doc.project_generation.teams = d.teams
      /\ IsList(doc.mounts) /\ NamedOnce(doc.mounts)
  BY <1>1 DEF GoodDefinition, DefinitionSha256
<1>4. PICK j \in DOMAIN d.teams : team.entry = d.teams[j] OBVIOUS
<1>5. Readable(d.name, d.teams[j]) => doc.id = [name |-> ReadableId(d.name, d.teams[j]), digest |-> <<>>]
  BY <1>1, <1>4 DEF IdOf, ProjectInstanceId
<1>6. FromProject(doc) BY <1>3, <1>4, <1>5 DEF FromProject
<1>7. GoodDoc(doc) BY <1>1, <1>2, <1>6 DEF GoodDoc
<1>8. doc.generation.roster = team.roster BY <1>1 DEF GenerationAgrees
<1> QED BY <1>1, <1>7, <1>8 DEF doc

\* A team is bound to its image, its generation and its sources.
LEMMA BindStep ==
  ASSUME IInv, Bind
  PROVE  CmdInv'
<1> DEFINE team == Head(cmd.todo)
           generation == Snapshot(GenerateOrder, cmd.read)
           old == cmd.bindings
           n == Len(old)
           last == Tail(cmd.todo) = <<>>
<1>1. PICK image : LET b == [doc |-> Instance(team, image, generation),
                             roster |-> team.roster, sources |-> cmd.sources, root |-> cmd.root]
                   IN cmd' = [cmd EXCEPT !.bindings = Append(old, b), !.todo = Tail(cmd.todo), !.read = <<>>,
                                         !.root = 0, !.sources = {}, !.pc = IF last THEN "verify" ELSE "generate"]
  BY DEF Bind
<1> DEFINE doc == Instance(team, image, generation)
           b == [doc |-> doc, roster |-> team.roster, sources |-> cmd.sources, root |-> cmd.root]
<1>2. At("bind") /\ UNCHANGED <<place, docs>> BY DEF Bind, disk, store
<1>3. cmd.pc = "bind" /\ cmd.kind \in {"run", "refresh"} BY <1>2 DEF IInv, CmdInv, KindInv, At, Building
<1>4. b.doc = doc /\ b.roster = team.roster /\ b.sources = cmd.sources /\ b.root = cmd.root OBVIOUS
<1> HIDE DEF b, doc, generation, team, last
<1>5. /\ DOMAIN cmd' = DOMAIN cmd /\ cmd'.kind = cmd.kind /\ cmd'.definition = cmd.definition
      /\ cmd'.bindings = Append(old, b) /\ cmd'.todo = Tail(cmd.todo) /\ cmd'.read = <<>>
      /\ cmd'.ids = cmd.ids /\ cmd'.work = cmd.work /\ cmd'.host = cmd.host /\ cmd'.teams = cmd.teams
      /\ cmd'.base = cmd.base /\ cmd'.served = cmd.served /\ cmd'.sources = {}
      /\ cmd'.pc = IF last THEN "verify" ELSE "generate"
  BY <1>1 DEF IInv, CmdInv, KindInv, CmdFields, Idle, b, doc
<1>6. cmd'.pc \in {"verify", "generate"} /\ (cmd'.pc = "verify" <=> last) BY <1>5
<1> USE DEF IInv, CmdInv, At
<1>7. /\ IsList(cmd.todo) /\ cmd.todo # <<>> /\ IsList(old) /\ IsList(cmd.teams)
      /\ \A i \in DOMAIN cmd.todo : cmd.todo[i] \in Range(cmd.teams)
  BY <1>3 DEF KindInv, TeamsInv, Chosen, Building
<1> DEFINE l == Len(cmd.todo)
           m == Len(cmd.teams)
<1>8. /\ l \in Nat \ {0} /\ team = cmd.todo[1] /\ DOMAIN cmd.todo = 1..l
      /\ IsList(cmd'.todo) /\ Len(cmd'.todo) = l - 1 /\ DOMAIN cmd'.todo = 1..(l - 1)
      /\ \A i \in DOMAIN cmd'.todo : cmd'.todo[i] = cmd.todo[i + 1]
      /\ last <=> l = 1
  BY <1>5, <1>7, ListTail, ListShape DEF team, last
<1>9. /\ n \in Nat /\ DOMAIN old = 1..n /\ IsList(cmd'.bindings) /\ Len(cmd'.bindings) = n + 1
      /\ DOMAIN cmd'.bindings = 1..(n + 1)
      /\ \A i \in 1..n : cmd'.bindings[i] = old[i]
      /\ cmd'.bindings[n + 1] = b
  BY <1>5, <1>7, ListAppend, ListShape
<1>10. m \in Nat /\ DOMAIN cmd.teams = 1..m BY <1>7, ListShape
<1> HIDE DEF n, l, m
<1>11. team \in Range(cmd.teams) BY <1>7, <1>8
<1>12. /\ GoodDoc(doc) /\ doc.id = IdOf(cmd, team) /\ doc.team = team.root
       /\ doc.generation.roster = team.roster
  <2>1. GoodDefinition(cmd.definition) BY <1>3 DEF DefinitionInv, Loaded, Chosen, Building
  <2>2. GenerationAgrees(generation, team) BY <1>3 DEF ReadInv, generation, team
  <2>3. \E j \in DOMAIN cmd.definition.teams : team.entry = cmd.definition.teams[j]
    BY <1>3, <1>11 DEF TeamsInv, Loaded, Chosen, Building, Range
  <2> QED BY <2>1, <2>2, <2>3, InstanceIsGood DEF doc
<1>13. KindInv' BY <1>3, <1>5, <1>6, <1>7, <1>8, <1>9, ShortLists DEF KindInv, Building
<1>14. DefinitionInv' BY <1>3, <1>5, <1>6 DEF DefinitionInv, Loaded, Chosen, Based, Building
<1>15. ReadInv' BY <1>5, <1>6, ShortLists DEF ReadInv
<1>16. TeamsInv'
  <2>1. \A i \in DOMAIN cmd'.todo : cmd'.todo[i] \in Range(cmd'.teams) BY <1>5, <1>7, <1>8
  <2>2. cmd'.pc = "generate" => cmd'.todo # <<>> BY <1>5, <1>6 DEF last
  <2> QED BY <1>3, <1>5, <1>6, <2>1, <2>2 DEF TeamsInv, Loaded, Chosen, Based, Building
<1>17. cmd.kind = "run" =>
         /\ n + l = m
         /\ \A i \in DOMAIN cmd.todo : cmd.todo[i] = cmd.teams[n + i]
         /\ \A i \in 1..n : old[i].doc.id = IdOf(cmd, cmd.teams[i])
  BY <1>3, <1>9 DEF RunInv, n, l, m
<1>18. cmd.kind = "run" => team = cmd.teams[n + 1] BY <1>8, <1>17
<1>19. RunInv'
  <2> SUFFICES ASSUME cmd.kind = "run", cmd'.pc = "generate" PROVE RunInv'
    BY <1>5, <1>6 DEF RunInv, Based
  <2>1. (n + 1) + (l - 1) = m BY <1>8, <1>9, <1>17
  <2>2. \A i \in DOMAIN cmd'.todo : cmd'.todo[i] = cmd'.teams[(n + 1) + i]
    <3> TAKE i \in DOMAIN cmd'.todo
    <3>0. i \in 1..(l - 1) BY <1>8
    <3>5. l \in Nat /\ n \in Nat BY <1>8, <1>9
    <3>6. i + 1 \in 1..l /\ n + (i + 1) = (n + 1) + i BY <3>0, <3>5
    <3>1. i + 1 \in DOMAIN cmd.todo /\ n + (i + 1) = (n + 1) + i BY <1>8, <3>6
    <3>2. cmd.todo[i + 1] = cmd.teams[n + (i + 1)] BY <1>17, <3>1
    <3> QED BY <1>5, <1>8, <3>1, <3>2
  <2>3. \A i \in DOMAIN cmd'.bindings : cmd'.bindings[i].doc.id = IdOf(cmd, cmd.teams[i])
    <3> TAKE i \in DOMAIN cmd'.bindings
    <3>1. CASE i \in 1..n BY <1>9, <1>17, <3>1
    <3>2. CASE i = n + 1 BY <1>4, <1>9, <1>12, <1>18, <3>2
    <3> QED BY <1>9, <3>1, <3>2
  <2>4. Len(cmd'.bindings) + Len(cmd'.todo) = Len(cmd'.teams) BY <1>5, <1>8, <1>9, <2>1 DEF m
  <2> QED BY <1>5, <1>9, <2>2, <2>3, <2>4 DEF RunInv, IdOf, Based
<1>20. \A i \in 1..n : old[i].doc.id # doc.id
  <2>1. CASE cmd.kind = "run"
    <3> TAKE i \in 1..n
    <3>1. i \in DOMAIN cmd.teams /\ n + 1 \in DOMAIN cmd.teams /\ i # n + 1 BY <1>8, <1>9, <1>10, <1>17, <2>1
    <3>2. TeamName(cmd.teams[i].entry) # TeamName(cmd.teams[n + 1].entry)
      BY <1>3, <3>1 DEF TeamsInv, Loaded, Chosen, Building
    <3>3. IsList(cmd.definition.name) BY <1>3 DEF DefinitionInv, GoodDefinition, Loaded, Chosen, Building
    <3>4. IdOf(cmd, cmd.teams[i]) # IdOf(cmd, cmd.teams[n + 1]) BY <3>2, <3>3, IdsNameTeams DEF IdOf
    <3> QED BY <1>12, <1>17, <1>18, <2>1, <3>4
  <2>2. CASE cmd.kind = "refresh"
    <3>1. doc.id \in cmd.ids BY <1>3, <1>8, <1>12, <2>2 DEF RefreshInv, Building
    <3> QED BY <1>3, <1>9, <2>2, <3>1 DEF RefreshInv, Refreshing, Building, BoundIds
  <2> QED BY <1>3, <2>1, <2>2
<1>21. BindingsInv'
  <2>1. \A i \in DOMAIN cmd'.bindings : /\ GoodDoc(cmd'.bindings[i].doc)
                                        /\ cmd'.bindings[i].doc.generation.roster = cmd'.bindings[i].roster
    <3> TAKE i \in DOMAIN cmd'.bindings
    <3>1. CASE i \in 1..n BY <1>9, <3>1 DEF BindingsInv
    <3>2. CASE i = n + 1 BY <1>4, <1>9, <1>12, <3>2
    <3> QED BY <1>9, <3>1, <3>2
  <2>2. \A i, j \in DOMAIN cmd'.bindings : cmd'.bindings[i].doc.id = cmd'.bindings[j].doc.id => i = j
    <3> TAKE i, j \in DOMAIN cmd'.bindings
    <3>1. CASE i \in 1..n /\ j \in 1..n BY <1>9, <3>1 DEF BindingsInv
    <3>2. CASE i \in 1..n /\ j = n + 1 BY <1>4, <1>9, <1>20, <3>2
    <3>3. CASE i = n + 1 /\ j \in 1..n BY <1>4, <1>9, <1>20, <3>3
    <3>4. CASE i = n + 1 /\ j = n + 1 BY <3>4
    <3> QED BY <1>9, <3>1, <3>2, <3>3, <3>4
  <2> QED BY <1>3, <1>5, <2>1, <2>2 DEF BindingsInv
<1>22. RefreshInv'
  <2> SUFFICES ASSUME cmd.kind = "refresh" PROVE RefreshInv'
    BY <1>5 DEF RefreshInv
  <2>1. l = 1 /\ doc.id \in cmd.ids BY <1>3, <1>8, <1>12 DEF RefreshInv, Building, l
  <2>2. cmd'.pc = "verify" BY <1>6, <1>8, <2>1
  <2>3. cmd.work \subseteq Ids /\ cmd.work \cap BoundIds = {} /\ doc.id \notin cmd.work
    BY <1>3, <2>1 DEF RefreshInv, Refreshing, Building
  <2>4. \A id \in BoundIds' : id \in BoundIds \/ id = doc.id
    <3>1. \A i \in DOMAIN cmd'.bindings : cmd'.bindings[i].doc.id \in BoundIds \cup {doc.id}
      <4> TAKE i \in DOMAIN cmd'.bindings
      <4>1. CASE i \in 1..n BY <1>9, <4>1 DEF BoundIds
      <4>2. CASE i = n + 1 BY <1>4, <1>9, <4>2
      <4> QED BY <1>9, <4>1, <4>2
    <3> QED BY <3>1 DEF BoundIds
  <2> QED BY <1>2, <1>5, <2>2, <2>3, <2>4 DEF RefreshInv, Refreshing, Building, Ids
<1>23. ServedInv'
  <2> SUFFICES ASSUME cmd.kind = "run" PROVE ServedInv'
    BY <1>5, <1>6 DEF ServedInv
  <2>1. AgentModels(team.roster) \subseteq cmd.served BY <1>3, <1>11 DEF ServedInv, Building, Range
  <2>2. \A i \in DOMAIN cmd'.bindings : AgentModels(cmd'.bindings[i].roster) \subseteq cmd.served
    <3> TAKE i \in DOMAIN cmd'.bindings
    <3>1. CASE i \in 1..n BY <1>3, <1>9, <3>1 DEF ServedInv, Building
    <3>2. CASE i = n + 1 BY <1>4, <1>9, <2>1, <3>2
    <3> QED BY <1>9, <3>1, <3>2
  <2>3. \A i \in DOMAIN cmd'.teams : AgentModels(cmd'.teams[i].roster) \subseteq cmd'.served
    BY <1>3, <1>5 DEF ServedInv, Building
  <2> QED BY <1>5, <2>2, <2>3 DEF ServedInv
<1>24. HostInv' BY <1>3, <1>5, <1>6 DEF HostInv
<1>25. DirectoryInv'
  <2> SUFFICES ASSUME cmd.kind = "refresh" PROVE DirectoryInv'
    BY <1>5 DEF DirectoryInv
  <2>1. cmd'.pc = "verify"
    <3>1. l = 1 BY <1>3 DEF RefreshInv, Building, l
    <3> QED BY <1>6, <1>8, <3>1
  <2>2. \A s \in b.sources : s.path = doc.team => Opened(s.path, s.inode, b.root)
    BY <1>3, <1>4, <1>12 DEF DirectoryInv, team
  <2>3. ASSUME NEW i \in DOMAIN cmd'.bindings, NEW s \in cmd'.bindings[i].sources, s.path = cmd'.bindings[i].doc.team
        PROVE  IF i = n + 1 THEN Opened(s.path, s.inode, cmd'.bindings[i].root)
               ELSE s.inode = cmd'.bindings[i].root
    <3>1. CASE i \in 1..n
      <4>1. i # n + 1 BY <1>9, <3>1
      <4> QED BY <1>3, <1>9, <2>3, <3>1, <4>1 DEF DirectoryInv
    <3>2. CASE i = n + 1 BY <1>4, <1>9, <2>2, <2>3, <3>2
    <3> QED BY <1>9, <3>1, <3>2
  <2>4. \A p, i, j : Opened(p, i, j)' = Opened(p, i, j) BY <1>2 DEF Opened, Original
  <2> QED BY <1>9, <2>1, <2>3, <2>4 DEF DirectoryInv
<1> QED BY <1>13, <1>14, <1>15, <1>16, <1>19, <1>21, <1>22, <1>23, <1>24, <1>25

\* verify_source_identities: a directory that was swapped since its identity was taken is noticed.
LEMMA VerifiedIsOpened ==
  ASSUME DiskInv, NEW s, NEW j,
         Canonical(place, s.path), SourceIdentity(place, s.path) = s, Opened(s.path, s.inode, j)
  PROVE  s.inode = j
<1> SUFFICES ASSUME s.path \in DOMAIN place, s.inode = Disk0.place[s.path].inode,
                    Disk0.place[s.path].kind = "dir", ~Original(s.path)
             PROVE  FALSE
  BY DEF Opened
<1> DEFINE p == s.path
<1>1. place[p].kind = "dir" BY IdentityIsTaken
<1>2. s.inode = place[p].inode BY DEF SourceIdentity, Inode
<1>3. PICK m \in Moves : m[1] = p /\ m[2] = place[p] BY DEF Original, DiskInv
<1> QED BY <1>1, <1>2, <1>3, DirectoriesDoNotReturn

\* The identities are the ones that were taken.
LEMMA VerifyStep ==
  ASSUME IInv, Verify
  PROVE  CmdInv'
<1> SUFFICES ASSUME cmd' # Idle PROVE CmdInv'
  BY IdleIsFine
<1>1. /\ At("verify") /\ Keeps /\ cmd'.host = cmd.host
      /\ cmd'.teams = cmd.teams /\ cmd'.todo = cmd.todo
      /\ cmd'.base = cmd.base /\ cmd'.served = cmd.served
      /\ cmd'.pc = IF cmd.kind = "run" THEN "check" ELSE "next"
  BY DEF Verify, Goto, Keeps, Check, disk, store, IInv, CmdInv, KindInv, CmdFields, Idle
<1>2. cmd.pc = "verify" /\ cmd.kind \in {"run", "refresh"} BY <1>1 DEF IInv, CmdInv, KindInv, At
<1>3. cmd.kind = "refresh" => VerifySourceIdentities(place, Last(cmd.bindings).sources)
  BY <1>2 DEF Verify, Check
<1> USE <1>1, <1>2 DEF IInv, CmdInv, At, Keeps
<1>4. KindInv' BY DEF KindInv, Building
<1>5. DefinitionInv' BY DEF DefinitionInv, Loaded, Chosen, Based, Building
<1>6. ReadInv' BY DEF ReadInv
<1>7. TeamsInv' BY DEF TeamsInv, Loaded, Chosen, Based, Building
<1>8. RunInv' BY DEF RunInv, Based
<1>9. RefreshInv' BY DEF RefreshInv, Refreshing, Building, BoundIds, Ids
<1>10. BindingsInv' BY DEF BindingsInv
<1>11. ServedInv' BY DEF ServedInv, Building
<1>12. HostInv' BY DEF HostInv
<1>13. DirectoryInv'
  <2> SUFFICES ASSUME cmd.kind = "refresh" PROVE DirectoryInv'
    BY DEF DirectoryInv
  <2>1. ASSUME NEW i \in DOMAIN cmd.bindings, NEW s \in cmd.bindings[i].sources, s.path = cmd.bindings[i].doc.team
        PROVE  s.inode = cmd.bindings[i].root
    <3>1. CASE i # Len(cmd.bindings) BY <2>1, <3>1 DEF DirectoryInv
    <3>2. CASE i = Len(cmd.bindings)
      <4>1. Opened(s.path, s.inode, cmd.bindings[i].root) BY <2>1, <3>2 DEF DirectoryInv
      <4>2. Canonical(place, s.path) /\ SourceIdentity(place, s.path) = s
        BY <1>3, <3>2 DEF VerifySourceIdentities, Last
      <4> QED BY <4>1, <4>2, VerifiedIsOpened
    <3> QED BY <3>1, <3>2
  <2> QED BY <2>1 DEF DirectoryInv
<1> QED BY <1>4, <1>5, <1>6, <1>7, <1>8, <1>9, <1>10, <1>11, <1>12, <1>13

-----------------------------------------------------------------------------
(* Checking, committing and applying                                        *)

\* The instances as they will be are validated.
LEMMA CheckStep ==
  ASSUME IInv, CheckInstances
  PROVE  CmdInv'
<1> SUFFICES ASSUME cmd' # Idle PROVE CmdInv'
  BY IdleIsFine
<1> DEFINE none == PreparedRunning = {}
<1>1. /\ At("check") /\ Keeps /\ cmd'.host = IF none THEN cmd.host ELSE HostOf(cmd)
      /\ cmd'.teams = cmd.teams /\ cmd'.todo = cmd.todo
      /\ cmd'.base = (cmd.kind = "refresh") /\ cmd'.served = cmd.served
      /\ cmd'.pc = IF cmd.kind = "run" THEN "commit" ELSE "validate"
  BY DEF CheckInstances, Goto, Keeps, Check, disk, store, IInv, CmdInv, KindInv, CmdFields, Idle
<1>2. cmd.pc = "check" /\ cmd.kind \in {"run", "refresh"} BY <1>1 DEF IInv, CmdInv, KindInv, At
<1> HIDE DEF none
<1> USE <1>1, <1>2 DEF IInv, CmdInv, At, Keeps
<1>3. KindInv' BY DEF KindInv, Building
<1>4. DefinitionInv' BY DEF DefinitionInv, Loaded, Chosen, Based, Building
<1>5. ReadInv' BY DEF ReadInv
<1>6. TeamsInv' BY DEF TeamsInv, Loaded, Chosen, Based, Building
<1>7. RunInv' BY DEF RunInv, Based
<1>8. RefreshInv' BY DEF RefreshInv, Refreshing, Building
<1>9. BindingsInv' BY DEF BindingsInv
<1>10. ServedInv' BY DEF ServedInv, Building
<1>11. HostInv' BY HostIsGood DEF HostInv
<1>12. DirectoryInv' BY DEF DirectoryInv
<1> QED BY <1>3, <1>4, <1>5, <1>6, <1>7, <1>8, <1>9, <1>10, <1>11, <1>12

\* What run and refresh commit was prepared; start and stop set an intent.
LEMMA CommitStep ==
  ASSUME IInv, Commit
  PROVE  CmdInv' /\ DocsInv'
<1>1. /\ At("commit") /\ UNCHANGED place /\ DOMAIN cmd' = DOMAIN cmd
      /\ cmd'.kind = cmd.kind /\ cmd'.definition = cmd.definition /\ cmd'.todo = cmd.todo
      /\ cmd'.teams = cmd.teams /\ cmd'.read = cmd.read /\ cmd'.bindings = cmd.bindings
      /\ cmd'.host = cmd.host /\ cmd'.served = cmd.served
      /\ cmd'.base = FALSE /\ cmd'.pc = "validate"
  BY DEF Commit, disk, store, IInv, CmdInv, KindInv, CmdFields, Idle
<1>2. cmd.pc = "commit" /\ cmd.kind \in {"run", "refresh", "start", "stop"}
  BY <1>1 DEF IInv, CmdInv, KindInv, At
<1>3. DocsInv'
  <2>1. CASE cmd.kind \in {"run", "refresh"}
    <3>1. docs' = Prepared BY <1>2, <2>1 DEF Commit
    <3>2. \A d \in NewDocs : GoodDoc(d) BY DEF IInv, CmdInv, BindingsInv, NewDocs, Range
    <3>3. \A d, e \in NewDocs : d.id = e.id => d = e BY DEF IInv, CmdInv, BindingsInv, NewDocs, Range
    <3>4. \A d \in Prepared : d \in NewDocs \/ (d \in docs /\ \A e \in NewDocs : d.id # e.id) BY DEF Prepared
    <3> QED BY <3>1, <3>2, <3>3, <3>4 DEF IInv, DocsInv
  <2>2. ASSUME NEW intent, docs' = {IF d.id \in cmd.ids THEN [d EXCEPT !.intent = intent] ELSE d : d \in docs}
        PROVE  DocsInv'
    <3> DEFINE New(d) == IF d.id \in cmd.ids THEN [d EXCEPT !.intent = intent] ELSE d
    <3>1. ASSUME NEW d \in docs PROVE GoodDoc(New(d)) /\ New(d).id = d.id
      <4> DEFINE e == [d EXCEPT !.intent = intent]
      <4>1. GoodDoc(d) BY DEF IInv, DocsInv
      <4>2. /\ DOMAIN e = DocFields /\ e.id = d.id /\ e.generation = d.generation /\ e.models = d.models
            /\ e.protocol = d.protocol /\ e.mounts = d.mounts /\ e.team = d.team
            /\ e.project_generation = d.project_generation
        BY <4>1 DEF GoodDoc, DocFields
      <4> HIDE DEF e
      <4>3. GoodDoc(e) BY <4>1, <4>2 DEF GoodDoc, Coherent, FromProject
      <4> QED BY <4>1, <4>2, <4>3 DEF e
    <3>2. docs' = {New(d) : d \in docs} BY <2>2
    <3> HIDE DEF New
    <3>3. \A d, e \in docs : New(d).id = New(e).id => d = e BY <3>1 DEF IInv, DocsInv
    <3> QED BY <3>1, <3>2, <3>3 DEF DocsInv
  <2>3. cmd.kind = "start" => docs' = {IF d.id \in cmd.ids THEN [d EXCEPT !.intent = "running"] ELSE d : d \in docs}
    BY DEF Commit
  <2>4. cmd.kind = "stop" => docs' = {IF d.id \in cmd.ids THEN [d EXCEPT !.intent = "stopped"] ELSE d : d \in docs}
    BY DEF Commit
  <2> QED BY <1>2, <2>1, <2>2, <2>3, <2>4
<1> USE <1>1, <1>2 DEF IInv, CmdInv, At
<1>4. KindInv' BY DEF KindInv, Building
<1>5. DefinitionInv' BY DEF DefinitionInv, Loaded, Chosen, Based, Building
<1>6. ReadInv' BY DEF ReadInv
<1>7. TeamsInv' BY DEF TeamsInv, Loaded, Chosen, Based, Building
<1>8. RunInv' BY DEF RunInv, Based
<1>9. RefreshInv' BY DEF RefreshInv, Refreshing, Building
<1>10. BindingsInv' BY DEF BindingsInv
<1>11. ServedInv' BY DEF ServedInv, Building
<1>12. HostInv' BY DEF HostInv
<1>13. DirectoryInv' BY DEF DirectoryInv
<1> QED BY <1>3, <1>4, <1>5, <1>6, <1>7, <1>8, <1>9, <1>10, <1>11, <1>12, <1>13

\* apply looks at the instances.
LEMMA ValidateStep ==
  ASSUME IInv, Validate
  PROVE  CmdInv'
<1> SUFFICES ASSUME cmd' # Idle PROVE CmdInv'
  BY IdleIsFine
<1>1. /\ At("validate") /\ Keeps /\ HostOf(cmd).ok /\ cmd'.host = HostOf(cmd)
      /\ cmd'.teams = cmd.teams /\ cmd'.todo = cmd.todo
      /\ cmd'.base = cmd.base /\ cmd'.served = cmd.served /\ cmd'.pc = "system"
  BY DEF Validate, Keeps, Check, disk, store, IInv, CmdInv, KindInv, CmdFields, Idle
<1>2. GoodHost(cmd'.host) BY <1>1, HostIsGood DEF IInv, CmdInv
<1>3. cmd.pc = "validate" BY <1>1 DEF At
<1> USE <1>1, <1>3 DEF IInv, CmdInv, At, Keeps
<1>4. KindInv' BY DEF KindInv, Building
<1>5. DefinitionInv' BY DEF DefinitionInv, Loaded, Chosen, Based, Building
<1>6. ReadInv' BY DEF ReadInv
<1>7. TeamsInv' BY DEF TeamsInv, Loaded, Chosen, Based, Building
<1>8. RunInv' BY DEF RunInv, Based
<1>9. RefreshInv' BY DEF RefreshInv, Refreshing, Building
<1>10. BindingsInv' BY DEF BindingsInv
<1>11. ServedInv' BY DEF ServedInv, Building
<1>12. HostInv' BY <1>2 DEF HostInv
<1>13. DirectoryInv' BY DEF DirectoryInv
<1> QED BY <1>4, <1>5, <1>6, <1>7, <1>8, <1>9, <1>10, <1>11, <1>12, <1>13

\* A source that is bound is the team or a mount of some instance.
LEMMA BindsAreSources ==
  ASSUME NEW ds, NEW b \in UNION {BindSources(d) : d \in ds}
  PROVE  /\ DOMAIN b = {"id", "role", "checked", "path"} /\ b.path = b.checked
         /\ \E d \in ds : \/ b.role = "team" /\ b.checked \in TeamsOf(Group(ds, d))
                          \/ b.role = "mount" /\ b.checked \in MountsOf(Group(ds, d))
<1>1. PICK d \in ds : b \in BindSources(d) OBVIOUS
<1>2. d \in Group(ds, d) BY DEF Group
<1>3. CASE b = Checked(d.id, "team", Resolve(place, d.team)) BY <1>2, <1>3 DEF TeamsOf, Checked
<1>4. CASE \E p \in Range(Paths(d.mounts)) : b = Checked(d.id, "mount", p)
  BY <1>2, <1>4 DEF MountsOf, Checked
<1> QED BY <1>1, <1>3, <1>4 DEF BindSources

\* What validate_instances accepts is apart, and away from the roots of the host.
LEMMA CheckedSourcesAreApart ==
  ASSUME NEW host, host.path = HostPath, NEW ds, ValidateInstances(host, ds)
  PROVE  GoodBinds(UNION {BindSources(d) : d \in ds})
<1> DEFINE binds == UNION {BindSources(d) : d \in ds}
<1>1. FixedRoots \cup {HostPath} \subseteq Protected(host) BY DEF Protected, TrustedHostRoots
<1>2. \A s \in binds : /\ DOMAIN s = {"id", "role", "checked", "path"} /\ s.path = s.checked
                       /\ \E d \in ds : \/ s.role = "team" /\ s.checked \in TeamsOf(Group(ds, d))
                                        \/ s.role = "mount" /\ s.checked \in MountsOf(Group(ds, d))
  BY BindsAreSources
<1>3. \A d \in ds : Group(ds, d) \subseteq ds BY DEF Group
<1>4. \A d \in ds : /\ TeamsOf(Group(ds, d)) \subseteq TeamsOf(ds)
                    /\ MountsOf(Group(ds, d)) \subseteq MountsOf(ds)
  BY <1>3 DEF TeamsOf, MountsOf
<1> HIDE DEF binds
<1>5. \A s \in binds : \/ s.role = "team" /\ s.checked \in TeamsOf(ds)
                       \/ s.role = "mount" /\ s.checked \in MountsOf(ds)
  BY <1>2, <1>4
<1>6. ASSUME NEW s \in binds, NEW t \in binds
      PROVE  /\ s.checked # t.checked => ~PathsOverlap(s.checked, t.checked)
             /\ s.role # t.role => s.checked # t.checked
  <2>1. ds # {} BY <1>2, <1>6
  <2>2. /\ AllApart(place, TeamsOf(ds) \cup MountsOf(ds))
        /\ Apart(place, TeamsOf(ds), MountsOf(ds))
    BY <2>1 DEF ValidateInstances, ValidateStrictSourceRootSeparation, ValidateTeamMountSeparation
  <2>3. s.checked # t.checked => ~PathsOverlap(s.checked, t.checked) BY <1>5, <2>2 DEF AllApart, Overlap
  <2>4. \A p \in TeamsOf(ds), q \in MountsOf(ds) : p # q BY <2>2 DEF Apart, Overlap, PathsOverlap
  <2>5. s.role # t.role => s.checked # t.checked BY <1>5, <2>4
  <2> QED BY <2>3, <2>5
<1>7. ASSUME NEW s \in binds, NEW r \in FixedRoots \cup {HostPath}
      PROVE  ~PathsOverlap(s.checked, r)
  <2>1. PICK d \in ds : s.checked \in TeamsOf(Group(ds, d)) \cup MountsOf(Group(ds, d)) BY <1>2
  <2>2. ValidateMountAuthority(place, TeamsOf(Group(ds, d)), MountsOf(Group(ds, d)), Protected(host))
    BY <2>1 DEF ValidateInstances
  <2>3. ~Overlap(place, s.checked, r) BY <1>1, <2>1, <2>2 DEF ValidateMountAuthority, Apart
  <2> QED BY <2>3 DEF Overlap
<1>8. WereApart(binds) BY <1>6, <1>7 DEF WereApart
<1> QED BY <1>2, <1>8 DEF GoodBinds, binds

\* system looks at the instances again.
LEMMA RecheckStep ==
  ASSUME IInv, Recheck
  PROVE  CmdInv'
<1> SUFFICES ASSUME cmd' # Idle PROVE CmdInv'
  BY IdleIsFine
<1> DEFINE binds == UNION {BindSources(d) : d \in Target}
<1>1. /\ At("system") /\ UNCHANGED <<place, docs>> /\ DOMAIN cmd' = DOMAIN cmd
      /\ cmd'.kind = cmd.kind /\ cmd'.definition = cmd.definition /\ cmd'.bindings = cmd.bindings
      /\ cmd'.ids = cmd.ids /\ cmd'.read = cmd.read /\ cmd'.host = cmd.host
      /\ cmd'.teams = cmd.teams /\ cmd'.todo = cmd.todo
      /\ cmd'.base = cmd.base /\ cmd'.served = cmd.served /\ cmd'.pc = "compile" /\ cmd'.binds = binds
      /\ ValidateInstances(cmd.host, Target)
  BY DEF Recheck, Check, disk, store, IInv, CmdInv, KindInv, CmdFields, Idle
<1>2. cmd.pc = "system" BY <1>1 DEF At
<1>3. cmd.host.ok /\ cmd.host.path = HostPath BY <1>1 DEF IInv, CmdInv, HostInv, GoodHost
<1>4. GoodBinds(binds) BY <1>1, <1>3, CheckedSourcesAreApart
<1> HIDE DEF binds
<1> USE <1>1, <1>2 DEF IInv, CmdInv, At
<1>5. KindInv' BY DEF KindInv, Building
<1>6. DefinitionInv' BY DEF DefinitionInv, Loaded, Chosen, Based, Building
<1>7. ReadInv' BY DEF ReadInv
<1>8. TeamsInv' BY DEF TeamsInv, Loaded, Chosen, Based, Building
<1>9. RunInv' BY DEF RunInv, Based
<1>10. RefreshInv' BY DEF RefreshInv, Refreshing, Building
<1>11. BindingsInv' BY DEF BindingsInv
<1>12. ServedInv' BY DEF ServedInv, Building
<1>13. HostInv' BY <1>3, <1>4 DEF HostInv
<1>14. DirectoryInv' BY DEF DirectoryInv
<1> QED BY <1>5, <1>6, <1>7, <1>8, <1>9, <1>10, <1>11, <1>12, <1>13, <1>14

\* The path of a team is resolved once more: what was checked stays as it is.
LEMMA MakeTeamStep ==
  ASSUME IInv, MakeTeam
  PROVE  CmdInv'
<1> SUFFICES ASSUME cmd' # Idle PROVE CmdInv'
  BY IdleIsFine
<1>1. PICK id \in cmd.work :
        /\ At("compile") /\ UNCHANGED <<place, docs>>
        /\ cmd' = [cmd EXCEPT !.work = cmd.work \ {id},
                              !.binds = {IF b.id = id /\ b.role = "team" THEN [b EXCEPT !.path = Resolve(place, Doc(id).team)] ELSE b :
                                           b \in cmd.binds}]
  BY DEF MakeTeam, Check, disk
<1> DEFINE Remade(b) == IF b.id = id /\ b.role = "team" THEN [b EXCEPT !.path = Resolve(place, Doc(id).team)] ELSE b
<1>2. cmd.pc = "compile" /\ GoodBinds(cmd.binds) BY <1>1 DEF IInv, CmdInv, HostInv, At
<1>3. /\ DOMAIN cmd' = DOMAIN cmd /\ UNCHANGED <<place, docs>>
      /\ cmd'.kind = cmd.kind /\ cmd'.definition = cmd.definition /\ cmd'.bindings = cmd.bindings
      /\ cmd'.ids = cmd.ids /\ cmd'.read = cmd.read /\ cmd'.host = cmd.host
      /\ cmd'.teams = cmd.teams /\ cmd'.todo = cmd.todo
      /\ cmd'.base = cmd.base /\ cmd'.served = cmd.served /\ cmd'.pc = "compile"
      /\ cmd'.binds = {Remade(b) : b \in cmd.binds}
  BY <1>1, <1>2 DEF IInv, CmdInv, KindInv, CmdFields, Idle
<1>4. \A b \in cmd.binds : /\ DOMAIN Remade(b) = DOMAIN b
                           /\ Remade(b).checked = b.checked /\ Remade(b).role = b.role
                           /\ b.role = "mount" => Remade(b) = b
  BY <1>2 DEF GoodBinds
<1> HIDE DEF Remade
<1>5. GoodBinds(cmd'.binds)
  <2>1. \A s \in cmd'.binds : \E b \in cmd.binds :
          /\ DOMAIN s = DOMAIN b /\ s.checked = b.checked /\ s.role = b.role
          /\ b.role = "mount" => s = b
    <3> TAKE s \in cmd'.binds
    <3>1. PICK b \in cmd.binds : s = Remade(b) BY <1>3
    <3> QED BY <1>4, <3>1
  <2>2. /\ \A b \in cmd.binds : /\ DOMAIN b = {"id", "role", "checked", "path"}
                                /\ b.role = "mount" => b.path = b.checked
        /\ WereApart(cmd.binds)
    BY <1>2 DEF GoodBinds
  <2>3. WereApart(cmd'.binds) BY ONLY <2>1, <2>2 DEF WereApart
  <2>4. \A b \in cmd'.binds : /\ DOMAIN b = {"id", "role", "checked", "path"}
                              /\ b.role = "mount" => b.path = b.checked
    BY ONLY <2>1, <2>2
  <2> QED BY <2>3, <2>4 DEF GoodBinds
<1> USE <1>2, <1>3 DEF IInv, CmdInv, At
<1>6. KindInv' BY DEF KindInv, Building
<1>7. DefinitionInv' BY DEF DefinitionInv, Loaded, Chosen, Based, Building
<1>8. ReadInv' BY DEF ReadInv
<1>9. TeamsInv' BY DEF TeamsInv, Loaded, Chosen, Based, Building
<1>10. RunInv' BY DEF RunInv, Based
<1>11. RefreshInv' BY DEF RefreshInv, Refreshing, Building
<1>12. BindingsInv' BY DEF BindingsInv
<1>13. ServedInv' BY DEF ServedInv, Building
<1>14. HostInv' BY <1>5 DEF HostInv
<1>15. DirectoryInv' BY DEF DirectoryInv
<1> QED BY <1>6, <1>7, <1>8, <1>9, <1>10, <1>11, <1>12, <1>13, <1>14, <1>15

\* The system is generated.
LEMMA MaterializeStep ==
  ASSUME IInv, Materialize
  PROVE  CmdInv' /\ AppliedIsSeparate'
<1>1. AppliedIsSeparate'
  <2> SUFFICES ASSUME applied' # applied PROVE AppliedIsSeparate'
    BY DEF IInv, AppliedIsSeparate
  <2>1. At("compile") /\ applied'.sources = cmd.binds BY DEF Materialize
  <2>2. GoodBinds(cmd.binds) BY <2>1 DEF IInv, CmdInv, HostInv
  <2>3. \A s, t \in applied'.sources :
          s.path = s.checked /\ t.path = t.checked =>
            /\ s.path # t.path => ~PathsOverlap(s.path, t.path)
            /\ s.role # t.role => s.path # t.path
            /\ \A r \in FixedRoots \cup {HostPath} : ~PathsOverlap(s.path, r)
    BY <2>1, <2>2 DEF GoodBinds, WereApart
  <2>4. \A s \in applied'.sources : s.role = "mount" => s.path = s.checked
    <3>1. \A b \in cmd.binds : b.role = "mount" => b.path = b.checked BY <2>2 DEF GoodBinds
    <3> QED BY ONLY <2>1, <3>1
  <2> QED BY <2>3, <2>4 DEF AppliedIsSeparate
<1>2. CmdInv'
  <2> SUFFICES ASSUME cmd' # Idle PROVE CmdInv'
    BY IdleIsFine
  <2>1. /\ At("compile") /\ Keeps /\ cmd'.host = cmd.host
        /\ cmd'.teams = cmd.teams /\ cmd'.todo = cmd.todo
        /\ cmd'.base = cmd.base /\ cmd'.served = cmd.served
        /\ cmd'.pc = IF cmd.base THEN "catalogue" ELSE "finish"
    BY DEF Materialize, Keeps, Check, disk, IInv, CmdInv, KindInv, CmdFields, Idle
  <2>2. cmd.pc = "compile" BY <2>1 DEF At
  <2> USE <2>1, <2>2 DEF IInv, CmdInv, At, Keeps
  <2>3. KindInv' BY DEF KindInv, Building
  <2>4. DefinitionInv' BY DEF DefinitionInv, Loaded, Chosen, Based, Building
  <2>5. ReadInv' BY DEF ReadInv
  <2>6. TeamsInv' BY DEF TeamsInv, Loaded, Chosen, Based, Building
  <2>7. RunInv' BY DEF RunInv, Based
  <2>8. RefreshInv' BY DEF RefreshInv, Refreshing, Building
  <2>9. BindingsInv' BY DEF BindingsInv
  <2>10. ServedInv' BY DEF ServedInv, Building
  <2>11. HostInv' BY DEF HostInv
  <2>12. DirectoryInv' BY DEF DirectoryInv
  <2> QED BY <2>3, <2>4, <2>5, <2>6, <2>7, <2>8, <2>9, <2>10, <2>11, <2>12
<1> QED BY <1>1, <1>2

\* The models of the teams are in the catalogue of this moment.
LEMMA CatalogueStep ==
  ASSUME IInv, Catalogue
  PROVE  CmdInv'
<1> SUFFICES ASSUME cmd' # Idle PROVE CmdInv'
  BY IdleIsFine
<1>1. /\ At("catalogue") /\ Keeps /\ cmd'.host = cmd.host
      /\ cmd'.teams = cmd.teams /\ cmd'.todo = cmd.todo
      /\ cmd'.base = cmd.base
      /\ cmd'.pc = IF cmd.kind = "run" THEN "image" ELSE "commit"
      /\ cmd'.served = ServedModels(catalogue)
  BY DEF Catalogue, Keeps, Check, disk, store, IInv, CmdInv, KindInv, CmdFields, Idle
<1>2. cmd.pc = "catalogue" /\ cmd.kind \in {"run", "refresh"} /\ cmd.base = TRUE
  BY <1>1 DEF IInv, CmdInv, KindInv, At
<1>3. /\ cmd.kind = "run" => \A t \in Range(cmd.teams) : AgentModels(t.roster) \subseteq cmd'.served
      /\ cmd.kind = "refresh" => \A b \in Range(cmd.bindings) : AgentModels(b.roster) \subseteq cmd'.served
  <2>1. cmd.kind = "run" => \A r \in {t.roster : t \in Range(cmd.teams)} : ValidatePiTeamModels(r, catalogue)
    BY DEF Catalogue, Check
  <2>2. cmd.kind # "run" => \A r \in {b.roster : b \in Range(cmd.bindings)} : ValidatePiTeamModels(r, catalogue)
    BY DEF Catalogue, Check
  <2> QED BY <1>1, <2>1, <2>2 DEF ValidatePiTeamModels
<1> USE <1>1, <1>2 DEF IInv, CmdInv, At, Keeps
<1>4. KindInv' BY DEF KindInv, Building
<1>5. DefinitionInv' BY DEF DefinitionInv, Loaded, Chosen, Based, Building
<1>6. ReadInv' BY DEF ReadInv
<1>7. TeamsInv' BY DEF TeamsInv, Loaded, Chosen, Based, Building
<1>8. RunInv' BY DEF RunInv, Based
<1>9. RefreshInv' BY DEF RefreshInv, Refreshing, Building
<1>10. BindingsInv' BY DEF BindingsInv
<1>11. ServedInv'
  <2>1. cmd.kind = "run" => cmd'.bindings = <<>> BY DEF RunInv, Based
  <2>2. \A i \in DOMAIN cmd.teams : cmd.teams[i] \in Range(cmd.teams) BY DEF Range
  <2>3. \A i \in DOMAIN cmd.bindings : cmd.bindings[i] \in Range(cmd.bindings) BY DEF Range
  <2> QED BY <1>3, <2>1, <2>2, <2>3 DEF ServedInv, Building
<1>12. HostInv' BY DEF HostInv
<1>13. DirectoryInv' BY DEF DirectoryInv
<1> QED BY <1>4, <1>5, <1>6, <1>7, <1>8, <1>9, <1>10, <1>11, <1>12, <1>13

-----------------------------------------------------------------------------
(* The operator's edits                                                     *)

\* What was a directory of the start and is no more does not come back.
LEMMA EditStep ==
  ASSUME IInv, EditProject \/ EditTeam \/ Move \/ EditHost \/ ChangeCatalogue
  PROVE  DiskInv' /\ CmdInv'
<1>1. UNCHANGED <<cmd, docs>> BY DEF EditProject, EditTeam, Move, EditHost, ChangeCatalogue, Edit, store
<1>2. \/ UNCHANGED place
      \/ \E m \in Moves : place' = [place EXCEPT ![m[1]] = m[2]]
  BY DEF EditProject, EditTeam, Move, EditHost, ChangeCatalogue
<1>3. DOMAIN place = DOMAIN Disk0.place BY DEF IInv, DiskInv
<1>4. DOMAIN place' = DOMAIN place BY <1>2
<1>5. \A p \in DOMAIN place : Original(p)' => Original(p)
  <2>1. CASE UNCHANGED place BY <2>1 DEF Original
  <2>2. ASSUME NEW m \in Moves, place' = [place EXCEPT ![m[1]] = m[2]], NEW p \in DOMAIN place, Original(p)'
        PROVE  Original(p)
    <3>1. CASE p # m[1] BY <2>2, <3>1 DEF Original
    <3>2. CASE p = m[1]
      <4>1. m[2] = Disk0.place[p] /\ m[2].kind = "dir" BY <2>2, <3>2 DEF Original
      <4> QED BY <3>2, <4>1, DirectoriesDoNotReturn
    <3> QED BY <3>1, <3>2
  <2> QED BY <1>2, <2>1, <2>2
<1>6. DiskInv'
  <2>1. (DOMAIN text = DOMAIN Disk0.text /\ \A f \in DOMAIN text : ProjectText(text[f]))'
    <3>1. CASE UNCHANGED text BY <3>1 DEF IInv, DiskInv
    <3>2. CASE EditProject
      <4>1. PICK f \in DOMAIN text : \E lines \in Texts[f] : text' = [text EXCEPT ![f] = lines]
        BY <3>2 DEF EditProject
      <4> QED BY <4>1, TextsAreLists DEF IInv, DiskInv
    <3> QED BY <3>1, <3>2 DEF EditTeam, Move, EditHost, ChangeCatalogue
  <2>2. HostText(hostconf)'
    <3>1. CASE UNCHANGED hostconf BY <3>1 DEF IInv, DiskInv, HostText
    <3>2. CASE EditHost BY <3>2, TextsAreLists DEF EditHost
    <3> QED BY <3>1, <3>2 DEF EditTeam, Move, EditProject, ChangeCatalogue
  <2>3. \A p \in DOMAIN place' : place'[p] = Disk0.place[p] \/ \E m \in Moves : m[1] = p /\ m[2] = place'[p]
    BY <1>2, <1>3 DEF IInv, DiskInv
  <2> QED BY <1>3, <1>4, <2>1, <2>2, <2>3 DEF DiskInv
<1>7. DirectoryInv'
  <2>1. \A p, i : Taken(p, i) => Taken(p, i)' BY <1>4, <1>5 DEF Taken
  <2>2. \A p, i, j : Opened(p, i, j) => Opened(p, i, j)' BY <1>4, <1>5 DEF Opened
  <2>3. DirectoryInv BY DEF IInv, CmdInv
  <2> QED BY <1>1, <2>1, <2>2, <2>3 DEF DirectoryInv, At
<1> USE <1>1 DEF IInv, CmdInv, At
<1>8. KindInv' /\ DefinitionInv' BY DEF KindInv, DefinitionInv, Loaded, Chosen, Based
<1>9. ReadInv' /\ TeamsInv' BY DEF ReadInv, TeamsInv, Follows, Loaded, Chosen, Based
<1>10. RunInv' BY DEF RunInv, Based, IdOf
<1>11. RefreshInv' BY DEF RefreshInv, BoundIds, IdOf, Ids
<1>12. BindingsInv' /\ ServedInv' /\ HostInv' BY DEF BindingsInv, ServedInv, HostInv
<1> QED BY <1>6, <1>7, <1>8, <1>9, <1>10, <1>11, <1>12

-----------------------------------------------------------------------------
(* The invariant                                                            *)

\* Nothing is committed, applied or begun at first.
LEMMA InitIsFine ==
  ASSUME Init
  PROVE  IInv
<1>1. DiskInv BY TextsAreLists DEF Init, DiskInv
<1>2. DocsInv /\ AppliedIsSeparate BY DEF Init, DocsInv, AppliedIsSeparate
<1>3. cmd = Idle BY DEF Init
<1>4. KindInv BY <1>3, ShortLists DEF KindInv, Idle, At, CmdFields, NoHost, Building
<1>5. DefinitionInv /\ ReadInv /\ TeamsInv
  BY <1>3 DEF DefinitionInv, ReadInv, TeamsInv, Idle, At, Refused, Loaded, Chosen, Based, Building
<1>6. RunInv /\ RefreshInv BY <1>3 DEF RunInv, RefreshInv, Idle
<1>7. BindingsInv /\ ServedInv /\ HostInv /\ DirectoryInv
  BY <1>3 DEF BindingsInv, ServedInv, HostInv, DirectoryInv, Idle, At, Building, NoHost
<1> QED BY <1>1, <1>2, <1>4, <1>5, <1>6, <1>7 DEF IInv, CmdInv

\* The edits come from outside, forget and commit change what is committed,
\* materialize what is applied.
LEMMA NextIsFine ==
  ASSUME IInv, [Next]_vars
  PROVE  IInv'
<1> DEFINE Disk == UNCHANGED disk
           Docs == UNCHANGED docs
           Applied == UNCHANGED applied
<1>1. Disk => DiskInv' BY DEF IInv, DiskInv, disk, ProjectText, HostText
<1>2. Docs => DocsInv' BY DEF IInv, DocsInv
<1>3. Applied => AppliedIsSeparate' BY DEF IInv, AppliedIsSeparate
<1>4. Disk /\ Docs /\ Applied /\ CmdInv' => IInv' BY <1>1, <1>2, <1>3 DEF IInv
<1>5. CASE UNCHANGED vars
  <2>1. Disk /\ Docs /\ Applied /\ UNCHANGED <<cmd, place>> BY <1>5 DEF vars, disk, store
  <2>2. CmdInv'
    <3> USE <2>1 DEF IInv, CmdInv, At
    <3>1. KindInv' /\ DefinitionInv' BY DEF KindInv, DefinitionInv, Loaded, Chosen, Based
    <3>2. ReadInv' /\ TeamsInv' BY DEF ReadInv, TeamsInv, Follows, Loaded, Chosen, Based
    <3>3. RunInv' BY DEF RunInv, Based, IdOf
    <3>4. RefreshInv' BY DEF RefreshInv, BoundIds, IdOf, Ids
    <3>5. BindingsInv' /\ ServedInv' /\ HostInv' BY DEF BindingsInv, ServedInv, HostInv
    <3>6. DirectoryInv' BY DEF DirectoryInv, Taken, Opened, Original
    <3> QED BY <3>1, <3>2, <3>3, <3>4, <3>5, <3>6
  <2> QED BY <1>4, <2>1, <2>2
<1>6. CASE \/ \E f \in Files : BeginRun(f) \/ BeginStopProject(f)
           \/ BeginRefresh
           \/ \E id \in Ids : BeginStart(id) \/ BeginStop(id) \/ BeginForget(id)
  BY <1>4, <1>6, BeginStep
<1>7. CASE NextInstance BY <1>4, <1>7, NextInstanceStep DEF NextInstance, store
<1>8. CASE Load BY <1>4, <1>8, LoadStep DEF Load, store
<1>9. CASE ReadTeam BY <1>4, <1>9, ReadTeamStep DEF ReadTeam, store
<1>10. CASE Authority BY <1>4, <1>10, AuthorityStep DEF Authority, store
<1>11. CASE Collide BY <1>4, <1>11, CollideStep DEF Collide, store
<1>12. CASE Select BY <1>4, <1>12, SelectStep DEF Select, store
<1>13. CASE BuildTeam BY <1>4, <1>13, BuildTeamStep DEF BuildTeam, store
<1>14. CASE Capture BY <1>4, <1>14, CaptureStep DEF Capture, store
<1>15. CASE Generate BY <1>4, <1>15, GenerateStep DEF Generate, store
<1>16. CASE Bind BY <1>4, <1>16, BindStep DEF Bind, store
<1>17. CASE Verify BY <1>4, <1>17, VerifyStep DEF Verify, store
<1>18. CASE CheckInstances BY <1>4, <1>18, CheckStep DEF CheckInstances, store
<1>19. CASE Commit BY <1>1, <1>3, <1>19, CommitStep DEF Commit, IInv
<1>20. CASE Validate BY <1>4, <1>20, ValidateStep DEF Validate, store
<1>21. CASE Recheck BY <1>4, <1>21, RecheckStep DEF Recheck, store
<1>22. CASE MakeTeam BY <1>1, <1>2, <1>3, <1>22, MakeTeamStep DEF MakeTeam, IInv
<1>23. CASE Materialize BY <1>1, <1>2, <1>23, MaterializeStep DEF Materialize, IInv
<1>24. CASE Catalogue BY <1>4, <1>24, CatalogueStep DEF Catalogue, store
<1>25. CASE Finish
  <2>1. CmdInv' BY <1>25, IdleIsFine DEF Finish
  <2>2. docs' \subseteq docs BY <1>25 DEF Finish
  <2>3. DocsInv' BY <2>2 DEF IInv, DocsInv
  <2> QED BY <1>1, <1>3, <1>25, <2>1, <2>3 DEF Finish, IInv
<1>26. CASE EditProject \/ EditTeam \/ Move \/ EditHost \/ ChangeCatalogue
  <2>1. DiskInv' /\ CmdInv' BY <1>26, EditStep
  <2>2. Docs /\ Applied BY <1>26 DEF EditProject, EditTeam, Move, EditHost, ChangeCatalogue, Edit, store
  <2> QED BY <1>2, <1>3, <2>1, <2>2 DEF IInv
<1> QED BY <1>5, <1>6, <1>7, <1>8, <1>9, <1>10, <1>11, <1>12, <1>13, <1>14, <1>15, <1>16, <1>17, <1>18, <1>19,
           <1>20, <1>21, <1>22, <1>23, <1>24, <1>25, <1>26 DEF Next

\* The invariant of the commands: what is loaded, read, bound, committed and
\* applied belongs together at every step, whatever the operator edits meanwhile.
THEOREM LaunchInvariant == Spec => []IInv
<1>1. Init => IInv BY InitIsFine
<1>2. IInv /\ [Next]_vars => IInv' BY NextIsFine
<1> QED BY <1>1, <1>2, PTL DEF Spec

\* An instance is committed with what belongs to the files its generation names.
THEOREM CommitsAreCoherent == Spec => []CommittedIsCoherent
<1>1. IInv => CommittedIsCoherent
  <2> SUFFICES ASSUME IInv PROVE CommittedIsCoherent OBVIOUS
  <2>1. \A d \in docs : Coherent(d) BY DEF IInv, DocsInv, GoodDoc
  <2>2. ASSUME At("commit"), NEW d \in NewDocs PROVE AgentModels(d.generation.roster) \subseteq cmd.served
    <3>1. PICK i \in DOMAIN cmd.bindings : d = cmd.bindings[i].doc BY <2>2 DEF NewDocs, Range
    <3>2. d.generation.roster = cmd.bindings[i].roster BY <3>1 DEF IInv, CmdInv, BindingsInv
    <3> QED BY <2>2, <3>2 DEF IInv, CmdInv, ServedInv
  <2> QED BY <2>1, <2>2 DEF Coherent, CommittedIsCoherent
<1> QED BY <1>1, LaunchInvariant, PTL

\* Where it was checked, no source of an applied system lies in another or reaches the
\* host's roots; a mount is always mounted there.
THEOREM SourcesStayApart == Spec => []AppliedIsSeparate
<1>1. IInv => AppliedIsSeparate BY DEF IInv
<1> QED BY <1>1, LaunchInvariant, PTL

\* What refresh commits was read from the directory whose identity it took.
THEOREM OneDirectoryIsRead == Spec => []RefreshReadsOneDirectory
<1>1. IInv => RefreshReadsOneDirectory
  BY DEF IInv, CmdInv, DirectoryInv, RefreshReadsOneDirectory, Range, At
<1> QED BY <1>1, LaunchInvariant, PTL

\* Refresh finds the one team that has the instance's ID.
THEOREM TheTeamIsFound == Spec => []RefreshFindsItsTeam
<1>1. IInv => RefreshFindsItsTeam
  <2> SUFFICES ASSUME IInv, At("select"), NEW id \in cmd.ids,
                      Doc(id).project_generation = cmd.definition.generation,
                      \A i \in DOMAIN cmd.definition.teams :
                        Readable(cmd.definition.name, cmd.definition.teams[i])
               PROVE  Cardinality(Candidates) = 1
    BY DEF RefreshFindsItsTeam
  <2> DEFINE d == cmd.definition
             doc == Doc(id)
             Id(i) == ProjectInstanceId(d, cmd.teams[i].entry)
  <2>1. cmd.pc = "select" /\ cmd.kind = "refresh" BY DEF IInv, CmdInv, KindInv, At
  <2>2. cmd.ids = {id} /\ id \in Ids BY <2>1 DEF IInv, CmdInv, RefreshInv, Refreshing
  <2>3. doc \in docs /\ doc.id = id BY <2>2 DEF Ids, Doc
  <2>4. GoodDefinition(d) BY <2>1 DEF IInv, CmdInv, DefinitionInv, Loaded
  <2>5. /\ doc.project_generation.name = d.name /\ doc.project_generation.teams = d.teams
    BY <2>4 DEF GoodDefinition, DefinitionSha256
  <2>6. GoodDoc(doc) BY <2>3 DEF IInv, DocsInv
  <2> HIDE DEF doc
  <2>7. PICK i \in DOMAIN d.teams :
          Readable(d.name, d.teams[i]) => id = [name |-> ReadableId(d.name, d.teams[i]), digest |-> <<>>]
    BY <2>3, <2>5, <2>6 DEF GoodDoc, FromProject
  <2>8. id = [name |-> ReadableId(d.name, d.teams[i]), digest |-> <<>>] BY <2>7
  <2>9. /\ Follows(cmd) /\ Len(cmd.teams) = Len(d.teams) /\ IsList(cmd.teams)
        /\ \A j, k \in DOMAIN cmd.teams : TeamName(cmd.teams[j].entry) = TeamName(cmd.teams[k].entry) => j = k
    BY <2>1 DEF IInv, CmdInv, KindInv, TeamsInv, Loaded
  <2>10. DOMAIN cmd.teams = DOMAIN d.teams BY <2>4, <2>9, ListShape DEF GoodDefinition
  <2>11. cmd.teams[i].entry = d.teams[i] BY <2>9, <2>10 DEF Follows
  <2>12. Id(i) = id BY <2>8, <2>11 DEF ProjectInstanceId
  <2>13. \A j \in DOMAIN cmd.teams : Id(j) = id => j = i
    <3> SUFFICES ASSUME NEW j \in DOMAIN cmd.teams, Id(j) = id PROVE j = i OBVIOUS
    <3>1. IsList(d.name) BY <2>4 DEF GoodDefinition
    <3>2. TeamName(cmd.teams[j].entry) = TeamName(cmd.teams[i].entry) BY <2>12, <3>1, IdsNameTeams
    <3> QED BY <2>9, <2>10, <3>2
  <2>14. Candidates = {i} BY <2>2, <2>10, <2>12, <2>13 DEF Candidates
  <2> QED BY <2>14, FS_Singleton
<1> QED BY <1>1, LaunchInvariant, PTL

-----------------------------------------------------------------------------
(* The system                                                               *)

\* Paths that differ in their first or in their second name do not overlap.
LEMMA DifferentPaths ==
  ASSUME NEW s, NEW t, IsList(s), IsList(t), NEW k \in DOMAIN s \cap DOMAIN t, s[k] # t[k]
  PROVE  ~PathsOverlap(s, t)
<1> DEFINE m == Len(s)
           n == Len(t)
           S == Range(s) \cup Range(t)
<1>1. m \in Nat /\ n \in Nat /\ DOMAIN s = 1..m /\ DOMAIN t = 1..n BY ListShape
<1>2. \A i \in 1..m : s[i] \in S BY <1>1 DEF Range
<1>3. \A i \in 1..n : t[i] \in S BY <1>1 DEF Range
<1>4. k \in 1..m /\ k \in 1..n BY <1>1
<1> HIDE DEF m, n, S
<1>5. ~(m <= n /\ SubSeq(s, 1, m) = SubSeq(t, 1, m))
  <2> SUFFICES ASSUME m <= n, SubSeq(s, 1, m) = SubSeq(t, 1, m) PROVE FALSE OBVIOUS
  <2>1. \A i \in 1..m : SubSeq(s, 1, m)[i] = s[1 + i - 1] BY <1>1, <1>2, SubSeqProperties
  <2>2. \A i \in 1..m : SubSeq(t, 1, m)[i] = t[1 + i - 1] BY <1>1, <1>3, SubSeqProperties
  <2>3. k \in 1..m /\ 1 + k - 1 = k BY <1>1, <1>4
  <2> QED BY <2>1, <2>2, <2>3
<1>6. ~(n <= m /\ SubSeq(t, 1, n) = SubSeq(s, 1, n))
  <2> SUFFICES ASSUME n <= m, SubSeq(t, 1, n) = SubSeq(s, 1, n) PROVE FALSE OBVIOUS
  <2>1. \A i \in 1..n : SubSeq(t, 1, n)[i] = t[1 + i - 1] BY <1>1, <1>3, SubSeqProperties
  <2>2. \A i \in 1..n : SubSeq(s, 1, n)[i] = s[1 + i - 1] BY <1>1, <1>2, SubSeqProperties
  <2>3. k \in 1..n /\ 1 + k - 1 = k BY <1>1, <1>4
  <2> QED BY <2>1, <2>2, <2>3
<1> QED BY <1>5, <1>6 DEF PathsOverlap, IsPrefix, m, n

OwnTargets ==
  <<<<"agentws", "tasks">>, <<"agentws", "jobs">>, <<"agentws", "agents">>, <<"agentws", "project.cyclo">>,
    <<"opt", "cyclo", "pi-settings.json">>, <<"home", "cyclo", ".pi">>, <<"team">>>>

\* The places a team's mounts are given in its container do not overlap.
LEMMA TargetsAreApart ==
  ASSUME NEW doc, IsList(doc.mounts), NamedOnce(doc.mounts),
         NEW i \in DOMAIN TeamTargets(doc), NEW j \in DOMAIN TeamTargets(doc), i # j
  PROVE  ~PathsOverlap(TeamTargets(doc)[i], TeamTargets(doc)[j])
<1> DEFINE n == Len(doc.mounts)
           MountedAt(k) == MountContainerPath(doc.mounts[k].name, doc.mounts[k].mode)
           mounts == [k \in DOMAIN doc.mounts |-> MountedAt(k)]
           all == TeamTargets(doc)
           S == Range(OwnTargets) \cup Range(mounts)
           Own(k, l, a, b) == k = l /\ OwnTargets[k][1] = a /\ OwnTargets[k][2] = b /\ 2 \in DOMAIN OwnTargets[k]
<1>1. n \in Nat /\ DOMAIN doc.mounts = 1..n BY ListShape
<1>2. IsList(mounts) /\ Len(mounts) = n
  <2>1. mounts = [k \in 1..n |-> mounts[k]] BY <1>1
  <2> HIDE DEF mounts, n
  <2> QED BY <1>1, <2>1, ListOf
<1>3. IsList(OwnTargets) /\ Len(OwnTargets) = 7
  <2>1. OwnTargets = [k \in 1..7 |-> OwnTargets[k]] BY DEF OwnTargets
  <2> QED BY <2>1, ListOf
<1>4. \A k \in 1..n : mounts[k] = MountedAt(k) BY <1>1
<1>5. all = OwnTargets \o mounts BY DEF TeamTargets, OwnTargets
<1>6. OwnTargets \in Seq(S) /\ mounts \in Seq(S)
  <2>1. OwnTargets \in Seq(Range(OwnTargets)) /\ mounts \in Seq(Range(mounts)) BY <1>2, <1>3 DEF IsList
  <2> QED BY <2>1, SeqMonotonic
<1> HIDE DEF mounts, all, n, S
<1>7. /\ all \in Seq(S) /\ Len(all) = 7 + n
      /\ \A k \in 1..(7 + n) : all[k] = IF k <= 7 THEN OwnTargets[k] ELSE mounts[k - 7]
  <2> DEFINE own == OwnTargets
  <2>1. /\ all \in Seq(S) /\ Len(all) = Len(own) + Len(mounts)
        /\ \A k \in 1..(Len(own) + Len(mounts)) : all[k] = IF k <= Len(own) THEN own[k] ELSE mounts[k - Len(own)]
    BY <1>5, <1>6, ConcatProperties
  <2> QED BY <1>2, <1>3, <2>1
<1>8. DOMAIN all = 1..(7 + n) BY <1>7, LenProperties
<1>9. \A k \in 1..7 : all[k] = OwnTargets[k] BY <1>1, <1>7
<1>10. \A k \in 8..(7 + n) : k - 7 \in 1..n /\ all[k] = MountedAt(k - 7) BY <1>1, <1>4, <1>7
<1>11. \A a, b : IsList(<<a, b>>) /\ DOMAIN <<a, b>> = 1..2 /\ <<a, b>>[1] = a /\ <<a, b>>[2] = b
  <2> TAKE a, b
  <2>1. <<a, b>> = [k \in 1..2 |-> <<a, b>>[k]] OBVIOUS
  <2> QED BY <2>1, ListOf
<1>12. \A a, b, c : IsList(<<a, b, c>>) /\ DOMAIN <<a, b, c>> = 1..3 /\ <<a, b, c>>[1] = a /\ <<a, b, c>>[2] = b
  <2> TAKE a, b, c
  <2>1. <<a, b, c>> = [k \in 1..3 |-> <<a, b, c>>[k]] OBVIOUS
  <2> QED BY <2>1, ListOf
<1>13. \A k \in 1..7 : /\ IsList(OwnTargets[k]) /\ 1 \in DOMAIN OwnTargets[k]
                       /\ \/ Own(k, 1, "agentws", "tasks") \/ Own(k, 2, "agentws", "jobs")
                          \/ Own(k, 3, "agentws", "agents") \/ Own(k, 4, "agentws", "project.cyclo")
                          \/ k = 5 /\ OwnTargets[k][1] = "opt"
                          \/ k = 6 /\ OwnTargets[k][1] = "home"
                          \/ k = 7 /\ OwnTargets[k][1] = "team"
  <2> TAKE k \in 1..7
  <2> DEFINE t == OwnTargets[k]
  <2>1. CASE k = 1
    <3>1. t = <<"agentws", "tasks">> BY <2>1 DEF OwnTargets
    <3> QED BY <1>11, <2>1, <3>1
  <2>2. CASE k = 2
    <3>1. t = <<"agentws", "jobs">> BY <2>2 DEF OwnTargets
    <3> QED BY <1>11, <2>2, <3>1
  <2>3. CASE k = 3
    <3>1. t = <<"agentws", "agents">> BY <2>3 DEF OwnTargets
    <3> QED BY <1>11, <2>3, <3>1
  <2>4. CASE k = 4
    <3>1. t = <<"agentws", "project.cyclo">> BY <2>4 DEF OwnTargets
    <3> QED BY <1>11, <2>4, <3>1
  <2>5. CASE k = 5
    <3>1. t = <<"opt", "cyclo", "pi-settings.json">> BY <2>5 DEF OwnTargets
    <3> QED BY <1>12, <2>5, <3>1
  <2>6. CASE k = 6
    <3>1. t = <<"home", "cyclo", ".pi">> BY <2>6 DEF OwnTargets
    <3> QED BY <1>12, <2>6, <3>1
  <2>7. CASE k = 7
    <3>1. t = <<"team">> BY <2>7 DEF OwnTargets
    <3> QED BY ShortLists, <2>7, <3>1
  <2> QED BY <2>1, <2>2, <2>3, <2>4, <2>5, <2>6, <2>7
<1>14. \A k \in 1..n : /\ IsList(MountedAt(k)) /\ DOMAIN MountedAt(k) = 1..2 /\ MountedAt(k)[2] = doc.mounts[k].name
                       /\ MountedAt(k)[1] \in {"workspace", "readonly"}
  BY <1>11 DEF MountContainerPath
<1> HIDE DEF MountedAt
<1>15. i \in 1..(7 + n) /\ j \in 1..(7 + n) BY <1>8 DEF all
<1>16. ASSUME NEW k \in 1..7, NEW l \in 1..7, k # l
       PROVE  ~PathsOverlap(OwnTargets[k], OwnTargets[l])
  <2> DEFINE s == OwnTargets[k]
             t == OwnTargets[l]
  <2>1. s[1] # t[1] \/ (s[2] # t[2] /\ 2 \in DOMAIN s \cap DOMAIN t) BY <1>13, <1>16
  <2>2. IsList(s) /\ IsList(t) /\ 1 \in DOMAIN s \cap DOMAIN t BY <1>13
  <2> HIDE DEF s, t
  <2>3. s[1] # t[1] => ~PathsOverlap(s, t) BY <2>2, DifferentPaths
  <2>4. s[2] # t[2] /\ 2 \in DOMAIN s \cap DOMAIN t => ~PathsOverlap(s, t) BY <2>2, DifferentPaths
  <2>5. ~PathsOverlap(s, t) BY <2>1, <2>3, <2>4
  <2> QED BY <2>5 DEF s, t
<1>17. \A k \in 1..7, l \in 1..n : ~PathsOverlap(OwnTargets[k], MountedAt(l)) /\ ~PathsOverlap(MountedAt(l), OwnTargets[k])
  <2> TAKE k \in 1..7, l \in 1..n
  <2> DEFINE s == OwnTargets[k]
             t == MountedAt(l)
  <2>1. s[1] # t[1] BY <1>13, <1>14
  <2>2. IsList(s) /\ IsList(t) /\ 1 \in DOMAIN s \cap DOMAIN t BY <1>13, <1>14
  <2> HIDE DEF s, t
  <2>3. ~PathsOverlap(s, t) /\ ~PathsOverlap(t, s) BY <2>1, <2>2, DifferentPaths
  <2> QED BY <2>3 DEF s, t
<1>18. \A k, l \in 1..n : k # l => ~PathsOverlap(MountedAt(k), MountedAt(l))
  <2> SUFFICES ASSUME NEW k \in 1..n, NEW l \in 1..n, k # l PROVE ~PathsOverlap(MountedAt(k), MountedAt(l)) OBVIOUS
  <2>1. doc.mounts[k].name # doc.mounts[l].name BY <1>1 DEF NamedOnce, Distinct
  <2> QED BY <1>14, <2>1, DifferentPaths
<1>19. i \in 1..7 \/ i \in 8..(7 + n) BY <1>1, <1>15
<1>20. j \in 1..7 \/ j \in 8..(7 + n) BY <1>1, <1>15
<1>21. CASE i \in 1..7 /\ j \in 8..(7 + n) BY <1>9, <1>10, <1>17, <1>21 DEF all
<1>22. CASE i \in 8..(7 + n) /\ j \in 1..7 BY <1>9, <1>10, <1>17, <1>22 DEF all
<1>23. CASE i \in 8..(7 + n) /\ j \in 8..(7 + n)
  <2>1. i - 7 # j - 7 BY <1>1, <1>23
  <2> QED BY <1>10, <1>18, <1>23, <2>1 DEF all
<1>24. CASE i \in 1..7 /\ j \in 1..7 BY <1>9, <1>16, <1>24 DEF all
<1> QED BY <1>19, <1>20, <1>21, <1>22, <1>23, <1>24

\* What a component is named after; the third entry of a use says nothing about it.
LEMMA NameOfPart ==
  ASSUME NEW host
  PROVE  /\ PartName(host, <<"gateway", 0>>) = HostPart("gateway")
         /\ \A i : PartName(host, <<"provider", i>>) = HostPart(host.providers[i].name)
         /\ \A i : PartName(host, <<"component", i>>) = HostPart(host.components[i].name)
         /\ \A d : PartName(host, <<"team", d>>) = TeamComponentName(d.id)
         /\ \A i, j : PartName(host, <<"provider", i, j>>) = HostPart(host.providers[i].name)
         /\ \A i, j : PartName(host, <<"component", i, j>>) = HostPart(host.components[i].name)
         /\ \A d, j : PartName(host, <<"team", d, j>>) = TeamComponentName(d.id)
BY DEF PartName

\* The provider's end of a link.
ServedBy(host, consumer, link, service) ==
  \E p \in {<<"gateway", 0>>} \cup {<<"provider", i>> : i \in DOMAIN host.providers} :
    /\ link.provider = PartName(host, p)
    /\ \E k \in DOMAIN ComponentOf(host, p).outputs :
         /\ ComponentOf(host, p).outputs[k].name = link.output
         /\ ComponentOf(host, p).outputs[k].service = service

\* The outer provider serves what the teams and the front end ask for.
LEMMA TheOuterServes ==
  ASSUME NEW host, GoodHost(host)
  PROVE  \E p \in {<<"gateway", 0>>} \cup {<<"provider", i>> : i \in DOMAIN host.providers} :
           /\ HostPart(OuterComponent(host)) = PartName(host, p)
           /\ \E k \in DOMAIN ComponentOf(host, p).outputs :
                /\ ComponentOf(host, p).outputs[k].name = OuterOutput(host)
                /\ ComponentOf(host, p).outputs[k].service = Provider
<1>1. CASE host.providers = <<>>
  <2> DEFINE c == ComponentOf(host, <<"gateway", 0>>)
  <2>1. c.outputs = <<ProviderEndpoint>> BY DEF ComponentOf, Component
  <2>2. OuterComponent(host) = "gateway" /\ OuterOutput(host) = "provider"
    BY <1>1 DEF OuterComponent, OuterOutput
  <2>3. DOMAIN <<ProviderEndpoint>> = {1} /\ <<ProviderEndpoint>>[1] = ProviderEndpoint BY ShortLists
  <2>4. ProviderEndpoint.name = "provider" /\ ProviderEndpoint.service = Provider BY DEF ProviderEndpoint
  <2> HIDE DEF c
  <2>5. \E k \in DOMAIN c.outputs : c.outputs[k].name = OuterOutput(host) /\ c.outputs[k].service = Provider
    BY <2>1, <2>2, <2>3, <2>4
  <2> QED BY <2>2, <2>5, NameOfPart DEF c
<1>2. CASE host.providers # <<>>
  <2> DEFINE n == Len(host.providers)
             p == host.providers[n]
             c == ComponentOf(host, <<"provider", n>>)
             outputs == p.contract.outputs
  <2>1. n \in Nat /\ n > 0 /\ DOMAIN host.providers = 1..n BY <1>2, ListShape DEF GoodHost
  <2>2. n \in DOMAIN host.providers
    <3> HIDE DEF n
    <3> QED BY <2>1
  <2>3. OuterComponent(host) = p.name /\ OuterOutput(host) = ProviderOutput(p.contract)
    BY <1>2 DEF OuterComponent, OuterOutput, Last
  <2>4. LoadsComponent(p.contract) BY <2>2 DEF GoodHost
  <2>5. PICK e \in Range(outputs) : e.service = Provider /\ ProviderOutput(p.contract) = e.name
    BY <2>4 DEF LoadsComponent, ProviderOutputs, ProviderOutput
  <2>6. c.outputs = outputs BY DEF ComponentOf, ProviderPart, Component
  <2>7. PICK k \in DOMAIN outputs : outputs[k] = e BY DEF Range
  <2> HIDE DEF c, p, n
  <2>8. \E j \in DOMAIN c.outputs : c.outputs[j].name = OuterOutput(host) /\ c.outputs[j].service = Provider
    BY <2>3, <2>5, <2>6, <2>7
  <2>9. HostPart(OuterComponent(host)) = PartName(host, <<"provider", n>>) BY <2>3, NameOfPart DEF p
  <2> QED BY <2>2, <2>8, <2>9 DEF c
<1> QED BY <1>1, <1>2

\* A host that was loaded, with instances that have an ID of their own.
GoodSystem(host, ds) ==
  /\ GoodHost(host)
  /\ \A d \in ds : IsList(d.mounts) /\ NamedOnce(d.mounts)
  /\ \A d, e \in ds : d.id = e.id => d = e

\* No two components have one name.
LEMMA PartsAreNamedOnce ==
  ASSUME NEW host, NEW ds, GoodSystem(host, ds),
         NEW p \in Parts(host, ds), NEW q \in Parts(host, ds), PartName(host, p) = PartName(host, q)
  PROVE  p = q
<1> DEFINE Kind(part, name) ==
             \/ part = <<"gateway", 0>> /\ name = "gateway"
             \/ \E i \in DOMAIN host.providers : part = <<"provider", i>> /\ name = host.providers[i].name
             \/ \E i \in DOMAIN host.components : part = <<"component", i>> /\ name = host.components[i].name
<1>1. ASSUME NEW part \in Parts(host, ds)
      PROVE  \/ \E name : Kind(part, name) /\ PartName(host, part) = HostPart(name)
             \/ \E d \in ds : part = <<"team", d>> /\ PartName(host, part) = TeamComponentName(d.id)
  BY NameOfPart DEF Parts
<1>2. \A m, n : HostPart(m) = HostPart(n) => m = n BY DEF HostPart
<1>3. \A i, j : TeamComponentName(i) = TeamComponentName(j) => i = j BY DEF TeamComponentName
<1>4. \A i, n : TeamComponentName(i) # HostPart(n) BY DEF TeamComponentName, HostPart
<1>5. ASSUME NEW name, Kind(p, name), Kind(q, name) PROVE p = q
  <2>1. /\ \A i, j \in DOMAIN host.providers : host.providers[i].name = host.providers[j].name => i = j
        /\ \A i, j \in DOMAIN host.components : host.components[i].name = host.components[j].name => i = j
    BY DEF GoodSystem, GoodHost, NamedOnce, Distinct
  <2>2. /\ \A i \in DOMAIN host.providers : /\ host.providers[i].name # "gateway"
                                            /\ \A j \in DOMAIN host.components :
                                                 host.providers[i].name # host.components[j].name
        /\ \A i \in DOMAIN host.components : host.components[i].name # "gateway"
    BY DEF GoodSystem, GoodHost, Names
  <2> QED BY <1>5, <2>1, <2>2
<1> HIDE DEF Kind
<1>6. CASE \E m, n : Kind(p, m) /\ PartName(host, p) = HostPart(m) /\ Kind(q, n) /\ PartName(host, q) = HostPart(n)
  BY <1>2, <1>5, <1>6
<1>7. CASE \E d, e \in ds : /\ p = <<"team", d>> /\ PartName(host, p) = TeamComponentName(d.id)
                            /\ q = <<"team", e>> /\ PartName(host, q) = TeamComponentName(e.id)
  BY <1>3, <1>7 DEF GoodSystem
<1> QED BY <1>1, <1>4, <1>6, <1>7

\* What the components are.
LEMMA ComponentShape ==
  ASSUME NEW host, NEW ds, GoodSystem(host, ds), NEW p \in Parts(host, ds)
  PROVE  LET c == ComponentOf(host, p)
         IN /\ c.name = PartName(host, p)
            /\ ComponentValid(c)
            /\ p[1] \in {"component", "team"} => c.inputs = <<ProviderEndpoint>>
            /\ p[1] = "gateway" => c.inputs = <<>>
            /\ p[1] = "provider" => c.inputs = host.providers[p[2]].contract.inputs
            /\ p[1] = "provider" => c.outputs = host.providers[p[2]].contract.outputs
<1> DEFINE c == ComponentOf(host, p)
<1>1. NamedOnce(<<>>) /\ NamedOnce(<<ProviderEndpoint>>) BY ShortLists DEF NamedOnce, Distinct
<1>2. CASE p = <<"gateway", 0>>
  <2>1. /\ c.name = PartName(host, p) /\ c.inputs = <<>> /\ c.outputs = <<ProviderEndpoint>> /\ c.targets = <<>>
        /\ c.egress = TRUE
    BY <1>2 DEF ComponentOf, Component
  <2>2. ComponentValid(c) BY <1>1, <2>1 DEF ComponentValid
  <2> QED BY <1>2, <2>1, <2>2
<1>3. ASSUME NEW i \in DOMAIN host.providers, p = <<"provider", i>>
      PROVE  /\ c.name = PartName(host, p) /\ ComponentValid(c)
             /\ c.inputs = host.providers[i].contract.inputs
             /\ c.outputs = host.providers[i].contract.outputs
  <2>1. c = ProviderPart(host, host.providers[i]) BY <1>3 DEF ComponentOf
  <2>2. /\ c.name = HostPart(host.providers[i].name) /\ c.targets = <<>> /\ c.published = c.egress
        /\ c.inputs = host.providers[i].contract.inputs
        /\ c.outputs = host.providers[i].contract.outputs
    BY <2>1 DEF ProviderPart, Component
  <2>3. NamedOnce(c.inputs) /\ NamedOnce(c.outputs) BY <2>2 DEF GoodSystem, GoodHost, LoadsComponent
  <2>4. ComponentValid(c) BY <2>2, <2>3 DEF ComponentValid
  <2>5. PartName(host, p) = HostPart(host.providers[i].name) BY <1>3, NameOfPart
  <2> QED BY <2>2, <2>4, <2>5
<1>4. ASSUME NEW i \in DOMAIN host.components, p = <<"component", i>>
      PROVE  c.name = PartName(host, p) /\ ComponentValid(c) /\ c.inputs = <<ProviderEndpoint>>
  <2>1. /\ c.name = PartName(host, p) /\ c.inputs = <<ProviderEndpoint>> /\ c.outputs = <<>> /\ c.targets = <<>>
        /\ c.egress = TRUE
    BY <1>4 DEF ComponentOf, Component
  <2>2. ComponentValid(c) BY <1>1, <2>1 DEF ComponentValid
  <2> QED BY <2>1, <2>2
<1>5. ASSUME NEW d \in ds, p = <<"team", d>>
      PROVE  c.name = PartName(host, p) /\ ComponentValid(c) /\ c.inputs = <<ProviderEndpoint>>
  <2>1. /\ c.name = PartName(host, p) /\ c.inputs = <<ProviderEndpoint>> /\ c.outputs = <<>>
        /\ c.targets = TeamTargets(d) /\ c.egress = TRUE
    BY <1>5 DEF ComponentOf, Component
  <2>2. \A i, j \in DOMAIN c.targets : i # j => ~PathsOverlap(c.targets[i], c.targets[j])
    BY <2>1, TargetsAreApart DEF GoodSystem
  <2>3. ComponentValid(c) BY <1>1, <2>1, <2>2 DEF ComponentValid
  <2> QED BY <2>1, <2>3
<1>6. \/ p = <<"gateway", 0>>
      \/ \E i \in DOMAIN host.providers : p = <<"provider", i>>
      \/ \E i \in DOMAIN host.components : p = <<"component", i>>
      \/ \E d \in ds : p = <<"team", d>>
  BY DEF Parts
<1> HIDE DEF c
<1>7. /\ c.name = PartName(host, p)
      /\ ComponentValid(c)
      /\ p[1] \in {"component", "team"} => c.inputs = <<ProviderEndpoint>>
      /\ p[1] = "gateway" => c.inputs = <<>>
      /\ p[1] = "provider" => c.inputs = host.providers[p[2]].contract.inputs
      /\ p[1] = "provider" => c.outputs = host.providers[p[2]].contract.outputs
  BY <1>2, <1>3, <1>4, <1>5, <1>6 DEF c
<1> QED BY <1>7 DEF c

\* The component a use belongs to.
UserOf(use) == <<use[1], use[2]>>

\* The link of a use joins an input of its component to an output of the same service.
Joins(host, ds, use) ==
  LET c    == ComponentOf(host, UserOf(use))
      link == LinkOf(host, use)
  IN /\ UserOf(use) \in Parts(host, ds)
     /\ link.consumer = PartName(host, UserOf(use))
     /\ \E k \in DOMAIN c.inputs :
          /\ c.inputs[k].name = link.input
          /\ \E p \in Parts(host, ds) :
               /\ link.provider = PartName(host, p)
               /\ \E l \in DOMAIN ComponentOf(host, p).outputs :
                    /\ ComponentOf(host, p).outputs[l].name = link.output
                    /\ ComponentOf(host, p).outputs[l].service = c.inputs[k].service

\* The uses are the bindings of the providers and the one input of each other component.
LEMMA UseShape ==
  ASSUME NEW host, NEW ds, NEW use \in Uses(host, ds)
  PROVE  \/ \E i \in DOMAIN host.providers : \E j \in DOMAIN host.providers[i].bindings :
              use = <<"provider", i, j>>
         \/ \E part \in Parts(host, ds) : /\ part[1] \in {"component", "team"} /\ part = <<part[1], part[2]>>
                                          /\ use = <<part[1], part[2], 0>>
<1> DEFINE OfProvider(i) == {<<"provider", i, j>> : j \in DOMAIN host.providers[i].bindings}
           Others == {<<part[1], part[2], 0>> : part \in {q \in Parts(host, ds) : q[1] \in {"component", "team"}}}
<1>0. (\E i \in DOMAIN host.providers : use \in OfProvider(i)) \/ use \in Others
  <2>1. use \in (UNION {OfProvider(i) : i \in DOMAIN host.providers}) \cup Others BY DEF Uses
  <2>2. ASSUME use \in UNION {OfProvider(i) : i \in DOMAIN host.providers}
        PROVE  \E i \in DOMAIN host.providers : use \in OfProvider(i)
    <3> HIDE DEF OfProvider
    <3> QED BY <2>2, Zenon
  <2> HIDE DEF OfProvider, Others
  <2> QED BY <2>1, <2>2, Zenon
<1>1. CASE \E i \in DOMAIN host.providers : \E j \in DOMAIN host.providers[i].bindings : use = <<"provider", i, j>>
  BY <1>1
<1>2. CASE \E part \in Parts(host, ds) : part[1] \in {"component", "team"} /\ use = <<part[1], part[2], 0>>
  <2>1. PICK part \in Parts(host, ds) : part[1] \in {"component", "team"} /\ use = <<part[1], part[2], 0>>
    BY <1>2
  <2>2. \E x, y : part = <<x, y>> BY DEF Parts
  <2>3. part = <<part[1], part[2]>> BY <2>2
  <2> QED BY <2>1, <2>3
<1> QED BY <1>0, <1>1, <1>2

\* A binding of a provider names an output of its service.
LEMMA BindingJoins ==
  ASSUME NEW host, NEW ds, GoodSystem(host, ds),
         NEW i \in DOMAIN host.providers, NEW j \in DOMAIN host.providers[i].bindings
  PROVE  Joins(host, ds, <<"provider", i, j>>)
<1> DEFINE use == <<"provider", i, j>>
           mine == host.providers[i]
           b == mine.bindings[j]
           c == ComponentOf(host, <<"provider", i>>)
           link == LinkOf(host, use)
           ports == mine.contract.inputs
<1>1. UserOf(use) = <<"provider", i>> BY DEF UserOf
<1>2. <<"provider", i>> \in Parts(host, ds) BY DEF Parts
<1>3. c.inputs = ports BY <1>2, ComponentShape
<1>4. /\ link.consumer = PartName(host, <<"provider", i>>) /\ link.input = b.input
      /\ link.provider = HostPart(b.component) /\ link.output = b.output
  BY NameOfPart DEF LinkOf
<1>5. LoadsComponent(mine.contract) /\ BindsEveryInput(OutputsOf(host.providers), mine)
  BY DEF GoodSystem, GoodHost
<1>6. b \in Range(mine.bindings) BY DEF Range
<1>7. /\ b.input \in Names(ports)
      /\ [component |-> b.component, output |-> b.output,
          service |-> Endpoint(ports, b.input).service] \in OutputsOf(host.providers)
  BY <1>5, <1>6 DEF BindsEveryInput
<1>8. PICK k \in DOMAIN ports : ports[k].name = b.input BY <1>7 DEF Names
<1>9. Endpoint(ports, b.input) = ports[k]
  <2>1. ports[k] \in Range(ports) BY DEF Range
  <2>2. \A e \in Range(ports) : e.name = b.input => e = ports[k]
    BY <1>5, <1>8 DEF LoadsComponent, NamedOnce, Distinct, Range
  <2> QED BY <1>8, <2>1, <2>2 DEF Endpoint
<1> DEFINE Found == \E p \in Parts(host, ds) :
             /\ HostPart(b.component) = PartName(host, p)
             /\ \E l \in DOMAIN ComponentOf(host, p).outputs :
                  /\ ComponentOf(host, p).outputs[l].name = b.output
                  /\ ComponentOf(host, p).outputs[l].service = ports[k].service
<1>10. Found
  <2> DEFINE Output(e, n, s) == [component |-> e, output |-> n, service |-> s]
             row == Output(b.component, b.output, ports[k].service)
  <2>1. \/ row = Output("gateway", "provider", Provider)
        \/ \E q \in Range(host.providers) : \E l \in DOMAIN q.contract.outputs :
             row = Output(q.name, q.contract.outputs[l].name, q.contract.outputs[l].service)
    BY <1>7, <1>9 DEF OutputsOf
  <2>2. \A e, n, s, f, m, t : Output(e, n, s) = Output(f, m, t) => e = f /\ n = m /\ s = t
    <3> SUFFICES ASSUME NEW e, NEW n, NEW s, NEW f, NEW m, NEW t, Output(e, n, s) = Output(f, m, t)
                 PROVE  e = f /\ n = m /\ s = t
      OBVIOUS
    <3>1. /\ Output(e, n, s).component = e /\ Output(e, n, s).output = n /\ Output(e, n, s).service = s
          /\ Output(f, m, t).component = f /\ Output(f, m, t).output = m /\ Output(f, m, t).service = t
      OBVIOUS
    <3> QED BY <3>1
  <2> HIDE DEF Output
  <2>3. CASE row = Output("gateway", "provider", Provider)
    <3> DEFINE p == <<"gateway", 0>>
               g == ComponentOf(host, p)
    <3>1. b.component = "gateway" /\ b.output = "provider" /\ ports[k].service = Provider BY <2>2, <2>3
    <3>2. g.outputs = <<ProviderEndpoint>> BY DEF ComponentOf, Component
    <3>3. DOMAIN <<ProviderEndpoint>> = {1} /\ <<ProviderEndpoint>>[1] = ProviderEndpoint BY ShortLists
    <3>4. ProviderEndpoint.name = "provider" /\ ProviderEndpoint.service = Provider BY DEF ProviderEndpoint
    <3>5. p \in Parts(host, ds) BY DEF Parts
    <3> HIDE DEF g
    <3>6. 1 \in DOMAIN g.outputs /\ g.outputs[1].name = b.output /\ g.outputs[1].service = ports[k].service
      BY <3>1, <3>2, <3>3, <3>4
    <3>7. HostPart(b.component) = PartName(host, p) BY <3>1, NameOfPart
    <3> QED BY <3>5, <3>6, <3>7 DEF g
  <2>4. ASSUME NEW q \in Range(host.providers), NEW l \in DOMAIN q.contract.outputs,
               row = Output(q.name, q.contract.outputs[l].name, q.contract.outputs[l].service)
        PROVE  Found
    <3>1. PICK m \in DOMAIN host.providers : q = host.providers[m] BY DEF Range
    <3> DEFINE p == <<"provider", m>>
               g == ComponentOf(host, p)
    <3>2. /\ b.component = q.name /\ b.output = q.contract.outputs[l].name
          /\ ports[k].service = q.contract.outputs[l].service
      BY <2>2, <2>4
    <3>3. p \in Parts(host, ds) BY DEF Parts
    <3>4. g.outputs = q.contract.outputs BY <3>1, <3>3, ComponentShape
    <3>5. HostPart(b.component) = PartName(host, p) BY <3>1, <3>2, NameOfPart
    <3> HIDE DEF g
    <3>6. l \in DOMAIN g.outputs /\ g.outputs[l].name = b.output /\ g.outputs[l].service = ports[k].service
      BY <3>2, <3>4
    <3> QED BY <3>3, <3>5, <3>6 DEF g
  <2> QED BY <2>1, <2>3, <2>4
<1> HIDE DEF c, link, mine
<1>11. Joins(host, ds, use)
  <2> DEFINE u == UserOf(use)
  <2>1. u = <<"provider", i>> /\ ComponentOf(host, u) = c /\ LinkOf(host, use) = link BY <1>1 DEF c, link
  <2> HIDE DEF u, use
  <2>2. k \in DOMAIN c.inputs /\ c.inputs[k].name = link.input BY <1>3, <1>4, <1>8 DEF mine
  <2>3. \E p \in Parts(host, ds) :
          /\ link.provider = PartName(host, p)
          /\ \E l \in DOMAIN ComponentOf(host, p).outputs :
               /\ ComponentOf(host, p).outputs[l].name = link.output
               /\ ComponentOf(host, p).outputs[l].service = c.inputs[k].service
    BY <1>3, <1>4, <1>10 DEF mine
  <2> QED BY <1>2, <1>4, <2>1, <2>2, <2>3 DEF Joins, u
<1> QED BY <1>11

\* A team and the front end are joined to the outer provider.
LEMMA UserJoins ==
  ASSUME NEW host, NEW ds, GoodSystem(host, ds), NEW part \in Parts(host, ds),
         part[1] \in {"component", "team"}, part = <<part[1], part[2]>>
  PROVE  Joins(host, ds, <<part[1], part[2], 0>>)
<1> DEFINE use == <<part[1], part[2], 0>>
           c == ComponentOf(host, part)
           link == LinkOf(host, use)
<1>1. UserOf(use) = part BY DEF UserOf
<1>2. c.inputs = <<ProviderEndpoint>> BY ComponentShape
<1>3. DOMAIN <<ProviderEndpoint>> = {1} /\ <<ProviderEndpoint>>[1] = ProviderEndpoint BY ShortLists
<1>4. ProviderEndpoint.name = "provider" /\ ProviderEndpoint.service = Provider BY DEF ProviderEndpoint
<1>5. PartName(host, use) = PartName(host, part)
  <2>1. \A x : PartName(host, <<"component", x, 0>>) = PartName(host, <<"component", x>>)
    <3> TAKE x
    <3>1. PartName(host, <<"component", x, 0>>) = HostPart(host.components[x].name) BY ONLY NameOfPart
    <3>2. PartName(host, <<"component", x>>) = HostPart(host.components[x].name) BY ONLY NameOfPart
    <3> QED BY <3>1, <3>2
  <2>2. \A x : PartName(host, <<"team", x, 0>>) = PartName(host, <<"team", x>>)
    <3> TAKE x
    <3>1. PartName(host, <<"team", x, 0>>) = TeamComponentName(x.id) BY ONLY NameOfPart
    <3>2. PartName(host, <<"team", x>>) = TeamComponentName(x.id) BY ONLY NameOfPart
    <3> QED BY <3>1, <3>2
  <2> QED BY <2>1, <2>2
<1>6. use[1] # "provider" OBVIOUS
<1>7. /\ link.consumer = PartName(host, use) /\ link.input = "provider"
      /\ link.provider = HostPart(OuterComponent(host)) /\ link.output = OuterOutput(host)
  BY <1>6 DEF LinkOf
<1>8. PICK p \in {<<"gateway", 0>>} \cup {<<"provider", i>> : i \in DOMAIN host.providers} :
           /\ HostPart(OuterComponent(host)) = PartName(host, p)
           /\ \E k \in DOMAIN ComponentOf(host, p).outputs :
                /\ ComponentOf(host, p).outputs[k].name = OuterOutput(host)
                /\ ComponentOf(host, p).outputs[k].service = Provider
  BY TheOuterServes DEF GoodSystem
<1>9. p \in Parts(host, ds) BY DEF Parts
<1> HIDE DEF c, link, use
<1>10. 1 \in DOMAIN c.inputs /\ c.inputs[1].name = "provider" /\ c.inputs[1].service = Provider
  BY <1>2, <1>3, <1>4
<1>11. Joins(host, ds, use) BY <1>1, <1>5, <1>7, <1>8, <1>9, <1>10 DEF Joins, c, link
<1> QED BY <1>11 DEF use

\* Every use has a link that joins.
LEMMA UsesJoin ==
  ASSUME NEW host, NEW ds, GoodSystem(host, ds), NEW use \in Uses(host, ds)
  PROVE  Joins(host, ds, use)
<1>1. CASE \E i \in DOMAIN host.providers : \E j \in DOMAIN host.providers[i].bindings : use = <<"provider", i, j>>
  BY <1>1, BindingJoins
<1>2. CASE \E part \in Parts(host, ds) : /\ part[1] \in {"component", "team"} /\ part = <<part[1], part[2]>>
                                         /\ use = <<part[1], part[2], 0>>
  BY <1>2, UserJoins
<1> QED BY <1>1, <1>2, UseShape

\* Two uses of one input are one.
LEMMA InputsAreUsedOnce ==
  ASSUME NEW host, NEW ds, GoodSystem(host, ds), NEW u \in Uses(host, ds), NEW v \in Uses(host, ds),
         LinkOf(host, u).consumer = LinkOf(host, v).consumer, LinkOf(host, u).input = LinkOf(host, v).input
  PROVE  u = v
<1>1. UserOf(u) = UserOf(v)
  <2>1. Joins(host, ds, u) /\ Joins(host, ds, v) BY UsesJoin
  <2>2. /\ UserOf(u) \in Parts(host, ds) /\ UserOf(v) \in Parts(host, ds)
        /\ PartName(host, UserOf(u)) = PartName(host, UserOf(v))
    BY <2>1 DEF Joins
  <2> QED BY <2>2, PartsAreNamedOnce
<1>2. u[1] = v[1] /\ u[2] = v[2] BY <1>1 DEF UserOf
<1> DEFINE Bound(w) == \E i \in DOMAIN host.providers : \E j \in DOMAIN host.providers[i].bindings :
                         w = <<"provider", i, j>>
           Other(w) == \E x, y : w = <<x, y, 0>> /\ x \in {"component", "team"}
<1>3. \A w \in Uses(host, ds) : Bound(w) \/ Other(w) BY UseShape
<1>4. CASE Bound(u) /\ Bound(v)
  <2>1. PICK i \in DOMAIN host.providers : \E j \in DOMAIN host.providers[i].bindings : u = <<"provider", i, j>>
    BY <1>4
  <2>2. PICK j \in DOMAIN host.providers[i].bindings : u = <<"provider", i, j>> BY <2>1
  <2>3. PICK k \in DOMAIN host.providers : \E l \in DOMAIN host.providers[k].bindings : v = <<"provider", k, l>>
    BY <1>4
  <2>4. PICK l \in DOMAIN host.providers[k].bindings : v = <<"provider", k, l>> BY <2>3
  <2>5. i = k BY <1>2, <2>2, <2>4
  <2>6. /\ LinkOf(host, u).input = host.providers[i].bindings[j].input
        /\ LinkOf(host, v).input = host.providers[k].bindings[l].input
    BY <2>2, <2>4 DEF LinkOf
  <2>7. Distinct([m \in DOMAIN host.providers[i].bindings |-> host.providers[i].bindings[m].input])
    BY DEF GoodSystem, GoodHost, BindsEveryInput
  <2>8. j = l BY <2>5, <2>6, <2>7 DEF Distinct
  <2> QED BY <2>2, <2>4, <2>5, <2>8
<1>5. CASE Other(u) /\ Other(v) BY <1>2, <1>5
<1>6. ~(Bound(u) /\ Other(v)) /\ ~(Other(u) /\ Bound(v)) BY <1>2
<1> QED BY <1>3, <1>4, <1>5, <1>6

\* Every input of every component is used.
LEMMA InputsAreUsed ==
  ASSUME NEW host, NEW ds, GoodSystem(host, ds), NEW p \in Parts(host, ds),
         NEW n \in Names(ComponentOf(host, p).inputs)
  PROVE  \E u \in Uses(host, ds) : LinkOf(host, u).consumer = PartName(host, p) /\ LinkOf(host, u).input = n
<1> DEFINE c == ComponentOf(host, p)
<1>1. \A i \in DOMAIN host.providers : \A j \in DOMAIN host.providers[i].bindings :
        <<"provider", i, j>> \in Uses(host, ds)
  BY DEF Uses
<1>2. \A q \in Parts(host, ds) : q[1] \in {"component", "team"} => <<q[1], q[2], 0>> \in Uses(host, ds)
  BY DEF Uses
<1>3. CASE p = <<"gateway", 0>>
  <2>1. c.inputs = <<>> BY <1>3, ComponentShape
  <2> QED BY <2>1 DEF Names
<1>4. CASE \E i \in DOMAIN host.providers : p = <<"provider", i>>
  <2>1. PICK i \in DOMAIN host.providers : p = <<"provider", i>> BY <1>4
  <2> DEFINE bindings == host.providers[i].bindings
  <2>2. c.inputs = host.providers[i].contract.inputs BY <2>1, ComponentShape
  <2>3. {b.input : b \in Range(bindings)} = Names(c.inputs) BY <2>2 DEF GoodSystem, GoodHost, BindsEveryInput
  <2>4. PICK j \in DOMAIN bindings : bindings[j].input = n BY <2>3 DEF Range
  <2> DEFINE use == <<"provider", i, j>>
  <2>5. /\ LinkOf(host, use).consumer = PartName(host, p) /\ LinkOf(host, use).input = n
    BY <2>1, <2>4, NameOfPart DEF LinkOf
  <2>6. use \in Uses(host, ds) BY <1>1
  <2> QED BY <2>5, <2>6
<1>5. CASE p[1] \in {"component", "team"}
  <2> DEFINE use == <<p[1], p[2], 0>>
  <2>1. c.inputs = <<ProviderEndpoint>> BY <1>5, ComponentShape
  <2>2. DOMAIN <<ProviderEndpoint>> = {1} /\ <<ProviderEndpoint>>[1] = ProviderEndpoint BY ShortLists
  <2>3. n = "provider" BY <2>1, <2>2 DEF Names, ProviderEndpoint
  <2>4. use[1] # "provider" BY <1>5
  <2>5. LinkOf(host, use).input = n BY <2>3, <2>4 DEF LinkOf
  <2>6. use \in Uses(host, ds) BY <1>2, <1>5
  <2>7. LinkOf(host, use).consumer = PartName(host, UserOf(use)) BY <2>6, UsesJoin DEF Joins
  <2>8. p = UserOf(use)
    <3>1. \E x, y : p = <<x, y>> BY DEF Parts
    <3> QED BY <3>1 DEF UserOf
  <2> QED BY <2>5, <2>6, <2>7, <2>8
<1> QED BY <1>3, <1>4, <1>5 DEF Parts

\* What load_host and load_project accept compiles to a system that System.validate accepts.
LEMMA TheSystemIsValid ==
  ASSUME NEW host, NEW ds, GoodSystem(host, ds)
  PROVE  SystemValid(Components(host, ds), Links(host, ds))
<1> DEFINE C == Components(host, ds)
           L == Links(host, ds)
           P == Parts(host, ds)
           U == Uses(host, ds)
           Named(n) == {c \in Range(C) : c.name = n}
           Ends(n, which, name) == {e \in UNION {Range(c[which]) : c \in Named(n)} : e.name = name}
<1>1. DOMAIN C = P /\ \A p \in P : C[p] = ComponentOf(host, p) BY DEF Components
<1>2. DOMAIN L = U /\ \A u \in U : L[u] = LinkOf(host, u) BY DEF Links
<1>3. \A p \in P : C[p].name = PartName(host, p) /\ ComponentValid(C[p]) BY <1>1, ComponentShape
<1> HIDE DEF C, L, P, U
<1>4. \A p, q \in P : C[p].name = C[q].name => p = q BY <1>3, PartsAreNamedOnce DEF P
<1>5. NamedOnce(C) BY <1>1, <1>4 DEF NamedOnce, Distinct
<1>6. \A p \in P : Named(PartName(host, p)) = {C[p]} BY <1>1, <1>3, <1>4 DEF Range
<1>7. ASSUME NEW p \in P, NEW which \in {"inputs", "outputs"}, NEW k \in DOMAIN C[p][which]
      PROVE  Ends(PartName(host, p), which, C[p][which][k].name) = {C[p][which][k]}
  <2> DEFINE parts == C[p][which]
  <2>1. NamedOnce(parts) BY <1>3 DEF ComponentValid
  <2>2. {Range(c[which]) : c \in Named(PartName(host, p))} = {Range(parts)} BY <1>6
  <2>3. Ends(PartName(host, p), which, parts[k].name) = {e \in Range(parts) : e.name = parts[k].name} BY <2>2
  <2>4. \A e \in Range(parts) : e.name = parts[k].name => e = parts[k] BY <2>1 DEF NamedOnce, Distinct, Range
  <2>5. parts[k] \in Range(parts) BY DEF Range
  <2> QED BY <2>3, <2>4, <2>5
<1> HIDE DEF Ends, Named
<1>8. ASSUME NEW u \in U
      PROVE  /\ Ends(L[u].consumer, "inputs", L[u].input) # {}
             /\ Ends(L[u].provider, "outputs", L[u].output) # {}
             /\ \A e \in Ends(L[u].consumer, "inputs", L[u].input),
                   f \in Ends(L[u].provider, "outputs", L[u].output) : e.service = f.service
  <2>1. Joins(host, ds, u) BY UsesJoin DEF U
  <2> DEFINE q == UserOf(u)
  <2>2. q \in P /\ L[u].consumer = PartName(host, q) BY <1>2, <2>1 DEF Joins, P
  <2>3. PICK k \in DOMAIN C[q].inputs :
          /\ C[q].inputs[k].name = L[u].input
          /\ \E p \in P : /\ L[u].provider = PartName(host, p)
                          /\ \E l \in DOMAIN C[p].outputs : /\ C[p].outputs[l].name = L[u].output
                                                            /\ C[p].outputs[l].service = C[q].inputs[k].service
    <3>1. C[q] = ComponentOf(host, q) BY <1>1, <2>2
    <3> QED BY <1>1, <1>2, <2>1, <3>1 DEF Joins, P
  <2>4. PICK p \in P : /\ L[u].provider = PartName(host, p)
                       /\ \E l \in DOMAIN C[p].outputs : /\ C[p].outputs[l].name = L[u].output
                                                         /\ C[p].outputs[l].service = C[q].inputs[k].service
    BY <2>3
  <2>5. PICK l \in DOMAIN C[p].outputs : /\ C[p].outputs[l].name = L[u].output
                                         /\ C[p].outputs[l].service = C[q].inputs[k].service
    BY <2>4
  <2> HIDE DEF q
  <2>6. Ends(PartName(host, q), "inputs", C[q]["inputs"][k].name) = {C[q]["inputs"][k]} BY <1>7, <2>2, <2>3
  <2>7. Ends(PartName(host, p), "outputs", C[p]["outputs"][l].name) = {C[p]["outputs"][l]} BY <1>7, <2>4, <2>5
  <2>8. Ends(L[u].consumer, "inputs", L[u].input) = {C[q].inputs[k]} BY <2>2, <2>3, <2>6
  <2>9. Ends(L[u].provider, "outputs", L[u].output) = {C[p].outputs[l]} BY <2>4, <2>5, <2>7
  <2> QED BY <2>5, <2>8, <2>9
<1>9. Distinct([i \in DOMAIN L |-> <<L[i].consumer, L[i].input>>])
  <2>1. ASSUME NEW u \in U, NEW v \in U, <<L[u].consumer, L[u].input>> = <<L[v].consumer, L[v].input>>
        PROVE  u = v
    BY <1>2, <2>1, InputsAreUsedOnce DEF U
  <2> QED BY <1>2, <2>1 DEF Distinct
<1>10. UNION {{<<c.name, n>> : n \in Names(c.inputs)} : c \in Range(C)}
         \subseteq {<<L[i].consumer, L[i].input>> : i \in DOMAIN L}
  <2>1. ASSUME NEW p \in P, NEW n \in Names(C[p].inputs)
        PROVE  \E u \in U : L[u].consumer = C[p].name /\ L[u].input = n
    BY <1>1, <1>2, <1>3, InputsAreUsed DEF P, U
  <2>2. ASSUME NEW c \in Range(C), NEW n \in Names(c.inputs)
        PROVE  \E u \in DOMAIN L : <<c.name, n>> = <<L[u].consumer, L[u].input>>
    <3>1. PICK p \in P : c = C[p] BY <1>1 DEF Range
    <3> QED BY <1>2, <2>1, <3>1
  <2>3. \A c \in Range(C) : {<<c.name, n>> : n \in Names(c.inputs)}
                              \subseteq {<<L[i].consumer, L[i].input>> : i \in DOMAIN L}
    BY <2>2
  <2> QED BY <2>3
<1>11. \A i \in DOMAIN C : ComponentValid(C[i]) BY <1>1, <1>3
<1>12. SystemValid(C, L) BY <1>2, <1>5, <1>8, <1>9, <1>10, <1>11 DEF SystemValid, Ends, Named
<1> QED BY <1>12 DEF C, L

\* The system of a command that has been validated is wired.
THEOREM TheSystemIsWired == Spec => []SystemIsWired
<1>1. IInv => SystemIsWired
  <2> SUFFICES ASSUME IInv, At("compile") PROVE Wired
    BY DEF SystemIsWired
  <2>1. GoodHost(cmd.host) BY DEF IInv, CmdInv, HostInv
  <2>2. Target \subseteq docs BY DEF Target, Running
  <2>3. GoodSystem(cmd.host, Target) BY <2>1, <2>2 DEF IInv, DocsInv, GoodDoc, FromProject, GoodSystem
  <2> QED BY <2>3, TheSystemIsValid DEF Wired
<1> QED BY <1>1, LaunchInvariant, PTL

==============================================================================
