----------------------------- MODULE Definitions -----------------------------
(***************************************************************************)
(* What an operator writes down: project.cyclo (project.py), a team        *)
(* repository (team/definition.py) and the catalogue the models of its     *)
(* agents are looked up in (team/compatibility.py).  A file is given as    *)
(* the parser meets it: a project as the lists of its directives, one list *)
(* for each kind (the order among kinds says nothing) and the list "bad"   *)
(* of the lines that are refused, a team as the files of its definition.   *)
(* The parsers refuse or yield one value; a digest is the value it is      *)
(* computed from.                                                          *)
(***************************************************************************)
EXTENDS Sources, FiniteSets

CONSTANT MaxIdParts   \* the name parts of an instance ID that 64 characters hold

Refused == [ok |-> FALSE]

-----------------------------------------------------------------------------
(* project.cyclo                                                            *)

DefinitionSha256(name, description, context, teams, mounts) ==
  [name |-> name, description |-> description, context |-> context, teams |-> teams, mounts |-> mounts]

IsList(s) == s \in Seq(Range(s))
Distinct(seq) == \A i, j \in DOMAIN seq : seq[i] = seq[j] => i = j
Paths(entries) == [i \in DOMAIN entries |-> entries[i].path]
TeamName(entry) == Last(entry.path)

\* The file that is there, by whatever directory it was selected.
HasText(place, text, source) == Resolve(place, source) \in DOMAIN text
ReadText(place, text, source) == text[Resolve(place, source)]

\* A line that is no directive, or whose name, mode or path token is refused.
Legal(lines) == lines.bad = <<>>

\* The directives that may occur once, and the ones that must occur.
Complete(lines) ==
  /\ Len(lines.name) = 1 /\ Len(lines.description) = 1 /\ Len(lines.context) <= 1
  /\ lines.team # <<>> /\ lines.mount # <<>>

TeamEntries(place, lines) ==
  [i \in DOMAIN lines.team |->
     [path |-> Resolve(place, lines.team[i].path), mode |-> lines.team[i].mode]]

MountEntries(place, lines) ==
  [i \in DOMAIN lines.mount |->
     [name |-> lines.mount[i].name, path |-> Resolve(place, lines.mount[i].path), mode |-> lines.mount[i].mode]]

\* Every root is a directory, names are not repeated and no root lies in another.
EntriesFit(place, teams, mounts) ==
  LET roots == Paths(teams) \o Paths(mounts)
  IN /\ \A i \in DOMAIN roots : IsDirectory(place, roots[i])
     /\ Distinct([i \in DOMAIN teams |-> TeamName(teams[i])])
     /\ Distinct([i \in DOMAIN mounts |-> mounts[i].name])
     /\ \A i, j \in DOMAIN roots : i # j => ~PathsOverlap(roots[i], roots[j])

LoadProject(place, text, source) ==
  LET lines  == ReadText(place, text, source)
      teams  == TeamEntries(place, lines)
      mounts == MountEntries(place, lines)
      name        == lines.name[1]
      description == lines.description[1]
      context     == IF lines.context = <<>> THEN "" ELSE lines.context[1]
  IN IF HasText(place, text, source) /\ Legal(lines) /\ Complete(lines) /\ EntriesFit(place, teams, mounts)
     THEN [ok |-> TRUE, path |-> source, name |-> name, description |-> description,
           context |-> context, teams |-> teams, mounts |-> mounts,
           generation |-> DefinitionSha256(name, description, context, teams, mounts)]
     ELSE Refused

\* project_instance_id: readable while it fits, else cut and made unique by a
\* digest of the path the project was selected by and of the team's path.
ReadableId(name, entry) == Append(name, TeamName(entry))
Readable(name, entry) == Len(ReadableId(name, entry)) <= MaxIdParts

\* Mutant: every ID carries the digest.
DigestedId(definition, entry) ==
  [name |-> ReadableId(definition.name, entry), digest |-> <<definition.path, entry.path>>]

ProjectInstanceId(definition, entry) ==
  LET readable == ReadableId(definition.name, entry)
  IN IF Readable(definition.name, entry)
     THEN [name |-> readable, digest |-> <<>>]
     ELSE [name |-> SubSeq(readable, 1, MaxIdParts - 1), digest |-> <<definition.path, entry.path>>]

MountContainerPath(name, mode) == <<IF mode = "rw" THEN "workspace" ELSE "readonly", name>>

\* render_container_project: host paths are omitted.
RenderContainerProject(definition, entry) ==
  [name |-> definition.name, description |-> definition.description, context |-> definition.context,
   team |-> entry.mode,
   mounts |-> [i \in DOMAIN definition.mounts |->
                 [name |-> definition.mounts[i].name, mode |-> definition.mounts[i].mode,
                  target |-> MountContainerPath(definition.mounts[i].name, definition.mounts[i].mode)]]]

-----------------------------------------------------------------------------
(* A team repository                                                        *)

SupportedEngines == {"pi", "pi-interactive"}

\* split_public_model_id: a provider prefix that is not reserved, and a model.
ReservedProviderPrefixes == {"gateway", "prototype", "constructor", "__proto__"}
PublicModelId(model) ==
  Len(model) = 2 /\ model[1] \notin ReservedProviderPrefixes \cup {""} /\ model[2] # ""

\* _parse_roster accepts the roster read with these roles.
ParsesRoster(snapshot) ==
  LET agents == snapshot.roster
  IN /\ Distinct([i \in DOMAIN agents |-> agents[i].name])
     /\ \A i \in DOMAIN agents :
          /\ agents[i].engine \in SupportedEngines
          /\ PublicModelId(agents[i].model)
          /\ agents[i].role \in snapshot.roles
     /\ \E i \in DOMAIN agents : agents[i].role = "planner"

\* ARG CYCLO_TEAM_BASE before the first FROM, and the last FROM uses it.
ValidateTeamDockerfile(snapshot) == snapshot.dockerfile.arg /\ snapshot.dockerfile.final

\* load_team and require_team_repository, for the files of one snapshot.
LoadsTeam(snapshot) ==
  ParsesRoster(snapshot) /\ ValidateTeamDockerfile(snapshot) /\ snapshot.git # "none"

\* Mutant: the roster read for the digest is not compared.
GenerationOfAnyRoster(snapshot, team) ==
  /\ (snapshot.protocol = "none") = (team.protocol = "none")
  /\ ParsesRoster(snapshot)
  /\ ValidateTeamDockerfile(snapshot)

\* team_generation refuses when what was validated is no longer there.
GenerationAgrees(snapshot, team) ==
  /\ (snapshot.protocol = "none") = (team.protocol = "none")
  /\ ParsesRoster(snapshot) /\ snapshot.roster = team.roster
  /\ ValidateTeamDockerfile(snapshot)

AgentModels(roster) == {roster[i].model : i \in DOMAIN roster}

-----------------------------------------------------------------------------
(* The catalogue                                                            *)

InferenceFormat == "pi"

\* model_incompatibility finds nothing.
ModelCompatible(model) ==
  /\ PublicModelId(model.id) /\ model.format = InferenceFormat
  /\ "text" \in model.inputs /\ model.inputs \subseteq {"text", "image"}
  /\ model.outputs = <<"text">>
  /\ model.window > 0 /\ model.limit > 0

ServedModels(catalogue) == {m.id : m \in {n \in catalogue : ModelCompatible(n)}}

ValidatePiTeamModels(roster, catalogue) == AgentModels(roster) \subseteq ServedModels(catalogue)
==============================================================================
