------------------------------- MODULE MCLaunch -------------------------------
(***************************************************************************)
(* Two projects that share a directory, two team repositories of the same  *)
(* name, and an operator who makes a bounded number of edits.              *)
(***************************************************************************)
EXTENDS Launch

T1 == <<"t">>
T2 == <<"x", "t">>
T3 == <<"u">>
M  == <<"m">>
N  == <<"n">>
F1 == <<"home", "f1">>
F2 == <<"home", "f2">>
Alias == <<"alias">>

MCFiles == {F1, F2, <<"alias", "f1">>}

Team(path, mode) == [path |-> path, mode |-> mode]
Mount(name, path, mode) == [name |-> name, path |-> path, mode |-> mode]
Project(name, teams, mounts) ==
  [name |-> <<name>>, description |-> <<"d">>, context |-> <<>>, team |-> teams, mount |-> mounts, bad |-> <<>>]

ProjectA    == Project(<<"a">>, <<Team(T1, "rw")>>, <<Mount("w", M, "rw")>>)
TwoTeamsA   == [Project(<<"a">>, <<Team(T1, "rw"), Team(T3, "ro")>>, <<Mount("w", M, "rw"), Mount("v", N, "ro")>>)
                  EXCEPT !.context = <<"c">>]
ProjectB    == Project(<<"b">>, <<Team(T2, "ro")>>, <<Mount("w", M, "rw")>>)
NestedB     == Project(<<"b">>, <<Team(T2, "ro")>>, <<Mount("w", Append(M, "sub"), "rw")>>)
SameNameB   == Project(<<"b">>, <<Team(T2, "ro")>>, <<Mount("w", M, "rw"), Mount("w", N, "rw")>>)
StateB      == Project(<<"b">>, <<Team(T2, "ro")>>, <<Mount("w", <<"state", "q">>, "rw")>>)
LikeA       == Project(<<"a">>, <<Team(T2, "ro")>>, <<Mount("w", M, "rw")>>)

MCTexts == [f \in {F1, F2} |->
  IF f = F1 THEN {ProjectA, TwoTeamsA}
  ELSE {ProjectB, NestedB, SameNameB, StateB, LikeA}]

Agent(name, role, model) == [name |-> name, role |-> role, engine |-> "pi", model |-> model]
Big   == <<"p", "big">>
Small == <<"p", "small">>
OneAgent  == <<Agent("a1", "planner", Big)>>
TwoAgents == <<Agent("a1", "planner", Big), Agent("a2", "coder", Small)>>
NoPlanner == <<Agent("a2", "coder", Small)>>

MCRosters     == {OneAgent, TwoAgents, NoPlanner}
MCRoles       == {{"planner", "coder"}, {"planner"}}
MCProtocols   == {"none", "p1"}
Plain == [arg |-> TRUE, final |-> TRUE, entrypoint |-> TRUE, v |-> 1]
MCDockerfiles == {Plain, [Plain EXCEPT !.v = 2, !.final = FALSE]}
MCCommits     == {"c1", "c2"}

MCHostPath == <<"etc", "host.conf">>
Endpoints(n) == [service |-> Provider, name |-> n]
Pooler == [name |-> "pooler", source |-> <<"pkg", "pooler">>, context |-> <<"pkg">>,
           contract |-> [inputs |-> <<Endpoints("in")>>, outputs |-> <<Endpoints("out")>>],
           bindings |-> <<[input |-> "in", component |-> "gateway", output |-> "provider"]>>]
OpenAI == [name |-> "openai", port |-> 8080]
Unbound == [Pooler EXCEPT !.bindings = <<>>]
HostConf(providers, components) == [provider |-> providers, component |-> components, bad |-> <<>>]
MCHostLines == {HostConf(<<>>, <<>>), HostConf(<<Pooler>>, <<OpenAI>>), HostConf(<<Unbound>>, <<>>),
                HostConf(<<>>, <<OpenAI, OpenAI>>)}

Model(id, accepts) == [id |-> id, format |-> "pi", inputs |-> accepts, outputs |-> <<"text">>, window |-> 1, limit |-> 1]
MCCatalogues == {{Model(Big, {"text"}), Model(Small, {"text", "image"})},
                 {Model(Big, {"text"}), Model(Small, {"audio"})}}

MCFixedRoots == {<<"state">>, <<"proc">>}
MCMoves == {<<T1, Dir(11)>>, <<M, Link(T2)>>, <<T2, Link(T1)>>, <<T2, Link(M)>>, <<M, Gone>>}

MCPlace == [p \in {T1, T2, T3, M, Alias} |->
  CASE p = T1 -> Dir(1) [] p = T2 -> Dir(2) [] p = T3 -> Dir(3) [] p = M -> Dir(4)
    [] p = Alias -> Link(<<"home">>)]

Files0 == [roster |-> OneAgent, roles |-> {"planner", "coder"}, protocol |-> "none",
           dockerfile |-> Plain, git |-> "c1"]

MCDisk0 ==
  [place |-> MCPlace, text |-> [f \in {F1, F2} |-> IF f = F1 THEN ProjectA ELSE ProjectB],
   repo |-> [i \in {1, 2, 3, 11} |-> Files0], hostconf |-> HostConf(<<>>, <<>>),
   catalogue |-> {Model(Big, {"text"}), Model(Small, {"text", "image"})}]
==============================================================================
