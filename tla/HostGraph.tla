------------------------------ MODULE HostGraph ------------------------------
(***************************************************************************)
(* host.conf (host.py) and the DComp system that is compiled from it and   *)
(* from the running instances (runtime.py system, team/component.py,       *)
(* dcomp_system.py validate).  host.conf is the lists of its provider and  *)
(* component declarations and the list "bad" of the lines that are         *)
(* neither; a provider's contract is what component.dcomp of its source    *)
(* says.  A system is a family of components and one of links, indexed by  *)
(* what they stand for: a declaration of host.conf or an instance.  A provider argument is taken to be a token DComp can      *)
(* represent, and no provider to be named like a team's component, which   *)
(* ends in a digest.                                                       *)
(***************************************************************************)
EXTENDS Definitions

Provider == "cyclo.provider.v1.Provider"
ProviderEndpoint == [service |-> Provider, name |-> "provider"]

Names(endpoints) == {endpoints[i].name : i \in DOMAIN endpoints}
NamedOnce(parts) == Distinct([i \in DOMAIN parts |-> parts[i].name])
Endpoint(endpoints, name) == CHOOSE e \in Range(endpoints) : e.name = name

ProviderOutputs(contract) == {e \in Range(contract.outputs) : e.service = Provider}

\* load_component: names are not repeated and one output is a provider.
LoadsComponent(contract) ==
  /\ NamedOnce(contract.inputs) /\ NamedOnce(contract.outputs)
  /\ \E e \in Range(contract.outputs) : ProviderOutputs(contract) = {e}

ProviderOutput(contract) == (CHOOSE e \in Range(contract.outputs) : e.service = Provider).name

\* _provider_source: a bundled provider or a directory.
ProviderSource(place, line) == Resolve(place, line.source)

\* The build context, by default the source itself, is a directory with the source in it.
ContextFits(place, line) ==
  /\ IsDirectory(place, line.source) /\ IsDirectory(place, line.context)
  /\ IsPrefix(Resolve(place, line.context), ProviderSource(place, line))

\* _host_component: the OpenAI front end, on a port.
HostComponentFits(line) == line.name = "openai" /\ line.port \in 1..65535

\* The outputs a binding may name, with their services: all of them, so that a
\* provider may use one declared after it.
OutputsOf(providers) ==
  {[component |-> "gateway", output |-> "provider", service |-> Provider]}
  \cup UNION {{[component |-> p.name, output |-> p.contract.outputs[i].name,
                service |-> p.contract.outputs[i].service] : i \in DOMAIN p.contract.outputs} :
              p \in Range(providers)}

\* Mutant: an input may be left without a binding.
BindsWhatItNames(outputs, provider) ==
  LET inputs == provider.contract.inputs
  IN /\ Distinct([i \in DOMAIN provider.bindings |-> provider.bindings[i].input])
     /\ \A b \in Range(provider.bindings) :
          /\ b.input \in Names(inputs)
          /\ [component |-> b.component, output |-> b.output,
              service |-> Endpoint(inputs, b.input).service] \in outputs

\* Every input is bound once, to an output of its service.
BindsEveryInput(outputs, provider) ==
  LET inputs == provider.contract.inputs
      bound  == {b.input : b \in Range(provider.bindings)}
  IN /\ Distinct([i \in DOMAIN provider.bindings |-> provider.bindings[i].input])
     /\ bound = Names(inputs)
     /\ \A b \in Range(provider.bindings) :
          [component |-> b.component, output |-> b.output,
           service |-> Endpoint(inputs, b.input).service] \in outputs

LoadHost(place, path, lines) ==
  LET providers  == lines.provider
      components == lines.component
  IN IF /\ lines.bad = <<>>
        /\ NamedOnce(providers) /\ NamedOnce(components)
        /\ Names(providers) \cap Names(components) = {}
        /\ "gateway" \notin Names(providers) \cup Names(components)
        /\ \A i \in DOMAIN providers :
             /\ ContextFits(place, providers[i]) /\ LoadsComponent(providers[i].contract)
             /\ BindsEveryInput(OutputsOf(providers), providers[i])
        /\ \A i \in DOMAIN components : HostComponentFits(components[i])
     THEN [ok |-> TRUE, path |-> path, components |-> components,
           providers |-> [i \in DOMAIN providers |->
             [name |-> providers[i].name, context |-> Resolve(place, providers[i].context),
              contract |-> providers[i].contract, bindings |-> providers[i].bindings]]]
     ELSE Refused

\* The last provider is the one the teams talk to; without any, the gateway.
OuterComponent(host) == IF host.providers = <<>> THEN "gateway" ELSE Last(host.providers).name
OuterOutput(host) ==
  IF host.providers = <<>> THEN "provider" ELSE ProviderOutput(Last(host.providers).contract)

\* The roots of the host that no team may reach: what the deployment fixes,
\* host.conf, and the build contexts of the providers.
TrustedHostRoots(host) == {host.path} \cup {p.context : p \in Range(host.providers)}

-----------------------------------------------------------------------------
(* The system                                                               *)

\* make_team_component's mount targets: its own state, the team, the mounts.
TeamTargets(doc) ==
  <<<<"agentws", "tasks">>, <<"agentws", "jobs">>, <<"agentws", "agents">>, <<"agentws", "project.cyclo">>,
    <<"opt", "cyclo", "pi-settings.json">>, <<"home", "cyclo", ".pi">>, <<"team">>>>
  \o [i \in DOMAIN doc.mounts |-> MountContainerPath(doc.mounts[i].name, doc.mounts[i].mode)]

TeamComponentName(id) == <<"team", id>>

HostPart(name) == <<"host", name>>

Component(name, inputs, outputs, targets, published, egress) ==
  [name |-> name, inputs |-> inputs, outputs |-> outputs, targets |-> targets,
   published |-> published, egress |-> egress]

\* What the components stand for: the gateway, a declaration of host.conf, an instance.
Parts(host, docs) ==
  {<<"gateway", 0>>} \cup {<<"provider", i>> : i \in DOMAIN host.providers}
  \cup {<<"component", i>> : i \in DOMAIN host.components} \cup {<<"team", d>> : d \in docs}

PartName(host, part) ==
  CASE part[1] = "gateway"   -> HostPart("gateway")
    [] part[1] = "provider"  -> HostPart(host.providers[part[2]].name)
    [] part[1] = "component" -> HostPart(host.components[part[2]].name)
    [] part[1] = "team"      -> TeamComponentName(part[2].id)

ProviderPart(host, p) ==
  LET outer == p.name = OuterComponent(host)
  IN Component(HostPart(p.name), p.contract.inputs, p.contract.outputs, <<>>, outer, outer)

\* The gateway is published while there is no provider.
ComponentOf(host, part) ==
  CASE part[1] = "gateway"   -> Component(PartName(host, part), <<>>, <<ProviderEndpoint>>, <<>>,
                                          host.providers = <<>>, TRUE)
    [] part[1] = "provider"  -> ProviderPart(host, host.providers[part[2]])
    [] part[1] = "component" -> Component(PartName(host, part), <<ProviderEndpoint>>, <<>>, <<>>, TRUE, TRUE)
    [] part[1] = "team"      -> Component(PartName(host, part), <<ProviderEndpoint>>, <<>>,
                                          TeamTargets(part[2]), TRUE, TRUE)

Components(host, docs) == [part \in Parts(host, docs) |-> ComponentOf(host, part)]

\* The inputs of the parts: a provider's bindings, and the one input of the others.
Uses(host, docs) ==
  (UNION {{<<"provider", i, j>> : j \in DOMAIN host.providers[i].bindings} : i \in DOMAIN host.providers})
  \cup {<<part[1], part[2], 0>> : part \in {q \in Parts(host, docs) : q[1] \in {"component", "team"}}}

LinkOf(host, use) ==
  LET b == host.providers[use[2]].bindings[use[3]]
  IN IF use[1] = "provider"
     THEN [consumer |-> PartName(host, use), input |-> b.input,
           provider |-> HostPart(b.component), output |-> b.output]
     ELSE [consumer |-> PartName(host, use), input |-> "provider",
           provider |-> HostPart(OuterComponent(host)), output |-> OuterOutput(host)]

Links(host, docs) == [use \in Uses(host, docs) |-> LinkOf(host, use)]

\* Component.validate.
ComponentValid(c) ==
  /\ NamedOnce(c.inputs) /\ NamedOnce(c.outputs)
  /\ \A i, j \in DOMAIN c.targets : i # j => ~PathsOverlap(c.targets[i], c.targets[j])
  /\ c.published => c.egress

\* System.validate: links join endpoints of one service, and every input has one.
SystemValid(components, links) ==
  LET Named(n) == {c \in Range(components) : c.name = n}
      Ends(n, which, name) == {e \in UNION {Range(c[which]) : c \in Named(n)} : e.name = name}
  IN /\ NamedOnce(components)
     /\ \A i \in DOMAIN components : ComponentValid(components[i])
     /\ \A i \in DOMAIN links :
          /\ Ends(links[i].consumer, "inputs", links[i].input) # {}
          /\ Ends(links[i].provider, "outputs", links[i].output) # {}
          /\ \A e \in Ends(links[i].consumer, "inputs", links[i].input),
                f \in Ends(links[i].provider, "outputs", links[i].output) : e.service = f.service
     /\ Distinct([i \in DOMAIN links |-> <<links[i].consumer, links[i].input>>])
     /\ UNION {{<<c.name, n>> : n \in Names(c.inputs)} : c \in Range(components)}
          \subseteq {<<links[i].consumer, links[i].input>> : i \in DOMAIN links}
==============================================================================
