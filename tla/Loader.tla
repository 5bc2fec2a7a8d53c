------------------------------- MODULE Loader -------------------------------
(***************************************************************************)
(* From a parsed pipeline file to the tools an agent is offered: the       *)
(* checks of pipeline/load.rs in their order, those of `orno validate`,    *)
(* the expansion of MCP wildcards once the servers have answered, the      *)
(* first request of every agent that runs, and the same road again on a    *)
(* replay, where the servers' tools are read back from the tape.           *)
(***************************************************************************)
EXTENDS CycleCheck, AgentPolicy, ToolNames

CONSTANTS Inputs,      \* the parsed files considered, with the graph of their nodes
          AgentOrder,  \* the agents in the order of the map's keys
          Words,       \* what names and paths are made of, separators included
          Current      \* the pipeline version this build reads

ASSUME AgentOrderAssumption ==
  AgentOrder \in Seq(Agents) /\ ToSet(AgentOrder) = Agents /\ IsInjective(AgentOrder)

\* Every input has the fields the checks read; in particular the servers'
\* names, like all names and paths, are sequences, and are the keys of a map,
\* in whose order the servers start.
ASSUME InputsAssumption ==
  /\ {".", Underscore} \subseteq Words
  /\ \A in \in Inputs :
    /\ in.graph \in Graphs
    /\ \A a \in Agents :
         /\ in.file.agents[a].max_subagent_depth \in u32
         /\ in.file.agents[a].roots \subseteq Seq(Words)
         /\ in.file.agents[a].allowed_tools \in
              Seq([kind : {"builtin", "subagent", "mcp"}, name : Seq(Words)])
    /\ \A s \in in.file.servers : s.name \in Seq(Words) /\ s.tools \in Seq(Seq(Words))
    /\ in.file.order \in Seq(Seq(Words))
    /\ ToSet(in.file.order) = {s.name : s \in in.file.servers}
    /\ \A s, t \in in.file.servers : s.name = t.name => s = t

VARIABLES file,      \* the parsed pipeline
          pc,        \* the check at hand, then the phase of the command
          lists,     \* allowed_tools of every agent, expanded when the run starts
          handlers,  \* the names of the registered MCP tools, in order
          stopped,   \* the agents whose loop refused to start
          tape       \* the first request of every agent that made one

loaderVars == <<vars, file, pc, lists, handlers, stopped, tape>>

kept == <<lists, handlers, stopped, tape>>

Listed(a) == ToSet(file.agents[a].allowed_tools)

Children(a) == {Head(e.name) : e \in {x \in Listed(a) : x.kind = "subagent"}}

ServerNames == {s.name : s \in file.servers}

LoaderInit ==
  /\ \E in \in Inputs : file = in.file /\ needs = in.graph
  /\ Init
  /\ pc = "version"
  /\ lists = [a \in Agents |-> file.agents[a].allowed_tools]
  /\ handlers = <<>> /\ stopped = {} /\ tape = <<>>

-----------------------------------------------------------------------------
\* validate() of pipeline/load.rs: each check returns at its first failure.
Check(at, passed, next) ==
  /\ pc = at
  /\ pc' = IF passed THEN next ELSE "refused"
  /\ UNCHANGED <<vars, file, kept>>

CheckVersion == Check("version", file.version = Current /\ file.nodes > 0, "servers")

\* A server with no argv, a URL that does not parse, a scheme that is neither
\* http nor https, plain http to anything but loopback, and https to an
\* address in a blocked range (loopback is one) are refused.
ServerAllowed(s) ==
  \/ s.scheme = "stdio" /\ s.host # "none"
  \/ s.scheme = "http" /\ s.host \in {"loopback", "localhost"}
  \/ s.scheme = "https" /\ s.host \in {"public", "localhost"}

CheckServers == Check("servers", \A s \in file.servers : ServerAllowed(s), "nodes")

CheckNodes == Check("nodes", IsInjective(file.ids) /\ file.unknown = {}, "graph")

CheckGraph ==
  /\ pc = "graph"
  /\ Pop \/ Decide
  /\ pc' = CASE verdict' = "ok" -> "agents" [] verdict' = "cycle" -> "refused" [] OTHER -> pc
  /\ UNCHANGED <<file, kept>>

\* The jail of a child: no rule when the parent, or the child, has no roots.
RootsWithin(p, c) ==
  p.roots # {} => \A r \in c.roots : \E q \in p.roots : IsPrefix(q, r)

EntryAllowed(a, e) ==
  /\ e.kind = "mcp" => ServerPart(e.name) \in ServerNames
  /\ e.kind = "subagent" =>
       /\ Head(e.name) \in Agents
       /\ MayDelegate(file.agents[a], file.agents[Head(e.name)])
       /\ RootsWithin(file.agents[a], file.agents[Head(e.name)])

CheckAgents ==
  Check("agents", \A a \in Agents : \A e \in Listed(a) : EntryAllowed(a, e), "accepted")

-----------------------------------------------------------------------------
\* What `orno validate` asks for beyond the load.
KnownTool(e) ==
  CASE e.kind = "builtin" -> Head(e.name) \in Tools
    [] e.kind = "mcp" -> ServerPart(e.name) # e.name
    [] OTHER -> TRUE

AgentValid(a) ==
  LET p == file.agents[a] IN
    /\ p.max_iterations > 0 /\ p.max_total_tokens > 0
    /\ p.max_tool_calls = 0 => p.allowed_tools = <<>>
    /\ \A e \in Listed(a) :
         KnownTool(e) /\ (e.kind = "builtin" => EffectOf[Head(e.name)] \subseteq p.allow)

\* Mutant: the names are taken as they are.
NamesUnchecked == TRUE

NamesValid == Unambiguous(ServerNames)

ValidateAccepts ==
  /\ ToSet(file.runs) \subseteq Agents
  /\ \A a \in Agents : AgentValid(a)
  /\ NamesValid

ValidateCommand ==
  /\ pc = "accepted"
  /\ pc' = IF ValidateAccepts THEN "valid" ELSE "invalid"
  /\ UNCHANGED <<vars, file, kept>>

-----------------------------------------------------------------------------
\* Mutant: a wildcard that stands for nothing stays.
MeaningKept(e, tools) ==
  IF e.kind = "mcp" /\ IsWildcard(e.name) /\ WildcardServer(e.name) \in DOMAIN tools
       /\ tools[WildcardServer(e.name)] # <<>>
  THEN [i \in DOMAIN tools[WildcardServer(e.name)] |->
          [kind |-> "mcp", name |-> McpName(WildcardServer(e.name), tools[WildcardServer(e.name)][i])]]
  ELSE <<e>>

\* What an entry stands for; nothing, for the wildcard of an unknown server.
Meaning(e, tools) ==
  LET server == WildcardServer(e.name) IN
    IF ~ (e.kind = "mcp" /\ IsWildcard(e.name)) THEN <<e>>
    ELSE IF server \notin DOMAIN tools THEN <<>>
    ELSE [i \in DOMAIN tools[server] |->
            [kind |-> "mcp", name |-> McpName(server, tools[server][i])]]

\* expand_mcp_wildcards, for one agent.
Expanded(list, tools) ==
  Distinct(FlattenSeq([i \in DOMAIN list |-> Meaning(list[i], tools)]))

ServerNamed(name) == CHOOSE s \in file.servers : s.name = name

Advertised == [name \in ServerNames |-> ServerNamed(name).tools]

\* The handlers of a server, in the order it lists its tools.
Handlers(name, tools) == [i \in DOMAIN tools[name] |-> McpName(name, tools[name][i])]

\* spawn_mcp_servers, then the expansion: servers register in the order of
\* the map's keys.  With --record every handler is wrapped.
Spawn ==
  /\ pc = "accepted"
  /\ pc' \in {"running", "recording"}
  /\ lists' = [a \in Agents |-> Expanded(lists[a], Advertised)]
  /\ handlers' = FlattenSeq([i \in DOMAIN file.order |-> Handlers(file.order[i], Advertised)])
  /\ UNCHANGED <<vars, file, stopped, tape>>

McpNames(a) == {e.name : e \in {x \in ToSet(lists[a]) : x.kind = "mcp"}}

\* The MCP tools in the agent's requests: the registered ones it lists, in
\* the order of registration.
Offered(a) ==
  LET mine == KeptAt(handlers, {i \in DOMAIN handlers : handlers[i] \in McpNames(a)}) IN
    [i \in DOMAIN mine |-> Wire(mine[i])]

Jailed(a) == file.agents[a].roots # {}

UsesJail(a) == \E e \in ToSet(lists[a]) : e.kind = "builtin" /\ Head(e.name) \in FileTools

HasHandler(e) ==
  CASE e.kind = "builtin" -> Head(e.name) \in Tools
    [] e.kind = "subagent" -> Head(e.name) \in Agents
    [] OTHER -> e.name \in ToSet(handlers)

UnderWay == pc \in {"running", "recording"}

\* The wrapper of a recorded handler does not pass requires_jail on, so that
\* only an unrecorded run asks for roots.
Starts(a) ==
  /\ file.agents[a].max_iterations > 0
  /\ pc = "running" /\ UsesJail(a) => Jailed(a)
  /\ \A e \in ToSet(lists[a]) : HasHandler(e)

\* The agent's loop checks what it was given and makes its first request.
Begin(a) ==
  /\ UnderWay /\ a \notin stopped
  /\ \A i \in DOMAIN tape : tape[i].agent # a
  /\ IF Starts(a) THEN tape' = Append(tape, [agent |-> a, tools |-> Offered(a)]) /\ UNCHANGED stopped
                  ELSE stopped' = stopped \cup {a} /\ UNCHANGED tape
  /\ UNCHANGED <<vars, file, pc, lists, handlers>>

-----------------------------------------------------------------------------
\* Mutant: the tools of the first request stand for all.
DiscoveredInFirst == Distinct(tape[1].tools)

\* discover_mcp_tool_definitions: the wire names of the tape, first seen first.
Discovered == Distinct(FlattenSeq([i \in DOMAIN tape |-> tape[i].tools]))

\* derive_server_tools: the tools of one server.
Derived(name) ==
  LET of == KeptAt(Discovered,
                   {i \in DOMAIN Discovered : Longest(ServerNames, Discovered[i]) = {name}}) IN
    [i \in DOMAIN of |-> ToolPart(name, of[i])]

\* mcp_seen.insert(..): one stub per name of an MCP entry.
Stubs(entries) ==
  LET mcp == KeptAt(entries, {i \in DOMAIN entries : entries[i].kind = "mcp"}) IN
    Distinct([i \in DOMAIN mcp |-> mcp[i].name])

\* A replay loads the same file, expands it with the tools read back from the
\* tape and registers a stub for every MCP entry, agent by agent.
Replay ==
  /\ pc = "recording" /\ tape # <<>>
  /\ pc' = "replaying"
  /\ lists' = [a \in Agents |->
                 Expanded(file.agents[a].allowed_tools, [name \in ServerNames |-> Derived(name)])]
  /\ handlers' = Stubs(FlattenSeq([i \in DOMAIN AgentOrder |-> lists'[AgentOrder[i]]]))
  /\ UNCHANGED <<vars, file, stopped, tape>>

Stopped == pc \in {"refused", "valid", "invalid", "running", "recording", "replaying"} /\ UNCHANGED loaderVars

LoadStep == CheckVersion \/ CheckServers \/ CheckNodes \/ CheckGraph \/ CheckAgents

LoaderNext ==
  \/ LoadStep \/ ValidateCommand \/ Spawn
  \/ \E a \in Agents : Begin(a)
  \/ Replay \/ Stopped

LoaderSpec == LoaderInit /\ [][LoaderNext]_loaderVars

-----------------------------------------------------------------------------
Accepted == pc \notin {"version", "servers", "nodes", "graph", "agents", "refused"}

\* The agents a delegation from a can reach, by steps that leave agents of via.
Reach(a, via) ==
  {c \in Agents : \A S \in SUBSET Agents :
     (Children(a) \subseteq S /\ \A b \in S \cap via : Children(b) \subseteq S) => c \in S}

\* Checking each delegation by itself is enough: however long the chain, an
\* agent it reaches has no effect the first one forbids, and less depth to
\* spend, so that no chain comes back to where it began (but for a depth of
\* the largest u32, where the comparison saturates).  As long as every agent
\* on the way has roots of its own, the roots at the end of a chain lie under
\* those of its first agent.
DelegationNarrows ==
  Accepted =>
    \A a \in Agents :
      LET p == file.agents[a]
          jailed == {x \in Agents : Jailed(x)}
      IN  /\ \A c \in Reach(a, Agents) :
               /\ file.agents[c].allow \subseteq p.allow
               /\ p.max_subagent_depth < U32Max =>
                    file.agents[c].max_subagent_depth < p.max_subagent_depth
          /\ a \in jailed =>
               \A c \in Reach(a, jailed) : \A r \in file.agents[c].roots :
                 \E q \in p.roots : IsPrefix(q, r)

\* The servers are named as the documentation asks: lowercase with underscores.
NamedAsDocumented == \A name \in ServerNames : "." \notin ToSet(name)

\* With the server names `orno validate` accepts, the way back from a wire
\* name finds the server and the wire form of the tool it was made of,
\* underscores or not; but for a server with a dot in its name, whose wire
\* form is not looked for.
RoutesBack ==
  (ValidateAccepts /\ NamedAsDocumented) =>
    \A s \in file.servers : \A i \in DOMAIN s.tools :
      LET wire == Wire(McpName(s.name, s.tools[i])) IN
        Longest(ServerNames, wire) = {s.name} /\ ToolPart(s.name, wire) = Wire(s.tools[i])

\* `orno validate` foresees every refusal of an agent's loop to start but
\* two: file tools without roots, when the run is not recorded, and a tool its
\* server does not have.
ValidatedStarts ==
  (UnderWay /\ ValidateAccepts) =>
    \A a \in stopped :
      \/ pc = "running" /\ UsesJail(a) /\ ~ Jailed(a)
      \/ \E e \in Listed(a) : e.kind = "mcp" /\ ~ IsWildcard(e.name) /\ e.name \notin ToSet(handlers)

\* On a replay an agent that made a request is offered the tools it was
\* offered in the recording, whatever other agents had run.
ReplayOffersSame ==
  (pc = "replaying" /\ ValidateAccepts /\ NamedAsDocumented) =>
    \A i \in DOMAIN tape : ToSet(Offered(tape[i].agent)) = ToSet(tape[i].tools)

\* What the replay says of its stubs: they make the tools of every request
\* equal, byte for byte, to the recorded ones, so that the key is found.
ReplayOffersEqual ==
  (pc = "replaying" /\ ValidateAccepts /\ NamedAsDocumented) =>
    \A i \in DOMAIN tape : Offered(tape[i].agent) = tape[i].tools
=============================================================================
