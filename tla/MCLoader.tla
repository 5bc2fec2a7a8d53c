------------------------------ MODULE MCLoader ------------------------------
(***************************************************************************)
(* Every graph over three nodes with at most two needs each and a plain    *)
(* file, and one graph with files that differ in servers, tool lists,      *)
(* delegations and roots.                                                  *)
(***************************************************************************)
EXTENDS Loader

MCGraphs == [1 .. 3 -> UNION {[1 .. k -> 1 .. 3] : k \in 0 .. 2}]

MCAgentOrder == <<"a", "b", "c">>

MCEffectOf == [t \in Tools |->
  CASE t = "Read" -> {}
    [] t = "Edit" -> {"mutations"}
    [] t = "Bash" -> {"mutations", "network"}]

Builtin(t) == [kind |-> "builtin", name |-> <<t>>]

Sub(a) == [kind |-> "subagent", name |-> <<a>>]

Mcp(name) == [kind |-> "mcp", name |-> name]

Star(server) == Mcp(server \o <<".", "*">>)

Fs == <<"fs">>

FsExtra == <<"fs", "_", "extra">>

FsDotted == <<"fs", ".", "x">>

Gh == <<"gh">>

Leaf == [max_iterations |-> 1, max_total_tokens |-> 1, max_tool_calls |-> 1,
         max_subagent_depth |-> 0, allow |-> Effects, roots |-> {}, allowed_tools |-> <<>>]

Stdio(name, tools) == [name |-> name, scheme |-> "stdio", host |-> "argv", tools |-> tools]

Reads == << <<"read">>, <<"list", "_", "all">> >>

TwoServers == {Stdio(Fs, Reads), Stdio(Gh, << <<"read">> >>)}

Plain == [version |-> 1, nodes |-> 3, ids |-> <<1, 2, 3>>, unknown |-> {},
          runs |-> <<"a", "b", "c">>, servers |-> {}, order |-> <<>>,
          agents |-> [x \in Agents |-> Leaf]]

Faulty ==
  {[Plain EXCEPT !.version = 2], [Plain EXCEPT !.nodes = 0], [Plain EXCEPT !.ids = <<1, 2, 1>>],
   [Plain EXCEPT !.unknown = {2}], [Plain EXCEPT !.runs = <<"a", "ghost", "c">>]}
  \cup {[Plain EXCEPT !.servers = {[Stdio(Gh, << >>) EXCEPT !.scheme = x, !.host = h]}, !.order = <<Gh>>] :
          x \in {"stdio", "http", "https", "ftp"},
          h \in {"none", "argv", "loopback", "localhost", "private", "public"}}

\* Lists of up to two entries for two agents, the third with a wildcard.
Lists(names) == UNION {[1 .. k -> names] : k \in 0 .. 2}

Tooled(servers, order, names) ==
  {[Plain EXCEPT !.servers = servers, !.order = order,
      !.agents = [a |-> [Leaf EXCEPT !.allowed_tools = l], b |-> [Leaf EXCEPT !.allowed_tools = m],
                  c |-> [Leaf EXCEPT !.allowed_tools = <<Star(Fs)>>]]] :
     l \in Lists(names), m \in Lists(names)}

Listing ==
  Tooled(TwoServers, <<Fs, Gh>>,
         {Star(Fs), Star(Gh), Mcp(Fs \o <<".", "list", "_", "all">>), Mcp(Fs \o <<".", "nope">>), Builtin("Edit")})
  \cup Tooled({Stdio(Fs, << <<"extra", "_", "read">> >>), Stdio(FsExtra, << <<"read">> >>)}, <<Fs, FsExtra>>,
         {Star(Fs), Star(FsExtra), Mcp(Fs)})
  \cup Tooled({Stdio(Fs, << >>), Stdio(Gh, << <<"a", ".", "b">> >>)}, <<Fs, Gh>>,
         {Star(Gh), Mcp(Fs \o <<".", "x", ".", "*">>), Star(<<"no">>), Builtin("Nope")})
  \cup Tooled({Stdio(Fs, << <<"read">> >>), Stdio(FsDotted, << <<"read">> >>)}, <<Fs, FsDotted>>,
         {Star(Fs), Star(FsDotted)})

\* Chains of delegation with every choice of depth, effects and roots.
Delegating ==
  {[Plain EXCEPT !.agents =
      [a |-> [Leaf EXCEPT !.max_subagent_depth = d, !.allow = x, !.roots = p, !.allowed_tools = <<Sub("b")>>],
       b |-> [Leaf EXCEPT !.max_subagent_depth = e, !.allow = {"network"}, !.roots = q,
                          !.allowed_tools = <<Builtin("Read"), Sub(t)>>],
       c |-> [Leaf EXCEPT !.roots = r, !.allow = y, !.allowed_tools = <<Builtin("Edit")>>]]] :
     d \in {1, 2, U32Max}, e \in {0, 1, U32Max}, x \in {Effects, {}}, y \in {{"network"}, {"mutations"}},
     p \in {{}, {<<"w">>}}, q \in {{}, {<<"w">>}, {<<"w", "x">>, <<"v">>}},
     r \in {{<<"w", "x">>}, {<<"w">>, <<"v">>}}, t \in {"a", "c", "ghost"}}

Line == <<<<>>, <<1>>, <<2>>>>

MCInputs ==
  {[file |-> Plain, graph |-> g] : g \in MCGraphs}
  \cup {[file |-> f, graph |-> Line] : f \in Faulty \cup Listing \cup Delegating}
=============================================================================
