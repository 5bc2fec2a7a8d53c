----------------------------- MODULE ToolNames -----------------------------
(***************************************************************************)
(* The names of MCP tools: the dotted form of the YAML and of the handlers *)
(* (`mcp.<server>.<tool>`, written here without its `mcp.`), the wire form *)
(* a provider sees, where dots are underscores, and the way back that a    *)
(* replay takes from the wire names on the tape.  A name is a sequence of  *)
(* words and of the characters ".", "_" and "*".                           *)
(***************************************************************************)
EXTENDS Naturals, Sequences, SequencesExt

\* The handler's name for a tool of a server.
McpName(server, tool) == server \o <<".">> \o tool

\* What stands for a dot on the wire.
Underscore == "_"

\* wire_name_from_yaml.
Wire(name) == [i \in DOMAIN name |-> IF name[i] = "." THEN Underscore ELSE name[i]]

\* rest.split('.').next(): the server the loader looks up.
ServerPart(name) ==
  LET dots == {i \in DOMAIN name : name[i] = "."} IN
    IF dots = {} THEN name ELSE SubSeq(name, 1, Min(dots) - 1)

IsWildcard(name) == Len(name) >= 2 /\ SubSeq(name, Len(name) - 1, Len(name)) = <<".", "*">>

\* rest.strip_suffix(".*"): the server the expansion looks up.
WildcardServer(name) == SubSeq(name, 1, Len(name) - 2)

Prefixed(server, wire) == IsPrefix(server \o <<Underscore>>, wire)

\* The declared server with the longest prefix that matches, if there is one.
Longest(servers, wire) ==
  {s \in servers : Prefixed(s, wire)
     /\ \A t \in servers : Prefixed(t, wire) => Len(t) <= Len(s)}

ToolPart(server, wire) == SubSeq(wire, Len(server) + 2, Len(wire))

\* The pairs of names that `orno validate` refuses.
Ambiguous(s, t) == Prefixed(s, t) \/ Prefixed(t, s)

Unambiguous(servers) == \A s, t \in servers : s # t => ~ Ambiguous(s, t)

\* The entries of a list at the given positions, in their order.
KeptAt(list, at) == FlattenSeq([i \in DOMAIN list |-> IF i \in at THEN <<list[i]>> ELSE <<>>])

\* seen.insert(..): a name is kept where it is seen first.
Distinct(names) == KeptAt(names, {i \in DOMAIN names : \A j \in 1 .. i - 1 : names[j] # names[i]})
=============================================================================
