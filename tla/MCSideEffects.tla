---------------------------- MODULE MCSideEffects ----------------------------
(***************************************************************************)
(* Children with more output than a pipe or the cap holds, characters of   *)
(* one to three bytes across the cap, output before and after the input is *)
(* read, and a helper that stays; two file calls at one place and a third  *)
(* aside, some of them through a link; hosts of every kind and domain      *)
(* lists of both kinds; transient and lasting failures of both layers,     *)
(* with bodies on either side of the cap; names that are secret and passed *)
(* too, given by every source.                                             *)
(***************************************************************************)
EXTENDS SideEffects

MCScripts ==
  {[text |-> <<1, 2, 0>>, script |-> <<"out", "out", "out">>],
   [text |-> <<2, 0, 2, 0>>, script |-> <<"out", "out", "out", "err", "out">>],
   [text |-> <<1, 3, 0, 0, 1>>, script |-> <<"out", "out", "out", "out", "out", "in">>],
   [text |-> <<1, 1, 1, 1>>, script |-> <<"in", "out", "out", "in", "out", "out", "in">>],
   [text |-> <<1>>, script |-> <<"in", "err", "err", "err", "fork", "out">>]}

MCJobs ==
  {[kind |-> kind, timed |-> timed, feed |-> feed, text |-> s.text, script |-> s.script] :
     kind \in {"shell"}, timed \in BOOLEAN, feed \in {0, 4}, s \in MCScripts}
  \cup
  {[kind |-> "bash", timed |-> TRUE, feed |-> 0, text |-> s.text, script |-> s.script] :
     s \in MCScripts}

Relative == [dir |-> "relative", name |-> "f", up |-> FALSE]

Write(text, req) == [tool |-> "Write", req |-> req, rooted |-> TRUE, text |-> text, old |-> 0, new |-> 0]
Edit(old, new) == [tool |-> "Edit", req |-> Relative, rooted |-> TRUE, text |-> <<>>, old |-> old, new |-> new]
Read(req) == [tool |-> "Read", req |-> req, rooted |-> TRUE, text |-> <<>>, old |-> 0, new |-> 0]

MCCalls ==
  {<<Write(<<5, 6, 7>>, Relative), Edit(1, 3)>>,
   <<Edit(1, 2), Edit(3, 4), Read(Relative)>>,
   <<Write(<<5, 6, 7>>, Relative), Write(<<8>>, Relative), Read(Relative)>>,
   <<Write(<<5>>, [Relative EXCEPT !.dir = "out"]), Write(<<6>>, [Relative EXCEPT !.up = TRUE])>>,
   <<Write(<<5, 6>>, [Relative EXCEPT !.dir = "link"]), Write(<<8>>, [Relative EXCEPT !.dir = "alias"]),
     Read([Relative EXCEPT !.dir = "link"])>>,
   <<[Read(Relative) EXCEPT !.rooted = FALSE], Read([Relative EXCEPT !.dir = "root"])>>}

\* A link in the root that leads out of it, and another path to the root.
MCLinks == [l \in {"link", "alias"} |-> IF l = "link" THEN "out" ELSE "root"]

MCScenes ==
  {[cwd |-> cwd, parents |-> DOMAIN files \cup {<<"out", "g">>}, calls |-> calls, files |-> files] :
     cwd \in {"root", "out"}, calls \in MCCalls,
     files \in {[p \in {} |-> <<>>], [p \in {<<"root", "f">>} |-> <<1, 3>>],
                [p \in {<<"root", "f">>, <<"out", "f">>} |-> <<1, 1, 3>>]}}

MCUnder == [address |-> {}, inside |-> {}, name |-> {"d"}, other |-> {"e"}]

MCPolicies ==
  {[agent |-> [allow |-> allow, allowed |-> a, blocked |-> b],
    handler |-> IF listed THEN [allowed |-> a, blocked |-> b] ELSE [allowed |-> {}, blocked |-> {}]] :
     allow \in BOOLEAN, a \in {{}, {"d"}}, b \in {{}, {"e"}}, listed \in BOOLEAN}

MCFailures ==
  {[kind |-> "http", status |-> 401, body |-> 1], [kind |-> "http", status |-> 429, body |-> 1],
   [kind |-> "http", status |-> 503, body |-> 9], [kind |-> "web", status |-> 401, body |-> 1]}
  \cup {[kind |-> k, status |-> 0, body |-> 0] : k \in {"connect", "keyless"}}

MCKeyStates == {[openai |-> k, ollama |-> {}] : k \in {{}, {"secret", "environment"}}}

MCReplies ==
  {[kind |-> "text", usage |-> [prompt |-> -1, total |-> 0]],
   [kind |-> "calls", usage |-> [prompt |-> 2, total |-> 3]],
   [kind |-> "empty", usage |-> [prompt |-> 2, total |-> 0]]}

Bind(k, v) == [kind |-> "binding", key |-> k, value |-> v]

MCFiles ==
  {<<>>, <<[private |-> TRUE, lines |-> <<Bind("K", "a"), [Bind("K", "a") EXCEPT !.kind = "skipped"], Bind("K", "b")>>]>>,
   <<[private |-> TRUE, lines |-> <<Bind("P", "c")>>], [private |-> TRUE, lines |-> <<Bind("P", "")>>]>>,
   <<[private |-> FALSE, lines |-> <<>>]>>,
   <<[private |-> TRUE, lines |-> <<[Bind("P", "c") EXCEPT !.kind = "malformed"]>>]>>}

MCDeclarations ==
  {[pass_env |-> passed, secrets |-> secret, process |-> process, env_files |-> files,
    secrets_files |-> sealed, inline |-> inline] :
     passed \in {{}, {"K", "P"}}, secret \in SUBSET {"K", "P"},
     process \in {<<>>, [n \in {"K", "P"} |-> "d"]}, files \in MCFiles, sealed \in MCFiles,
     inline \in {<<>>, <<Bind("K", "e"), Bind("K", "f")>>, <<[Bind("P", "e") EXCEPT !.kind = "malformed"]>>}}
=============================================================================
