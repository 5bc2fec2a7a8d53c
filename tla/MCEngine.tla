------------------------------ MODULE MCEngine ------------------------------
(***************************************************************************)
(* Every acyclic graph over N nodes, needs before or behind in the source, *)
(* and one cycle.                                                          *)
(***************************************************************************)
EXTENDS Engine

Listed == UNION {InOrder(SourceOrder, S) : S \in SUBSET Node}

MCGraphs ==
  {g \in [Node -> Listed] : Acyclic(g)} \cup {[n \in Node |-> <<(n % N) + 1>>]}

\* The last node reads the first one's output, whether it needs it or not.
MCReads == [n \in Node |-> IF n = N THEN {1} ELSE {}]
=============================================================================
