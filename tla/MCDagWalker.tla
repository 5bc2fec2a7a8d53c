---------------------------- MODULE MCDagWalker ----------------------------
(***************************************************************************)
(* Every acyclic graph over N nodes: any node may need any other, forwards *)
(* or backwards in the source, and an only entry may be written twice.     *)
(***************************************************************************)
EXTENDS DagWalker

Listed == UNION {InOrder(SourceOrder, S) : S \in SUBSET Node}

ListedTwice == {<<d, d>> : d \in Node}

MCDags == {g \in [Node -> Listed \cup ListedTwice] : Acyclic(g)}
=============================================================================
