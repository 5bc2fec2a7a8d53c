--------------------------- MODULE PipelineGraph ---------------------------
(***************************************************************************)
(* The dependency graph of a pipeline: what `needs:` says, and the shapes  *)
(* the walker derives from it.  A node is its index in the YAML source, so *)
(* < on nodes is source order.  A graph g maps every node to the sequence  *)
(* of its `needs:` entries; an entry written twice is there twice, as the  *)
(* loader does not reject it and the walker counts it twice.               *)
(***************************************************************************)
EXTENDS Integers, Sequences, FiniteSets, Functions

CONSTANTS N,       \* number of nodes of the pipeline
          Graphs   \* the `needs:` relations considered

ASSUME NAssumption == N \in Nat \ {0}

Node == 1 .. N

ASSUME GraphsAssumption == \A g \in Graphs : g \in [Node -> Seq(Node)]

SourceOrder == [i \in Node |-> i]

Needs(g, n) == Range(g[n])

Dependents(g, d) == {n \in Node : d \in Needs(g, n)}

Occurrences(g, n, d) == {k \in DOMAIN g[n] : g[n][k] = d}

\* The `needs:` entries of n that name no member of done.
Unmet(g, n, done) == Cardinality({k \in DOMAIN g[n] : g[n][k] \notin done})

Acyclic(g) ==
  \A S \in SUBSET Node : S # {} => \E n \in S : Needs(g, n) \cap S = {}

\* a is a transitive need of n: it is in every set closed under Needs that
\* holds the needs of n.
Ancestor(g, a, n) ==
  \A S \in SUBSET Node :
    (Needs(g, n) \subseteq S /\ \A m \in S : Needs(g, m) \subseteq S) => a \in S

\* The one sequence that lists the members of keep in the order q has them,
\* as a set: what filtering q by keep returns.
InOrder(q, keep) ==
  {r \in [1 .. Cardinality(keep) -> keep] :
     /\ Range(r) = keep
     /\ \A i, j \in DOMAIN r : i < j =>
          \E a, b \in DOMAIN q : a < b /\ q[a] = r[i] /\ q[b] = r[j]}
=============================================================================
