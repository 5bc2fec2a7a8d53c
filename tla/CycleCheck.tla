----------------------------- MODULE CycleCheck -----------------------------
(***************************************************************************)
(* The cycle check that both the loader (validate, which every command     *)
(* runs) and the walker's constructor make before anything is executed:    *)
(* Kahn's algorithm over a scratch copy of the in-degree array.  The       *)
(* worklist loop is unrolled, one step per popped node, so that its        *)
(* verdict is a theorem rather than a definition.                          *)
(***************************************************************************)
EXTENDS PipelineGraph

VARIABLES needs,     \* the graph under test
          scratch,   \* in-degrees still to be cancelled
          queue,     \* nodes whose in-degree reached zero, FIFO
          popped,    \* the nodes popped so far (the code keeps their number)
          verdict,   \* "checking", then "ok" or "cycle"
          blamed     \* the node the error names, 0 if none

vars == <<needs, scratch, queue, popped, verdict, blamed>>

TypeOK ==
  /\ needs \in Graphs
  /\ scratch \in [Node -> Nat]
  /\ queue \in Seq(Node)
  /\ popped \subseteq Node
  /\ verdict \in {"checking", "ok", "cycle"}
  /\ blamed \in 0 .. N

InDegree(g, n) == Len(g[n])

Init ==
  /\ needs \in Graphs
  /\ scratch = [n \in Node |-> InDegree(needs, n)]
  /\ queue \in InOrder(SourceOrder, {n \in Node : InDegree(needs, n) = 0})
  /\ popped = {}
  /\ verdict = "checking"
  /\ blamed = 0

\* Mutant: one decrement per dependent node instead of per entry.
CancelledOnce(d) == [n \in Node |-> IF d \in Needs(needs, n) THEN scratch[n] - 1 ELSE scratch[n]]

\* The in-degrees after one decrement per entry that names d.
Cancelled(d) == [n \in Node |-> scratch[n] - Cardinality(Occurrences(needs, n, d))]

\* The dependents of d whose count the decrements bring to zero.
Freed(d) == {n \in Dependents(needs, d) : Cancelled(d)[n] = 0}

\* while let Some(idx) = queue.pop_front(): one turn of the loop.
Pop ==
  /\ verdict = "checking" /\ queue # <<>>
  /\ LET d == Head(queue) IN
       /\ popped' = popped \cup {d}
       /\ scratch' = Cancelled(d)
       /\ \E freed \in InOrder(SourceOrder, Freed(d)) : queue' = Tail(queue) \o freed
  /\ UNCHANGED <<needs, verdict, blamed>>

\* The nodes the worklist never reached.
Residual == {n \in Node : scratch[n] > 0}

\* The queue ran dry: fewer nodes popped than there are means a cycle, and
\* the error names the first node in source order still waiting.
Decide ==
  /\ verdict = "checking" /\ queue = <<>>
  /\ \/ /\ Cardinality(popped) = N
        /\ verdict' = "ok"
        /\ UNCHANGED blamed
     \/ /\ Cardinality(popped) < N
        /\ verdict' = "cycle"
        /\ blamed' \in Residual
        /\ \A n \in Residual : blamed' <= n
  /\ UNCHANGED <<needs, scratch, queue, popped>>

Judged == verdict # "checking" /\ UNCHANGED vars

Next == Pop \/ Decide \/ Judged

Spec == Init /\ [][Next]_vars /\ WF_vars(Pop \/ Decide)

-----------------------------------------------------------------------------
\* The verdict is right both ways: a pipeline is accepted only if no set of
\* its nodes waits on itself, and rejected only if some set does.
VerdictCorrect ==
  /\ verdict = "ok" => Acyclic(needs)
  /\ verdict = "cycle" => ~ Acyclic(needs)

\* The lookup of a residual node that the code unwraps with `expect` finds
\* one: a short count always leaves a node whose in-degree is not zero.
ResidualExists ==
  (queue = <<>> /\ Cardinality(popped) < N) => Residual # {}

=============================================================================
