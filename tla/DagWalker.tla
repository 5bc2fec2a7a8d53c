----------------------------- MODULE DagWalker -----------------------------
(***************************************************************************)
(* The walker that answers "what may run next?" (execution/walker.rs).     *)
(* The scheduler calls next_ready and complete; how many nodes it keeps    *)
(* running at once is its own affair, so this module lets it run any       *)
(* number, as the walker's documentation does, and module Engine restricts *)
(* it to one.  complete(id, false) unrolls its breadth-first loop: between *)
(* the turns of a cascade (origin # 0) nothing else happens.               *)
(***************************************************************************)
EXTENDS PipelineGraph

VARIABLES needs,       \* the graph, fixed when the walker is built
          state,       \* lifecycle state of every node
          upstream,    \* of a skipped node: the failure its reason names, else 0
          waitingOn,   \* entries of `needs:` whose node has not succeeded
          readyQueue,  \* stack of ready nodes, its top at the end
          origin,      \* the node whose failure is being cascaded, 0 if none
          bfs,         \* nodes the cascade still has to look at
          skips        \* what the last complete returned: the skipped, in order

walkerVars == <<needs, state, upstream, waitingOn, readyQueue, origin, bfs, skips>>

Terminal == {"Succeeded", "Failed", "Skipped"}

TypeOK ==
  /\ needs \in Graphs
  /\ state \in [Node -> {"Pending", "Ready", "Running"} \cup Terminal]
  /\ upstream \in [Node -> Node \cup {0}]
  /\ waitingOn \in [Node -> Nat]
  /\ readyQueue \in Seq(Node)
  /\ origin \in Node \cup {0}
  /\ bfs \in Seq(Node)
  /\ skips \in Seq(Node)

In(st) == {n \in Node : state[n] = st}

\* The reverse of q: the queue is seeded backwards, so popping yields
\* source order.
Reversed(q) == [i \in DOMAIN q |-> q[Len(q) + 1 - i]]

\* DagWalker::new, for a graph it accepts (module CycleCheck).
Init ==
  /\ needs \in Graphs
  /\ waitingOn = [n \in Node |-> Len(needs[n])]
  /\ state = [n \in Node |-> IF needs[n] = <<>> THEN "Ready" ELSE "Pending"]
  /\ readyQueue \in InOrder(Reversed(SourceOrder), {n \in Node : needs[n] = <<>>})
  /\ upstream = [n \in Node |-> 0]
  /\ origin = 0 /\ bfs = <<>> /\ skips = <<>>

Top(q) == q[Len(q)]

Popped(q) == SubSeq(q, 1, Len(q) - 1)

\* next_ready: pop the stack, mark the node running.
NextReady(n) ==
  /\ origin = 0
  /\ readyQueue # <<>> /\ n = Top(readyQueue)
  /\ readyQueue' = Popped(readyQueue)
  /\ state' = [state EXCEPT ![n] = "Running"]
  /\ UNCHANGED <<needs, upstream, waitingOn, origin, bfs, skips>>

\* The counters after n succeeded: one less per entry that names n.
CountedDown(n) == [m \in Node |-> waitingOn[m] - Cardinality(Occurrences(needs, m, n))]

\* Mutant: an off-by-one in the test for zero.
PromotedEarly(n) == {m \in Dependents(needs, n) : state[m] = "Pending" /\ CountedDown(n)[m] <= 1}

\* The dependents of n that were waiting for nothing else.
Promoted(n) == {m \in Dependents(needs, n) : state[m] = "Pending" /\ CountedDown(n)[m] = 0}

\* complete(n, true): promote what is ready now.
CompleteOk(n) ==
  /\ origin = 0 /\ state[n] = "Running"
  /\ waitingOn' = CountedDown(n)
  /\ state' = [m \in Node |-> IF m = n THEN "Succeeded"
                              ELSE IF m \in Promoted(n) THEN "Ready" ELSE state[m]]
  /\ \E fresh \in InOrder(SourceOrder, Promoted(n)) : readyQueue' = readyQueue \o fresh
  /\ skips' = <<>>
  /\ UNCHANGED <<needs, upstream, origin, bfs>>

\* complete(n, false) up to its loop.
CompleteFailed(n) ==
  /\ origin = 0 /\ state[n] = "Running"
  /\ state' = [state EXCEPT ![n] = "Failed"]
  /\ origin' = n
  /\ bfs' \in InOrder(SourceOrder, Dependents(needs, n))
  /\ skips' = <<>>
  /\ UNCHANGED <<needs, upstream, waitingOn, readyQueue>>

\* A node the cascade passes over: already settled, or running.
CascadePast ==
  /\ bfs # <<>> /\ state[Head(bfs)] \notin {"Pending", "Ready"}
  /\ bfs' = Tail(bfs)
  /\ UNCHANGED <<needs, state, upstream, waitingOn, readyQueue, origin, skips>>

\* Mutant: only the direct dependents of the failure are skipped.
CascadeSkipShallow(n) ==
  /\ bfs # <<>> /\ n = Head(bfs) /\ state[n] \in {"Pending", "Ready"}
  /\ state' = [state EXCEPT ![n] = "Skipped"]
  /\ upstream' = [upstream EXCEPT ![n] = origin]
  /\ skips' = Append(skips, n)
  /\ bfs' = Tail(bfs)
  /\ UNCHANGED <<needs, waitingOn, readyQueue, origin>>

\* A node the cascade reaches: it will never run.
CascadeSkip(n) ==
  /\ bfs # <<>> /\ n = Head(bfs) /\ state[n] \in {"Pending", "Ready"}
  /\ state' = [state EXCEPT ![n] = "Skipped"]
  /\ upstream' = [upstream EXCEPT ![n] = origin]
  /\ skips' = Append(skips, n)
  /\ \E next \in InOrder(SourceOrder, Dependents(needs, n)) : bfs' = Tail(bfs) \o next
  /\ UNCHANGED <<needs, waitingOn, readyQueue, origin>>

\* The end of complete(n, false): purge skipped nodes from the stack.
CascadeEnd ==
  /\ origin # 0 /\ bfs = <<>>
  /\ origin' = 0
  /\ readyQueue' \in InOrder(readyQueue, Range(readyQueue) \ In("Skipped"))
  /\ UNCHANGED <<needs, state, upstream, waitingOn, bfs, skips>>

Cascade == CascadePast \/ (\E n \in Node : CascadeSkip(n)) \/ CascadeEnd

\* is_done
IsDone == \A n \in Node : state[n] \in Terminal

Done == origin = 0 /\ IsDone /\ UNCHANGED walkerVars

Next ==
  \/ \E n \in Node : NextReady(n) \/ CompleteOk(n) \/ CompleteFailed(n)
  \/ Cascade
  \/ Done

Safety == Init /\ [][Next]_walkerVars

\* The scheduler keeps pulling ready nodes and completing running ones.
Spec == Safety /\ WF_walkerVars(Next)

-----------------------------------------------------------------------------
\* The counters are the unmet entries: what promotion relies on.
CountersAreUnmet ==
  \A n \in Node : waitingOn[n] = Unmet(needs, n, In("Succeeded"))

\* The stack holds the ready nodes, each once: no node can be handed out
\* twice, and no ready node is forgotten.
QueueHoldsReady == IsInjective(readyQueue) /\ Range(readyQueue) = In("Ready")

\* A node that was ever offered to the scheduler has all it needs.
OfferedAfterNeeds ==
  \A n \in In("Ready") \cup In("Running") \cup In("Succeeded") \cup In("Failed") :
    Needs(needs, n) \subseteq In("Succeeded")

\* Between calls, a failure has reached everything downstream of it: no node
\* behind a failed or skipped one is left pending (which would strand it) or
\* runs.
CascadeComplete ==
  origin = 0 =>
    \A n \in Node : Needs(needs, n) \cap (In("Failed") \cup In("Skipped")) # {} =>
      state[n] = "Skipped"

\* The reason of a skip names a node that failed itself and that the skipped
\* node transitively needs: the root cause, not the immediate parent.
SkipNamesRootCause ==
  \A n \in In("Skipped") :
    upstream[n] \in In("Failed") /\ Ancestor(needs, upstream[n], n)

\* When nothing is ready and nothing runs, an acyclic pipeline has drained:
\* the scheduler's loop, which stops at the first empty answer, strands
\* no node.
DrainedWhenIdle ==
  (Acyclic(needs) /\ origin = 0 /\ readyQueue = <<>> /\ In("Running") = {}) => IsDone

\* The walker implements what a run promises.
statusOf(st) ==
  CASE st \in {"Pending", "Ready"} -> "waiting"
    [] st = "Running" -> "running"
    [] st = "Succeeded" -> "ok"
    [] st = "Failed" -> "failed"
    [] st = "Skipped" -> "skipped"

runStatus == [n \in Node |-> statusOf(state[n])]

Run == INSTANCE PipelineRun WITH status <- runStatus

ImplementsRun == Run!Safety

=============================================================================
