---------------------------- MODULE EngineProofs ----------------------------
(***************************************************************************)
(* First the walker: its invariants, and that it implements PipelineRun,   *)
(* for every number of nodes, every graph and any number of nodes running. *)
(* Then the engine: it drives its walker as the walker allows, so that     *)
(* what is proved of the walker holds of a run; and what the engine adds   *)
(* of its own.                                                             *)
(***************************************************************************)
EXTENDS Engine, GraphProofs

-----------------------------------------------------------------------------
\* The walker, however many nodes its owner keeps running.
Blocked == In("Failed") \cup In("Skipped")

\* The strengthening: a pending node still waits for something; a cascade in
\* progress has every node behind a failure either skipped or in its queue,
\* and its queue holds only nodes behind the failure being cascaded.
PendingWaits == \A n \in In("Pending") : waitingOn[n] # 0

CascadeReaches ==
  \A n \in Node : Needs(needs, n) \cap Blocked # {} =>
    state[n] = "Skipped" \/ (origin # 0 /\ n \in Range(bfs))

CascadeSound ==
  /\ origin = 0 => bfs = <<>>
  /\ origin # 0 => origin \in In("Failed")
  /\ \A n \in Range(bfs) :
       Ancestor(needs, origin, n) /\ Needs(needs, n) \cap Blocked # {}

WInv ==
  /\ TypeOK /\ CountersAreUnmet /\ QueueHoldsReady /\ OfferedAfterNeeds
  /\ PendingWaits /\ CascadeReaches /\ CascadeSound /\ SkipNamesRootCause

\* A node with a failed or skipped need was never offered.
LEMMA BlockedNeedNotOffered ==
  ASSUME WInv, NEW n \in Node, Needs(needs, n) \cap Blocked # {}
  PROVE  state[n] \in {"Pending", "Skipped"}
BY DEF WInv, TypeOK, OfferedAfterNeeds, Blocked, In, Terminal

LEMMA InitWInv == Init => WInv
<1> SUFFICES ASSUME Init PROVE WInv
  OBVIOUS
<1> DEFINE roots == {n \in Node : needs[n] = <<>>}
<1>1. needs \in Graphs /\ needs \in [Node -> Seq(Node)]
  BY GraphsAssumption DEF Init
<1>2. readyQueue \in Seq(Node) /\ Range(readyQueue) = roots /\ IsInjective(readyQueue)
  <2>1. Reversed(SourceOrder) \in Seq(Node) /\ IsInjective(Reversed(SourceOrder))
    BY ReversedSourceIsSeq DEF Reversed
  <2>2. roots \in SUBSET Node
    OBVIOUS
  <2>3. readyQueue \in InOrder(Reversed(SourceOrder), roots)
    BY DEF Init
  <2> HIDE DEF roots
  <2>4. QED
    BY <2>1, <2>2, <2>3, InOrderKeeps
<1>3. \A n \in Node : /\ Len(needs[n]) \in Nat /\ Len(needs[n]) = Unmet(needs, n, {})
                      /\ needs[n] = <<>> <=> Len(needs[n]) = 0
  BY <1>1, UnmetCounts, LenProperties, EmptySeq
<1>4. In("Succeeded") = {} /\ Blocked = {} /\ In("Ready") = roots
      /\ In("Running") = {} /\ In("Failed") = {} /\ In("Skipped") = {}
  BY DEF Init, In, Blocked
<1>5. TypeOK
  BY <1>1, <1>2, <1>3, EmptySeq DEF Init, TypeOK
<1>6. CountersAreUnmet
  BY <1>3, <1>4 DEF Init, CountersAreUnmet
<1>7. OfferedAfterNeeds
  <2>1. \A n \in roots : Unmet(needs, n, {}) = 0
    BY <1>3
  <2>2. \A n \in roots : Needs(needs, n) \subseteq {}
    BY <1>1, <2>1, UnmetCounts
  <2>3. QED
    BY <1>4, <2>2 DEF OfferedAfterNeeds
<1>8. PendingWaits
  BY <1>3 DEF Init, PendingWaits, In
<1>9. CascadeSound
  BY DEF Init, CascadeSound, Range
<1>10. QED
  BY <1>2, <1>4, <1>5, <1>6, <1>7, <1>8, <1>9
     DEF WInv, QueueHoldsReady, CascadeReaches, SkipNamesRootCause

LEMMA NextReadyWInv == ASSUME WInv, NEW n \in Node, NextReady(n) PROVE WInv'
<1> USE DEF WInv
<1>1. /\ origin = 0 /\ state' = [state EXCEPT ![n] = "Running"]
      /\ UNCHANGED <<needs, upstream, waitingOn, origin, bfs, skips>>
  BY DEF NextReady
<1>2. /\ n \in In("Ready") /\ readyQueue' \in Seq(Node) /\ IsInjective(readyQueue')
      /\ Range(readyQueue') = In("Ready") \ {n}
  <2>1. readyQueue' = SubSeq(readyQueue, 1, Len(readyQueue) - 1)
    BY DEF NextReady, Popped
  <2>2. n = readyQueue[Len(readyQueue)] /\ readyQueue # <<>>
    BY DEF NextReady, Top
  <2>3. QED
    BY <2>1, <2>2, PopInjective DEF TypeOK, QueueHoldsReady
<1>3. /\ In("Ready")' = In("Ready") \ {n} /\ In("Running")' = In("Running") \cup {n}
      /\ In("Succeeded")' = In("Succeeded") /\ In("Pending")' = In("Pending")
      /\ In("Failed")' = In("Failed") /\ In("Skipped")' = In("Skipped")
  BY <1>1, <1>2 DEF In, TypeOK
<1>4. TypeOK'
  BY <1>1, <1>2 DEF TypeOK
<1>5. CountersAreUnmet' /\ PendingWaits' /\ SkipNamesRootCause'
  BY <1>1, <1>3 DEF CountersAreUnmet, PendingWaits, SkipNamesRootCause
<1>6. OfferedAfterNeeds'
  BY <1>1, <1>2, <1>3 DEF OfferedAfterNeeds
<1>7. CascadeReaches'
  <2>1. Blocked' = Blocked /\ \A m \in Node : state[m] = "Skipped" => state'[m] = "Skipped"
    BY <1>1, <1>2, <1>3 DEF Blocked, In, TypeOK
  <2>2. QED
    BY <1>1, <2>1 DEF CascadeReaches
<1>8. CascadeSound'
  BY <1>1, <1>3 DEF CascadeSound, Blocked
<1>9. QED
  BY <1>2, <1>3, <1>4, <1>5, <1>6, <1>7, <1>8 DEF QueueHoldsReady

LEMMA CompleteOkWInv == ASSUME WInv, NEW n \in Node, CompleteOk(n) PROVE WInv'
<1> USE DEF WInv
<1>1. /\ origin = 0 /\ state[n] = "Running" /\ waitingOn' = CountedDown(n)
      /\ state' = [m \in Node |-> IF m = n THEN "Succeeded"
                                  ELSE IF m \in Promoted(n) THEN "Ready" ELSE state[m]]
      /\ UNCHANGED <<needs, upstream, origin, bfs>> /\ skips' = <<>>
  BY DEF CompleteOk
<1>2. needs \in [Node -> Seq(Node)]
  BY GraphsAssumption DEF TypeOK
<1>3. Promoted(n) \subseteq In("Pending") /\ n \notin Promoted(n) /\ Promoted(n) \in SUBSET Node
  BY <1>1 DEF Promoted, Dependents, In
<1>4. /\ In("Succeeded")' = In("Succeeded") \cup {n} /\ n \notin In("Succeeded")
      /\ In("Ready")' = In("Ready") \cup Promoted(n)
      /\ In("Pending")' = In("Pending") \ Promoted(n)
      /\ In("Running")' = In("Running") \ {n}
      /\ In("Failed")' = In("Failed") /\ In("Skipped")' = In("Skipped")
  BY <1>1, <1>3 DEF In, TypeOK
<1>5. \A m \in Node : waitingOn'[m] = Unmet(needs, m, In("Succeeded")')
  <2>1. SUFFICES ASSUME NEW m \in Node
                 PROVE  waitingOn'[m] = Unmet(needs, m, In("Succeeded") \cup {n})
    BY <1>4
  <2>2. waitingOn'[m] = waitingOn[m] - Cardinality(Occurrences(needs, m, n))
    BY <1>1 DEF CountedDown
  <2>3. waitingOn[m] = Unmet(needs, m, In("Succeeded"))
    BY DEF CountersAreUnmet
  <2>4. QED
    BY <1>2, <1>4, <2>2, <2>3, UnmetDrops
<1>6. \A m \in Node : waitingOn'[m] \in Nat
                      /\ (waitingOn'[m] = 0 <=> Needs(needs, m) \subseteq In("Succeeded")')
  BY <1>2, <1>5, UnmetCounts
<1>7. TypeOK' /\ IsInjective(readyQueue') /\ Range(readyQueue') = In("Ready")'
  <2>1. PICK fresh \in InOrder(SourceOrder, Promoted(n)) : readyQueue' = readyQueue \o fresh
    BY DEF CompleteOk
  <2>2. fresh \in Seq(Node) /\ Range(fresh) = Promoted(n) /\ IsInjective(fresh)
    BY <1>3, SourceOrderIsSeq, InOrderKeeps
  <2>3. Range(readyQueue) \cap Range(fresh) = {}
    BY <1>3, <2>2 DEF QueueHoldsReady, In
  <2>4. /\ readyQueue' \in Seq(Node) /\ IsInjective(readyQueue')
        /\ Range(readyQueue') = Range(readyQueue) \cup Range(fresh)
    BY <2>1, <2>2, <2>3, ConcatInjective DEF TypeOK, QueueHoldsReady
  <2>5. waitingOn' \in [Node -> Nat]
    BY <1>1, <1>6 DEF CountedDown
  <2>6. TypeOK'
    BY <1>1, <2>4, <2>5, EmptySeq DEF TypeOK, Terminal
  <2>7. QED
    BY <1>4, <2>2, <2>4, <2>6 DEF QueueHoldsReady
<1>8. OfferedAfterNeeds'
  <2>1. \A m \in Promoted(n) : waitingOn'[m] = 0
    BY <1>1 DEF Promoted
  <2>2. \A m \in Promoted(n) : Needs(needs, m) \subseteq In("Succeeded")'
    BY <1>3, <1>6, <2>1
  <2>3. n \in In("Running")
    BY <1>1 DEF In
  <2>4. QED
    BY <1>1, <1>4, <2>2, <2>3 DEF OfferedAfterNeeds
<1>9. PendingWaits'
  <2>1. SUFFICES ASSUME NEW m \in In("Pending") \ Promoted(n) PROVE waitingOn'[m] # 0
    BY <1>4 DEF PendingWaits
  <2>2. CASE m \in Dependents(needs, n)
    BY <1>1, <2>1, <2>2 DEF Promoted, In
  <2>3. CASE m \notin Dependents(needs, n)
    <3>1. m \in Node /\ n \notin Needs(needs, m)
      BY <2>3 DEF Dependents, In
    <3>2. Cardinality(Occurrences(needs, m, n)) = 0
      BY <1>2, <1>4, <3>1, UnmetDrops
    <3>3. waitingOn'[m] = waitingOn[m] /\ waitingOn[m] # 0
      BY <1>1, <3>1, <3>2 DEF CountedDown, PendingWaits, TypeOK
    <3>4. QED
      BY <3>3
  <2>4. QED
    BY <2>2, <2>3
<1>10. CascadeReaches' /\ CascadeSound' /\ SkipNamesRootCause'
  <2>1. Blocked' = Blocked
    BY <1>4 DEF Blocked
  <2>2. \A m \in Node : state[m] = "Skipped" => state'[m] = "Skipped"
    BY <1>4 DEF In
  <2>3. QED
    BY <1>1, <1>4, <2>1, <2>2 DEF CascadeReaches, CascadeSound, SkipNamesRootCause
<1>11. CountersAreUnmet'
  BY <1>1, <1>5 DEF CountersAreUnmet
<1>12. QueueHoldsReady'
  BY <1>7 DEF QueueHoldsReady
<1>13. QED
  BY <1>7, <1>8, <1>9, <1>10, <1>11, <1>12

LEMMA CompleteFailedWInv == ASSUME WInv, NEW n \in Node, CompleteFailed(n) PROVE WInv'
<1> USE DEF WInv
<1>1. /\ origin = 0 /\ state[n] = "Running" /\ state' = [state EXCEPT ![n] = "Failed"]
      /\ origin' = n /\ skips' = <<>>
      /\ UNCHANGED <<needs, upstream, waitingOn, readyQueue>>
  BY DEF CompleteFailed
<1>2. needs \in [Node -> Seq(Node)]
  BY GraphsAssumption DEF TypeOK
<1>3. bfs' \in Seq(Node) /\ Range(bfs') = Dependents(needs, n)
  <2>1. Dependents(needs, n) \in SUBSET Node /\ bfs' \in InOrder(SourceOrder, Dependents(needs, n))
    BY DEF Dependents, CompleteFailed
  <2>2. QED
    BY <2>1, SourceOrderIsSeq, InOrderKeeps
<1>4. /\ In("Failed")' = In("Failed") \cup {n} /\ In("Running")' = In("Running") \ {n}
      /\ In("Ready")' = In("Ready") /\ In("Pending")' = In("Pending")
      /\ In("Succeeded")' = In("Succeeded") /\ In("Skipped")' = In("Skipped")
      /\ n \in In("Running")
  BY <1>1 DEF In, TypeOK
<1>5. TypeOK'
  BY <1>1, <1>3, EmptySeq DEF TypeOK, Terminal
<1>6. CountersAreUnmet' /\ QueueHoldsReady' /\ OfferedAfterNeeds' /\ PendingWaits'
      /\ SkipNamesRootCause'
  BY <1>1, <1>4
     DEF CountersAreUnmet, QueueHoldsReady, OfferedAfterNeeds, PendingWaits, SkipNamesRootCause
<1>7. Blocked' = Blocked \cup {n} /\ \A m \in Node : state[m] = "Skipped" => state'[m] = "Skipped"
  BY <1>4 DEF Blocked, In
<1>8. CascadeReaches'
  <2>1. SUFFICES ASSUME NEW m \in Node, Needs(needs, m) \cap (Blocked \cup {n}) # {}
                 PROVE  state'[m] = "Skipped" \/ m \in Range(bfs')
    BY <1>1, <1>7, NAssumption DEF CascadeReaches, Node
  <2>2. CASE n \in Needs(needs, m)
    BY <1>3, <2>2 DEF Dependents
  <2>3. CASE n \notin Needs(needs, m)
    BY <1>1, <1>7, <2>1, <2>3 DEF CascadeReaches
  <2>4. QED
    BY <2>2, <2>3
<1>9. CascadeSound'
  <2>1. \A m \in Dependents(needs, n) : Ancestor(needs, n, m) /\ Needs(needs, m) \cap Blocked' # {}
    BY <1>2, <1>7, AncestorStep DEF Dependents
  <2>2. origin' # 0
    BY <1>1, NAssumption DEF Node
  <2>3. QED
    BY <1>1, <1>3, <1>4, <2>1, <2>2 DEF CascadeSound
<1>10. QED
  BY <1>5, <1>6, <1>8, <1>9

LEMMA CascadePastWInv == WInv /\ CascadePast => WInv'
<1> SUFFICES ASSUME WInv, CascadePast PROVE WInv'
  OBVIOUS
<1> USE DEF WInv
<1>1. /\ bfs # <<>> /\ bfs' = Tail(bfs) /\ state[Head(bfs)] \notin {"Pending", "Ready"}
      /\ UNCHANGED <<needs, state, upstream, waitingOn, readyQueue, origin, skips>>
  BY DEF CascadePast
<1>2. /\ Head(bfs) \in Range(bfs) /\ Head(bfs) \in Node /\ bfs' \in Seq(Node)
      /\ Range(bfs') \subseteq Range(bfs) /\ Range(bfs) \subseteq Range(bfs') \cup {Head(bfs)}
  BY <1>1, TailRange DEF TypeOK
<1>3. state[Head(bfs)] = "Skipped"
  <2>1. Needs(needs, Head(bfs)) \cap Blocked # {}
    BY <1>2 DEF CascadeSound
  <2>2. QED
    BY <1>1, <1>2, <2>1, BlockedNeedNotOffered
<1>4. \A st : In(st)' = In(st)
  BY <1>1 DEF In
<1>5. TypeOK' /\ CountersAreUnmet' /\ QueueHoldsReady' /\ OfferedAfterNeeds' /\ PendingWaits'
      /\ SkipNamesRootCause'
  BY <1>1, <1>2, <1>4
     DEF TypeOK, CountersAreUnmet, QueueHoldsReady, OfferedAfterNeeds, PendingWaits,
         SkipNamesRootCause
<1>6. CascadeReaches'
  BY <1>1, <1>2, <1>3, <1>4 DEF CascadeReaches, Blocked
<1>7. CascadeSound'
  BY <1>1, <1>2, <1>4 DEF CascadeSound, Blocked
<1>8. QED
  BY <1>5, <1>6, <1>7

LEMMA CascadeSkipWInv == ASSUME WInv, NEW n \in Node, CascadeSkip(n) PROVE WInv'
<1> USE DEF WInv
<1>1. /\ bfs # <<>> /\ n = Head(bfs) /\ state[n] \in {"Pending", "Ready"}
      /\ state' = [state EXCEPT ![n] = "Skipped"]
      /\ upstream' = [upstream EXCEPT ![n] = origin]
      /\ skips' = Append(skips, n)
      /\ UNCHANGED <<needs, waitingOn, readyQueue, origin>>
  BY DEF CascadeSkip
<1>2. needs \in [Node -> Seq(Node)]
  BY GraphsAssumption DEF TypeOK
<1>3. /\ n \in Range(bfs) /\ Tail(bfs) \in Seq(Node)
      /\ Range(Tail(bfs)) \subseteq Range(bfs) /\ Range(bfs) \subseteq Range(Tail(bfs)) \cup {n}
  BY <1>1, TailRange DEF TypeOK
<1>4. bfs' \in Seq(Node) /\ Range(bfs') = Range(Tail(bfs)) \cup Dependents(needs, n)
  <2>1. PICK next \in InOrder(SourceOrder, Dependents(needs, n)) : bfs' = Tail(bfs) \o next
    BY DEF CascadeSkip
  <2>2. Dependents(needs, n) \in SUBSET Node
    BY DEF Dependents
  <2>3. next \in Seq(Node) /\ Range(next) = Dependents(needs, n)
    BY <2>2, SourceOrderIsSeq, InOrderKeeps
  <2> DEFINE rest == Tail(bfs)
  <2>4. rest \in Seq(Node) /\ bfs' = rest \o next
    BY <1>3, <2>1
  <2> HIDE DEF rest
  <2>5. rest \o next \in Seq(Node) /\ Range(rest \o next) = Range(rest) \cup Range(next)
    BY <2>3, <2>4, ConcatProperties, RangeConcatenation
  <2>6. QED
    BY <2>3, <2>4, <2>5 DEF rest
<1>5. origin # 0 /\ origin \in In("Failed") /\ origin \in Node
      /\ Ancestor(needs, origin, n) /\ Needs(needs, n) \cap Blocked # {}
  BY <1>1, <1>3 DEF CascadeSound, In
<1>6. state[n] = "Pending"
  BY <1>1, <1>5, BlockedNeedNotOffered
<1>7. /\ In("Skipped")' = In("Skipped") \cup {n} /\ In("Pending")' = In("Pending") \ {n}
      /\ In("Ready")' = In("Ready") /\ In("Running")' = In("Running")
      /\ In("Succeeded")' = In("Succeeded") /\ In("Failed")' = In("Failed")
      /\ n \notin In("Skipped")
  BY <1>1, <1>6 DEF In, TypeOK
<1>8. TypeOK'
  BY <1>1, <1>4, <1>5, AppendProperties DEF TypeOK, Terminal
<1>9. CountersAreUnmet' /\ QueueHoldsReady' /\ OfferedAfterNeeds' /\ PendingWaits'
  BY <1>1, <1>7 DEF CountersAreUnmet, QueueHoldsReady, OfferedAfterNeeds, PendingWaits
<1>10. SkipNamesRootCause'
  <2>1. upstream'[n] = origin /\ \A m \in Node \ {n} : upstream'[m] = upstream[m]
    BY <1>1 DEF TypeOK
  <2>2. QED
    BY <1>1, <1>5, <1>7, <2>1 DEF SkipNamesRootCause, In
<1>11. Blocked' = Blocked \cup {n}
  BY <1>7 DEF Blocked
<1>12. CascadeReaches'
  <2>1. SUFFICES ASSUME NEW m \in Node, Needs(needs, m) \cap (Blocked \cup {n}) # {}
                 PROVE  state'[m] = "Skipped" \/ m \in Range(bfs')
    BY <1>1, <1>5, <1>11 DEF CascadeReaches
  <2>2. CASE n \in Needs(needs, m)
    BY <1>4, <2>2 DEF Dependents
  <2>3. CASE n \notin Needs(needs, m)
    <3>1. state[m] = "Skipped" \/ m \in Range(bfs)
      BY <2>1, <2>3 DEF CascadeReaches
    <3>2. state[m] = "Skipped" \/ m = n => state'[m] = "Skipped"
      BY <1>1 DEF TypeOK
    <3>3. QED
      BY <1>3, <1>4, <3>1, <3>2
  <2>4. QED
    BY <2>2, <2>3
<1>13. CascadeSound'
  <2>1. \A m \in Dependents(needs, n) :
          Ancestor(needs, origin, m) /\ Needs(needs, m) \cap Blocked' # {}
    BY <1>2, <1>5, <1>11, AncestorStep DEF Dependents
  <2>2. \A m \in Range(Tail(bfs)) :
          Ancestor(needs, origin, m) /\ Needs(needs, m) \cap Blocked' # {}
    BY <1>3, <1>11 DEF CascadeSound
  <2>3. QED
    BY <1>1, <1>4, <1>5, <1>7, <2>1, <2>2 DEF CascadeSound
<1>14. QED
  BY <1>8, <1>9, <1>10, <1>12, <1>13

LEMMA CascadeEndWInv == WInv /\ CascadeEnd => WInv'
<1> SUFFICES ASSUME WInv, CascadeEnd PROVE WInv'
  OBVIOUS
<1> USE DEF WInv
<1>1. /\ origin # 0 /\ bfs = <<>> /\ origin' = 0
      /\ UNCHANGED <<needs, state, upstream, waitingOn, bfs, skips>>
      /\ readyQueue' \in InOrder(readyQueue, Range(readyQueue) \ In("Skipped"))
  BY DEF CascadeEnd
<1>2. \A st : In(st)' = In(st)
  BY <1>1 DEF In
<1>3. Range(readyQueue) \ In("Skipped") = In("Ready")
  BY DEF QueueHoldsReady, In
<1>4. readyQueue' \in Seq(Node) /\ IsInjective(readyQueue') /\ Range(readyQueue') = In("Ready")
  <2>1. In("Ready") \in SUBSET Node
    BY DEF In
  <2>2. QED
    BY <1>1, <1>3, <2>1, InOrderKeeps DEF TypeOK, QueueHoldsReady
<1>5. Range(bfs) = {}
  BY <1>1 DEF Range
<1>6. TypeOK' /\ CountersAreUnmet' /\ QueueHoldsReady' /\ OfferedAfterNeeds' /\ PendingWaits'
      /\ SkipNamesRootCause'
  BY <1>1, <1>2, <1>4
     DEF TypeOK, CountersAreUnmet, QueueHoldsReady, OfferedAfterNeeds, PendingWaits,
         SkipNamesRootCause
<1>7. CascadeReaches' /\ CascadeSound'
  BY <1>1, <1>2, <1>5 DEF CascadeReaches, CascadeSound, Blocked
<1>8. QED
  BY <1>6, <1>7

LEMMA StepWInv == WInv /\ [Next]_walkerVars => WInv'
<1>1. ASSUME WInv, UNCHANGED walkerVars PROVE WInv'
  BY <1>1 DEF walkerVars, WInv, TypeOK, CountersAreUnmet, QueueHoldsReady, OfferedAfterNeeds,
              PendingWaits, CascadeReaches, CascadeSound, SkipNamesRootCause, In, Blocked
<1>2. QED
  BY <1>1, NextReadyWInv, CompleteOkWInv, CompleteFailedWInv, CascadePastWInv, CascadeSkipWInv,
     CascadeEndWInv DEF Next, Cascade, Done

THEOREM WalkerInvariant == Safety => []WInv
BY InitWInv, StepWInv, PTL DEF Safety

\* Types: in particular no `waiting_on[dep] -= 1` underflows.
THEOREM WalkerTypes == Safety => []TypeOK
BY WalkerInvariant, PTL DEF WInv

\* No node is handed out twice or forgotten, and none before its needs.
THEOREM WalkerOffers == Safety => [](QueueHoldsReady /\ OfferedAfterNeeds)
BY WalkerInvariant, PTL DEF WInv

\* When complete returns, everything behind the failure is skipped.
THEOREM WalkerCascades == Safety => []CascadeComplete
<1>1. WInv => CascadeComplete
  BY DEF WInv, CascadeReaches, CascadeComplete, Blocked
<1>2. QED
  BY <1>1, WalkerInvariant, PTL

\* Every skip is blamed on a real failure upstream of the skipped node.
THEOREM WalkerBlames == Safety => []SkipNamesRootCause
BY WalkerInvariant, PTL DEF WInv

\* The scheduler's loop may stop at the first empty answer: with nothing
\* running, every node of an acyclic pipeline has settled.
THEOREM WalkerDrains == Safety => []DrainedWhenIdle
<1>1. WInv => DrainedWhenIdle
  <2> SUFFICES ASSUME WInv, Acyclic(needs), origin = 0, readyQueue = <<>>, In("Running") = {}
               PROVE  IsDone
    BY DEF DrainedWhenIdle
  <2>1. In("Ready") = {}
    BY DEF WInv, QueueHoldsReady, Range
  <2>2. needs \in [Node -> Seq(Node)]
    BY GraphsAssumption DEF WInv, TypeOK
  <2>3. ASSUME In("Pending") # {} PROVE FALSE
    <3>1. PICK n \in In("Pending") : Needs(needs, n) \cap In("Pending") = {}
      BY <2>3 DEF Acyclic, In
    <3>2. n \in Node /\ waitingOn[n] # 0 /\ state[n] = "Pending"
      BY <3>1 DEF WInv, PendingWaits, In
    <3>3. ~ (Needs(needs, n) \subseteq In("Succeeded")) /\ Needs(needs, n) \subseteq Node
      BY <2>2, <3>2, UnmetCounts, NeedsAreNodes DEF WInv, CountersAreUnmet
    <3>4. Needs(needs, n) \cap Blocked # {}
      BY <2>1, <3>1, <3>3 DEF WInv, TypeOK, In, Blocked, Terminal
    <3>5. QED
      BY <3>2, <3>4 DEF WInv, CascadeReaches
  <2>4. QED
    BY <2>1, <2>3 DEF IsDone, In, WInv, TypeOK
<1>2. QED
  BY <1>1, WalkerInvariant, PTL

\* The walker implements what a run promises: each of its steps starts,
\* finishes or skips a node as PipelineRun allows, or is not visible.
LEMMA StatusShown ==
  ASSUME NEW n \in Node
  PROVE  /\ runStatus[n] = statusOf(state[n])
         /\ state[n] \in {"Pending", "Ready"} => runStatus[n] = "waiting"
         /\ state[n] = "Running" => runStatus[n] = "running"
         /\ state[n] = "Succeeded" => runStatus[n] = "ok"
         /\ state[n] = "Failed" => runStatus[n] = "failed"
         /\ state[n] = "Skipped" => runStatus[n] = "skipped"
BY DEF runStatus, statusOf

\* A step that moves one node, up to what runStatus shows.
LEMMA StatusMoves ==
  ASSUME NEW n \in Node, NEW st,
         statusOf(state'[n]) = st,
         \A m \in Node \ {n} : statusOf(state'[m]) = statusOf(state[m])
  PROVE  runStatus' = [runStatus EXCEPT ![n] = st]
BY DEF runStatus

THEOREM WalkerImplementsRun == Safety => ImplementsRun
<1>1. Init => Run!Init
  <2> SUFFICES ASSUME Init PROVE Run!Init
    OBVIOUS
  <2>1. \A n \in Node : statusOf(state[n]) = "waiting"
    BY DEF Init, statusOf
  <2>2. QED
    BY <2>1 DEF Init, Run!Init, runStatus, Run!Node, Node
<1>2. WInv /\ [Next]_walkerVars => [Run!Next]_(Run!vars)
  <2> SUFFICES ASSUME WInv, [Next]_walkerVars PROVE [Run!Next]_(Run!vars)
    OBVIOUS
  <2> USE DEF WInv
  <2>1. Run!Having("ok") = In("Succeeded")
    <3>1. \A n \in Node : runStatus[n] = "ok" <=> state[n] = "Succeeded"
      BY DEF statusOf, runStatus, TypeOK, Terminal
    <3>2. QED
      BY <3>1 DEF Run!Having, Run!Node, In, Node
  <2>2. ASSUME NEW n \in Node, NextReady(n) PROVE Run!Start(n)
    <3>1. n \in In("Ready")
      BY <2>2, PopInjective DEF NextReady, Top, Popped, TypeOK, QueueHoldsReady
    <3>2. runStatus[n] = "waiting"
      BY <3>1, StatusShown DEF In
    <3>3. runStatus' = [runStatus EXCEPT ![n] = "running"]
      <4>1. statusOf(state'[n]) = "running" /\ \A m \in Node \ {n} : state'[m] = state[m]
        BY <2>2 DEF NextReady, TypeOK, statusOf
      <4>2. QED
        BY <4>1, StatusMoves
    <3>4. Run!Needs(needs, n) \subseteq Run!Having("ok")
      BY <2>1, <3>1 DEF OfferedAfterNeeds, Needs, Run!Needs, Range, Run!Range
    <3>5. QED
      BY <2>2, <3>2, <3>3, <3>4 DEF Run!Start, NextReady
  <2>3. ASSUME NEW n \in Node, CompleteOk(n) PROVE Run!Finish(n)
    <3>1. Promoted(n) \subseteq In("Pending")
      BY DEF Promoted, Dependents, In
    <3>2. runStatus[n] = "running"
      BY <2>3, StatusShown DEF CompleteOk
    <3>3. runStatus' = [runStatus EXCEPT ![n] = "ok"]
      <4>1. statusOf(state'[n]) = "ok"
        BY <2>3 DEF CompleteOk, statusOf
      <4>2. \A m \in Node \ {n} : state'[m] = state[m]
                                  \/ (state[m] = "Pending" /\ state'[m] = "Ready")
        BY <2>3, <3>1 DEF CompleteOk, In
      <4>3. \A m \in Node \ {n} : statusOf(state'[m]) = statusOf(state[m])
        BY <4>2 DEF statusOf
      <4>4. QED
        BY <4>1, <4>3, StatusMoves
    <3>4. QED
      BY <2>3, <3>2, <3>3 DEF Run!Finish, CompleteOk
  <2>4. ASSUME NEW n \in Node, CompleteFailed(n) PROVE Run!Finish(n)
    <3>1. runStatus[n] = "running"
      BY <2>4, StatusShown DEF CompleteFailed
    <3>2. runStatus' = [runStatus EXCEPT ![n] = "failed"]
      <4>1. statusOf(state'[n]) = "failed" /\ \A m \in Node \ {n} : state'[m] = state[m]
        BY <2>4 DEF CompleteFailed, TypeOK, statusOf
      <4>2. QED
        BY <4>1, StatusMoves
    <3>3. QED
      BY <2>4, <3>1, <3>2 DEF Run!Finish, CompleteFailed
  <2>5. ASSUME NEW n \in Node, CascadeSkip(n) PROVE Run!Skip(n)
    <3>1. n \in Range(bfs)
      BY <2>5, TailRange DEF CascadeSkip, TypeOK
    <3>2. Needs(needs, n) \subseteq Node
      BY NeedsAreNodes, GraphsAssumption DEF TypeOK
    <3>3. PICK d \in Needs(needs, n) : d \in Blocked
      BY <3>1 DEF CascadeSound
    <3>4. runStatus[d] \in {"failed", "skipped"}
      BY <3>2, <3>3, StatusShown DEF Blocked, In
    <3>5. runStatus[n] = "waiting"
      BY <2>5, StatusShown DEF CascadeSkip
    <3>6. runStatus' = [runStatus EXCEPT ![n] = "skipped"]
      <4>1. statusOf(state'[n]) = "skipped" /\ \A m \in Node \ {n} : state'[m] = state[m]
        BY <2>5 DEF CascadeSkip, TypeOK, statusOf
      <4>2. QED
        BY <4>1, StatusMoves
    <3>7. QED
      BY <2>5, <3>3, <3>4, <3>5, <3>6 DEF Run!Skip, CascadeSkip, Run!Needs, Needs, Range, Run!Range
  <2>6. ASSUME CascadePast \/ CascadeEnd \/ Done \/ UNCHANGED walkerVars
        PROVE  UNCHANGED Run!vars
    <3>1. UNCHANGED <<needs, state>>
      BY <2>6 DEF CascadePast, CascadeEnd, Done, walkerVars
    <3>2. QED
      BY <3>1 DEF Run!vars, runStatus
  <2>7. QED
    BY <2>2, <2>3, <2>4, <2>5, <2>6 DEF Next, Cascade, Run!Next, Run!Node, Node
<1>3. QED
  BY <1>1, <1>2, WalkerInvariant, PTL DEF Safety, ImplementsRun, Run!Safety

-----------------------------------------------------------------------------
\* First step: while a node is being run, current is a node.
CurrentIsNode == pc \in Running => current \in Node

LEMMA InitCurrent == EngineInit => CurrentIsNode
BY DEF EngineInit, CurrentIsNode, Running

LEMMA StepCurrent == CurrentIsNode /\ [EngineNext]_vars => CurrentIsNode'
<1> SUFFICES ASSUME CurrentIsNode, [EngineNext]_vars PROVE CurrentIsNode'
  OBVIOUS
<1> USE DEF CurrentIsNode, Running
<1>1. ASSUME NEW n \in Node, Pull(n) PROVE CurrentIsNode'
  BY <1>1 DEF Pull
<1>2. CASE Begin \/ SetUp \/ Abort \/ Finish \/ Drop \/ SettleOk \/ SettleFailed \/ ReportSkips
  BY <1>2 DEF Begin, SetUp, Abort, Finish, Drop, SettleOk, SettleFailed, ReportSkips
<1>3. CASE NoExecutor \/ RenderFails \/ Execute \/ TimeOut \/ Answer
  BY <1>3 DEF NoExecutor, RenderFails, Execute, TimeOut, Answer, Returns
<1>4. CASE CascadeStep \/ Stopped \/ UNCHANGED vars
  BY <1>4 DEF CascadeStep, Stopped, vars, engineVars
<1>5. QED
  BY <1>1, <1>2, <1>3, <1>4 DEF EngineNext, EngineStep

\* Second step: every step of the engine is a step of its walker or leaves
\* the walker alone.
LEMMA StepDrives == CurrentIsNode /\ [EngineNext]_vars => [Next]_walkerVars
<1> SUFFICES ASSUME CurrentIsNode, [EngineNext]_vars PROVE [Next]_walkerVars
  OBVIOUS
<1>1. ASSUME NEW n \in Node, Pull(n) PROVE Next
  BY <1>1 DEF Pull, Next
<1>2. CASE SettleOk \/ SettleFailed
  <2>1. current \in Node /\ (CompleteOk(current) \/ CompleteFailed(current))
    BY <1>2 DEF SettleOk, SettleFailed, CurrentIsNode, Running
  <2>2. QED
    BY <2>1 DEF Next
<1>3. CASE CascadeStep \/ ReportSkips
  BY <1>3 DEF CascadeStep, ReportSkips, Next, Cascade
<1>4. CASE Begin \/ SetUp \/ Abort \/ Finish \/ Drop \/ NoExecutor \/ RenderFails \/ Execute
  BY <1>4 DEF Begin, SetUp, Abort, Finish, Drop, NoExecutor, RenderFails, Execute
<1>5. CASE TimeOut \/ Answer
  BY <1>5 DEF TimeOut, Answer, Returns
<1>6. CASE Stopped \/ UNCHANGED vars
  BY <1>6 DEF Stopped, vars
<1>7. QED
  BY <1>1, <1>2, <1>3, <1>4, <1>5, <1>6 DEF EngineNext, EngineStep

\* The walker inside an engine is a walker run, so that what is proved of the
\* walker can be cited here.  (The engine's actions are made of the walker's:
\* this says nothing of Engine::run.)
LEMMA EngineDrivesWalker == EngineSafety => Safety
BY InitCurrent, StepCurrent, StepDrives, PTL
   DEF EngineSafety, Safety, EngineInit

\* A run therefore keeps what PipelineRun promises: a node starts only when
\* all it needs succeeded and is skipped only behind a failure.
THEOREM EngineImplementsRun == EngineSafety => ImplementsRun
BY EngineDrivesWalker, WalkerImplementsRun, PTL

-----------------------------------------------------------------------------
\* What the engine adds to the walker's invariant: where the running node
\* and the cascade stand, and that a success has left its output behind.
EInv ==
  /\ CurrentIsNode
  /\ OneAtATime
  /\ origin # 0 <=> pc = "cascade"
  /\ In("Succeeded") \subseteq outputs
  /\ pc \in {"loop", "cascade", "finished"} \cup Running => Acyclic(needs)
  /\ pc = "finished" => readyQueue = <<>>
  /\ pc \in {"start", "setup"} => current = 0

LEMMA InitEInv == EngineInit => EInv
BY DEF EngineInit, Init, EInv, CurrentIsNode, OneAtATime, In, Running

LEMMA StepEInv == WInv /\ EInv /\ [EngineNext]_vars => EInv'
<1> SUFFICES ASSUME WInv, EInv, [EngineNext]_vars PROVE EInv'
  OBVIOUS
<1> USE DEF Running
<1>0. CurrentIsNode'
  BY StepCurrent DEF EInv
<1>1. ASSUME UNCHANGED walkerVars PROVE In("Running")' = In("Running") /\ In("Succeeded")' = In("Succeeded")
  BY <1>1 DEF walkerVars, In
<1>2. ASSUME NEW n \in Node, Pull(n) PROVE EInv'
  <2>1. /\ NextReady(n) /\ pc = "loop" /\ pc' = "dispatch" /\ current' = n
        /\ UNCHANGED <<needs, origin, outputs>> /\ state' = [state EXCEPT ![n] = "Running"]
    BY <1>2 DEF Pull, NextReady
  <2>2. In("Running")' = In("Running") \cup {n} /\ In("Succeeded")' \subseteq In("Succeeded")
    BY <2>1 DEF In, WInv, TypeOK
  <2>3. In("Running") = {}
    BY <2>1 DEF EInv, OneAtATime
  <2>4. QED
    BY <1>0, <2>1, <2>2, <2>3 DEF EInv, OneAtATime
<1>3. ASSUME SettleOk PROVE EInv'
  <2>1. /\ CompleteOk(current) /\ pc = "settle" /\ pc' = "loop" /\ current \in Node
        /\ outputs' = outputs \cup {current} /\ UNCHANGED <<needs, origin, current>>
    BY <1>3 DEF SettleOk, CompleteOk, EInv, CurrentIsNode
  <2>2. In("Running")' = In("Running") \ {current} /\ In("Succeeded")' = In("Succeeded") \cup {current}
    BY <2>1 DEF CompleteOk, In, WInv, TypeOK, Promoted
  <2>3. In("Running") = {current}
    BY <2>1 DEF EInv, OneAtATime
  <2>4. QED
    BY <1>0, <2>1, <2>2, <2>3 DEF EInv, OneAtATime
<1>4. ASSUME SettleFailed PROVE EInv'
  <2>1. /\ CompleteFailed(current) /\ pc = "settle" /\ pc' = "cascade" /\ current \in Node
        /\ outputs \subseteq outputs' /\ UNCHANGED <<needs, current>> /\ origin' = current
    BY <1>4 DEF SettleFailed, CompleteFailed, EInv, CurrentIsNode
  <2>2. In("Running")' = In("Running") \ {current} /\ In("Succeeded")' \subseteq In("Succeeded")
    BY <2>1 DEF CompleteFailed, In, WInv, TypeOK
  <2>3. In("Running") = {current} /\ current # 0
    BY <2>1, NAssumption DEF EInv, OneAtATime, Node
  <2>4. QED
    BY <1>0, <2>1, <2>2, <2>3 DEF EInv, OneAtATime
<1>5. ASSUME CascadeStep PROVE EInv'
  <2>1. /\ pc = "cascade" /\ UNCHANGED <<pc, current, outputs>>
        /\ UNCHANGED <<needs, origin>>
    BY <1>5 DEF CascadeStep, engineVars, CascadePast, CascadeSkip
  <2>2. In("Running")' = In("Running") /\ In("Succeeded")' = In("Succeeded")
    <3>1. CASE CascadePast
      BY <3>1 DEF CascadePast, In
    <3>2. ASSUME NEW n \in Node, CascadeSkip(n)
          PROVE  In("Running")' = In("Running") /\ In("Succeeded")' = In("Succeeded")
      BY <3>2 DEF CascadeSkip, In, WInv, TypeOK
    <3>3. QED
      BY <1>5, <3>1, <3>2 DEF CascadeStep
  <2>3. QED
    BY <1>0, <2>1, <2>2 DEF EInv, OneAtATime
<1>6. ASSUME ReportSkips PROVE EInv'
  <2>1. /\ pc = "cascade" /\ pc' = "loop" /\ origin' = 0
        /\ UNCHANGED <<needs, state, current, outputs>>
    BY <1>6 DEF ReportSkips, CascadeEnd
  <2>2. In("Running")' = In("Running") /\ In("Succeeded")' = In("Succeeded")
    BY <2>1 DEF In
  <2>3. QED
    BY <1>0, <2>1, <2>2 DEF EInv, OneAtATime
<1>7. CASE Begin \/ SetUp \/ Abort \/ Finish
  <2>1. UNCHANGED walkerVars /\ UNCHANGED <<needs, origin, readyQueue, current, outputs>>
    BY <1>7 DEF Begin, SetUp, Abort, Finish, walkerVars
  <2>2. In("Running")' = In("Running") /\ In("Succeeded")' = In("Succeeded")
    BY <1>1, <2>1
  <2>3. /\ pc \in {"start", "setup", "loop"} /\ pc' \in {"setup", "loop", "aborted", "finished"}
        /\ pc' = "loop" => Acyclic(needs)
        /\ pc' = "setup" => pc = "start"
        /\ pc' = "finished" => pc = "loop" /\ readyQueue = <<>>
    BY <1>7 DEF Begin, SetUp, Abort, Finish
  <2>4. QED
    BY <1>0, <2>1, <2>2, <2>3 DEF EInv, OneAtATime
<1>8. CASE NoExecutor \/ RenderFails \/ Execute \/ TimeOut \/ Answer
  <2>1. UNCHANGED walkerVars /\ UNCHANGED <<needs, origin, readyQueue, current, outputs>>
    BY <1>8 DEF NoExecutor, RenderFails, Execute, TimeOut, Answer, Returns, walkerVars
  <2>2. In("Running")' = In("Running") /\ In("Succeeded")' = In("Succeeded")
    BY <1>1, <2>1
  <2>3. pc \in {"dispatch", "executing"} /\ pc' \in {"executing", "settle"}
    BY <1>8 DEF NoExecutor, RenderFails, Execute, TimeOut, Answer, Returns
  <2>4. QED
    BY <1>0, <2>1, <2>2, <2>3 DEF EInv, OneAtATime
<1>9. CASE Drop
  <2>1. UNCHANGED walkerVars /\ UNCHANGED <<current, outputs>> /\ pc' = "dropped"
    BY <1>9 DEF Drop
  <2>2. In("Running") = IF current' # 0 THEN {current} ELSE {}
    BY <1>9, NAssumption DEF Drop, EInv, OneAtATime, CurrentIsNode, Node
  <2>3. In("Running")' = In("Running") /\ In("Succeeded")' = In("Succeeded")
    BY <1>1, <2>1
  <2>4. UNCHANGED <<needs, origin, readyQueue>> /\ pc \in {"start", "executing"}
    BY <1>9, <2>1 DEF Drop, walkerVars
  <2>5. QED
    BY <1>0, <2>1, <2>2, <2>3, <2>4 DEF EInv, OneAtATime
<1>10. CASE Stopped \/ UNCHANGED vars
  BY <1>0, <1>1, <1>10 DEF Stopped, vars, engineVars, walkerVars, EInv, OneAtATime
<1>11. QED
  BY <1>2, <1>3, <1>4, <1>5, <1>6, <1>7, <1>8, <1>9, <1>10 DEF EngineNext, EngineStep

THEOREM EngineInvariant == EngineSafety => [](WInv /\ EInv)
<1>1. EngineSafety => []WInv
  BY EngineDrivesWalker, WalkerInvariant, PTL
<1>2. QED
  BY <1>1, InitEInv, StepEInv, PTL DEF EngineSafety

\* The engine never has two nodes running, and knows which one is.
THEOREM EngineIsSerial == EngineSafety => []OneAtATime
BY EngineInvariant, PTL DEF EInv

\* RunFinished means that every node of the pipeline has settled.
THEOREM EngineStrandsNothing == EngineSafety => []NothingStranded
<1>1. WInv /\ EInv /\ DrainedWhenIdle => NothingStranded
  BY DEF EInv, OneAtATime, NothingStranded, DrainedWhenIdle, Running
<1>2. QED
  BY <1>1, EngineInvariant, EngineDrivesWalker, WalkerDrains, PTL

\* A node is rendered with the outputs of everything upstream of it.
THEOREM EngineSuppliesOutputs == EngineSafety => []NeededOutputsPresent
<1>1. WInv /\ EInv => NeededOutputsPresent
  <2> SUFFICES ASSUME WInv, EInv, pc = "dispatch",
                      NEW a \in Node, Ancestor(needs, a, current)
               PROVE  a \in outputs
    BY DEF NeededOutputsPresent
  <2>1. current \in In("Running")
    BY DEF EInv, OneAtATime, Running
  <2>2. Needs(needs, current) \subseteq In("Succeeded")
    BY <2>1 DEF WInv, OfferedAfterNeeds
  <2>3. \A m \in In("Succeeded") : Needs(needs, m) \subseteq In("Succeeded")
    BY DEF WInv, OfferedAfterNeeds
  <2>4. In("Succeeded") \in SUBSET Node
    BY DEF In
  <2>5. a \in In("Succeeded")
    BY <2>2, <2>3, <2>4 DEF Ancestor
  <2>6. QED
    BY <2>5 DEF EInv
<1>2. QED
  BY <1>1, EngineInvariant, PTL

-----------------------------------------------------------------------------
\* The stream.  What its reader lists grows with it: g is f, and the elements
\* of r at the places that follow L.
Continues(g, f, L, r) ==
  /\ DOMAIN f \subseteq 1 .. L
  /\ DOMAIN g = DOMAIN f \cup {L + h : h \in 1 .. Len(r)}
  /\ \A i \in DOMAIN f : g[i] = f[i]
  /\ \A k \in 1 .. Len(r) : g[L + k] = r[k]

LEMMA ListsMore ==
  ASSUME NEW L \in Nat, NEW E, NEW q \in Seq(E), NEW r \in Seq(E), NEW f, NEW g,
         Lists(q, f), Continues(g, f, L, r)
  PROVE  Lists(q \o r, g)
<1>u. /\ DOMAIN f \subseteq 1 .. L
      /\ DOMAIN g = DOMAIN f \cup {L + h : h \in 1 .. Len(r)}
      /\ \A i \in DOMAIN f : g[i] = f[i]
      /\ \A k \in 1 .. Len(r) : g[L + k] = r[k]
  BY DEF Continues
<1> USE <1>u
<1>1. PICK at \in [DOMAIN q -> DOMAIN f] :
             /\ Range(at) = DOMAIN f
             /\ \A i, j \in DOMAIN q : i < j => at[i] < at[j]
             /\ \A i \in DOMAIN q : q[i] = f[at[i]]
  BY DEF Lists
<1> DEFINE m == Len(q)
           new == [k \in 1 .. m + Len(r) |-> IF k <= m THEN at[k] ELSE L + (k - m)]
<1>2. /\ m \in Nat /\ Len(r) \in Nat /\ DOMAIN q = 1 .. m
      /\ DOMAIN (q \o r) = 1 .. m + Len(r)
      /\ \A k \in 1 .. m : (q \o r)[k] = q[k]
      /\ \A k \in 1 .. Len(r) : (q \o r)[m + k] = r[k]
  OBVIOUS
<1>0. /\ DOMAIN f \subseteq DOMAIN g
      /\ \A k \in 1 .. Len(r) : L + k \in DOMAIN g
      /\ \A i \in DOMAIN g : i \in DOMAIN f \/ \E k \in 1 .. Len(r) : i = L + k
  OBVIOUS
<1> HIDE DEF m
<1>3. \A k \in 1 .. m : at[k] \in DOMAIN f /\ at[k] \in DOMAIN g /\ at[k] \in 1 .. L
  BY <1>0, <1>1, <1>2
<1>a. DOMAIN new = 1 .. m + Len(r)
      /\ (\A k \in 1 .. m : new[k] = at[k])
      /\ \A k \in 1 .. Len(r) : new[m + k] = L + k /\ m + k \in 1 .. m + Len(r)
  BY <1>2
<1>4. \A k \in 1 .. m + Len(r) : k \in 1 .. m \/ \E h \in 1 .. Len(r) : k = m + h
  <2> TAKE k \in 1 .. m + Len(r)
  <2>1. k > m => k - m \in 1 .. Len(r) /\ k = m + (k - m) BY <1>2
  <2> QED BY <1>2, <2>1
<1>b. new = [k \in DOMAIN new |-> new[k]] OBVIOUS
<1>c. \A k \in 1 .. m + Len(r) : k > m => new[k] = L + (k - m) BY <1>2
<1> HIDE DEF new
<1>d. \A k \in 1 .. m + Len(r) : new[k] \in DOMAIN g
  <2> TAKE k \in 1 .. m + Len(r)
  <2>1. CASE k \in 1 .. m BY <1>3, <1>a, <2>1
  <2>2. ASSUME NEW h \in 1 .. Len(r), k = m + h PROVE new[k] \in DOMAIN g BY <1>0, <1>a, <2>2
  <2> QED BY <1>4, <2>1, <2>2
<1>5. new \in [1 .. m + Len(r) -> DOMAIN g] BY <1>a, <1>b, <1>d
<1>6. Range(new) = DOMAIN g
  <2>1. Range(new) \subseteq DOMAIN g BY <1>a, <1>d DEF Range
  <2>2. \A i \in DOMAIN f : i \in Range(new)
    <3> TAKE i \in DOMAIN f
    <3>1. i \in Range(at) /\ DOMAIN at = 1 .. m BY <1>1, <1>2
    <3>2. PICK k \in 1 .. m : at[k] = i BY <3>1 DEF Range
    <3>3. k \in DOMAIN new /\ new[k] = i BY <1>2, <1>a, <3>2
    <3> QED BY <3>3 DEF Range
  <2>3. \A k \in 1 .. Len(r) : L + k \in Range(new)
    <3> TAKE k \in 1 .. Len(r)
    <3>1. m + k \in DOMAIN new /\ new[m + k] = L + k BY <1>a
    <3> QED BY <3>1 DEF Range
  <2> QED BY <1>0, <2>1, <2>2, <2>3
<1>7. \A i, j \in 1 .. m + Len(r) : i < j => new[i] < new[j]
  <2> SUFFICES ASSUME NEW i \in 1 .. m + Len(r), NEW j \in 1 .. m + Len(r), i < j
               PROVE  new[i] < new[j]
    OBVIOUS
  <2>1. CASE j <= m
    <3>1. i \in 1 .. m /\ j \in 1 .. m BY <1>2, <2>1
    <3>2. new[i] = at[i] /\ new[j] = at[j] BY <1>a, <3>1
    <3> QED BY <1>1, <1>2, <3>1, <3>2
  <2>2. CASE i <= m /\ m < j
    <3>1. i \in 1 .. m BY <1>2, <2>2
    <3>2. new[i] \in 1 .. L BY <1>3, <1>a, <3>1
    <3>3. new[j] = L + (j - m) BY <1>c, <2>2
    <3> QED BY <1>2, <2>2, <3>2, <3>3
  <2>3. CASE m < i
    <3>1. new[i] = L + (i - m) /\ new[j] = L + (j - m) BY <1>2, <1>c, <2>3
    <3> QED BY <1>2, <2>3, <3>1
  <2> QED BY <1>2, <2>1, <2>2, <2>3
<1>8. \A k \in 1 .. m + Len(r) : (q \o r)[k] = g[new[k]]
  <2> TAKE k \in 1 .. m + Len(r)
  <2>1. CASE k \in 1 .. m
    <3>1. q[k] = f[at[k]] /\ g[at[k]] = f[at[k]] BY <1>1, <1>2, <1>3, <2>1
    <3> QED BY <1>2, <1>a, <2>1, <3>1
  <2>2. ASSUME NEW h \in 1 .. Len(r), k = m + h PROVE (q \o r)[k] = g[new[k]]
    <3>1. new[k] = L + h /\ (q \o r)[k] = r[h] BY <1>2, <1>a, <2>2
    <3> QED BY <3>1
  <2> QED BY <1>4, <2>1, <2>2
<1> DEFINE w == q \o r
<1> HIDE DEF w
<1>9. DOMAIN w = 1 .. m + Len(r) /\ \A k \in 1 .. m + Len(r) : w[k] = g[new[k]] BY <1>2, <1>8 DEF w
<1>e. Lists(w, g) BY <1>5, <1>6, <1>7, <1>9, Zenon DEF Lists
<1> QED BY <1>e DEF w

LEMMA ListsNothing == ASSUME NEW f, DOMAIN f = {} PROVE Lists(<<>>, f)
<1>1. <<>> \in [DOMAIN <<>> -> DOMAIN f] /\ Range(<<>>) = {} /\ DOMAIN <<>> = {} BY DEF Range
<1> QED BY <1>1 DEF Lists

Reasons == {"none", "no_executor", "template", "executor", "payload", "timed_out"}

Event ==
  [event : {"node_started", "node_timed_out"}, node : Node]
    \cup [event : {"node_finished"}, node : Node, failure : Reasons]
    \cup [event : {"node_skipped"}, node : Node, upstream : Node]
    \cup [event : {"run_started"}]
    \cup [event : {"run_finished"}, ok : BOOLEAN, failed : Seq(Node), skipped : Seq(Node)]

\* The events appended are not about n, or the last one is, or one of them.
LEMMA EventsKeep ==
  ASSUME NEW s \in Seq(Event), NEW t \in Seq(Event), NEW n, NEW es \in Seq(Event),
         EventsAre(s, n, es), AboutNode(t, n) = {}
  PROVE  EventsAre(s \o t, n, es)
<1>1. Len(s) \in Nat /\ DOMAIN s = 1 .. Len(s) /\ DOMAIN (s \o t) = 1 .. Len(s) + Len(t) /\ Len(t) \in Nat
      /\ DOMAIN t = 1 .. Len(t)
      /\ \A i \in DOMAIN s : (s \o t)[i] = s[i]
      /\ \A k \in DOMAIN t : (s \o t)[Len(s) + k] = t[k]
  OBVIOUS
<1>2. AboutNode(s \o t, n) = AboutNode(s, n)
  <2>1. \A i \in DOMAIN (s \o t) : i \in DOMAIN s \/ (i - Len(s) \in DOMAIN t /\ i = Len(s) + (i - Len(s)))
    BY <1>1
  <2>2. \A k \in DOMAIN t : Len(s) + k \notin AboutNode(s \o t, n) BY <1>1 DEF AboutNode
  <2>3. \A i \in DOMAIN s : i \in AboutNode(s \o t, n) <=> i \in AboutNode(s, n) BY <1>1 DEF AboutNode
  <2>4. AboutNode(s \o t, n) \subseteq DOMAIN (s \o t) /\ AboutNode(s, n) \subseteq DOMAIN s BY DEF AboutNode
  <2> QED BY <2>1, <2>2, <2>3, <2>4
<1>3. Selected(s \o t, AboutNode(s \o t, n)) = Selected(s, AboutNode(s, n))
  <2>1. \A i \in AboutNode(s, n) : (s \o t)[i] = s[i] BY <1>1 DEF AboutNode
  <2> QED BY <1>2, <2>1 DEF Selected
<1> QED BY <1>3 DEF EventsAre

LEMMA EventsAdd ==
  ASSUME NEW s \in Seq(Event), NEW t \in Seq(Event), NEW n, NEW es \in Seq(Event),
         EventsAre(s, n, es), NEW k \in DOMAIN t, AboutNode(t, n) = {k}
  PROVE  EventsAre(s \o t, n, Append(es, t[k]))
<1>1. Len(s) \in Nat /\ DOMAIN s = 1 .. Len(s) /\ DOMAIN (s \o t) = 1 .. Len(s) + Len(t) /\ Len(t) \in Nat
      /\ DOMAIN t = 1 .. Len(t)
      /\ \A i \in DOMAIN s : (s \o t)[i] = s[i]
      /\ \A h \in DOMAIN t : (s \o t)[Len(s) + h] = t[h]
  OBVIOUS
<1> DEFINE r == <<t[k]>>
           f == Selected(s, AboutNode(s, n))
           g == Selected(s \o t, AboutNode(s \o t, n))
           L == Len(s) + k - 1
<1>2. AboutNode(s \o t, n) = AboutNode(s, n) \cup {L + 1}
  <2>1. \A i \in DOMAIN (s \o t) : i \in DOMAIN s \/ (i - Len(s) \in DOMAIN t /\ i = Len(s) + (i - Len(s)))
    BY <1>1
  <2>2. \A h \in DOMAIN t : Len(s) + h \in AboutNode(s \o t, n) <=> h \in AboutNode(t, n)
    <3> TAKE h \in DOMAIN t
    <3>1. (s \o t)[Len(s) + h] = t[h] /\ Len(s) + h \in DOMAIN (s \o t) BY <1>1
    <3> QED BY <3>1 DEF AboutNode
  <2>3. \A i \in DOMAIN s : i \in AboutNode(s \o t, n) <=> i \in AboutNode(s, n) BY <1>1 DEF AboutNode
  <2>4. AboutNode(s \o t, n) \subseteq DOMAIN (s \o t) /\ AboutNode(s, n) \subseteq DOMAIN s BY DEF AboutNode
  <2>5. L + 1 = Len(s) + k BY <1>1
  <2> QED BY <1>1, <2>1, <2>2, <2>3, <2>4, <2>5
<1>3. r \in Seq(Event) /\ Len(r) = 1 /\ r[1] = t[k] /\ es \o r = Append(es, t[k]) BY <1>1
<1>4. L \in Nat /\ L + 1 = Len(s) + k /\ Len(s) <= L BY <1>1
<1>5. DOMAIN f = AboutNode(s, n) /\ DOMAIN g = AboutNode(s \o t, n) BY DEF Selected
<1>6. AboutNode(s, n) \subseteq 1 .. Len(s) BY DEF AboutNode
<1>7. \A i \in DOMAIN f : g[i] = f[i]
  <2>1. \A i \in AboutNode(s, n) : (s \o t)[i] = s[i] BY <1>1, <1>6
  <2> QED BY <1>2, <1>5, <2>1 DEF Selected
<1>8. \A h \in 1 .. Len(r) : g[L + h] = r[h]
  <2>1. g[L + 1] = (s \o t)[L + 1] BY <1>2 DEF Selected
  <2>2. g[L + 1] = t[k] BY <1>1, <1>4, <2>1
  <2> QED BY <1>3, <2>2
<1>9. Lists(es, f) BY DEF EventsAre
<1>a. DOMAIN f \subseteq 1 .. L BY <1>1, <1>4, <1>5, <1>6
<1>b. DOMAIN g = DOMAIN f \cup {L + h : h \in 1 .. Len(r)}
  <2>1. {L + h : h \in 1 .. Len(r)} = {L + 1} BY <1>3, <1>4
  <2> QED BY <1>2, <1>5, <2>1
<1>f. L \in Nat BY <1>4
<1>g. r \in Seq(Event) BY <1>3
<1> HIDE DEF f, g, r, L
<1>c. Lists(es \o r, g)
  <2> DEFINE E == Event
  <2>1. es \in Seq(E) /\ r \in Seq(E) BY <1>g
  <2> HIDE DEF E
  <2>2. Continues(g, f, L, r) BY <1>7, <1>8, <1>a, <1>b DEF Continues
  <2> QED BY <1>f, <1>9, <2>1, <2>2, ListsMore
<1>d. es \o r = Append(es, t[k]) BY <1>3
<1>e. Lists(Append(es, t[k]), g) BY <1>c, <1>d, Zenon
<1> QED BY <1>e, Zenon DEF EventsAre, g

\* The same for the nodes listed in RunFinished: none of the events appended
\* counts, or each of them does.
LEMMA NodesKeep ==
  ASSUME NEW s \in Seq(Event), NEW t \in Seq(Event), NEW q,
         NEW I \in SUBSET DOMAIN s, Lists(q, NodesAt(s, I))
  PROVE  Lists(q, NodesAt(s \o t, I))
<1>1. \A i \in I : (s \o t)[i] = s[i] OBVIOUS
<1>2. NodesAt(s \o t, I) = NodesAt(s, I) BY <1>1 DEF NodesAt
<1> QED BY <1>2

LEMMA NodesAdd ==
  ASSUME NEW s \in Seq(Event), NEW t \in Seq(Event), NEW q \in Seq(Node), NEW r \in Seq(Node),
         NEW I \in SUBSET DOMAIN s, Lists(q, NodesAt(s, I)),
         Len(r) = Len(t), \A k \in DOMAIN t : t[k].node = r[k]
  PROVE  Lists(q \o r, NodesAt(s \o t, I \cup {Len(s) + k : k \in DOMAIN t}))
<1>1. Len(s) \in Nat /\ DOMAIN s = 1 .. Len(s) /\ Len(t) \in Nat /\ DOMAIN t = 1 .. Len(t)
      /\ \A i \in DOMAIN s : (s \o t)[i] = s[i]
      /\ \A h \in DOMAIN t : (s \o t)[Len(s) + h] = t[h]
  OBVIOUS
<1> DEFINE J == I \cup {Len(s) + k : k \in DOMAIN t}
           f == NodesAt(s, I)
           g == NodesAt(s \o t, J)
<1>2. DOMAIN f = I /\ DOMAIN g = J BY DEF NodesAt
<1>3. \A i \in DOMAIN f : g[i] = f[i] BY <1>1 DEF NodesAt
<1>4. \A k \in 1 .. Len(r) : g[Len(s) + k] = r[k]
  <2> TAKE k \in 1 .. Len(r)
  <2>1. k \in DOMAIN t /\ Len(s) + k \in J BY <1>1
  <2>2. g[Len(s) + k] = (s \o t)[Len(s) + k].node BY <2>1 DEF NodesAt
  <2> QED BY <1>1, <2>1, <2>2
<1>5. DOMAIN f \subseteq 1 .. Len(s) /\ DOMAIN g = DOMAIN f \cup {Len(s) + h : h \in 1 .. Len(r)}
  BY <1>1, <1>2
<1>7. Lists(q, f) OBVIOUS
<1>8. Len(s) \in Nat BY <1>1
<1> HIDE DEF f, g
<1>6. Lists(q \o r, g)
  <2> DEFINE E == Node
             L == Len(s)
  <2>1. q \in Seq(E) /\ r \in Seq(E) OBVIOUS
  <2>2. L \in Nat /\ Continues(g, f, L, r) BY <1>3, <1>4, <1>5, <1>8 DEF Continues
  <2> HIDE DEF E, L
  <2> QED BY <1>7, <2>1, <2>2, ListsMore
<1> QED BY <1>6 DEF g

\* What the positions of the failures and of the skips gain.
LEMMA PositionsGrow ==
  ASSUME NEW s \in Seq(Event), NEW t \in Seq(Event)
  PROVE  /\ FailedAt(s) \subseteq DOMAIN s /\ SkippedAt(s) \subseteq DOMAIN s
         /\ FailedAt(s \o t) = FailedAt(s) \cup {Len(s) + k : k \in FailedAt(t)}
         /\ SkippedAt(s \o t) = SkippedAt(s) \cup {Len(s) + k : k \in SkippedAt(t)}
<1>1. Len(s) \in Nat /\ DOMAIN s = 1 .. Len(s) /\ DOMAIN (s \o t) = 1 .. Len(s) + Len(t) /\ Len(t) \in Nat
      /\ DOMAIN t = 1 .. Len(t)
      /\ \A i \in DOMAIN s : (s \o t)[i] = s[i]
      /\ \A h \in DOMAIN t : (s \o t)[Len(s) + h] = t[h] /\ Len(s) + h \in DOMAIN (s \o t)
  OBVIOUS
<1>2. \A i \in DOMAIN (s \o t) : i \in DOMAIN s \/ \E k \in DOMAIN t : i = Len(s) + k
  <2> TAKE i \in DOMAIN (s \o t)
  <2>1. i \in DOMAIN s \/ (i - Len(s) \in DOMAIN t /\ i = Len(s) + (i - Len(s))) BY <1>1
  <2> QED BY <2>1
<1>3. DOMAIN s \subseteq DOMAIN (s \o t) BY <1>1
<1> DEFINE w == s \o t
<1>4. /\ \A i \in DOMAIN w : i \in DOMAIN s \/ \E k \in DOMAIN t : i = Len(s) + k
      /\ DOMAIN s \subseteq DOMAIN w
      /\ \A i \in DOMAIN s : w[i] = s[i]
      /\ \A h \in DOMAIN t : w[Len(s) + h] = t[h] /\ Len(s) + h \in DOMAIN w
  BY <1>1, <1>2, <1>3
<1> HIDE DEF w
<1>5. FailedAt(w) = FailedAt(s) \cup {Len(s) + k : k \in FailedAt(t)}
  <2>1. \A i \in DOMAIN s : i \in FailedAt(w) <=> i \in FailedAt(s) BY <1>4 DEF FailedAt
  <2>2. \A h \in DOMAIN t : Len(s) + h \in FailedAt(w) <=> h \in FailedAt(t) BY <1>4 DEF FailedAt
  <2>3. FailedAt(w) \subseteq DOMAIN w /\ FailedAt(s) \subseteq DOMAIN s /\ FailedAt(t) \subseteq DOMAIN t BY DEF FailedAt
  <2>4. \A i \in FailedAt(w) : i \in FailedAt(s) \/ \E k \in FailedAt(t) : i = Len(s) + k BY <1>4, <2>1, <2>2, <2>3
  <2>5. FailedAt(s) \subseteq FailedAt(w) BY <2>1, <2>3, <1>4
  <2>6. \A k \in FailedAt(t) : Len(s) + k \in FailedAt(w) BY <2>2, <2>3
  <2> QED BY <2>4, <2>5, <2>6
<1>6. SkippedAt(w) = SkippedAt(s) \cup {Len(s) + k : k \in SkippedAt(t)}
  <2>1. \A i \in DOMAIN s : i \in SkippedAt(w) <=> i \in SkippedAt(s) BY <1>4 DEF SkippedAt
  <2>2. \A h \in DOMAIN t : Len(s) + h \in SkippedAt(w) <=> h \in SkippedAt(t) BY <1>4 DEF SkippedAt
  <2>3. SkippedAt(w) \subseteq DOMAIN w /\ SkippedAt(s) \subseteq DOMAIN s /\ SkippedAt(t) \subseteq DOMAIN t BY DEF SkippedAt
  <2>4. \A i \in SkippedAt(w) : i \in SkippedAt(s) \/ \E k \in SkippedAt(t) : i = Len(s) + k BY <1>4, <2>1, <2>2, <2>3
  <2>5. SkippedAt(s) \subseteq SkippedAt(w) BY <2>1, <2>3, <1>4
  <2>6. \A k \in SkippedAt(t) : Len(s) + k \in SkippedAt(w) BY <2>2, <2>3
  <2> QED BY <2>4, <2>5, <2>6
<1> QED BY <1>5, <1>6 DEF w, FailedAt, SkippedAt

LEMMA PositionsKeep ==
  ASSUME NEW s \in Seq(Event), NEW t \in Seq(Event)
  PROVE  /\ FailedAt(s) \in SUBSET DOMAIN s /\ SkippedAt(s) \in SUBSET DOMAIN s
         /\ FailedAt(t) = {} => FailedAt(s \o t) = FailedAt(s)
         /\ SkippedAt(t) = {} => SkippedAt(s \o t) = SkippedAt(s)
         /\ FailedAt(t) = DOMAIN t => FailedAt(s \o t) = FailedAt(s) \cup {Len(s) + h : h \in DOMAIN t}
         /\ SkippedAt(t) = DOMAIN t => SkippedAt(s \o t) = SkippedAt(s) \cup {Len(s) + h : h \in DOMAIN t}
<1> DEFINE up(K) == {Len(s) + h : h \in K}
<1>1. /\ FailedAt(s \o t) = FailedAt(s) \cup up(FailedAt(t))
      /\ SkippedAt(s \o t) = SkippedAt(s) \cup up(SkippedAt(t))
  BY PositionsGrow
<1>2. up({}) = {} OBVIOUS
<1>3. up(DOMAIN t) = {Len(s) + h : h \in DOMAIN t} OBVIOUS
<1> HIDE DEF up
<1>4. FailedAt(s) \in SUBSET DOMAIN s /\ SkippedAt(s) \in SUBSET DOMAIN s BY PositionsGrow
<1>5. FailedAt(t) = {} => FailedAt(s \o t) = FailedAt(s) BY <1>1, <1>2
<1>6. SkippedAt(t) = {} => SkippedAt(s \o t) = SkippedAt(s) BY <1>1, <1>2
<1>7. FailedAt(t) = DOMAIN t => FailedAt(s \o t) = FailedAt(s) \cup {Len(s) + h : h \in DOMAIN t}
  BY <1>1, <1>3, Zenon
<1>8. SkippedAt(t) = DOMAIN t => SkippedAt(s \o t) = SkippedAt(s) \cup {Len(s) + h : h \in DOMAIN t}
  BY <1>1, <1>3, Zenon
<1> QED BY <1>4, <1>5, <1>6, <1>7, <1>8, Zenon

LEMMA EventTypes ==
  ASSUME NEW n \in Node
  PROVE  /\ Started(n) \in Event /\ TimedOut(n) \in Event
         /\ \A f \in Reasons : Finished(n, f) \in Event
         /\ \A u \in Node : [event |-> "node_skipped", node |-> n, upstream |-> u] \in Event
BY DEF Started, TimedOut, Finished, Event

\* One event of a node: whom it is about, and what it counts as.
LEMMA OneEvent ==
  ASSUME NEW n
  PROVE  /\ \A m : AboutNode(<<Started(n)>>, m) = IF m = n THEN {1} ELSE {}
         /\ \A m : AboutNode(<<TimedOut(n)>>, m) = IF m = n THEN {1} ELSE {}
         /\ \A m, f : AboutNode(<<Finished(n, f)>>, m) = IF m = n THEN {1} ELSE {}
         /\ FailedAt(<<Started(n)>>) = {} /\ FailedAt(<<TimedOut(n)>>) = {}
         /\ \A f : FailedAt(<<Finished(n, f)>>) = IF f = "none" THEN {} ELSE {1}
         /\ SkippedAt(<<Started(n)>>) = {} /\ SkippedAt(<<TimedOut(n)>>) = {}
         /\ \A f : SkippedAt(<<Finished(n, f)>>) = {}
<1>1. \A e : DOMAIN <<e>> = {1} /\ <<e>>[1] = e OBVIOUS
<1>2. /\ "node" \in DOMAIN Started(n) /\ Started(n).node = n /\ Started(n).event = "node_started"
      /\ "node" \in DOMAIN TimedOut(n) /\ TimedOut(n).node = n /\ TimedOut(n).event = "node_timed_out"
      /\ \A f : /\ "node" \in DOMAIN Finished(n, f) /\ Finished(n, f).node = n
                /\ Finished(n, f).event = "node_finished" /\ Finished(n, f).failure = f
  BY DEF Started, TimedOut, Finished
<1>3. \A e, m : ("node" \in DOMAIN e /\ e.node = n) => AboutNode(<<e>>, m) = IF m = n THEN {1} ELSE {}
  BY <1>1 DEF AboutNode
<1>4. \A e : FailedAt(<<e>>) = IF e.event = "node_finished" /\ e.failure # "none" THEN {1} ELSE {}
  BY <1>1 DEF FailedAt
<1>5. \A e : SkippedAt(<<e>>) = IF e.event = "node_skipped" THEN {1} ELSE {}
  BY <1>1 DEF SkippedAt
<1> QED BY <1>2, <1>3, <1>4, <1>5

\* The events of the run itself.
LEMMA RunEvent ==
  ASSUME NEW e \in [event : {"run_started"}]
                     \cup [event : {"run_finished"}, ok : BOOLEAN, failed : Seq(Node), skipped : Seq(Node)]
  PROVE  (\A m : AboutNode(<<e>>, m) = {}) /\ FailedAt(<<e>>) = {} /\ SkippedAt(<<e>>) = {}
<1>1. DOMAIN <<e>> = {1} /\ <<e>>[1] = e OBVIOUS
<1>2. "node" \notin DOMAIN e /\ e.event # "node_finished" /\ e.event # "node_skipped" OBVIOUS
<1>3. \A m : AboutNode(<<e>>, m) = {} BY <1>1, <1>2 DEF AboutNode
<1> QED BY <1>1, <1>2, <1>3 DEF FailedAt, SkippedAt

Sums(s, f, k) ==
  Lists(f, NodesAt(s, FailedAt(s))) /\ Lists(k, NodesAt(s, SkippedAt(s)))

LEMMA SumsKeep ==
  ASSUME NEW s \in Seq(Event), NEW t \in Seq(Event), NEW f, NEW k, Sums(s, f, k),
         FailedAt(t) = {}, SkippedAt(t) = {}
  PROVE  Sums(s \o t, f, k)
<1>1. FailedAt(s \o t) = FailedAt(s) /\ SkippedAt(s \o t) = SkippedAt(s)
      /\ FailedAt(s) \in SUBSET DOMAIN s /\ SkippedAt(s) \in SUBSET DOMAIN s
  BY PositionsKeep, Zenon
<1> QED BY <1>1, NodesKeep DEF Sums

LEMMA SumsFail ==
  ASSUME NEW s \in Seq(Event), NEW n \in Node, NEW e \in Event, NEW f \in Seq(Node), NEW k, Sums(s, f, k),
         FailedAt(<<e>>) = {1}, SkippedAt(<<e>>) = {}, e.node = n
  PROVE  Sums(s \o <<e>>, Append(f, n), k)
<1> DEFINE t == <<e>>
           r == <<n>>
<1>1. t \in Seq(Event) /\ DOMAIN t = {1} /\ t[1] = e /\ r \in Seq(Node) /\ Len(r) = Len(t) /\ r[1] = n
      /\ f \o r = Append(f, n)
  OBVIOUS
<1>2. \A h \in DOMAIN t : t[h].node = r[h] BY <1>1
<1>3. FailedAt(t) = DOMAIN t BY <1>1
<1>8. SkippedAt(t) = {} OBVIOUS
<1> HIDE DEF t, r
<1>4. FailedAt(s \o t) = FailedAt(s) \cup {Len(s) + h : h \in DOMAIN t} /\ SkippedAt(s \o t) = SkippedAt(s)
      /\ FailedAt(s) \in SUBSET DOMAIN s /\ SkippedAt(s) \in SUBSET DOMAIN s
  BY <1>1, <1>3, <1>8, PositionsKeep, Zenon
<1>5. Lists(f \o r, NodesAt(s \o t, FailedAt(s) \cup {Len(s) + h : h \in DOMAIN t}))
  BY <1>1, <1>2, <1>4, NodesAdd DEF Sums
<1>6. Lists(k, NodesAt(s \o t, SkippedAt(s))) BY <1>1, <1>4, NodesKeep DEF Sums
<1>7. Sums(s \o t, f \o r, k) BY <1>4, <1>5, <1>6 DEF Sums
<1> QED BY <1>1, <1>7 DEF t

LEMMA SumsSkip ==
  ASSUME NEW s \in Seq(Event), NEW t \in Seq(Event), NEW q \in Seq(Node), NEW f, NEW k \in Seq(Node),
         Sums(s, f, k), FailedAt(t) = {}, SkippedAt(t) = DOMAIN t,
         Len(q) = Len(t), \A h \in DOMAIN t : t[h].node = q[h]
  PROVE  Sums(s \o t, f, k \o q)
<1>1. SkippedAt(s \o t) = SkippedAt(s) \cup {Len(s) + h : h \in DOMAIN t} /\ FailedAt(s \o t) = FailedAt(s)
      /\ FailedAt(s) \in SUBSET DOMAIN s /\ SkippedAt(s) \in SUBSET DOMAIN s
  BY PositionsKeep, Zenon
<1>2. Lists(k \o q, NodesAt(s \o t, SkippedAt(s) \cup {Len(s) + h : h \in DOMAIN t}))
  BY <1>1, NodesAdd DEF Sums
<1>3. Lists(f, NodesAt(s \o t, FailedAt(s))) BY <1>1, NodesKeep DEF Sums
<1> QED BY <1>1, <1>2, <1>3 DEF Sums

LEMMA ToldKeep ==
  ASSUME NEW s \in Seq(Event), NEW t \in Seq(Event), NEW n \in Node, NEW st,
         Told(s, n, st), AboutNode(t, n) = {}
  PROVE  Told(s \o t, n, st)
<1>1. \A es \in Seq(Event) : EventsAre(s, n, es) => EventsAre(s \o t, n, es) BY EventsKeep
<1>2. /\ <<>> \in Seq(Event) /\ <<Started(n)>> \in Seq(Event) /\ <<Started(n), TimedOut(n)>> \in Seq(Event)
      /\ \A f \in Reasons : /\ <<Started(n), Finished(n, f)>> \in Seq(Event)
                            /\ <<Started(n), TimedOut(n), Finished(n, f)>> \in Seq(Event)
      /\ \A u \in Node : <<[event |-> "node_skipped", node |-> n, upstream |-> u]>> \in Seq(Event)
  BY EventTypes
<1> DEFINE G(es) == EventsAre(s, n, es) => EventsAre(s \o t, n, es)
<1>3. \A es \in Seq(Event) : G(es) BY <1>1
<1> HIDE DEF G
<1>4. G(<<>>) /\ G(<<Started(n)>>) /\ G(<<Started(n), TimedOut(n)>>) BY <1>2, <1>3
<1>8. \A f \in Reasons : G(<<Started(n), Finished(n, f)>>) /\ G(<<Started(n), TimedOut(n), Finished(n, f)>>)
  BY <1>2, <1>3
<1>9. /\ "none" \in Reasons /\ "timed_out" \in Reasons
      /\ \A f \in {"no_executor", "template", "executor", "payload"} : f \in Reasons
  BY DEF Reasons
<1>5. G(<<Started(n), Finished(n, "none")>>) /\ G(<<Started(n), TimedOut(n), Finished(n, "timed_out")>>)
  BY <1>8, <1>9, Zenon
<1>6. \A f \in {"no_executor", "template", "executor", "payload"} : G(<<Started(n), Finished(n, f)>>)
  BY <1>8, <1>9, Zenon
<1>7. \A u \in Node : G(<<[event |-> "node_skipped", node |-> n, upstream |-> u]>>) BY <1>2, <1>3
<1> QED BY <1>4, <1>5, <1>6, <1>7, Zenon DEF Told, G

LEMMA StatusNames ==
  /\ statusOf("Pending") = "waiting" /\ statusOf("Ready") = "waiting" /\ statusOf("Running") = "running"
  /\ statusOf("Succeeded") = "ok" /\ statusOf("Failed") = "failed" /\ statusOf("Skipped") = "skipped"
BY DEF statusOf

LEMMA ToldEvents ==
  ASSUME NEW s, NEW n
  PROVE  /\ Told(s, n, "waiting") <=> EventsAre(s, n, <<>>)
         /\ EventsAre(s, n, <<Started(n)>>) \/ EventsAre(s, n, <<Started(n), TimedOut(n)>>) <=> Told(s, n, "running")
         /\ EventsAre(s, n, <<Started(n), Finished(n, "none")>>) => Told(s, n, "ok")
         /\ EventsAre(s, n, <<Started(n), TimedOut(n), Finished(n, "timed_out")>>) => Told(s, n, "failed")
         /\ \A f \in {"no_executor", "template", "executor", "payload"} :
              EventsAre(s, n, <<Started(n), Finished(n, f)>>) => Told(s, n, "failed")
         /\ \A u \in Node :
              EventsAre(s, n, <<[event |-> "node_skipped", node |-> n, upstream |-> u]>>) => Told(s, n, "skipped")
BY DEF Told

\* Appending one event about n.
LEMMA OneMore ==
  ASSUME NEW s \in Seq(Event), NEW n \in Node, NEW e \in Event,
         \A m : AboutNode(<<e>>, m) = IF m = n THEN {1} ELSE {}
  PROVE  /\ Append(s, e) = s \o <<e>> /\ s \o <<e>> \in Seq(Event)
         /\ \A m \in Node : \A st : m # n /\ Told(s, m, st) => Told(s \o <<e>>, m, st)
         /\ \A es \in Seq(Event) : EventsAre(s, n, es) => EventsAre(s \o <<e>>, n, Append(es, e))
<1> DEFINE t == <<e>>
<1>1. t \in Seq(Event) /\ 1 \in DOMAIN t /\ t[1] = e /\ \A m : AboutNode(t, m) = IF m = n THEN {1} ELSE {}
  OBVIOUS
<1>2. Append(s, e) = s \o t /\ s \o t \in Seq(Event) OBVIOUS
<1> HIDE DEF t
<1>3. ASSUME NEW m \in Node, NEW st, m # n, Told(s, m, st) PROVE Told(s \o t, m, st)
  <2>1. AboutNode(t, m) = {} BY <1>1, <1>3
  <2> QED BY <1>1, <1>3, <2>1, ToldKeep
<1>4. ASSUME NEW es \in Seq(Event), EventsAre(s, n, es) PROVE EventsAre(s \o t, n, Append(es, e))
  <2>1. AboutNode(t, n) = {1} BY <1>1
  <2>2. EventsAre(s \o t, n, Append(es, t[1])) BY <1>1, <1>4, <2>1, EventsAdd
  <2> QED BY <1>1, <2>2
<1> QED BY <1>2, <1>3, <1>4 DEF t

\* What the engine's stream says at every moment.  A node that the cascade
\* in progress has skipped is not reported yet; the others are told as the
\* walker has them.
Unreported(n) == pc = "cascade" /\ n \in Range(skips)

NodesTold ==
  \A n \in Node :
    /\ Unreported(n) => EventsAre(stream, n, <<>>)
    /\ ~ Unreported(n) => Told(stream, n, statusOf(state[n]))

CurrentTold ==
  /\ pc \in {"dispatch", "executing"} => EventsAre(stream, current, <<Started(current)>>)
  /\ pc = "settle" /\ reply.failure = "timed_out" =>
       EventsAre(stream, current, <<Started(current), TimedOut(current)>>)
  /\ pc = "settle" /\ reply.failure # "timed_out" => EventsAre(stream, current, <<Started(current)>>)
  /\ reply \in {Ok, PayloadFailure} \cup Failures

RunTold ==
  /\ stream \in Seq(Event) /\ failed \in Seq(Node) /\ skipped \in Seq(Node) /\ runOk \in BOOLEAN
  /\ Sums(stream, failed, skipped)
  /\ runOk <=> failed = <<>>
  /\ failed = <<>> => skipped = <<>> /\ origin = 0

SkipsFresh == origin # 0 => IsInjective(skips) /\ Range(skips) \subseteq In("Skipped")

StreamInv == NodesTold /\ CurrentTold /\ RunTold /\ SkipsFresh

LEMMA InitStreamInv == EngineInit => StreamInv
<1> SUFFICES ASSUME EngineInit PROVE StreamInv OBVIOUS
<1>1. stream = <<>> /\ failed = <<>> /\ skipped = <<>> /\ runOk = TRUE /\ origin = 0 /\ pc = "start" /\ reply = Ok
  BY DEF EngineInit, Init
<1>2. \A n : AboutNode(<<>>, n) = {} BY DEF AboutNode
<1>3. FailedAt(<<>>) = {} /\ SkippedAt(<<>>) = {} BY DEF FailedAt, SkippedAt
<1>4. \A n : EventsAre(<<>>, n, <<>>)
  <2> TAKE n
  <2>1. DOMAIN Selected(<<>>, AboutNode(<<>>, n)) = {} BY <1>2 DEF Selected
  <2> QED BY <2>1, ListsNothing DEF EventsAre
<1>5. Sums(<<>>, <<>>, <<>>)
  <2>1. DOMAIN NodesAt(<<>>, {}) = {} BY DEF NodesAt
  <2> QED BY <1>3, <2>1, ListsNothing DEF Sums
<1>6. \A n \in Node : statusOf(state[n]) = "waiting"
  <2>1. \A n \in Node : state[n] = "Ready" \/ state[n] = "Pending" BY DEF EngineInit, Init
  <2> QED BY <2>1, StatusNames
<1>7. NodesTold BY <1>1, <1>4, <1>6, ToldEvents DEF NodesTold, Unreported
<1>8. CurrentTold BY <1>1 DEF CurrentTold
<1>9. <<>> \in Seq(Event) /\ <<>> \in Seq(Node) OBVIOUS
<1> QED BY <1>1, <1>5, <1>7, <1>8, <1>9 DEF StreamInv, RunTold, SkipsFresh

\* A step that reports nothing, and one that reports on the run as a whole.
LEMMA QuietStream ==
  ASSUME StreamInv, UNCHANGED <<stream, failed, skipped, runOk, state, skips, origin>>,
         pc' = "cascade" <=> pc = "cascade", CurrentTold'
  PROVE  StreamInv'
<1>1. NodesTold' BY DEF StreamInv, NodesTold, Unreported
<1>2. RunTold' BY DEF StreamInv, RunTold
<1>3. SkipsFresh' BY DEF StreamInv, SkipsFresh, In
<1> QED BY <1>1, <1>2, <1>3 DEF StreamInv

LEMMA RunEventStream ==
  ASSUME StreamInv, UNCHANGED <<failed, skipped, runOk, state, skips, origin, reply>>,
         NEW e \in [event : {"run_started"}]
                     \cup [event : {"run_finished"}, ok : BOOLEAN, failed : Seq(Node), skipped : Seq(Node)],
         stream' = Append(stream, e), pc \in {"start", "loop"}, pc' \in {"setup", "finished"}
  PROVE  StreamInv'
<1> DEFINE t == <<e>>
<1>1. /\ e \in Event /\ (\A m : AboutNode(t, m) = {}) /\ FailedAt(t) = {} /\ SkippedAt(t) = {}
  BY RunEvent DEF Event
<1>2. t \in Seq(Event) /\ stream \in Seq(Event) BY <1>1 DEF StreamInv, RunTold
<1>3. stream' = stream \o t /\ stream' \in Seq(Event) BY <1>1, <1>2, SMTT(60)
<1> HIDE DEF t
<1>4. NodesTold'
  <2>1. \A n \in Node : Told(stream, n, statusOf(state[n])) BY DEF StreamInv, NodesTold, Unreported
  <2>2. \A n \in Node : Told(stream', n, statusOf(state[n])) BY <1>1, <1>2, <1>3, <2>1, ToldKeep
  <2> QED BY <2>2 DEF NodesTold, Unreported
<1>5. Sums(stream, failed, skipped)' BY <1>1, <1>2, <1>3, SumsKeep DEF StreamInv, RunTold
<1>6. RunTold' BY <1>3, <1>5 DEF StreamInv, RunTold
<1>7. SkipsFresh' BY DEF StreamInv, SkipsFresh, In
<1>8. CurrentTold' BY DEF StreamInv, CurrentTold
<1> QED BY <1>4, <1>6, <1>7, <1>8 DEF StreamInv

LEMMA SameSeq ==
  ASSUME NEW E, NEW s \in Seq(E), NEW t \in Seq(E), Len(s) = Len(t), \A i \in 1 .. Len(s) : s[i] = t[i]
  PROVE  s = t
OBVIOUS

LEMMA AppendIs ==
  ASSUME NEW E, NEW s \in Seq(E), NEW x \in E
  PROVE  /\ Len(s) \in Nat /\ DOMAIN s = 1 .. Len(s)
         /\ Len(Append(s, x)) = Len(s) + 1 /\ DOMAIN Append(s, x) = 1 .. Len(s) + 1
         /\ Append(s, x)[Len(s) + 1] = x /\ Append(s, x) # <<>>
         /\ \A h \in DOMAIN s : Append(s, x)[h] = s[h]
OBVIOUS

LEMMA AppendPair ==
  ASSUME NEW E, NEW a \in E, NEW b \in E
  PROVE  <<a>> \in Seq(E) /\ Append(<<a>>, b) = <<a, b>>
<1> DEFINE s == Append(<<a>>, b)
           t == <<a, b>>
<1>1. s \in Seq(E) /\ Len(s) = 2 /\ s[1] = a /\ s[2] = b OBVIOUS
<1>2. t \in Seq(E) /\ Len(t) = 2 /\ t[1] = a /\ t[2] = b OBVIOUS
<1> HIDE DEF s, t
<1>3. s = t BY <1>1, <1>2, SameSeq
<1> QED BY <1>3 DEF s, t

LEMMA AppendTriple ==
  ASSUME NEW E, NEW a \in E, NEW b \in E, NEW c \in E
  PROVE  <<a, b>> \in Seq(E) /\ Append(<<a, b>>, c) = <<a, b, c>>
<1> DEFINE s == Append(<<a, b>>, c)
           t == <<a, b, c>>
<1>1. s \in Seq(E) /\ Len(s) = 3 /\ s[1] = a /\ s[2] = b /\ s[3] = c OBVIOUS
<1>2. t \in Seq(E) /\ Len(t) = 3 /\ t[1] = a /\ t[2] = b /\ t[3] = c OBVIOUS
<1> HIDE DEF s, t
<1>3. s = t BY <1>1, <1>2, SameSeq
<1> QED BY <1>3 DEF s, t

LEMMA PullStream == ASSUME WInv, StreamInv, NEW n \in Node, Pull(n) PROVE StreamInv'
<1>1. /\ pc = "loop" /\ pc' = "dispatch" /\ current' = n /\ stream' = Append(stream, Started(n))
      /\ state' = [state EXCEPT ![n] = "Running"] /\ readyQueue # <<>> /\ n = readyQueue[Len(readyQueue)]
      /\ UNCHANGED <<failed, skipped, runOk, skips, origin, reply>>
  BY DEF Pull, NextReady, Emit, Top
<1>2. state \in [Node -> {"Pending", "Ready", "Running"} \cup Terminal] /\ state[n] = "Ready"
  <2>1. readyQueue \in Seq(Node) /\ Range(readyQueue) = In("Ready") BY DEF WInv, TypeOK, QueueHoldsReady
  <2>2. n \in Range(readyQueue) BY <1>1, <2>1 DEF Range
  <2> QED BY <2>1, <2>2 DEF WInv, TypeOK, In
<1> DEFINE e == Started(n)
<1>3. e \in Event /\ (\A m : AboutNode(<<e>>, m) = IF m = n THEN {1} ELSE {})
      /\ FailedAt(<<e>>) = {} /\ SkippedAt(<<e>>) = {}
  BY EventTypes, OneEvent
<1>4. stream \in Seq(Event) /\ Sums(stream, failed, skipped) BY DEF StreamInv, RunTold
<1>5. EventsAre(stream, n, <<>>)
  BY <1>1, <1>2, StatusNames, ToldEvents DEF StreamInv, NodesTold, Unreported
<1> HIDE DEF e
<1>6. stream' = stream \o <<e>> /\ stream' \in Seq(Event) BY <1>1, <1>3, <1>4, OneMore DEF e
<1>7. EventsAre(stream', n, <<e>>)
  <2>1. <<>> \in Seq(Event) /\ Append(<<>>, e) = <<e>> OBVIOUS
  <2> QED BY <1>3, <1>4, <1>5, <1>6, <2>1, OneMore, ZenonT(60)
<1>8. Told(stream', n, "running") BY <1>7, ToldEvents DEF e
<1>9. \A m \in Node : Told(stream', m, statusOf(state'[m]))
  <2> TAKE m \in Node
  <2>1. CASE m = n BY <1>1, <1>2, <1>8, <2>1, StatusNames
  <2>2. CASE m # n
    <3>1. Told(stream, m, statusOf(state[m])) /\ state'[m] = state[m]
      BY <1>1, <1>2, <2>2 DEF StreamInv, NodesTold, Unreported
    <3> QED BY <1>3, <1>4, <1>6, <2>2, <3>1, OneMore
  <2> QED BY <2>1, <2>2
<1>10. NodesTold' BY <1>1, <1>9 DEF NodesTold, Unreported
<1>11. CurrentTold' BY <1>1, <1>7 DEF CurrentTold, StreamInv, e
<1>12. RunTold'
  <2>1. <<e>> \in Seq(Event) BY <1>3
  <2>2. Sums(stream', failed, skipped) BY <1>3, <1>4, <1>6, <2>1, SumsKeep
  <2> QED BY <1>1, <1>6, <2>2 DEF StreamInv, RunTold
<1>13. SkipsFresh'
  <2>1. In("Skipped") \subseteq In("Skipped")' BY <1>1, <1>2 DEF In
  <2> QED BY <1>1, <2>1 DEF StreamInv, SkipsFresh
<1> QED BY <1>10, <1>11, <1>12, <1>13 DEF StreamInv

LEMMA TimeOutStream == ASSUME WInv, EInv, StreamInv, TimeOut PROVE StreamInv'
<1> DEFINE n == current
           e == TimedOut(n)
<1>1. /\ pc = "executing" /\ pc' = "settle" /\ current' = n /\ stream' = Append(stream, e)
      /\ reply' = Outcome("timed_out", FALSE)
      /\ UNCHANGED <<state, failed, skipped, runOk, skips, origin>> /\ n \in Node
  BY DEF TimeOut, Emit, walkerVars, EInv, CurrentIsNode, Running
<1>2. state[n] = "Running" BY <1>1 DEF EInv, OneAtATime, Running, In
<1>3. e \in Event /\ (\A m : AboutNode(<<e>>, m) = IF m = n THEN {1} ELSE {})
      /\ FailedAt(<<e>>) = {} /\ SkippedAt(<<e>>) = {} /\ Started(n) \in Event
  BY <1>1, EventTypes, OneEvent
<1>4. stream \in Seq(Event) /\ Sums(stream, failed, skipped) BY DEF StreamInv, RunTold
<1>5. EventsAre(stream, n, <<Started(n)>>) BY <1>1 DEF StreamInv, CurrentTold
<1> HIDE DEF e
<1>6. stream' = stream \o <<e>> /\ stream' \in Seq(Event) BY <1>1, <1>3, <1>4, OneMore
<1>7. EventsAre(stream', n, <<Started(n), e>>)
  <2>1. <<Started(n)>> \in Seq(Event) /\ Append(<<Started(n)>>, e) = <<Started(n), e>>
      BY <1>3, AppendPair, Zenon
  <2> QED BY <1>1, <1>3, <1>4, <1>5, <1>6, <2>1, OneMore, ZenonT(60)
<1>8. Told(stream', n, "running") BY <1>7, ToldEvents DEF e
<1>9. \A m \in Node : Told(stream', m, statusOf(state'[m]))
  <2> TAKE m \in Node
  <2>1. CASE m = n BY <1>1, <1>2, <1>8, <2>1, StatusNames
  <2>2. CASE m # n
    <3>1. Told(stream, m, statusOf(state[m])) /\ state'[m] = state[m]
      BY <1>1, <2>2 DEF StreamInv, NodesTold, Unreported
    <3>2. n \in Node BY <1>1
    <3>3. Told(stream \o <<e>>, m, statusOf(state[m])) BY <1>3, <1>4, <2>2, <3>1, <3>2, OneMore
    <3> QED BY <1>6, <3>1, <3>3
  <2> QED BY <2>1, <2>2
<1>10. NodesTold' BY <1>1, <1>9 DEF NodesTold, Unreported
<1>11. CurrentTold'
  <2>1. EventsAre(stream', current', <<Started(current'), TimedOut(current')>>) BY <1>1, <1>7 DEF e
  <2> QED BY <1>1, <2>1 DEF CurrentTold, Outcome, Failures
<1>12. RunTold'
  <2>1. <<e>> \in Seq(Event) BY <1>3
  <2>2. Sums(stream', failed, skipped) BY <1>3, <1>4, <1>6, <2>1, SumsKeep
  <2> QED BY <1>1, <1>6, <2>2 DEF StreamInv, RunTold
<1>13. SkipsFresh' BY <1>1 DEF StreamInv, SkipsFresh, In
<1> QED BY <1>10, <1>11, <1>12, <1>13 DEF StreamInv

\* The end of a node: what its NodeFinished adds.
LEMMA SettledStream ==
  ASSUME WInv, EInv, StreamInv, pc = "settle"
  PROVE  LET n == current
             e == Finished(n, reply.failure)
         IN  /\ n \in Node /\ reply.failure \in Reasons /\ e \in Event
             /\ reply = Ok <=> reply.failure = "none"
             /\ Append(stream, e) = stream \o <<e>> /\ stream \o <<e>> \in Seq(Event)
             /\ \A m : AboutNode(<<e>>, m) = IF m = n THEN {1} ELSE {}
             /\ \A m \in Node : m # n => Told(stream \o <<e>>, m, statusOf(state[m]))
             /\ Told(stream \o <<e>>, n, IF reply = Ok THEN "ok" ELSE "failed")
<1> DEFINE n == current
           e == Finished(n, reply.failure)
           st == IF reply = Ok THEN "ok" ELSE "failed"
<1>1. n \in Node BY DEF EInv, CurrentIsNode, Running
<1>2. reply \in {Ok, PayloadFailure} \cup Failures BY DEF StreamInv, CurrentTold
<1>3. reply.failure \in Reasons /\ (reply = Ok <=> reply.failure = "none")
      /\ (reply # Ok /\ reply.failure # "timed_out" =>
            reply.failure \in {"no_executor", "template", "executor", "payload"})
  BY <1>2 DEF Reasons, Ok, PayloadFailure, Failures, Outcome
<1>4. e \in Event /\ (\A m : AboutNode(<<e>>, m) = IF m = n THEN {1} ELSE {})
      /\ Started(n) \in Event /\ TimedOut(n) \in Event
  BY <1>1, <1>3, EventTypes, OneEvent
<1>5. stream \in Seq(Event) BY DEF StreamInv, RunTold
<1> HIDE DEF e
<1>6. Append(stream, e) = stream \o <<e>> /\ stream \o <<e>> \in Seq(Event) BY <1>1, <1>4, <1>5, OneMore
<1>7. \A m \in Node : m # n => Told(stream \o <<e>>, m, statusOf(state[m]))
  <2> TAKE m \in Node
  <2>1. Told(stream, m, statusOf(state[m])) BY DEF StreamInv, NodesTold, Unreported
  <2> QED BY <1>1, <1>4, <1>5, <2>1, OneMore
<1>8. Told(stream \o <<e>>, n, st)
  <2>1. CASE reply.failure = "timed_out"
    <3>1. EventsAre(stream, n, <<Started(n), TimedOut(n)>>) BY <2>1 DEF StreamInv, CurrentTold
    <3>2. <<Started(n), TimedOut(n)>> \in Seq(Event)
          /\ Append(<<Started(n), TimedOut(n)>>, e) = <<Started(n), TimedOut(n), e>>
      BY <1>4, AppendTriple, Zenon
    <3>3. EventsAre(stream \o <<e>>, n, <<Started(n), TimedOut(n), e>>)
      BY <1>1, <1>4, <1>5, <3>1, <3>2, OneMore, ZenonT(60)
    <3>4. e = Finished(n, "timed_out") BY <2>1 DEF e
    <3>5. Told(stream \o <<e>>, n, "failed") BY <3>3, <3>4, ToldEvents
    <3> QED BY <1>3, <2>1, <3>5
  <2>2. CASE reply.failure # "timed_out"
    <3>1. EventsAre(stream, n, <<Started(n)>>) BY <2>2 DEF StreamInv, CurrentTold
    <3>2. <<Started(n)>> \in Seq(Event) /\ Append(<<Started(n)>>, e) = <<Started(n), e>>
      BY <1>4, AppendPair, Zenon
    <3>3. EventsAre(stream \o <<e>>, n, <<Started(n), e>>)
      BY <1>1, <1>4, <1>5, <3>1, <3>2, OneMore, ZenonT(60)
    <3>4. CASE reply = Ok
      <4>1. e = Finished(n, "none") BY <1>3, <3>4 DEF e
      <4>2. Told(stream \o <<e>>, n, "ok") BY <3>3, <4>1, ToldEvents
      <4> QED BY <3>4, <4>2
    <3>5. CASE reply # Ok
      <4>1. reply.failure \in {"no_executor", "template", "executor", "payload"} BY <1>3, <2>2, <3>5
      <4>2. e = Finished(n, reply.failure) BY DEF e
      <4> DEFINE f == reply.failure
      <4>3. f \in {"no_executor", "template", "executor", "payload"} /\ EventsAre(stream \o <<e>>, n, <<Started(n), Finished(n, f)>>)
        BY <3>3, <4>1, <4>2
      <4> HIDE DEF f
      <4>4. Told(stream \o <<e>>, n, "failed") BY <4>3, ToldEvents
      <4> QED BY <3>5, <4>4
    <3> QED BY <3>4, <3>5
  <2> QED BY <2>1, <2>2
<1> QED BY <1>1, <1>3, <1>4, <1>6, <1>7, <1>8 DEF e

LEMMA SettleOkStream == ASSUME WInv, EInv, StreamInv, SettleOk PROVE StreamInv'
<1> DEFINE n == current
           e == Finished(n, reply.failure)
<1>1. /\ pc = "settle" /\ reply = Ok /\ pc' = "loop" /\ CompleteOk(n)
      /\ stream' = Append(stream, Finished(n, "none")) /\ UNCHANGED <<failed, skipped, runOk, reply, origin>>
  BY DEF SettleOk, Emit, CompleteOk
<1>2. /\ n \in Node /\ e \in Event /\ reply.failure = "none"
      /\ Append(stream, e) = stream \o <<e>> /\ stream \o <<e>> \in Seq(Event)
      /\ \A m \in Node : m # n => Told(stream \o <<e>>, m, statusOf(state[m]))
      /\ Told(stream \o <<e>>, n, "ok")
  BY <1>1, SettledStream
<1>3. stream' = stream \o <<e>> BY <1>1, <1>2
<1>4. FailedAt(<<e>>) = {} /\ SkippedAt(<<e>>) = {} BY <1>2, OneEvent
<1> HIDE DEF e
<1>5. state'[n] = "Succeeded" /\ \A m \in Node : m # n => statusOf(state'[m]) = statusOf(state[m])
  <2>1. state' = [m \in Node |-> IF m = n THEN "Succeeded" ELSE IF m \in Promoted(n) THEN "Ready" ELSE state[m]]
    BY <1>1 DEF CompleteOk
  <2>2. \A m \in Promoted(n) : state[m] = "Pending" BY DEF Promoted
  <2> QED BY <1>2, <2>1, <2>2, StatusNames
<1>6. NodesTold'
  <2>1. \A m \in Node : Told(stream', m, statusOf(state'[m]))
    BY <1>2, <1>3, <1>5, StatusNames
  <2> QED BY <1>1, <2>1 DEF NodesTold, Unreported
<1>7. CurrentTold' BY <1>1 DEF StreamInv, CurrentTold
<1>8. RunTold'
  <2>1. stream \in Seq(Event) /\ <<e>> \in Seq(Event) /\ Sums(stream, failed, skipped)
    BY <1>2 DEF StreamInv, RunTold
  <2>2. Sums(stream', failed, skipped) BY <1>3, <1>4, <2>1, SumsKeep
  <2> QED BY <1>1, <1>2, <1>3, <2>2 DEF StreamInv, RunTold
<1>9. SkipsFresh' BY <1>1 DEF SkipsFresh, CompleteOk
<1> QED BY <1>6, <1>7, <1>8, <1>9 DEF StreamInv

LEMMA SettleFailedStream == ASSUME WInv, EInv, StreamInv, SettleFailed PROVE StreamInv'
<1> DEFINE n == current
           e == Finished(n, reply.failure)
<1>1. /\ pc = "settle" /\ reply # Ok /\ pc' = "cascade" /\ CompleteFailed(n)
      /\ failed' = Append(failed, n) /\ runOk' = FALSE
      /\ stream' = Append(stream, e) /\ UNCHANGED <<skipped, reply>>
  BY DEF SettleFailed, Emit
<1>2. /\ n \in Node /\ e \in Event /\ reply.failure # "none"
      /\ Append(stream, e) = stream \o <<e>> /\ stream \o <<e>> \in Seq(Event)
      /\ \A m \in Node : m # n => Told(stream \o <<e>>, m, statusOf(state[m]))
      /\ Told(stream \o <<e>>, n, "failed")
  BY <1>1, SettledStream
<1>3. stream' = stream \o <<e>> BY <1>1, <1>2
<1>4. FailedAt(<<e>>) = {1} /\ SkippedAt(<<e>>) = {} /\ e.node = n BY <1>2, OneEvent DEF Finished
<1> HIDE DEF e
<1>5. state' = [state EXCEPT ![n] = "Failed"] /\ skips' = <<>> BY <1>1 DEF CompleteFailed
<1>6. NodesTold'
  <2>1. state \in [Node -> {"Pending", "Ready", "Running"} \cup Terminal] BY DEF WInv, TypeOK
  <2>2. \A m \in Node : Told(stream', m, statusOf(state'[m]))
    BY <1>2, <1>3, <1>5, <2>1, StatusNames
  <2>3. Range(skips') = {} BY <1>5 DEF Range
  <2> QED BY <2>2, <2>3 DEF NodesTold, Unreported
<1>7. CurrentTold' BY <1>1 DEF StreamInv, CurrentTold
<1>8. RunTold'
  <2>1. stream \in Seq(Event) /\ failed \in Seq(Node) /\ Sums(stream, failed, skipped)
    BY DEF StreamInv, RunTold
  <2>2. Sums(stream', failed', skipped) BY <1>1, <1>2, <1>3, <1>4, <2>1, SumsFail
  <2>3. failed' \in Seq(Node) /\ failed' # <<>> BY <1>1, <1>2, <2>1
  <2> QED BY <1>1, <1>2, <1>3, <2>2, <2>3 DEF StreamInv, RunTold
<1>9. SkipsFresh' BY <1>5 DEF SkipsFresh, IsInjective, Range
<1> QED BY <1>6, <1>7, <1>8, <1>9 DEF StreamInv

LEMMA CascadeStream == ASSUME WInv, EInv, StreamInv, CascadeStep PROVE StreamInv'
<1>1. /\ pc = "cascade" /\ UNCHANGED <<pc, current, reply, failed, skipped, runOk, stream, origin>> /\ origin # 0
  BY DEF CascadeStep, CascadePast, CascadeSkip, engineVars, EInv
<1>2. CurrentTold' BY <1>1 DEF StreamInv, CurrentTold
<1>3. RunTold' BY <1>1 DEF StreamInv, RunTold
<1>4. CASE CascadePast
  <2>1. UNCHANGED <<state, skips>> BY <1>4 DEF CascadePast
  <2> QED BY <1>1, <1>2, <2>1, QuietStream
<1>5. ASSUME NEW n \in Node, CascadeSkip(n) PROVE StreamInv'
  <2>1. /\ state[n] \in {"Pending", "Ready"} /\ state' = [state EXCEPT ![n] = "Skipped"]
        /\ skips' = Append(skips, n)
    BY <1>5 DEF CascadeSkip
  <2>2. state \in [Node -> {"Pending", "Ready", "Running"} \cup Terminal] /\ skips \in Seq(Node)
    BY DEF WInv, TypeOK
  <2>3. IsInjective(skips) /\ Range(skips) \subseteq In("Skipped") BY <1>1 DEF StreamInv, SkipsFresh
  <2>4. n \notin Range(skips) BY <2>1, <2>3 DEF In
  <2>5. IsInjective(skips') /\ Range(skips') = Range(skips) \cup {n}
    <3>1. /\ DOMAIN skips = 1 .. Len(skips) /\ Len(skips) \in Nat
          /\ DOMAIN skips' = 1 .. Len(skips) + 1 /\ skips'[Len(skips) + 1] = n
          /\ \A k \in DOMAIN skips : skips'[k] = skips[k] /\ skips[k] # n
      BY <2>1, <2>2, <2>4 DEF Range
    <3>2. \A k \in DOMAIN skips' : k = Len(skips) + 1 \/ k \in DOMAIN skips BY <3>1
    <3>3. IsInjective(skips') BY <2>3, <3>1, <3>2 DEF IsInjective
    <3>4. Range(skips') = Range(skips) \cup {n} BY <3>1, <3>2 DEF Range
    <3> QED BY <3>3, <3>4
  <2>6. EventsAre(stream, n, <<>>)
    BY <2>1, <2>4, StatusNames, ToldEvents DEF StreamInv, NodesTold, Unreported
  <2>7. NodesTold'
    <3> SUFFICES ASSUME NEW m \in Node
                 PROVE  /\ m \in Range(skips') => EventsAre(stream, m, <<>>)
                        /\ m \notin Range(skips') => Told(stream, m, statusOf(state'[m]))
      BY <1>1 DEF NodesTold, Unreported
    <3>1. /\ m \in Range(skips) => EventsAre(stream, m, <<>>)
          /\ m \notin Range(skips) => Told(stream, m, statusOf(state[m]))
      BY <1>1 DEF StreamInv, NodesTold, Unreported
    <3>2. m # n => state'[m] = state[m] BY <2>1, <2>2
    <3> QED BY <2>5, <2>6, <3>1, <3>2
  <2>8. SkipsFresh'
    <3>1. In("Skipped")' = In("Skipped") \cup {n} BY <2>1, <2>2 DEF In
    <3> QED BY <2>3, <2>5, <3>1 DEF SkipsFresh
  <2> QED BY <1>2, <1>3, <2>7, <2>8 DEF StreamInv
<1> QED BY <1>4, <1>5 DEF CascadeStep

\* The reports of a cascade, as a sequence.
SkipReports == [i \in DOMAIN skips |-> Skipped(skips[i])]

LEMMA Reports ==
  ASSUME WInv, StreamInv, origin # 0
  PROVE  /\ SkipReports \in Seq(Event) /\ skips \in Seq(Node) /\ Len(SkipReports) = Len(skips)
         /\ DOMAIN SkipReports = DOMAIN skips
         /\ \A k \in DOMAIN skips :
              /\ skips[k] \in Node /\ upstream[skips[k]] \in Node
              /\ SkipReports[k] = [event |-> "node_skipped", node |-> skips[k], upstream |-> upstream[skips[k]]]
         /\ FailedAt(SkipReports) = {} /\ SkippedAt(SkipReports) = DOMAIN SkipReports
         /\ \A k \in DOMAIN skips : AboutNode(SkipReports, skips[k]) = {k}
         /\ \A n : n \notin Range(skips) => AboutNode(SkipReports, n) = {}
<1>1. skips \in Seq(Node) /\ IsInjective(skips) /\ Range(skips) \subseteq In("Skipped")
  BY DEF WInv, TypeOK, StreamInv, SkipsFresh
<1>2. \A k \in DOMAIN skips : skips[k] \in Node /\ upstream[skips[k]] \in Node
  <2> TAKE k \in DOMAIN skips
  <2>1. skips[k] \in In("Skipped") BY <1>1 DEF Range
  <2>2. upstream[skips[k]] \in In("Failed") BY <2>1 DEF WInv, SkipNamesRootCause
  <2> QED BY <2>1, <2>2 DEF In
<1> DEFINE t == SkipReports
<1>3. DOMAIN t = DOMAIN skips
      /\ \A k \in DOMAIN skips :
           t[k] = [event |-> "node_skipped", node |-> skips[k], upstream |-> upstream[skips[k]]]
  BY DEF SkipReports, Skipped
<1>4. \A k \in DOMAIN skips : t[k] \in Event BY <1>2, <1>3, EventTypes
<1>5. t \in Seq(Event) /\ Len(t) = Len(skips)
  <2>1. t = [k \in DOMAIN t |-> t[k]] BY DEF SkipReports
  <2>2. DOMAIN t = 1 .. Len(skips) /\ Len(skips) \in Nat BY <1>1, <1>3
  <2> HIDE DEF t
  <2>3. t \in [1 .. Len(skips) -> Event] BY <1>3, <1>4, <2>1, <2>2
  <2> QED BY <2>2, <2>3
<1>6. \A k \in DOMAIN t : "node" \in DOMAIN t[k] /\ t[k].node = skips[k] /\ t[k].event = "node_skipped"
  BY <1>3
<1> HIDE DEF t
<1>7. FailedAt(t) = {} /\ SkippedAt(t) = DOMAIN t BY <1>6 DEF FailedAt, SkippedAt
<1>8. \A k \in DOMAIN skips : AboutNode(t, skips[k]) = {k}
  <2> TAKE k \in DOMAIN skips
  <2>1. \A h \in DOMAIN t : skips[h] = skips[k] => h = k BY <1>1, <1>3 DEF IsInjective
  <2> QED BY <1>3, <1>6, <2>1 DEF AboutNode
<1>9. \A n : n \notin Range(skips) => AboutNode(t, n) = {} BY <1>3, <1>6 DEF AboutNode, Range
<1> QED BY <1>1, <1>2, <1>3, <1>5, <1>7, <1>8, <1>9 DEF t

LEMMA ReportStream == ASSUME WInv, EInv, StreamInv, ReportSkips PROVE StreamInv'
<1> DEFINE t == SkipReports
<1>1. /\ pc = "cascade" /\ pc' = "loop" /\ origin # 0 /\ origin' = 0
      /\ skipped' = skipped \o skips /\ stream' = stream \o t
      /\ UNCHANGED <<state, failed, runOk, reply, skips>>
  BY DEF ReportSkips, CascadeEnd, SkipReports
<1>2. /\ t \in Seq(Event) /\ skips \in Seq(Node) /\ Len(t) = Len(skips) /\ DOMAIN t = DOMAIN skips
      /\ \A k \in DOMAIN skips :
           /\ skips[k] \in Node /\ upstream[skips[k]] \in Node
           /\ t[k] = [event |-> "node_skipped", node |-> skips[k], upstream |-> upstream[skips[k]]]
           /\ t[k].node = skips[k]
      /\ FailedAt(t) = {} /\ SkippedAt(t) = DOMAIN t
      /\ \A k \in DOMAIN skips : AboutNode(t, skips[k]) = {k}
      /\ \A n : n \notin Range(skips) => AboutNode(t, n) = {}
  BY <1>1, Reports
<1> HIDE DEF t
<1>3. stream \in Seq(Event) /\ failed \in Seq(Node) /\ skipped \in Seq(Node) /\ Sums(stream, failed, skipped)
      /\ failed # <<>> /\ Range(skips) \subseteq In("Skipped")
  BY <1>1 DEF StreamInv, RunTold, SkipsFresh
<1>4. ASSUME NEW n \in Node PROVE Told(stream', n, statusOf(state[n]))
  <2>1. CASE n \in Range(skips)
    <3>1. PICK k \in DOMAIN skips : skips[k] = n BY <2>1 DEF Range
    <3>2. EventsAre(stream, n, <<>>) BY <1>1, <2>1 DEF StreamInv, NodesTold, Unreported
    <3>3. k \in DOMAIN t /\ AboutNode(t, n) = {k} BY <1>2, <3>1
    <3>4. <<>> \in Seq(Event) /\ Append(<<>>, t[k]) = <<t[k]>> OBVIOUS
    <3>5. EventsAre(stream \o t, n, Append(<<>>, t[k])) BY <1>2, <1>3, <3>2, <3>3, <3>4, EventsAdd
    <3>6. t[k] = [event |-> "node_skipped", node |-> n, upstream |-> upstream[n]] /\ upstream[n] \in Node
      BY <1>2, <3>1
    <3>7. Told(stream \o t, n, "skipped") BY <3>4, <3>5, <3>6, ToldEvents
    <3>8. state[n] = "Skipped" BY <1>3, <2>1 DEF In
    <3> QED BY <1>1, <3>7, <3>8, StatusNames
  <2>2. CASE n \notin Range(skips)
    <3>1. Told(stream, n, statusOf(state[n])) BY <2>2 DEF StreamInv, NodesTold, Unreported
    <3>2. AboutNode(t, n) = {} BY <1>2, <2>2
    <3> QED BY <1>1, <1>2, <1>3, <3>1, <3>2, ToldKeep
  <2> QED BY <2>1, <2>2
<1>5. NodesTold' BY <1>1, <1>4 DEF NodesTold, Unreported
<1>6. CurrentTold' BY <1>1 DEF StreamInv, CurrentTold
<1>7. RunTold'
  <2>1. Sums(stream', failed, skipped') BY <1>1, <1>2, <1>3, SumsSkip
  <2>2. stream' \in Seq(Event) /\ skipped' \in Seq(Node) BY <1>1, <1>2, <1>3
  <2> QED BY <1>1, <1>3, <2>1, <2>2 DEF StreamInv, RunTold
<1>8. SkipsFresh' BY <1>1 DEF SkipsFresh
<1> QED BY <1>5, <1>6, <1>7, <1>8 DEF StreamInv

LEMMA StepStreamInv == WInv /\ EInv /\ StreamInv /\ [EngineNext]_vars => StreamInv'
<1> SUFFICES ASSUME WInv, EInv, StreamInv, [EngineNext]_vars PROVE StreamInv' OBVIOUS
<1>1. CASE Begin
  <2>1. /\ stream' = Append(stream, RunStarted) /\ pc = "start" /\ pc' = "setup"
        /\ UNCHANGED <<failed, skipped, runOk, state, skips, origin, reply>>
    BY <1>1 DEF Begin, Emit, walkerVars
  <2>2. RunStarted \in [event : {"run_started"}] BY DEF RunStarted
  <2> QED BY <2>1, <2>2, RunEventStream
<1>2. CASE Finish
  <2>1. /\ stream' = Append(stream, RunFinished) /\ pc = "loop" /\ pc' = "finished"
        /\ UNCHANGED <<failed, skipped, runOk, state, skips, origin, reply>>
    BY <1>2 DEF Finish, Emit, walkerVars
  <2>2. RunFinished \in [event : {"run_finished"}, ok : BOOLEAN, failed : Seq(Node), skipped : Seq(Node)]
    BY DEF RunFinished, StreamInv, RunTold
  <2> QED BY <2>1, <2>2, RunEventStream
<1>3. CASE SetUp \/ Abort \/ Drop \/ Stopped \/ UNCHANGED vars
  <2>1. /\ UNCHANGED <<stream, failed, skipped, runOk, state, skips, origin, reply, current>>
        /\ pc' = pc \/ (pc # "cascade" /\ pc' \in {"loop", "aborted", "dropped"})
    BY <1>3 DEF SetUp, Abort, Drop, Stopped, vars, engineVars, walkerVars
  <2>2. CurrentTold' BY <2>1 DEF StreamInv, CurrentTold
  <2>3. pc' = "cascade" <=> pc = "cascade" BY <2>1
  <2> QED BY <2>1, <2>2, <2>3, QuietStream
<1>4. CASE NoExecutor \/ RenderFails \/ Execute \/ Answer
  <2>1. /\ UNCHANGED <<stream, failed, skipped, runOk, state, skips, origin, current>>
        /\ pc \in {"dispatch", "executing"} /\ pc' \in {"executing", "settle"}
        /\ reply' = reply \/ (reply' \in {Ok, PayloadFailure} \cup Failures /\ reply'.failure # "timed_out")
        /\ pc' = "settle" => reply'.failure # "timed_out"
    BY <1>4 DEF NoExecutor, RenderFails, Execute, Answer, Returns, walkerVars, Ok, PayloadFailure, Failures, Outcome
  <2>2. CurrentTold' BY <2>1 DEF StreamInv, CurrentTold
  <2>3. pc' = "cascade" <=> pc = "cascade" BY <2>1
  <2> QED BY <2>1, <2>2, <2>3, QuietStream
<1> QED
  BY <1>1, <1>2, <1>3, <1>4, PullStream, TimeOutStream, SettleOkStream, SettleFailedStream, CascadeStream,
     ReportStream
  DEF EngineNext, EngineStep

\* The event stream alone gives the walker's state, and RunFinished sums it
\* up: the promise of the engine's doc comment, for every graph and every
\* order of answers, timeouts and failures.
THEOREM EngineTells == EngineSafety => []StreamTellsState
<1>1. EInv /\ StreamInv => StreamTellsState
  <2> SUFFICES ASSUME EInv, StreamInv, pc # "cascade" PROVE StreamTellsState BY DEF StreamTellsState
  <2>1. \A n \in Node : Told(stream, n, statusOf(state[n])) BY DEF StreamInv, NodesTold, Unreported
  <2>2. runOk <=> failed = <<>> /\ skipped = <<>> BY DEF StreamInv, RunTold
  <2> QED BY <2>1, <2>2 DEF StreamInv, RunTold, Sums, StreamTellsState
<1> QED BY <1>1, EngineInvariant, InitStreamInv, StepStreamInv, PTL DEF EngineSafety

-----------------------------------------------------------------------------
\* The skips.  An event at or before which the failure or the skip of a was
\* reported, and the first failure a node is behind.
Blames(s, i, a) ==
  \E j \in 1 .. i - 1 :
    /\ "node" \in DOMAIN s[j] /\ s[j].node = a
    /\ s[j].event = "node_skipped" \/ (s[j].event = "node_finished" /\ s[j].failure # "none")

Rooted(g, fs, u, n) ==
  \E k \in DOMAIN fs :
    /\ fs[k] = u
    /\ Ancestor(g, fs[k], n)
    /\ \A h \in 1 .. k - 1 : ~ Ancestor(g, fs[h], n)

\* Reported skips are explained.
ReportsExplained ==
  \A i \in SkippedAt(stream) :
    /\ \E a \in Needs(needs, stream[i].node) : Blames(stream, i, a)
    /\ Rooted(needs, failed, stream[i].upstream, stream[i].node)

\* So will be those of the cascade in progress, whose origin is the last
\* failure.
SkipsExplicable ==
  origin # 0 =>
    /\ failed # <<>> /\ failed[Len(failed)] = origin
    /\ \A k \in DOMAIN skips :
         /\ upstream[skips[k]] = origin /\ Rooted(needs, failed, origin, skips[k])
         /\ \E a \in Needs(needs, skips[k]) :
              Blames(stream, Len(stream) + 1, a) \/ \E j \in DOMAIN skips : j < k /\ skips[j] = a

\* All that is behind a failure whose cascade is over has been skipped.
EarlierReached ==
  /\ Range(failed) \subseteq In("Failed")
  /\ \A h \in DOMAIN failed : (origin = 0 \/ h < Len(failed)) =>
       \A m \in Node : Ancestor(needs, failed[h], m) => state[m] = "Skipped"

SkipInv == ReportsExplained /\ SkipsExplicable /\ EarlierReached

\* The failure or the skip of a node is in the stream once it is told.
LEMMA ToldBlames ==
  ASSUME NEW s \in Seq(Event), NEW a \in Node, NEW st \in {"failed", "skipped"}, Told(s, a, st)
  PROVE  Blames(s, Len(s) + 1, a)
<1>1. ASSUME NEW es, NEW k \in DOMAIN es, EventsAre(s, a, es),
             es[k].event = "node_skipped" \/ (es[k].event = "node_finished" /\ es[k].failure # "none")
      PROVE  Blames(s, Len(s) + 1, a)
  <2> DEFINE f == Selected(s, AboutNode(s, a))
  <2>1. PICK at \in [DOMAIN es -> DOMAIN f] : \A i \in DOMAIN es : es[i] = f[at[i]]
    BY <1>1 DEF EventsAre, Lists
  <2>2. DOMAIN f = AboutNode(s, a) /\ \A i \in AboutNode(s, a) : f[i] = s[i] BY DEF Selected
  <2> HIDE DEF f
  <2>3. at[k] \in AboutNode(s, a) /\ es[k] = s[at[k]] BY <2>1, <2>2
  <2>4. at[k] \in 1 .. Len(s) /\ Len(s) \in Nat /\ "node" \in DOMAIN s[at[k]] /\ s[at[k]].node = a
    BY <2>3 DEF AboutNode
  <2>5. at[k] \in 1 .. (Len(s) + 1) - 1 BY <2>4
  <2> QED BY <1>1, <2>3, <2>4, <2>5 DEF Blames
<1>2. CASE st = "skipped"
  <2>1. PICK u \in Node : EventsAre(s, a, <<[event |-> "node_skipped", node |-> a, upstream |-> u]>>)
    BY <1>2 DEF Told
  <2> DEFINE es == <<[event |-> "node_skipped", node |-> a, upstream |-> u]>>
  <2>2. 1 \in DOMAIN es /\ es[1].event = "node_skipped" OBVIOUS
  <2>3. EventsAre(s, a, es) BY <2>1
  <2> HIDE DEF es
  <2> QED BY <1>1, <2>2, <2>3
<1>3. CASE st = "failed"
  <2>1. \/ \E f \in {"no_executor", "template", "executor", "payload"} :
             EventsAre(s, a, <<Started(a), Finished(a, f)>>)
        \/ EventsAre(s, a, <<Started(a), TimedOut(a), Finished(a, "timed_out")>>)
    BY <1>3 DEF Told
  <2>2. ASSUME NEW f \in {"no_executor", "template", "executor", "payload"},
               EventsAre(s, a, <<Started(a), Finished(a, f)>>)
        PROVE  Blames(s, Len(s) + 1, a)
    <3> DEFINE es == <<Started(a), Finished(a, f)>>
    <3>1. 2 \in DOMAIN es /\ es[2].event = "node_finished" /\ es[2].failure # "none" BY DEF Finished
    <3>2. EventsAre(s, a, es) BY <2>2
    <3> HIDE DEF es
    <3> QED BY <1>1, <3>1, <3>2
  <2>3. CASE EventsAre(s, a, <<Started(a), TimedOut(a), Finished(a, "timed_out")>>)
    <3> DEFINE es == <<Started(a), TimedOut(a), Finished(a, "timed_out")>>
    <3>1. 3 \in DOMAIN es /\ es[3].event = "node_finished" /\ es[3].failure # "none" BY DEF Finished
    <3>2. EventsAre(s, a, es) BY <2>3
    <3> HIDE DEF es
    <3> QED BY <1>1, <3>1, <3>2
  <2> QED BY <2>1, <2>2, <2>3
<1> QED BY <1>2, <1>3

\* An explanation stays one as the stream and the failures grow.
LEMMA BlamesKeep ==
  ASSUME NEW s \in Seq(Event), NEW t \in Seq(Event), NEW i \in 1 .. Len(s) + 1, NEW a, Blames(s, i, a)
  PROVE  Blames(s \o t, i, a) /\ \A h \in Nat : Blames(s \o t, i + h, a)
<1>1. PICK j \in 1 .. i - 1 :
        /\ "node" \in DOMAIN s[j] /\ s[j].node = a
        /\ s[j].event = "node_skipped" \/ (s[j].event = "node_finished" /\ s[j].failure # "none")
  BY DEF Blames
<1>2. (s \o t)[j] = s[j] OBVIOUS
<1>3. \A h \in Nat : j \in 1 .. (i + h) - 1 OBVIOUS
<1> DEFINE w == s \o t
<1>4. w[j] = s[j] BY <1>2
<1> HIDE DEF w
<1>5. \A h \in Nat : Blames(w, i + h, a) BY <1>1, <1>3, <1>4 DEF Blames
<1>6. Blames(w, i, a) BY <1>1, <1>4 DEF Blames
<1> QED BY <1>5, <1>6 DEF w

\* What has all the nodes behind a blocked node has all that are
\* transitively behind it.
LEMMA BehindBlocked ==
  ASSUME NEW g \in [Node -> Seq(Node)], NEW B \in SUBSET Node, NEW K \in SUBSET B,
         \A n \in Node : Needs(g, n) \cap B # {} => n \in K,
         NEW x \in B, NEW m \in Node, Ancestor(g, x, m)
  PROVE  m \in K
<1> SUFFICES ASSUME m \notin K PROVE FALSE OBVIOUS
<1> DEFINE S == Node \ B
<1>1. \A k \in Node : Needs(g, k) \subseteq Node BY NeedsAreNodes
<1>2. \A k \in Node : k \notin K => Needs(g, k) \subseteq S BY <1>1
<1>3. Needs(g, m) \subseteq S /\ \A k \in S : Needs(g, k) \subseteq S BY <1>2
<1>4. S \in SUBSET Node OBVIOUS
<1>5. x \in S BY <1>3, <1>4 DEF Ancestor
<1> QED BY <1>5

\* A failure keeps its rank as later ones follow.
LEMMA RootedKeeps ==
  ASSUME NEW g, NEW fs \in Seq(Node), NEW q \in Seq(Node), NEW u, NEW n, Rooted(g, fs, u, n)
  PROVE  Rooted(g, fs \o q, u, n)
<1>1. PICK k \in DOMAIN fs :
        /\ fs[k] = u /\ Ancestor(g, fs[k], n)
        /\ \A h \in 1 .. k - 1 : ~ Ancestor(g, fs[h], n)
  BY DEF Rooted
<1> DEFINE w == fs \o q
<1>2. k \in DOMAIN w /\ w[k] = fs[k] /\ \A h \in 1 .. k - 1 : w[h] = fs[h] OBVIOUS
<1> HIDE DEF w
<1>3. Rooted(g, w, u, n) BY <1>1, <1>2 DEF Rooted
<1> QED BY <1>3 DEF w

\* The reported skips stay explained as the stream grows.
LEMMA ReportsKeep ==
  ASSUME StreamInv, ReportsExplained, NEW t \in Seq(Event), stream' = stream \o t, needs' = needs,
         NEW q \in Seq(Node), failed' = failed \o q, NEW i \in SkippedAt(stream)
  PROVE  /\ stream'[i] = stream[i]
         /\ \E a \in Needs(needs', stream'[i].node) : Blames(stream', i, a)
         /\ Rooted(needs', failed', stream'[i].upstream, stream'[i].node)
<1>1. stream \in Seq(Event) /\ failed \in Seq(Node) BY DEF StreamInv, RunTold
<1>2. i \in 1 .. Len(stream) /\ Len(stream) \in Nat BY <1>1 DEF SkippedAt
<1>3. stream'[i] = stream[i] BY <1>1, <1>2
<1>4. (\E a \in Needs(needs, stream[i].node) : Blames(stream, i, a))
      /\ Rooted(needs, failed, stream[i].upstream, stream[i].node)
  BY DEF ReportsExplained
<1>5. PICK a \in Needs(needs, stream[i].node) : Blames(stream, i, a) BY <1>4
<1>6. i \in 1 .. Len(stream) + 1 BY <1>2
<1>7. Blames(stream', i, a) BY <1>1, <1>5, <1>6, BlamesKeep
<1>8. Rooted(needs, failed \o q, stream[i].upstream, stream[i].node) BY <1>1, <1>4, RootedKeeps
<1> QED BY <1>3, <1>5, <1>7, <1>8

LEMMA KeepSkipInv ==
  ASSUME StreamInv, SkipInv, NEW t \in Seq(Event), stream' = stream \o t, SkippedAt(t) = {},
         UNCHANGED <<needs, failed, origin>>, origin # 0 => UNCHANGED <<stream, skips, upstream>>,
         In("Skipped") \subseteq In("Skipped")', In("Failed") \subseteq In("Failed")'
  PROVE  SkipInv'
<1>1. stream \in Seq(Event) /\ failed \in Seq(Node) BY DEF StreamInv, RunTold
<1>2. SkippedAt(stream') = SkippedAt(stream) BY <1>1, PositionsKeep
<1>3. <<>> \in Seq(Node) /\ failed' = failed \o <<>> /\ needs' = needs BY <1>1
<1>4. ReportsExplained'
  <2> SUFFICES ASSUME NEW i \in SkippedAt(stream)
               PROVE  /\ \E a \in Needs(needs', stream'[i].node) : Blames(stream', i, a)
                      /\ Rooted(needs', failed', stream'[i].upstream, stream'[i].node)
    BY <1>2 DEF ReportsExplained
  <2> QED BY <1>3, ReportsKeep DEF SkipInv
<1>5. SkipsExplicable'
  <2>1. CASE origin = 0 BY <2>1 DEF SkipsExplicable
  <2>2. CASE origin # 0
    <3> QED BY <2>2, ZenonT(60) DEF SkipInv, SkipsExplicable
  <2> QED BY <2>1, <2>2
<1>6. EarlierReached'
  <2>1. Range(failed') \subseteq In("Failed")' BY DEF SkipInv, EarlierReached
  <2>2. ASSUME NEW h \in DOMAIN failed, origin = 0 \/ h < Len(failed), NEW m \in Node,
               Ancestor(needs, failed[h], m)
        PROVE  state'[m] = "Skipped"
    <3>1. state[m] = "Skipped" BY <2>2 DEF SkipInv, EarlierReached
    <3> QED BY <3>1 DEF In
  <2> QED BY <2>1, <2>2 DEF EarlierReached
<1> QED BY <1>4, <1>5, <1>6 DEF SkipInv

LEMMA SettleFailedSkips == ASSUME WInv, EInv, StreamInv, SkipInv, SettleFailed PROVE SkipInv'
<1> DEFINE n == current
           e == Finished(n, reply.failure)
<1>1. /\ pc = "settle" /\ CompleteFailed(n) /\ failed' = Append(failed, n) /\ stream' = Append(stream, e)
      /\ needs' = needs /\ origin = 0 /\ origin' = n /\ skips' = <<>> /\ state' = [state EXCEPT ![n] = "Failed"]
      /\ state[n] = "Running"
  BY DEF SettleFailed, Emit, CompleteFailed
<1>2. n \in Node /\ e \in Event /\ Append(stream, e) = stream \o <<e>> BY <1>1, SettledStream
<1>3. SkippedAt(<<e>>) = {} BY OneEvent
<1> HIDE DEF e
<1>4. stream \in Seq(Event) /\ failed \in Seq(Node) BY DEF StreamInv, RunTold
<1>5. <<e>> \in Seq(Event) /\ stream' = stream \o <<e>> /\ <<n>> \in Seq(Node) /\ failed' = failed \o <<n>>
  BY <1>1, <1>2, <1>4
<1>6. SkippedAt(stream') = SkippedAt(stream) BY <1>3, <1>4, <1>5, PositionsKeep
<1>7. ReportsExplained'
  <2> SUFFICES ASSUME NEW i \in SkippedAt(stream)
               PROVE  /\ \E a \in Needs(needs', stream'[i].node) : Blames(stream', i, a)
                      /\ Rooted(needs', failed', stream'[i].upstream, stream'[i].node)
    BY <1>6 DEF ReportsExplained
  <2> QED BY <1>1, <1>5, ReportsKeep DEF SkipInv
<1>8. /\ Len(failed') = Len(failed) + 1 /\ failed'[Len(failed')] = n /\ failed' # <<>> /\ Len(failed) \in Nat
      /\ \A h \in DOMAIN failed : failed'[h] = failed[h]
      /\ DOMAIN failed = 1 .. Len(failed) /\ DOMAIN failed' = 1 .. Len(failed) + 1
  <2> DEFINE f == Append(failed, n)
  <2>1. /\ Len(failed) \in Nat /\ DOMAIN failed = 1 .. Len(failed)
        /\ Len(f) = Len(failed) + 1 /\ DOMAIN f = 1 .. Len(failed) + 1
        /\ f[Len(failed) + 1] = n /\ f # <<>>
        /\ \A h \in DOMAIN failed : f[h] = failed[h]
    BY <1>2, <1>4, AppendIs
  <2>2. failed' = f BY <1>1
  <2> HIDE DEF f
  <2> QED BY <2>1, <2>2
<1>9. SkipsExplicable' BY <1>1, <1>8 DEF SkipsExplicable
<1>10. EarlierReached'
  <2>0. state \in [Node -> {"Pending", "Ready", "Running"} \cup Terminal] BY DEF WInv, TypeOK
  <2>1. Range(failed') \subseteq In("Failed")'
    <3>1. \A h \in DOMAIN failed : failed[h] \in In("Failed") BY DEF SkipInv, EarlierReached, Range
    <3>2. In("Failed")' = In("Failed") \cup {n} BY <1>1, <1>2, <2>0 DEF In
    <3>3. \A h \in DOMAIN failed' : h \in DOMAIN failed \/ h = Len(failed') BY <1>8
    <3>4. \A h \in DOMAIN failed' : failed'[h] \in In("Failed")' BY <1>8, <3>1, <3>2, <3>3
    <3> QED BY <3>4 DEF Range
  <2>2. ASSUME NEW h \in DOMAIN failed', origin' = 0 \/ h < Len(failed'), NEW m \in Node,
               Ancestor(needs, failed'[h], m)
        PROVE  state'[m] = "Skipped"
    <3>1. h \in DOMAIN failed /\ failed'[h] = failed[h]
      <4>1. n # 0 BY <1>2, NAssumption DEF Node
      <4> QED BY <1>1, <1>8, <2>2, <4>1
    <3>2. state[m] = "Skipped" BY <1>1, <2>2, <3>1 DEF SkipInv, EarlierReached
    <3> QED BY <1>1, <1>2, <2>0, <3>2
  <2> QED BY <1>1, <2>1, <2>2 DEF EarlierReached
<1> QED BY <1>7, <1>9, <1>10 DEF SkipInv

LEMMA CascadeSkips == ASSUME WInv, EInv, StreamInv, SkipInv, CascadeStep PROVE SkipInv'
<1>1. /\ pc = "cascade" /\ UNCHANGED <<needs, failed, stream, origin>> /\ origin # 0
      /\ stream \in Seq(Event) /\ failed \in Seq(Node)
  BY DEF CascadeStep, CascadePast, CascadeSkip, engineVars, EInv, StreamInv, RunTold
<1>2. CASE CascadePast
  <2>1. UNCHANGED <<state, skips, upstream>> BY <1>2 DEF CascadePast
  <2>2. <<>> \in Seq(Event) /\ stream' = stream \o <<>> BY <1>1
  <2>3. SkippedAt(<<>>) = {} BY DEF SkippedAt
  <2>4. In("Skipped")' = In("Skipped") /\ In("Failed")' = In("Failed") BY <2>1 DEF In
  <2> QED BY <1>1, <2>1, <2>2, <2>3, <2>4, KeepSkipInv
<1>3. ASSUME NEW n \in Node, CascadeSkip(n) PROVE SkipInv'
  <2>1. /\ bfs # <<>> /\ n = Head(bfs) /\ state[n] \in {"Pending", "Ready"}
        /\ state' = [state EXCEPT ![n] = "Skipped"] /\ skips' = Append(skips, n)
        /\ upstream' = [upstream EXCEPT ![n] = origin]
    BY <1>3 DEF CascadeSkip
  <2>2. /\ state \in [Node -> {"Pending", "Ready", "Running"} \cup Terminal] /\ skips \in Seq(Node)
        /\ upstream \in [Node -> Node \cup {0}] /\ bfs \in Seq(Node) /\ needs \in [Node -> Seq(Node)]
    BY GraphsAssumption DEF WInv, TypeOK
  <2>3. Range(skips) \subseteq In("Skipped") BY <1>1 DEF StreamInv, SkipsFresh
  <2>4. n \notin Range(skips) BY <2>1, <2>3 DEF In
  <2>5. n \in Range(bfs) BY <2>1, <2>2 DEF Range
  <2>6. Ancestor(needs, origin, n) /\ Needs(needs, n) \cap Blocked # {}
    BY <2>5 DEF WInv, CascadeSound
  <2>7. failed # <<>> /\ failed[Len(failed)] = origin /\ Len(failed) \in Nat /\ Len(failed) \in DOMAIN failed
        /\ DOMAIN failed = 1 .. Len(failed)
    BY <1>1 DEF SkipInv, SkipsExplicable
  <2>8. Rooted(needs, failed, origin, n)
    <3>1. \A h \in 1 .. Len(failed) - 1 : ~ Ancestor(needs, failed[h], n)
      <4>1. \A h \in DOMAIN failed : h < Len(failed) => (Ancestor(needs, failed[h], n) => state[n] = "Skipped")
        BY DEF SkipInv, EarlierReached
      <4>2. \A h \in 1 .. Len(failed) - 1 : h \in DOMAIN failed /\ h < Len(failed) BY <2>7
      <4> QED BY <2>1, <4>1, <4>2
    <3> QED BY <2>6, <2>7, <3>1 DEF Rooted
  <2>9. \E a \in Needs(needs, n) : Blames(stream, Len(stream) + 1, a) \/ \E j \in DOMAIN skips : skips[j] = a
    <3>1. PICK a \in Needs(needs, n) : a \in Blocked BY <2>6
    <3>2. a \in Node /\ state[a] \in {"Failed", "Skipped"} BY <3>1 DEF Blocked, In
    <3>3. CASE a \in Range(skips) BY <3>1, <3>3 DEF Range
    <3>4. CASE a \notin Range(skips)
      <4>1. Told(stream, a, statusOf(state[a])) BY <3>2, <3>4 DEF StreamInv, NodesTold, Unreported
      <4>2. statusOf(state[a]) \in {"failed", "skipped"} BY <3>2, StatusNames
      <4>3. Blames(stream, Len(stream) + 1, a) BY <1>1, <3>2, <4>1, <4>2, ToldBlames
      <4> QED BY <3>1, <4>3
    <3> QED BY <3>3, <3>4
  <2>10. ReportsExplained' BY <1>1 DEF SkipInv, ReportsExplained
  <2>11. SkipsExplicable'
    <3>1. /\ DOMAIN skips = 1 .. Len(skips) /\ Len(skips) \in Nat /\ DOMAIN skips' = 1 .. Len(skips) + 1
          /\ skips'[Len(skips) + 1] = n /\ \A k \in DOMAIN skips : skips'[k] = skips[k] /\ skips[k] # n /\ skips[k] \in Node
      BY <2>1, <2>2, <2>4 DEF Range
    <3>2. SUFFICES ASSUME NEW k \in DOMAIN skips'
                   PROVE  /\ upstream'[skips'[k]] = origin /\ Rooted(needs, failed, origin, skips'[k])
                          /\ \E a \in Needs(needs, skips'[k]) :
                               Blames(stream, Len(stream) + 1, a) \/ \E j \in DOMAIN skips' : j < k /\ skips'[j] = a
      BY <1>1, <2>7 DEF SkipsExplicable
    <3>3. CASE k \in DOMAIN skips
      <4>1. /\ upstream[skips[k]] = origin /\ Rooted(needs, failed, origin, skips[k])
            /\ \E a \in Needs(needs, skips[k]) :
                 Blames(stream, Len(stream) + 1, a) \/ \E j \in DOMAIN skips : j < k /\ skips[j] = a
        BY <1>1, <3>3 DEF SkipInv, SkipsExplicable
      <4>2. upstream'[skips[k]] = upstream[skips[k]] BY <2>1, <2>2, <3>1, <3>3
      <4>3. \A j \in DOMAIN skips : j \in DOMAIN skips' BY <3>1
      <4> QED BY <3>1, <3>3, <4>1, <4>2, <4>3
    <3>4. CASE k = Len(skips) + 1
      <4>1. skips'[k] = n /\ upstream'[n] = origin BY <2>1, <2>2, <3>1, <3>4
      <4>2. \A j \in DOMAIN skips : j \in DOMAIN skips' /\ j < k /\ skips'[j] = skips[j] BY <3>1, <3>4
      <4> QED BY <2>8, <2>9, <4>1, <4>2
    <3> QED BY <3>1, <3>3, <3>4
  <2>12. EarlierReached'
    <3>1. In("Failed")' = In("Failed") /\ In("Skipped") \subseteq In("Skipped")' BY <2>1, <2>2 DEF In
    <3>2. Range(failed') \subseteq In("Failed")' BY <1>1, <3>1 DEF SkipInv, EarlierReached
    <3>3. ASSUME NEW h \in DOMAIN failed, h < Len(failed), NEW m \in Node, Ancestor(needs, failed[h], m)
          PROVE  state'[m] = "Skipped"
      <4>1. state[m] = "Skipped" BY <3>3 DEF SkipInv, EarlierReached
      <4> QED BY <3>1, <4>1 DEF In
    <3> QED BY <1>1, <3>2, <3>3 DEF EarlierReached
  <2> QED BY <2>10, <2>11, <2>12 DEF SkipInv
<1> QED BY <1>2, <1>3 DEF CascadeStep

LEMMA ReportSkipInv == ASSUME WInv, EInv, StreamInv, SkipInv, ReportSkips PROVE SkipInv'
<1> DEFINE t == SkipReports
           L == Len(stream)
<1>1. /\ origin # 0 /\ origin' = 0 /\ bfs = <<>> /\ stream' = stream \o t
      /\ UNCHANGED <<needs, state, failed, skips>>
  BY DEF ReportSkips, CascadeEnd, SkipReports
<1>2. /\ t \in Seq(Event) /\ skips \in Seq(Node) /\ Len(t) = Len(skips) /\ DOMAIN t = DOMAIN skips
      /\ \A k \in DOMAIN skips :
           t[k] = [event |-> "node_skipped", node |-> skips[k], upstream |-> upstream[skips[k]]]
      /\ SkippedAt(t) = DOMAIN t
  BY <1>1, Reports
<1> HIDE DEF t
<1>3. stream \in Seq(Event) /\ failed \in Seq(Node) /\ L \in Nat /\ DOMAIN skips = 1 .. Len(skips) /\ Len(skips) \in Nat
  BY <1>2 DEF StreamInv, RunTold
<1>4. SkippedAt(stream') = SkippedAt(stream) \cup {L + h : h \in DOMAIN t} BY <1>1, <1>2, <1>3, PositionsKeep, Zenon
<1>5. <<>> \in Seq(Node) /\ failed' = failed \o <<>> /\ needs' = needs BY <1>1, <1>3
<1>6. \A k \in DOMAIN skips : /\ "node" \in DOMAIN stream'[L + k] /\ stream'[L + k].event = "node_skipped"
                              /\ stream'[L + k].node = skips[k]
                              /\ stream'[L + k].upstream = upstream[skips[k]]
  <2> TAKE k \in DOMAIN skips
  <2>1. stream'[L + k] = t[k] BY <1>1, <1>2, <1>3
  <2> QED BY <1>2, <2>1
<1>7. ASSUME NEW k \in DOMAIN skips
      PROVE  /\ \E a \in Needs(needs', stream'[L + k].node) : Blames(stream', L + k, a)
             /\ Rooted(needs', failed', stream'[L + k].upstream, stream'[L + k].node)
  <2>1. /\ upstream[skips[k]] = origin /\ Rooted(needs, failed, origin, skips[k])
        /\ \E a \in Needs(needs, skips[k]) :
             Blames(stream, L + 1, a) \/ \E j \in DOMAIN skips : j < k /\ skips[j] = a
    BY <1>1, <1>7 DEF SkipInv, SkipsExplicable
  <2>2. PICK a \in Needs(needs, skips[k]) :
          Blames(stream, L + 1, a) \/ \E j \in DOMAIN skips : j < k /\ skips[j] = a
    BY <2>1
  <2>3. k \in Nat /\ k >= 1 /\ L + k = (L + 1) + (k - 1) /\ k - 1 \in Nat /\ L + 1 \in 1 .. L + 1 BY <1>3
  <2>4. Blames(stream', L + k, a)
    <3>1. CASE Blames(stream, L + 1, a)
      <4>1. \A h \in Nat : Blames(stream', (L + 1) + h, a) BY <1>1, <1>2, <1>3, <2>3, <3>1, BlamesKeep
      <4>2. Blames(stream', (L + 1) + (k - 1), a) BY <2>3, <4>1
      <4> QED BY <2>3, <4>2
    <3>2. ASSUME NEW j \in DOMAIN skips, j < k, skips[j] = a PROVE Blames(stream', L + k, a)
      <4>1. L + j \in 1 .. (L + k) - 1 BY <1>3, <2>3, <3>2
      <4>2. "node" \in DOMAIN stream'[L + j] /\ stream'[L + j].event = "node_skipped" /\ stream'[L + j].node = a
        BY <1>6, <3>2
      <4> QED BY <4>1, <4>2 DEF Blames
    <3> QED BY <2>2, <3>1, <3>2
  <2>5. stream'[L + k].node = skips[k] /\ stream'[L + k].upstream = origin BY <1>6, <2>1
  <2> QED BY <1>1, <2>1, <2>4, <2>5
<1>8. ASSUME NEW i \in SkippedAt(stream)
      PROVE  /\ \E a \in Needs(needs', stream'[i].node) : Blames(stream', i, a)
             /\ Rooted(needs', failed', stream'[i].upstream, stream'[i].node)
  BY <1>1, <1>2, <1>5, ReportsKeep DEF SkipInv
<1>9. ReportsExplained'
  <2>1. \A i \in SkippedAt(stream') : i \in SkippedAt(stream) \/ \E k \in DOMAIN skips : i = L + k
    BY <1>2, <1>4
  <2> HIDE DEF L
  <2> QED BY <1>7, <1>8, <2>1 DEF ReportsExplained
<1>10. SkipsExplicable' BY <1>1 DEF SkipsExplicable
<1>11. EarlierReached'
  <2>1. needs \in [Node -> Seq(Node)] BY GraphsAssumption DEF WInv, TypeOK
  <2>2. Range(bfs) = {} BY <1>1 DEF Range
  <2>3. \A n \in Node : Needs(needs, n) \cap Blocked # {} => n \in In("Skipped")
    BY <2>2 DEF WInv, CascadeReaches, In
  <2>4. Blocked \in SUBSET Node /\ In("Skipped") \in SUBSET Blocked BY DEF Blocked, In
  <2>5. Range(failed) \subseteq In("Failed") BY DEF SkipInv, EarlierReached
  <2>6. ASSUME NEW h \in DOMAIN failed, NEW m \in Node, Ancestor(needs, failed[h], m) PROVE state[m] = "Skipped"
    <3>1. failed[h] \in Blocked BY <2>5 DEF Range, Blocked
    <3>2. m \in In("Skipped") BY <2>1, <2>3, <2>4, <2>6, <3>1, BehindBlocked
    <3> QED BY <3>2 DEF In
  <2>7. In("Failed")' = In("Failed") BY <1>1 DEF In
  <2> QED BY <1>1, <2>5, <2>6, <2>7 DEF EarlierReached
<1> QED BY <1>9, <1>10, <1>11 DEF SkipInv

LEMMA StepSkipInv == WInv /\ EInv /\ StreamInv /\ SkipInv /\ [EngineNext]_vars => SkipInv'
<1> SUFFICES ASSUME WInv, EInv, StreamInv, SkipInv, [EngineNext]_vars PROVE SkipInv' OBVIOUS
<1>0. stream \in Seq(Event) /\ state \in [Node -> {"Pending", "Ready", "Running"} \cup Terminal]
  BY DEF StreamInv, RunTold, WInv, TypeOK
<1>1. ASSUME NEW e \in Event, SkippedAt(<<e>>) = {}, stream' = Append(stream, e), UNCHANGED <<needs, failed, origin>>,
             origin = 0, In("Skipped") \subseteq In("Skipped")', In("Failed") \subseteq In("Failed")'
      PROVE  SkipInv'
  <2> DEFINE t == <<e>>
  <2>1. t \in Seq(Event) /\ stream' = stream \o t /\ SkippedAt(t) = {} BY <1>0, <1>1
  <2> HIDE DEF t
  <2> QED BY <1>1, <2>1, KeepSkipInv
<1>2. ASSUME UNCHANGED <<stream, needs, failed, origin, skips, upstream, state>> PROVE SkipInv'
  <2>1. <<>> \in Seq(Event) /\ stream' = stream \o <<>> BY <1>0, <1>2
  <2>2. SkippedAt(<<>>) = {} BY DEF SkippedAt
  <2>3. In("Skipped")' = In("Skipped") /\ In("Failed")' = In("Failed") BY <1>2 DEF In
  <2> QED BY <1>2, <2>1, <2>2, <2>3, KeepSkipInv
<1>3. ASSUME UNCHANGED walkerVars
      PROVE  In("Skipped")' = In("Skipped") /\ In("Failed")' = In("Failed") /\ UNCHANGED <<needs, origin>>
  BY <1>3 DEF walkerVars, In
<1>4. CASE Begin
  <2>1. RunStarted \in [event : {"run_started"}] BY DEF RunStarted
  <2>2. RunStarted \in Event /\ SkippedAt(<<RunStarted>>) = {} BY <2>1, RunEvent DEF Event
  <2>3. stream' = Append(stream, RunStarted) /\ UNCHANGED walkerVars /\ failed' = failed /\ origin = 0
    BY <1>4 DEF Begin, Emit, EInv
  <2> QED BY <1>1, <1>3, <2>2, <2>3
<1>5. CASE Finish
  <2>1. RunFinished \in [event : {"run_finished"}, ok : BOOLEAN, failed : Seq(Node), skipped : Seq(Node)]
    BY DEF RunFinished, StreamInv, RunTold
  <2>2. RunFinished \in Event /\ SkippedAt(<<RunFinished>>) = {} BY <2>1, RunEvent DEF Event
  <2>3. stream' = Append(stream, RunFinished) /\ UNCHANGED walkerVars /\ failed' = failed /\ origin = 0
    BY <1>5 DEF Finish, Emit, EInv
  <2> QED BY <1>1, <1>3, <2>2, <2>3
<1>6. CASE SetUp \/ Abort \/ Drop \/ Stopped \/ UNCHANGED vars \/ NoExecutor \/ RenderFails \/ Execute \/ Answer
  <2>1. UNCHANGED walkerVars /\ UNCHANGED <<stream, failed>>
    BY <1>6 DEF SetUp, Abort, Drop, Stopped, vars, engineVars, NoExecutor, RenderFails, Execute, Answer, Returns
  <2> QED BY <1>2, <2>1 DEF walkerVars
<1>7. ASSUME NEW n \in Node, Pull(n) PROVE SkipInv'
  <2>1. /\ stream' = Append(stream, Started(n)) /\ state' = [state EXCEPT ![n] = "Running"]
        /\ readyQueue # <<>> /\ n = readyQueue[Len(readyQueue)]
        /\ UNCHANGED <<needs, failed, origin>> /\ origin = 0
    BY <1>7 DEF Pull, NextReady, Emit, Top
  <2>2. state[n] = "Ready"
    <3>1. readyQueue \in Seq(Node) /\ Range(readyQueue) = In("Ready") BY DEF WInv, TypeOK, QueueHoldsReady
    <3>2. n \in Range(readyQueue) BY <2>1, <3>1 DEF Range
    <3> QED BY <3>1, <3>2 DEF In
  <2>3. In("Skipped") \subseteq In("Skipped")' /\ In("Failed") \subseteq In("Failed")' BY <1>0, <2>1, <2>2 DEF In
  <2> QED BY <1>1, <2>1, <2>3, EventTypes, OneEvent
<1>8. CASE TimeOut
  <2>1. /\ stream' = Append(stream, TimedOut(current)) /\ UNCHANGED walkerVars /\ failed' = failed /\ origin = 0
        /\ current \in Node
    BY <1>8 DEF TimeOut, Emit, EInv, CurrentIsNode, Running
  <2> QED BY <1>1, <1>3, <2>1, EventTypes, OneEvent
<1>9. CASE SettleOk
  <2>1. /\ stream' = Append(stream, Finished(current, "none")) /\ failed' = failed /\ CompleteOk(current)
        /\ UNCHANGED <<needs, origin>> /\ origin = 0 /\ current \in Node /\ state[current] = "Running"
    BY <1>9 DEF SettleOk, Emit, CompleteOk, EInv, CurrentIsNode, Running
  <2>2. In("Skipped") \subseteq In("Skipped")' /\ In("Failed") \subseteq In("Failed")'
    <3>1. state' = [m \in Node |-> IF m = current THEN "Succeeded" ELSE IF m \in Promoted(current) THEN "Ready" ELSE state[m]]
      BY <2>1 DEF CompleteOk
    <3>2. \A m \in Promoted(current) : state[m] = "Pending" BY DEF Promoted
    <3> QED BY <2>1, <3>1, <3>2 DEF In
  <2>3. Finished(current, "none") \in Event /\ SkippedAt(<<Finished(current, "none")>>) = {}
    <3>1. "none" \in Reasons BY DEF Reasons
    <3> QED BY <2>1, <3>1, EventTypes, OneEvent
  <2> QED BY <1>1, <2>1, <2>2, <2>3
<1> QED
  BY <1>4, <1>5, <1>6, <1>7, <1>8, <1>9, SettleFailedSkips, CascadeSkips, ReportSkipInv
  DEF EngineNext, EngineStep

LEMMA InitSkipInv == EngineInit => SkipInv
<1> SUFFICES ASSUME EngineInit PROVE SkipInv OBVIOUS
<1>1. stream = <<>> /\ failed = <<>> /\ origin = 0 BY DEF EngineInit, Init
<1>2. SkippedAt(stream) = {} /\ DOMAIN failed = {} /\ Range(failed) = {} BY <1>1 DEF SkippedAt, Range
<1> QED BY <1>1, <1>2 DEF SkipInv, ReportsExplained, SkipsExplicable, EarlierReached

\* Whoever reads a NodeSkipped has read why, and the node it blames is the
\* first failure of the run that the skipped one depends on.
THEOREM EngineExplains == EngineSafety => []SkipsExplained
<1>1. StreamInv /\ SkipInv => SkipsExplained
  <2> SUFFICES ASSUME StreamInv, SkipInv, NEW i \in DOMAIN stream, stream[i].event = "node_skipped"
               PROVE  /\ \E j \in 1 .. i - 1 :
                           /\ "node" \in DOMAIN stream[j] /\ stream[j].node \in Needs(needs, stream[i].node)
                           /\ \/ stream[j].event = "node_skipped"
                              \/ stream[j].event = "node_finished" /\ stream[j].failure # "none"
                      /\ \E k \in DOMAIN failed :
                           /\ failed[k] = stream[i].upstream
                           /\ Ancestor(needs, failed[k], stream[i].node)
                           /\ \A h \in 1 .. k - 1 : ~ Ancestor(needs, failed[h], stream[i].node)
    BY DEF SkipsExplained
  <2>1. i \in SkippedAt(stream) BY DEF SkippedAt
  <2>2. /\ \E a \in Needs(needs, stream[i].node) : Blames(stream, i, a)
        /\ Rooted(needs, failed, stream[i].upstream, stream[i].node)
    BY <2>1 DEF SkipInv, ReportsExplained
  <2> QED BY <2>2 DEF Blames, Rooted
<1> QED
  BY <1>1, EngineInvariant, InitStreamInv, StepStreamInv, InitSkipInv, StepSkipInv, PTL DEF EngineSafety
-----------------------------------------------------------------------------
\* Progress.  A run never turns in circles: what is left of it becomes less
\* with every step, first the nodes that have not settled, then the places
\* of Engine::run still ahead, then the queue of the cascade.
Unsettled == {n \in Node : state[n] \notin Terminal}

Ahead == [start |-> 7, setup |-> 6, cascade |-> 5, loop |-> 4, dispatch |-> 3, executing |-> 2,
          settle |-> 1, finished |-> 0, aborted |-> 0, dropped |-> 0]

Advances ==
  \/ Cardinality(Unsettled') < Cardinality(Unsettled)
  \/ /\ Unsettled' = Unsettled
     /\ Ahead[pc'] < Ahead[pc] \/ (pc' = pc /\ Len(bfs') < Len(bfs))

\* A node that settles, when none is taken up again, leaves fewer behind.
LEMMA OneSettles ==
  ASSUME NEW n \in Node, state[n] \notin Terminal, state'[n] \in Terminal,
         \A m \in Node : state[m] \in Terminal => state'[m] \in Terminal
  PROVE  Advances
<1>1. Unsettled' \subseteq Unsettled /\ n \in Unsettled /\ n \notin Unsettled' BY DEF Unsettled
<1>2. Unsettled \subseteq Node BY DEF Unsettled
<1>3. IsFiniteSet(Unsettled) BY <1>2, NodesAreFinite, FS_Subset
<1>4. /\ IsFiniteSet(Unsettled') /\ Cardinality(Unsettled') <= Cardinality(Unsettled)
      /\ Cardinality(Unsettled) # Cardinality(Unsettled')
  BY <1>1, <1>3, FS_Subset
<1>5. Cardinality(Unsettled) \in Nat /\ Cardinality(Unsettled') \in Nat BY <1>3, <1>4, FS_CardinalityType
<1> QED BY <1>4, <1>5 DEF Advances

\* One that goes on in Engine::run and settles nothing.
LEMMA OnePlaceOn ==
  ASSUME state' = state, Ahead[pc'] < Ahead[pc]
  PROVE  Advances
BY DEF Advances, Unsettled

LEMMA StepAdvances == WInv /\ EInv /\ EngineNext => Advances \/ UNCHANGED vars
<1> SUFFICES ASSUME WInv, EInv, EngineNext PROVE Advances \/ UNCHANGED vars OBVIOUS
<1>1. state \in [Node -> {"Pending", "Ready", "Running"} \cup Terminal] /\ bfs \in Seq(Node)
  BY DEF WInv, TypeOK
<1>2. CASE Begin \/ SetUp \/ Abort
  <2>1. state' = state /\ \/ pc = "start" /\ pc' = "setup"
                          \/ pc = "setup" /\ pc' \in {"loop", "aborted"}
    BY <1>2 DEF Begin, SetUp, Abort, walkerVars
  <2> QED BY <2>1, OnePlaceOn DEF Ahead
<1>3. CASE NoExecutor \/ RenderFails \/ Execute \/ Answer \/ TimeOut
  <2>1. state' = state /\ \/ pc = "dispatch" /\ pc' \in {"settle", "executing"}
                          \/ pc = "executing" /\ pc' = "settle"
    BY <1>3 DEF NoExecutor, RenderFails, Execute, Answer, Returns, TimeOut, walkerVars
  <2> QED BY <2>1, OnePlaceOn DEF Ahead
<1>4. CASE Finish \/ Drop
  <2>1. state' = state /\ \/ pc = "loop" /\ pc' = "finished"
                          \/ pc \in {"start", "executing"} /\ pc' = "dropped"
    BY <1>4 DEF Finish, Drop, walkerVars
  <2> QED BY <2>1, OnePlaceOn DEF Ahead
<1>5. ASSUME NEW n \in Node, Pull(n) PROVE Advances
  <2>1. /\ state' = [state EXCEPT ![n] = "Running"] /\ pc = "loop" /\ pc' = "dispatch"
        /\ readyQueue # <<>> /\ n = readyQueue[Len(readyQueue)]
    BY <1>5 DEF Pull, NextReady, Top
  <2>2. state[n] = "Ready"
    <3>1. readyQueue \in Seq(Node) /\ Range(readyQueue) = In("Ready") BY DEF WInv, TypeOK, QueueHoldsReady
    <3>2. n \in Range(readyQueue) BY <2>1, <3>1 DEF Range
    <3> QED BY <3>1, <3>2 DEF In
  <2>3. Unsettled' = Unsettled BY <1>1, <2>1, <2>2 DEF Unsettled, Terminal
  <2> QED BY <2>1, <2>3 DEF Advances, Ahead
<1>6. CASE SettleOk
  <2>1. current \in Node /\ state[current] = "Running"
        /\ state' = [m \in Node |-> IF m = current THEN "Succeeded"
                                    ELSE IF m \in Promoted(current) THEN "Ready" ELSE state[m]]
    BY <1>6 DEF SettleOk, CompleteOk, EInv, CurrentIsNode, Running
  <2>2. \A m \in Promoted(current) : state[m] = "Pending" BY DEF Promoted
  <2>3. \A m \in Node : state[m] \in Terminal => state'[m] \in Terminal BY <2>1, <2>2 DEF Terminal
  <2>4. state[current] \notin Terminal /\ state'[current] \in Terminal BY <2>1 DEF Terminal
  <2> QED BY <2>1, <2>3, <2>4, OneSettles
<1>7. CASE SettleFailed
  <2>1. current \in Node /\ state[current] = "Running" /\ state' = [state EXCEPT ![current] = "Failed"]
    BY <1>7 DEF SettleFailed, CompleteFailed, EInv, CurrentIsNode, Running
  <2>2. \A m \in Node : state[m] \in Terminal => state'[m] \in Terminal BY <1>1, <2>1 DEF Terminal
  <2>3. state[current] \notin Terminal /\ state'[current] \in Terminal BY <1>1, <2>1 DEF Terminal
  <2> QED BY <2>1, <2>2, <2>3, OneSettles
<1>8. CASE CascadeStep
  <2>1. ASSUME CascadePast PROVE Advances
    <3>1. state' = state /\ pc' = pc /\ bfs # <<>> /\ bfs' = Tail(bfs)
      BY <1>8, <2>1 DEF CascadePast, CascadeStep, engineVars
    <3>2. Len(bfs') < Len(bfs) BY <1>1, <3>1
    <3> QED BY <3>1, <3>2 DEF Advances, Unsettled
  <2>2. ASSUME NEW n \in Node, CascadeSkip(n) PROVE Advances
    <3>1. state[n] \in {"Pending", "Ready"} /\ state' = [state EXCEPT ![n] = "Skipped"] BY <2>2 DEF CascadeSkip
    <3>2. \A m \in Node : state[m] \in Terminal => state'[m] \in Terminal BY <1>1, <3>1 DEF Terminal
    <3>3. state[n] \notin Terminal /\ state'[n] \in Terminal BY <1>1, <3>1 DEF Terminal
    <3> QED BY <3>2, <3>3, OneSettles
  <2> QED BY <1>8, <2>1, <2>2 DEF CascadeStep
<1>9. CASE ReportSkips
  BY <1>9, OnePlaceOn DEF ReportSkips, CascadeEnd, Ahead
<1>10. CASE Stopped
  BY <1>10 DEF Stopped
<1> QED
  BY <1>2, <1>3, <1>4, <1>5, <1>6, <1>7, <1>8, <1>9, <1>10 DEF EngineNext, EngineStep

\* Whatever executors answer and however often nodes fail, a run of N nodes
\* cannot go on for ever by steps of its own: no node is taken up twice, and
\* a cascade, which looks at a node once per path to it, comes to its end.
THEOREM EngineAdvances == EngineSafety => [][Advances]_vars
<1>1. WInv /\ EInv /\ [EngineNext]_vars => [Advances]_vars BY StepAdvances
<1> QED BY <1>1, EngineInvariant, PTL DEF EngineSafety
=============================================================================
