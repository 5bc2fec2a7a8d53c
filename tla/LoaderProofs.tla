---------------------------- MODULE LoaderProofs ----------------------------
(***************************************************************************)
(* First the cycle check by itself: it decides acyclicity, for every       *)
(* number of nodes and every set of graphs.  Then the loader around it:    *)
(* what an accepted file may rely on, for every file.                      *)
(***************************************************************************)
EXTENDS Loader, GraphProofs, WellFoundedInduction

-----------------------------------------------------------------------------
\* The cycle check.
\* The inductive invariant.  The in-degrees count the entries that name no
\* popped node, the queue is what is ready and not popped, and the popped
\* nodes have an order in which each comes after all it needs.
CountsUnpopped == \A n \in Node : scratch[n] = Unmet(needs, n, popped)

QueueIsReady == IsInjective(queue) /\ Range(queue) = {n \in Node \ popped : scratch[n] = 0}

PoppedAreDone == \A n \in popped : scratch[n] = 0

PoppedAcyclic ==
  \A S \in SUBSET popped : S # {} => \E n \in S : Needs(needs, n) \cap S = {}

VerdictFits ==
  /\ verdict = "ok" => popped = Node
  /\ verdict = "cycle" => queue = <<>> /\ popped # Node

CInv ==
  /\ TypeOK /\ CountsUnpopped /\ QueueIsReady
  /\ PoppedAreDone /\ PoppedAcyclic /\ VerdictFits

LEMMA InitCInv == Init => CInv
<1> SUFFICES ASSUME Init PROVE CInv
  OBVIOUS
<1>1. needs \in [Node -> Seq(Node)]
  BY GraphsAssumption DEF Init
<1>2. \A n \in Node : Len(needs[n]) \in Nat /\ Len(needs[n]) = Unmet(needs, n, {})
  BY <1>1, UnmetCounts, LenProperties
<1>3. popped = {} /\ \A n \in Node : scratch[n] = Len(needs[n])
  BY DEF Init, InDegree
<1>4. queue \in Seq(Node) /\ IsInjective(queue) /\ Range(queue) = {n \in Node : scratch[n] = 0}
  <2>1. {n \in Node : InDegree(needs, n) = 0} \in SUBSET Node
    OBVIOUS
  <2>2. {n \in Node : InDegree(needs, n) = 0} = {n \in Node : scratch[n] = 0}
    BY <1>3 DEF InDegree
  <2>3. QED
    BY <2>1, <2>2, SourceOrderIsSeq, InOrderKeeps DEF Init
<1>5. TypeOK
  BY <1>2, <1>4, NAssumption DEF Init, TypeOK, InDegree
<1>6. QED
  BY <1>2, <1>3, <1>4, <1>5
     DEF Init, CInv, CountsUnpopped, QueueIsReady, PoppedAreDone, PoppedAcyclic, VerdictFits

LEMMA PopCInv == CInv /\ Pop => CInv'
<1> SUFFICES ASSUME CInv, Pop PROVE CInv'
  OBVIOUS
<1> USE DEF CInv
<1>1. needs \in [Node -> Seq(Node)]
  BY GraphsAssumption DEF TypeOK
<1> DEFINE d == Head(queue)
<1>2. /\ d \in Node \ popped /\ scratch[d] = 0
      /\ Tail(queue) \in Seq(Node) /\ IsInjective(Tail(queue))
      /\ Range(Tail(queue)) = Range(queue) \ {d}
  BY TailInjective DEF Pop, TypeOK, QueueIsReady
<1>3. Needs(needs, d) \subseteq popped
  BY <1>1, <1>2, UnmetCounts DEF CountsUnpopped
<1>4. popped' = popped \cup {d} /\ scratch' = Cancelled(d) /\ UNCHANGED <<needs, verdict, blamed>>
  BY DEF Pop
<1> HIDE DEF d
<1>5. \A n \in Node : scratch'[n] = Unmet(needs, n, popped')
  <2>1. SUFFICES ASSUME NEW n \in Node PROVE scratch'[n] = Unmet(needs, n, popped')
    OBVIOUS
  <2>2. scratch'[n] = Unmet(needs, n, popped) - Cardinality(Occurrences(needs, n, d))
    BY <1>4 DEF CountsUnpopped, Cancelled
  <2>3. d \in Node /\ d \notin popped
    BY <1>2
  <2>4. Unmet(needs, n, popped \cup {d})
          = Unmet(needs, n, popped) - Cardinality(Occurrences(needs, n, d))
    BY <1>1, <2>3, UnmetDrops
  <2>5. QED
    BY <1>4, <2>2, <2>4
<1>6. \A n \in Node : scratch'[n] \in Nat /\ (scratch'[n] = 0 <=> Needs(needs, n) \subseteq popped')
  BY <1>1, <1>5, UnmetCounts
<1>7. \A n \in Node : scratch[n] = 0 <=> Needs(needs, n) \subseteq popped
  BY <1>1, UnmetCounts DEF CountsUnpopped
<1>8. Freed(d) = {n \in Node : d \in Needs(needs, n) /\ scratch'[n] = 0}
  BY <1>4 DEF Freed, Dependents
<1>9. PICK freed \in InOrder(SourceOrder, Freed(d)) : queue' = Tail(queue) \o freed
  BY DEF Pop, d
<1>10. freed \in Seq(Node) /\ Range(freed) = Freed(d) /\ IsInjective(freed)
  <2>1. Freed(d) \in SUBSET Node
    BY <1>8
  <2>2. QED
    BY <2>1, <1>9, SourceOrderIsSeq, InOrderKeeps
<1>11. Freed(d) \cap Range(queue) = {}
  BY <1>2, <1>7, <1>8 DEF QueueIsReady
<1>12. queue' \in Seq(Node) /\ IsInjective(queue') /\ Range(queue') = (Range(queue) \ {d}) \cup Freed(d)
  <2>1. Range(Tail(queue)) \cap Range(freed) = {}
    BY <1>2, <1>10, <1>11
  <2> DEFINE rest == Tail(queue)
  <2>2. rest \in Seq(Node) /\ IsInjective(rest) /\ Range(rest) \cap Range(freed) = {}
    BY <1>2, <2>1
  <2>3. queue' = rest \o freed
    BY <1>9
  <2> HIDE DEF rest
  <2>4. /\ rest \o freed \in Seq(Node) /\ IsInjective(rest \o freed)
        /\ Range(rest \o freed) = Range(rest) \cup Range(freed)
    BY <1>10, <2>2, ConcatInjective
  <2>5. QED
    BY <1>2, <1>10, <2>3, <2>4 DEF rest
<1>13. (Range(queue) \ {d}) \cup Freed(d) = {n \in Node \ popped' : scratch'[n] = 0}
  <2>1. \A n \in popped : Needs(needs, n) \subseteq popped
    BY <1>7 DEF PoppedAreDone, TypeOK
  <2>2. QED
    BY <1>2, <1>3, <1>4, <1>6, <1>7, <1>8, <2>1 DEF QueueIsReady
<1>14. TypeOK'
  <2>1. scratch' \in [Node -> Nat]
    BY <1>4, <1>6 DEF Cancelled
  <2>2. QED
    BY <1>2, <1>4, <1>12, <2>1 DEF TypeOK
<1>15. PoppedAreDone'
  BY <1>2, <1>3, <1>4, <1>6, <1>7 DEF PoppedAreDone, TypeOK
<1>16. PoppedAcyclic'
  <2>1. SUFFICES ASSUME NEW S \in SUBSET (popped \cup {d}), S # {}
                 PROVE  \E n \in S : Needs(needs, n) \cap S = {}
    BY <1>4 DEF PoppedAcyclic
  <2>2. CASE S \ {d} = {}
    BY <1>2, <1>3, <2>1, <2>2
  <2>3. CASE S \ {d} # {}
    <3>1. PICK n \in S \ {d} : Needs(needs, n) \cap (S \ {d}) = {}
      BY <2>1, <2>3 DEF PoppedAcyclic
    <3>2. Needs(needs, n) \subseteq popped
      BY <1>7, <2>1, <3>1 DEF PoppedAreDone, TypeOK
    <3>3. QED
      BY <1>2, <3>1, <3>2
  <2>4. QED
    BY <2>2, <2>3
<1>17. VerdictFits'
  BY <1>4 DEF VerdictFits, Pop
<1>18. QED
  BY <1>4, <1>5, <1>12, <1>13, <1>14, <1>15, <1>16, <1>17 DEF CountsUnpopped, QueueIsReady

LEMMA DecideCInv == CInv /\ Decide => CInv'
<1> SUFFICES ASSUME CInv, Decide PROVE CInv'
  OBVIOUS
<1> USE DEF CInv
<1>1. UNCHANGED <<needs, scratch, queue, popped>> /\ queue = <<>>
  BY DEF Decide
<1>2. popped = Node <=> Cardinality(popped) = N
  BY NodesAreFinite, FS_Subset DEF TypeOK
<1>3. TypeOK'
  BY <1>1, NAssumption DEF Decide, TypeOK, Residual, Node
<1>4. VerdictFits'
  BY <1>1, <1>2, NAssumption DEF Decide, VerdictFits
<1>5. QED
  BY <1>1, <1>3, <1>4 DEF CountsUnpopped, QueueIsReady, PoppedAreDone, PoppedAcyclic

LEMMA StutterCInv == CInv /\ UNCHANGED vars => CInv'
BY DEF vars, CInv, TypeOK, CountsUnpopped, QueueIsReady, PoppedAreDone, PoppedAcyclic, VerdictFits

THEOREM CycleInvariant == Spec => []CInv
<1>1. Init => CInv
  BY InitCInv
<1>2. CInv /\ [Next]_vars => CInv'
  BY StutterCInv, PopCInv, DecideCInv DEF Next, Judged
<1>3. QED
  BY <1>1, <1>2, PTL DEF Spec

\* Types and the counters' lower bound: no `scratch[dep] -= 1` underflows.
THEOREM CycleTypes == Spec => []TypeOK
BY CycleInvariant, PTL DEF CInv

\* When the queue ran dry, the nodes never popped wait on each other.
LEMMA DryQueue ==
  ASSUME CInv, queue = <<>>
  PROVE  \A n \in Node \ popped : scratch[n] > 0 /\ Needs(needs, n) \cap (Node \ popped) # {}
<1>1. Range(queue) = {}
  BY DEF Range
<1>2. \A n \in Node \ popped : scratch[n] # 0 /\ scratch[n] \in Nat
  BY <1>1 DEF CInv, QueueIsReady, TypeOK
<1>3. needs \in [Node -> Seq(Node)]
  BY GraphsAssumption DEF CInv, TypeOK
<1>4. \A n \in Node \ popped : ~ (Needs(needs, n) \subseteq popped) /\ Needs(needs, n) \subseteq Node
  BY <1>2, <1>3, UnmetCounts, NeedsAreNodes DEF CInv, CountsUnpopped
<1>5. QED
  BY <1>2, <1>4

LEMMA VerdictFollows == CInv => VerdictCorrect
<1> SUFFICES ASSUME CInv PROVE VerdictCorrect
  OBVIOUS
<1>1. verdict = "ok" => Acyclic(needs)
  BY DEF CInv, VerdictFits, PoppedAcyclic, Acyclic
<1>2. ASSUME verdict = "cycle" PROVE ~ Acyclic(needs)
  <2>1. queue = <<>> /\ Node \ popped # {} /\ Node \ popped \in SUBSET Node
    BY <1>2 DEF CInv, VerdictFits, TypeOK
  <2>2. QED
    BY <2>1, DryQueue DEF Acyclic
<1>3. QED
  BY <1>1, <1>2 DEF VerdictCorrect

\* The verdict is acyclicity itself: neither the loader nor the walker lets
\* a cyclic pipeline run, and neither turns an acyclic one away.
THEOREM VerdictIsCorrect == Spec => []VerdictCorrect
BY CycleInvariant, VerdictFollows, PTL

\* The residual node that the error path unwraps is always there.
THEOREM ResidualAlwaysExists == Spec => []ResidualExists
<1>1. CInv => ResidualExists
  <2> SUFFICES ASSUME CInv, queue = <<>>, Cardinality(popped) < N PROVE Residual # {}
    BY DEF ResidualExists
  <2>1. popped # Node
    BY NodesAreFinite, NAssumption
  <2>2. Node \ popped # {}
    BY <2>1 DEF CInv, TypeOK
  <2>3. QED
    BY <2>2, DryQueue DEF Residual
<1>2. QED
  BY <1>1, CycleInvariant, PTL

-----------------------------------------------------------------------------
\* The loader: as long as it checks the graph it takes the steps of the cycle
\* check, and of no other check does it move that algorithm's state.
LEMMA LoaderDrives == [LoaderNext]_loaderVars => [Pop \/ Decide]_vars
<1> SUFFICES ASSUME [LoaderNext]_loaderVars PROVE Pop \/ Decide \/ UNCHANGED vars
  OBVIOUS
<1>1. CASE LoadStep
  BY <1>1 DEF LoadStep, CheckVersion, CheckServers, CheckNodes, CheckGraph, CheckAgents, Check
<1>2. CASE ValidateCommand \/ Spawn \/ Replay \/ \E a \in Agents : Begin(a)
  BY <1>2 DEF ValidateCommand, Spawn, Replay, Begin
<1>3. CASE Stopped \/ UNCHANGED loaderVars
  BY <1>3 DEF Stopped, loaderVars
<1> QED
  BY <1>1, <1>2, <1>3 DEF LoaderNext

\* No file gets past its graph check but with a verdict that is right.
THEOREM LoaderDecides == LoaderSpec => []VerdictCorrect
<1>1. LoaderInit => CInv
  BY InitCInv DEF LoaderInit
<1>2. CInv /\ [LoaderNext]_loaderVars => CInv'
  <2>1. ASSUME CInv, UNCHANGED vars PROVE CInv'
    BY <2>1, StutterCInv
  <2> QED
    BY <2>1, LoaderDrives, PopCInv, DecideCInv
<1>3. QED
  BY <1>1, <1>2, VerdictFollows, PTL DEF LoaderSpec

\* What has been checked when: the file is one of those considered, past its
\* graph check the verdict was ok, and past the agents every entry of a tool
\* list was allowed.
FileGiven == \E in \in Inputs : file = in.file

Checking == {"version", "servers", "nodes", "graph", "refused"}

GraphChecked == pc \notin Checking => verdict = "ok"

AgentsChecked == Accepted => \A a \in Agents : \A e \in Listed(a) : EntryAllowed(a, e)

LInv == FileGiven /\ GraphChecked /\ AgentsChecked

LEMMA InitLInv == LoaderInit => LInv
BY DEF LoaderInit, LInv, FileGiven, GraphChecked, AgentsChecked, Accepted, Checking

LEMMA StepLInv == LInv /\ [LoaderNext]_loaderVars => LInv'
<1> SUFFICES ASSUME LInv, [LoaderNext]_loaderVars PROVE LInv'
  OBVIOUS
<1>1. file' = file
  BY DEF LoaderNext, LoadStep, CheckVersion, CheckServers, CheckNodes, CheckGraph, CheckAgents, Check,
         ValidateCommand, Spawn, Begin, Replay, Stopped, loaderVars
<1>2. ASSUME NEW a \in Agents PROVE Listed(a)' = Listed(a) /\ \A e : EntryAllowed(a, e)' = EntryAllowed(a, e)
  BY <1>1 DEF Listed, EntryAllowed, ServerNames, RootsWithin
<1> HIDE DEF LInv
<1>3. ASSUME UNCHANGED verdict, Accepted' => Accepted, pc' \notin Checking => pc \notin Checking
      PROVE  LInv'
  BY <1>1, <1>2, <1>3 DEF LInv, FileGiven, GraphChecked, AgentsChecked
<1>4. CASE CheckVersion \/ CheckServers \/ CheckNodes
  BY <1>3, <1>4 DEF CheckVersion, CheckServers, CheckNodes, Check, vars, Accepted, Checking
<1>5. CASE CheckGraph
  <2>1. /\ pc' = "graph" \/ pc' = "agents" \/ pc' = "refused"
        /\ pc' = "agents" => verdict' = "ok"
    BY <1>5 DEF CheckGraph
  <2>2. ~ Accepted' /\ GraphChecked'
    BY <2>1 DEF Accepted, GraphChecked, Checking
  <2> QED
    BY <1>1, <2>2 DEF LInv, FileGiven, AgentsChecked
<1>6. CASE CheckAgents
  <2>1. /\ pc = "agents" /\ verdict' = verdict
        /\ pc' = IF \A a \in Agents : \A e \in Listed(a) : EntryAllowed(a, e) THEN "accepted" ELSE "refused"
    BY <1>6 DEF CheckAgents, Check, vars
  <2>2. AgentsChecked'
    BY <1>2, <2>1 DEF AgentsChecked, Accepted
  <2>3. GraphChecked'
    BY <2>1 DEF LInv, GraphChecked, Checking
  <2> QED
    BY <1>1, <2>2, <2>3 DEF LInv, FileGiven
<1>7. CASE ValidateCommand \/ Spawn \/ Replay
  BY <1>3, <1>7 DEF ValidateCommand, Spawn, Replay, vars, Accepted, Checking
<1>8. CASE (\E a \in Agents : Begin(a)) \/ Stopped \/ UNCHANGED loaderVars
  BY <1>3, <1>8 DEF Begin, Stopped, loaderVars, vars, Accepted, Checking
<1> QED
  BY <1>4, <1>5, <1>6, <1>7, <1>8 DEF LoaderNext, LoadStep

THEOREM LoaderInvariant == LoaderSpec => []LInv
BY InitLInv, StepLInv, PTL DEF LoaderSpec

\* Nothing that waits on itself is accepted, validated or run.
THEOREM AcceptedIsAcyclic == LoaderSpec => [](Accepted => Acyclic(needs))
<1>1. LInv /\ VerdictCorrect => (Accepted => Acyclic(needs))
  BY DEF LInv, GraphChecked, Accepted, Checking, VerdictCorrect
<1> QED
  BY <1>1, LoaderInvariant, LoaderDecides, PTL

-----------------------------------------------------------------------------
\* What a prefix is, element by element; and being one carries over.
LEMMA PrefixMeans ==
  ASSUME NEW S, NEW p \in Seq(S), NEW q \in Seq(S)
  PROVE  IsPrefix(p, q) <=> Len(p) <= Len(q) /\ \A i \in 1 .. Len(p) : p[i] = q[i]
<1>1. SubSeq(p, 1, Len(p)) = p
  OBVIOUS
<1>2. CASE Len(p) <= Len(q)
  <2>1. /\ Len(SubSeq(q, 1, Len(p))) = Len(p) /\ SubSeq(q, 1, Len(p)) \in Seq(S)
        /\ \A i \in 1 .. Len(p) : SubSeq(q, 1, Len(p))[i] = q[i]
    BY <1>2
  <2> QED
    BY <1>1, <1>2, <2>1 DEF IsPrefix
<1>3. CASE ~ (Len(p) <= Len(q))
  BY <1>3 DEF IsPrefix
<1> QED
  BY <1>2, <1>3

LEMMA PrefixOfPrefix ==
  ASSUME NEW S, NEW p \in Seq(S), NEW q \in Seq(S), NEW r \in Seq(S), IsPrefix(p, q), IsPrefix(q, r)
  PROVE  IsPrefix(p, r)
BY PrefixMeans

\* What is within reach is in every set of agents that holds the children of
\* a and, of its own members on the way, theirs.
LEMMA ReachStays ==
  ASSUME NEW a, NEW via, NEW S \in SUBSET Agents, Children(a) \subseteq S,
         \A b \in S \cap via : Children(b) \subseteq S
  PROVE  Reach(a, via) \subseteq S
BY DEF Reach

\* A child, as the loader let it pass.
LEMMA ChildAllowed ==
  ASSUME LInv, Accepted, NEW a \in Agents, NEW c \in Children(a)
  PROVE  /\ c \in Agents /\ MayDelegate(file.agents[a], file.agents[c])
         /\ RootsWithin(file.agents[a], file.agents[c])
<1>1. PICK e \in Listed(a) : e.kind = "subagent" /\ c = Head(e.name)
  BY DEF Children
<1> QED
  BY <1>1 DEF LInv, AgentsChecked, EntryAllowed

\* Checking every delegation by itself makes rights, depth and roots narrow
\* along whole chains: the agents that keep to the bounds of the first are
\* closed under delegation.
THEOREM DelegationsNarrow == LoaderSpec => []DelegationNarrows
<1>1. LInv => DelegationNarrows
  <2> SUFFICES ASSUME LInv, Accepted, NEW a \in Agents
               PROVE  /\ \A c \in Reach(a, Agents) :
                           /\ file.agents[c].allow \subseteq file.agents[a].allow
                           /\ file.agents[a].max_subagent_depth < U32Max =>
                                file.agents[c].max_subagent_depth < file.agents[a].max_subagent_depth
                      /\ a \in {x \in Agents : Jailed(x)} =>
                           \A c \in Reach(a, {x \in Agents : Jailed(x)}) : \A r \in file.agents[c].roots :
                             \E q \in file.agents[a].roots : IsPrefix(q, r)
    BY DEF DelegationNarrows
  <2> DEFINE depth(x) == file.agents[x].max_subagent_depth
             roots(x) == file.agents[x].roots
             allow(x) == file.agents[x].allow
             jailed == {x \in Agents : Jailed(x)}
  <2>1. \A x \in Agents : depth(x) \in Nat /\ depth(x) <= U32Max /\ roots(x) \subseteq Seq(Words)
    BY InputsAssumption, NamesAssumption DEF LInv, FileGiven, u32
  <2>2. \A x \in Agents : \A c \in Children(x) :
          c \in Agents /\ allow(c) \subseteq allow(x) /\ (depth(x) < U32Max => depth(c) < depth(x))
    <3> SUFFICES ASSUME NEW x \in Agents, NEW c \in Children(x)
                 PROVE  c \in Agents /\ allow(c) \subseteq allow(x) /\ (depth(x) < U32Max => depth(c) < depth(x))
      OBVIOUS
    <3>1. c \in Agents /\ allow(c) \subseteq allow(x) /\ SaturatingSucc(depth(c)) <= depth(x)
      BY ChildAllowed DEF MayDelegate
    <3> QED
      BY <2>1, <3>1, NamesAssumption DEF SaturatingSucc
  <2>3. \A x \in Agents : \A c \in Children(x) :
          x \in jailed => \A r \in roots(c) : \E q \in roots(x) : IsPrefix(q, r)
    BY ChildAllowed DEF Jailed, RootsWithin
  <2> HIDE DEF depth, roots, allow
  <2>4. ASSUME NEW c \in Reach(a, Agents)
        PROVE  allow(c) \subseteq allow(a) /\ (depth(a) < U32Max => depth(c) < depth(a))
    <3> DEFINE S == {x \in Agents : allow(x) \subseteq allow(a) /\ (depth(a) < U32Max => depth(x) < depth(a))}
    <3>1. Children(a) \subseteq S
      BY <2>2
    <3>2. \A b \in S : Children(b) \subseteq S
      BY <2>1, <2>2, NamesAssumption
    <3>3. S \in SUBSET Agents
      OBVIOUS
    <3> HIDE DEF S
    <3>4. c \in S
      BY <2>4, <3>1, <3>2, <3>3, ReachStays
    <3> QED
      BY <3>4 DEF S
  <2>5. ASSUME a \in jailed, NEW c \in Reach(a, jailed), NEW r \in roots(c)
        PROVE  \E q \in roots(a) : IsPrefix(q, r)
    <3> DEFINE S == {x \in Agents : \A s \in roots(x) : \E q \in roots(a) : IsPrefix(q, s)}
    <3>1. Children(a) \subseteq S
      BY <2>2, <2>3, <2>5
    <3>2. ASSUME NEW b \in S \cap jailed, NEW d \in Children(b) PROVE d \in S
      <4> SUFFICES ASSUME NEW s \in roots(d) PROVE \E q \in roots(a) : IsPrefix(q, s)
        BY <2>2
      <4>1. b \in Agents /\ d \in Agents
        BY <2>2
      <4>2. PICK t \in roots(b) : IsPrefix(t, s)
        BY <2>3, <4>1
      <4>3. PICK q \in roots(a) : IsPrefix(q, t)
        OBVIOUS
      <4>4. s \in Seq(Words) /\ t \in Seq(Words) /\ q \in Seq(Words)
        BY <2>1, <4>1
      <4> QED
        BY <4>2, <4>3, <4>4, PrefixOfPrefix
    <3>3. S \in SUBSET Agents
      OBVIOUS
    <3> HIDE DEF S, jailed
    <3>4. c \in S
      BY <2>5, <3>1, <3>2, <3>3, ReachStays
    <3> QED
      BY <2>5, <3>4 DEF S
  <2> QED
    BY <2>4, <2>5 DEF depth, roots, allow
<1> QED
  BY <1>1, LoaderInvariant, PTL

-----------------------------------------------------------------------------
\* Lists: what flattening, keeping and the removal of duplicates leave.
\* A set of positions that holds 0, and with each its successor, holds all.
LEMMA CountingUp ==
  ASSUME NEW n \in Nat, NEW T, 0 \in T, \A i \in 0 .. n - 1 : i \in T => i + 1 \in T
  PROVE  0 .. n \subseteq T
<1> SUFFICES ASSUME NEW k \in 0 .. n, k \notin T PROVE FALSE
  OBVIOUS
<1> DEFINE less == {p \in Nat \X Nat : p[1] < p[2]}
           bad  == {i \in 0 .. n : i \notin T}
<1>1. IsWellFoundedOn(less, Nat)
  BY NatLessThanWellFounded DEF OpToRel
<1>2. bad # {} /\ bad \subseteq Nat
  BY SMT
<1>3. PICK m \in bad : \A i \in bad : <<i, m>> \notin less
  <2> HIDE DEF less, bad
  <2> QED BY <1>1, <1>2, WFMin
<1>4. m \in 1 .. n /\ m - 1 \in 0 .. n - 1
  <2>1. m # 0
    BY <1>3
  <2> QED
    BY <1>3, <2>1
<1>5. m - 1 \in T
  <2>1. m - 1 \in 0 .. n /\ m - 1 < m /\ m - 1 \in Nat /\ m \in Nat
    BY <1>4
  <2>2. <<m - 1, m>> \in less
    BY <2>1
  <2> QED
    BY <1>3, <2>1, <2>2
<1> QED
  BY <1>3, <1>4, <1>5

\* What FlattenSeq computes, and that there is such a function.
LEMMA Flattening ==
  ASSUME NEW S, NEW seqs \in Seq(Seq(S)), Len(seqs) # 0
  PROVE  \E f : /\ \A i \in 1 .. Len(seqs) : f[i] = IF i = 1 THEN seqs[i] ELSE f[i - 1] \o seqs[i]
                /\ FlattenSeq(seqs) = f[Len(seqs)]
<1> DEFINE n == Len(seqs)
           step(f, i) == IF i = 1 THEN seqs[i] ELSE f[i - 1] \o seqs[i]
           fits(f, k) == f = [i \in 1 .. k |-> f[i]] /\ \A i \in 1 .. k : f[i] = step(f, i)
           upto == {k \in 0 .. n : \E f : fits(f, k)}
<1>1. n \in Nat /\ n # 0 /\ n \in 0 .. n
  OBVIOUS
<1>2. 0 \in upto
  <2> DEFINE f == [i \in 1 .. 0 |-> seqs[i]]
  <2>1. fits(f, 0)
    <3>1. f = [i \in 1 .. 0 |-> f[i]]
      OBVIOUS
    <3>2. \A i \in 1 .. 0 : f[i] = step(f, i)
      OBVIOUS
    <3> QED
      BY <3>1, <3>2
  <2> HIDE DEF f, fits
  <2> QED
    BY <1>1, <2>1
<1>3. ASSUME NEW k \in 0 .. n - 1, k \in upto PROVE k + 1 \in upto
  <2>1. PICK g : fits(g, k)
    <3> HIDE DEF fits
    <3> QED BY <1>3
  <2> DEFINE f == [i \in 1 .. k + 1 |-> IF i = k + 1 THEN step(g, i) ELSE g[i]]
  <2>2. \A i \in 1 .. k + 1 : f[i] = step(f, i)
    <3> TAKE i \in 1 .. k + 1
    <3>1. CASE i = k + 1
      <4>1. f[i] = step(g, i)
        BY <3>1
      <4>2. i # 1 => i - 1 \in 1 .. k /\ f[i - 1] = g[i - 1]
        BY <3>1
      <4> HIDE DEF f
      <4> QED
        BY <4>1, <4>2
    <3>2. CASE i # k + 1
      <4>1. i \in 1 .. k /\ f[i] = g[i]
        BY <1>1, <3>2
      <4>3. g[i] = step(g, i)
        BY <2>1, <4>1
      <4>2. i # 1 => i - 1 \in 1 .. k /\ f[i - 1] = g[i - 1]
        BY <3>2
      <4> HIDE DEF f
      <4> QED
        BY <4>1, <4>2, <4>3
    <3> QED
      BY <3>1, <3>2
  <2>3. f = [i \in 1 .. k + 1 |-> f[i]]
    OBVIOUS
  <2>4. fits(f, k + 1)
    <3> HIDE DEF f, step
    <3> QED
      BY <2>2, <2>3
  <2>5. k + 1 \in 0 .. n
    BY <1>1
  <2> HIDE DEF f, fits
  <2> QED
    BY <2>4, <2>5
<1>4. \E f : f = [i \in 1 .. n |-> step(f, i)]
  <2>1. n \in upto
    <3> HIDE DEF upto
    <3> QED BY <1>1, <1>2, <1>3, CountingUp
  <2>2. PICK f : fits(f, n)
    BY <2>1
  <2>3. f = [i \in 1 .. n |-> step(f, i)]
    BY <2>2
  <2> QED
    BY <2>3
<1> DEFINE F == CHOOSE f : f = [i \in 1 .. n |-> step(f, i)]
<1>5. FlattenSeq(seqs) = F[n]
  BY <1>1 DEF FlattenSeq
<1>6. F = [i \in 1 .. n |-> step(F, i)]
  BY <1>4
<1>7. \A i \in 1 .. n : F[i] = step(F, i)
  <2> HIDE DEF F
  <2> QED BY <1>6
<1> QED
  BY <1>5, <1>7

\* The entries of two lists put together.
LEMMA JoinedSets ==
  ASSUME NEW S, NEW s \in Seq(S), NEW t \in Seq(S)
  PROVE  s \o t \in Seq(S) /\ ToSet(s \o t) = ToSet(s) \cup ToSet(t)
<1>1. /\ s \o t \in Seq(S) /\ Len(s) \in Nat /\ Len(t) \in Nat /\ Len(s \o t) = Len(s) + Len(t)
      /\ DOMAIN s = 1 .. Len(s) /\ DOMAIN t = 1 .. Len(t) /\ DOMAIN (s \o t) = 1 .. Len(s) + Len(t)
      /\ \A i \in 1 .. Len(s) : (s \o t)[i] = s[i]
      /\ \A i \in 1 .. Len(t) : (s \o t)[Len(s) + i] = t[i]
  OBVIOUS
<1> DEFINE u == s \o t
<1> HIDE DEF u
<1>2. ASSUME NEW x \in ToSet(s) \cup ToSet(t) PROVE x \in ToSet(u)
  <2>1. CASE x \in ToSet(s)
    <3>1. PICK i \in 1 .. Len(s) : x = s[i]
      BY <1>1, <2>1 DEF ToSet
    <3>2. i \in DOMAIN u /\ u[i] = x
      BY <1>1, <3>1 DEF u
    <3> QED
      BY <3>2 DEF ToSet
  <2>2. CASE x \in ToSet(t)
    <3>1. PICK i \in 1 .. Len(t) : x = t[i]
      BY <1>1, <2>2 DEF ToSet
    <3>2. Len(s) + i \in DOMAIN u /\ u[Len(s) + i] = x
      BY <1>1, <3>1 DEF u
    <3> QED
      BY <3>2 DEF ToSet
  <2> QED
    BY <2>1, <2>2
<1>3. ASSUME NEW x \in ToSet(u) PROVE x \in ToSet(s) \cup ToSet(t)
  <2>1. PICK i \in 1 .. Len(s) + Len(t) : x = u[i]
    BY <1>1, <1>3 DEF ToSet, u
  <2>2. CASE i <= Len(s)
    <3>1. i \in DOMAIN s /\ x = s[i]
      BY <1>1, <2>1, <2>2 DEF u
    <3> QED
      BY <3>1 DEF ToSet
  <2>3. CASE ~ i <= Len(s)
    <3>1. i - Len(s) \in DOMAIN t /\ x = t[i - Len(s)]
      <4>1. i - Len(s) \in 1 .. Len(t) /\ Len(s) + (i - Len(s)) = i
        BY <1>1, <2>3
      <4> QED
        BY <1>1, <2>1, <4>1 DEF u
    <3> QED
      BY <3>1 DEF ToSet
  <2> QED
    BY <2>2, <2>3
<1> QED
  BY <1>1, <1>2, <1>3 DEF u

\* The entries of a flattened list are those of its parts.
LEMMA FlattenMeans ==
  ASSUME NEW S, NEW seqs \in Seq(Seq(S))
  PROVE  /\ FlattenSeq(seqs) \in Seq(S)
         /\ ToSet(FlattenSeq(seqs)) = UNION {ToSet(seqs[i]) : i \in DOMAIN seqs}
<1> DEFINE n == Len(seqs)
<1>1. CASE n = 0
  <2>1. seqs = <<>> /\ FlattenSeq(seqs) = <<>>
    BY <1>1 DEF FlattenSeq
  <2>2. ToSet(FlattenSeq(seqs)) = {} /\ DOMAIN seqs = {}
    BY <2>1 DEF ToSet
  <2>3. UNION {ToSet(seqs[i]) : i \in DOMAIN seqs} = {}
    BY <2>2
  <2>4. <<>> \in Seq(S)
    OBVIOUS
  <2> QED
    BY <2>1, <2>2, <2>3, <2>4
<1>2. CASE n # 0
  <2>1. PICK f : /\ \A i \in 1 .. n : f[i] = IF i = 1 THEN seqs[i] ELSE f[i - 1] \o seqs[i]
                 /\ FlattenSeq(seqs) = f[n]
    BY <1>2, Flattening
  <2> DEFINE parts(k) == UNION {ToSet(seqs[i]) : i \in 1 .. k}
             good == {k \in 0 .. n : k # 0 => f[k] \in Seq(S) /\ ToSet(f[k]) = parts(k)}
  <2>2. n \in Nat /\ n \in 1 .. n /\ DOMAIN seqs = 1 .. n /\ \A i \in 1 .. n : seqs[i] \in Seq(S)
    BY <1>2
  <2>3. ASSUME NEW k \in 0 .. n - 1, k \in good PROVE k + 1 \in good
    <3>1. k + 1 \in 1 .. n /\ k + 1 \in 0 .. n
      BY <2>2
    <3>2. parts(k + 1) = parts(k) \cup ToSet(seqs[k + 1])
      <4>1. 1 .. k + 1 = 1 .. k \cup {k + 1}
        BY <2>2
      <4> QED
        BY <4>1
    <3> HIDE DEF parts
    <3>3. CASE k = 0
      <4>1. f[k + 1] = seqs[k + 1]
        BY <2>1, <3>1, <3>3
      <4>2. parts(k) = {}
        BY <3>3 DEF parts
      <4> QED
        BY <2>2, <3>1, <3>2, <4>1, <4>2
    <3>4. CASE k # 0
      <4>1. f[k + 1] = f[k] \o seqs[k + 1]
        <5>1. k + 1 # 1 /\ (k + 1) - 1 = k
          BY <3>4
        <5> QED
          BY <2>1, <3>1, <5>1
      <4>2. f[k] \in Seq(S) /\ ToSet(f[k]) = parts(k) /\ seqs[k + 1] \in Seq(S)
        BY <2>2, <2>3, <3>1, <3>4
      <4>3. f[k] \o seqs[k + 1] \in Seq(S) /\ ToSet(f[k] \o seqs[k + 1]) = ToSet(f[k]) \cup ToSet(seqs[k + 1])
        BY <4>2, JoinedSets
      <4> QED
        BY <3>1, <3>2, <4>1, <4>2, <4>3
    <3> QED
      BY <3>3, <3>4
  <2>4. 0 \in good
    BY <2>2
  <2>5. n \in good
    <3>1. n \in Nat /\ n \in 0 .. n
      BY <2>2
    <3> HIDE DEF good, n
    <3> QED BY <2>3, <2>4, <3>1, CountingUp
  <2> QED
    BY <1>2, <2>1, <2>2, <2>5
<1> QED
  BY <1>1, <1>2

\* The entries that are kept.
LEMMA KeptMeans ==
  ASSUME NEW S, NEW list \in Seq(S), NEW at
  PROVE  /\ KeptAt(list, at) \in Seq(S)
         /\ ToSet(KeptAt(list, at)) = {list[i] : i \in DOMAIN list \cap at}
<1> DEFINE parts == [i \in DOMAIN list |-> IF i \in at THEN <<list[i]>> ELSE <<>>]
<1>1. DOMAIN list = 1 .. Len(list) /\ Len(list) \in Nat /\ \A i \in DOMAIN list : list[i] \in S
  OBVIOUS
<1>2. ASSUME NEW i \in DOMAIN list
      PROVE  parts[i] \in Seq(S) /\ ToSet(parts[i]) = IF i \in at THEN {list[i]} ELSE {}
  <2>1. <<list[i]>> \in Seq(S) /\ <<>> \in Seq(S)
    BY <1>1
  <2>2. ToSet(<<list[i]>>) = {list[i]} /\ ToSet(<<>>) = {}
    BY DEF ToSet
  <2> QED
    BY <2>1, <2>2
<1>3. parts \in Seq(Seq(S)) /\ DOMAIN parts = DOMAIN list
  <2>1. \A i \in 1 .. Len(list) : parts[i] \in Seq(S)
    BY <1>1, <1>2
  <2>2. parts = [i \in 1 .. Len(list) |-> parts[i]]
    BY <1>1
  <2> HIDE DEF parts
  <2>3. parts \in [1 .. Len(list) -> Seq(S)]
    BY <2>1, <2>2
  <2> QED
    BY <1>1, <2>3
<1>4. KeptAt(list, at) = FlattenSeq(parts)
  BY DEF KeptAt
<1> HIDE DEF parts
<1>5. /\ FlattenSeq(parts) \in Seq(S)
      /\ ToSet(FlattenSeq(parts)) = UNION {ToSet(parts[i]) : i \in DOMAIN parts}
  BY <1>3, FlattenMeans
<1>6. UNION {ToSet(parts[i]) : i \in DOMAIN list} = {list[i] : i \in DOMAIN list \cap at}
  BY <1>2, Zenon
<1> QED
  BY <1>3, <1>4, <1>5, <1>6

\* No name is lost to the removal of duplicates.
LEMMA DistinctMeans ==
  ASSUME NEW S, NEW names \in Seq(S)
  PROVE  Distinct(names) \in Seq(S) /\ ToSet(Distinct(names)) = ToSet(names)
<1> DEFINE first == {i \in DOMAIN names : \A j \in 1 .. i - 1 : names[j] # names[i]}
<1>1. Distinct(names) = KeptAt(names, first)
  BY DEF Distinct
<1>2. \A i \in DOMAIN names : \E j \in DOMAIN names \cap first : names[j] = names[i]
  <2> TAKE i \in DOMAIN names
  <2> DEFINE less == {p \in Nat \X Nat : p[1] < p[2]}
             same == {j \in DOMAIN names : names[j] = names[i]}
  <2>1. IsWellFoundedOn(less, Nat)
    BY NatLessThanWellFounded DEF OpToRel
  <2>2. DOMAIN names = 1 .. Len(names) /\ Len(names) \in Nat
    OBVIOUS
  <2>3. same # {} /\ same \subseteq Nat
    BY <2>2
  <2>4. PICK m \in same : \A j \in same : <<j, m>> \notin less
    <3> HIDE DEF less, same
    <3> QED BY <2>1, <2>3, WFMin
  <2>5. ASSUME NEW j \in 1 .. m - 1, names[j] = names[m] PROVE FALSE
    <3>1. m \in DOMAIN names /\ j \in DOMAIN names /\ j < m /\ j \in Nat /\ m \in Nat
      BY <2>2, <2>4
    <3>2. j \in same /\ <<j, m>> \in less
      BY <2>4, <2>5, <3>1
    <3> QED
      BY <2>4, <3>2
  <2>6. m \in first /\ m \in DOMAIN names /\ names[m] = names[i]
    BY <2>4, <2>5
  <2> QED
    BY <2>6
<1>3. {names[i] : i \in DOMAIN names \cap first} = ToSet(names)
  <2> HIDE DEF first
  <2> QED BY <1>2 DEF ToSet
<1> HIDE DEF first
<1> QED
  BY <1>1, <1>3, KeptMeans

-----------------------------------------------------------------------------
\* Names on the wire.
\* The sequence a name makes with one more word, and with a third part.
LEMMA JoinedWith ==
  ASSUME NEW S, NEW s \in Seq(S), NEW u \in S, NEW t \in Seq(S)
  PROVE  /\ s \o <<u>> \in Seq(S) /\ Len(s \o <<u>>) = Len(s) + 1
         /\ (s \o <<u>>)[Len(s) + 1] = u /\ \A i \in 1 .. Len(s) : (s \o <<u>>)[i] = s[i]
         /\ (s \o <<u>>) \o t \in Seq(S) /\ Len((s \o <<u>>) \o t) = Len(s) + 1 + Len(t)
         /\ \A i \in 1 .. Len(s) + 1 : ((s \o <<u>>) \o t)[i] = (s \o <<u>>)[i]
         /\ \A i \in 1 .. Len(t) : ((s \o <<u>>) \o t)[Len(s) + 1 + i] = t[i]
<1>1. <<u>> \in Seq(S) /\ Len(<<u>>) = 1 /\ <<u>>[1] = u
  OBVIOUS
<1> DEFINE p == s \o <<u>>
<1>2. /\ p \in Seq(S) /\ Len(p) = Len(s) + 1 /\ p[Len(s) + 1] = u
      /\ \A i \in 1 .. Len(s) : p[i] = s[i]
  BY <1>1
<1> HIDE DEF p
<1>3. /\ p \o t \in Seq(S) /\ Len(p \o t) = Len(p) + Len(t)
      /\ \A i \in 1 .. Len(p) : (p \o t)[i] = p[i]
      /\ \A i \in 1 .. Len(t) : (p \o t)[Len(p) + i] = t[i]
  BY <1>2
<1> QED
  BY <1>2, <1>3 DEF p

\* A wire name that begins with a server's name and an underscore.
LEMMA PrefixedMeans ==
  ASSUME NEW S, Underscore \in S, NEW s \in Seq(S), NEW w \in Seq(S)
  PROVE  Prefixed(s, w) <=> /\ Len(s) < Len(w) /\ w[Len(s) + 1] = Underscore
                            /\ \A i \in 1 .. Len(s) : s[i] = w[i]
<1> DEFINE p == s \o <<Underscore>>
<1>1. p \in Seq(S) /\ Len(p) = Len(s) + 1 /\ p[Len(s) + 1] = Underscore /\ \A i \in 1 .. Len(s) : p[i] = s[i]
  <2>1. <<>> \in Seq(S)
    OBVIOUS
  <2> QED
    BY <2>1, JoinedWith
<1> HIDE DEF p
<1>2. IsPrefix(p, w) <=> Len(p) <= Len(w) /\ \A i \in 1 .. Len(p) : p[i] = w[i]
  BY <1>1, PrefixMeans
<1>3. Len(s) \in Nat /\ Len(w) \in Nat
  OBVIOUS
<1>4. (\A i \in 1 .. Len(p) : p[i] = w[i]) <=> w[Len(s) + 1] = Underscore /\ \A i \in 1 .. Len(s) : s[i] = w[i]
  BY <1>1, <1>3
<1> QED
  BY <1>1, <1>2, <1>3, <1>4 DEF Prefixed, p

\* Of two names that both begin a wire name one begins the other, so that
\* names of which none begins another can be told apart.
LEMMA WireLeadsBack ==
  ASSUME NEW S, Underscore \in S, NEW names \in SUBSET Seq(S), Unambiguous(names),
         NEW n \in names, NEW t \in Seq(S)
  PROVE  LET wire == n \o <<Underscore>> \o t
         IN  Longest(names, wire) = {n} /\ ToolPart(n, wire) = t
<1> DEFINE wire == n \o <<Underscore>> \o t
<1>1. n \in Seq(S) /\ Len(n) \in Nat /\ Len(t) \in Nat
  OBVIOUS
<1> DEFINE p == n \o <<Underscore>>
<1>2. /\ p \in Seq(S) /\ Len(p) = Len(n) + 1
      /\ p[Len(n) + 1] = Underscore /\ \A i \in 1 .. Len(n) : p[i] = n[i]
      /\ wire \in Seq(S) /\ Len(wire) = Len(n) + 1 + Len(t)
      /\ \A i \in 1 .. Len(n) + 1 : wire[i] = p[i]
      /\ \A i \in 1 .. Len(t) : wire[Len(n) + 1 + i] = t[i]
  BY JoinedWith
<1>3. Len(n) < Len(wire) /\ wire[Len(n) + 1] = Underscore /\ \A i \in 1 .. Len(n) : n[i] = wire[i]
  BY <1>1, <1>2
<1> HIDE DEF wire, p
<1>4. Prefixed(n, wire)
  BY <1>1, <1>2, <1>3, PrefixedMeans
<1>5. \A x, y \in names : x # y => ~ Prefixed(x, y)
  BY DEF Unambiguous, Ambiguous
<1>6. ASSUME NEW m \in names, Prefixed(m, wire) PROVE m = n
  <2>1. m \in Seq(S) /\ Len(m) \in Nat
    OBVIOUS
  <2>2. Len(m) < Len(wire) /\ wire[Len(m) + 1] = Underscore /\ \A i \in 1 .. Len(m) : m[i] = wire[i]
    BY <1>2, <1>6, <2>1, PrefixedMeans
  <2>3. ASSUME Len(m) < Len(n) PROVE FALSE
    <3>0. Len(m) + 1 \in 1 .. Len(n) /\ 1 .. Len(m) \subseteq 1 .. Len(n)
      BY <1>1, <2>1, <2>3
    <3>1. n[Len(m) + 1] = Underscore /\ \A i \in 1 .. Len(m) : m[i] = n[i]
      BY <1>3, <2>2, <3>0
    <3>2. Prefixed(m, n)
      BY <1>1, <2>1, <2>3, <3>1, PrefixedMeans
    <3> QED
      BY <1>5, <2>3, <3>2
  <2>4. ASSUME Len(n) < Len(m) PROVE FALSE
    <3>1. m[Len(n) + 1] = Underscore /\ \A i \in 1 .. Len(n) : n[i] = m[i]
      BY <1>1, <1>3, <2>1, <2>2, <2>4
    <3>2. Prefixed(n, m)
      BY <1>1, <2>1, <2>4, <3>1, PrefixedMeans
    <3> QED
      BY <1>5, <2>4, <3>2
  <2>5. Len(m) = Len(n)
    BY <1>1, <2>1, <2>3, <2>4
  <2> QED
    BY <1>1, <1>3, <2>1, <2>2, <2>5
<1>7. Longest(names, wire) = {n}
  BY <1>1, <1>4, <1>6 DEF Longest
<1>8. ToolPart(n, wire) = t
  <2> DEFINE u == SubSeq(wire, Len(n) + 2, Len(wire))
  <2>1. /\ u \in Seq(S) /\ Len(u) = Len(t) /\ \A i \in 1 .. Len(u) : u[i] = wire[Len(n) + 2 + i - 1]
    BY <1>1, <1>2
  <2>2. \A i \in 1 .. Len(t) : u[i] = t[i]
    BY <1>1, <1>2, <2>1
  <2> HIDE DEF u
  <2>3. u = t
    BY <2>1, <2>2
  <2> QED
    BY <2>3 DEF u, ToolPart
<1> QED
  BY <1>7, <1>8 DEF wire

\* The wire form of a tool of a server without a dot in its name, and of the
\* tool as the tape has it.
LEMMA WireOfTool ==
  ASSUME NEW S, {".", Underscore} \subseteq S, NEW n \in Seq(S), "." \notin ToSet(n), NEW t \in Seq(S)
  PROVE  /\ McpName(n, t) \in Seq(S) /\ Wire(t) \in Seq(S)
         /\ Wire(McpName(n, t)) = n \o <<Underscore>> \o Wire(t)
         /\ Wire(McpName(n, Wire(t))) = Wire(McpName(n, t))
<1>1. ASSUME NEW u \in Seq(S) PROVE Wire(u) \in Seq(S) /\ Len(Wire(u)) = Len(u) /\ Wire(Wire(u)) = Wire(u)
  <2>1. DOMAIN u = 1 .. Len(u) /\ Len(u) \in Nat /\ \A i \in DOMAIN u : u[i] \in S
    OBVIOUS
  <2>2. Wire(u) \in [1 .. Len(u) -> S]
    BY <2>1 DEF Wire
  <2>3. Wire(u) \in Seq(S) /\ Len(Wire(u)) = Len(u)
    BY <2>1, <2>2
  <2>4. DOMAIN Wire(u) = DOMAIN u /\ \A i \in DOMAIN u : Wire(u)[i] = IF u[i] = "." THEN Underscore ELSE u[i]
    BY DEF Wire
  <2>5. \A i \in DOMAIN u : Wire(u)[i] # "."
    BY <2>4 DEF Underscore
  <2>6. Wire(Wire(u)) = [i \in DOMAIN u |-> Wire(u)[i]]
    BY <2>4, <2>5 DEF Wire
  <2>7. Wire(u) = [i \in DOMAIN u |-> Wire(u)[i]]
    BY <2>4 DEF Wire
  <2> QED
    BY <2>3, <2>6, <2>7
<1>2. ASSUME NEW u \in Seq(S)
      PROVE  McpName(n, u) \in Seq(S) /\ Wire(McpName(n, u)) = n \o <<Underscore>> \o Wire(u)
  <2> DEFINE dotted == n \o <<".">> \o u
             wired  == n \o <<Underscore>> \o Wire(u)
             p == n \o <<".">>
             q == n \o <<Underscore>>
  <2>1. Len(n) \in Nat /\ Len(u) \in Nat /\ \A i \in 1 .. Len(n) : n[i] # "."
    BY DEF ToSet
  <2>2. /\ dotted \in Seq(S) /\ Len(dotted) = Len(n) + 1 + Len(u)
        /\ p[Len(n) + 1] = "." /\ \A i \in 1 .. Len(n) : p[i] = n[i]
        /\ \A i \in 1 .. Len(n) + 1 : dotted[i] = p[i]
        /\ \A i \in 1 .. Len(u) : dotted[Len(n) + 1 + i] = u[i]
    BY JoinedWith
  <2>3. /\ wired \in Seq(S) /\ Len(wired) = Len(n) + 1 + Len(u)
        /\ q[Len(n) + 1] = Underscore /\ \A i \in 1 .. Len(n) : q[i] = n[i]
        /\ \A i \in 1 .. Len(n) + 1 : wired[i] = q[i]
        /\ \A i \in 1 .. Len(u) : wired[Len(n) + 1 + i] = Wire(u)[i]
    <3> DEFINE v == Wire(u)
    <3>1. v \in Seq(S) /\ Len(v) = Len(u) /\ Underscore \in S
      BY <1>1
    <3> HIDE DEF v
    <3>2. ASSUME NEW x \in S, NEW y \in Seq(S)
          PROVE  /\ n \o <<x>> \o y \in Seq(S) /\ Len(n \o <<x>> \o y) = Len(n) + 1 + Len(y)
                 /\ (n \o <<x>>)[Len(n) + 1] = x /\ \A i \in 1 .. Len(n) : (n \o <<x>>)[i] = n[i]
                 /\ \A i \in 1 .. Len(n) + 1 : (n \o <<x>> \o y)[i] = (n \o <<x>>)[i]
                 /\ \A i \in 1 .. Len(y) : (n \o <<x>> \o y)[Len(n) + 1 + i] = y[i]
      BY JoinedWith
    <3>4. /\ q \o v \in Seq(S) /\ Len(q \o v) = Len(n) + 1 + Len(v)
          /\ q[Len(n) + 1] = Underscore /\ \A i \in 1 .. Len(n) : q[i] = n[i]
          /\ \A i \in 1 .. Len(n) + 1 : (q \o v)[i] = q[i]
          /\ \A i \in 1 .. Len(v) : (q \o v)[Len(n) + 1 + i] = v[i]
      BY <3>1, <3>2, Zenon
    <3>3. wired = q \o v
      BY DEF v
    <3> HIDE DEF wired, q
    <3> QED
      BY <3>1, <3>3, <3>4 DEF v
  <2> HIDE DEF dotted, wired, p, q
  <2>4. DOMAIN dotted = 1 .. Len(n) + 1 + Len(u) /\ DOMAIN wired = DOMAIN dotted
    BY <2>2, <2>3
  <2>5. ASSUME NEW i \in DOMAIN dotted
        PROVE  wired[i] = IF dotted[i] = "." THEN Underscore ELSE dotted[i]
    <3>0. i \in 1 .. Len(n) + 1 + Len(u)
      BY <2>4
    <3>1. CASE i \in 1 .. Len(n)
      <4>1. i \in 1 .. Len(n) + 1
        BY <2>1, <3>1
      <4> QED
        BY <2>1, <2>2, <2>3, <3>1, <4>1
    <3>2. CASE i = Len(n) + 1
      BY <2>1, <2>2, <2>3, <3>2
    <3>3. CASE i \notin 1 .. Len(n) + 1
      <4>1. i - Len(n) - 1 \in 1 .. Len(u) /\ Len(n) + 1 + (i - Len(n) - 1) = i
        <5>1. \A k, l, m \in Nat : m \in 1 .. k + 1 + l /\ m \notin 1 .. k + 1
                                     => m - k - 1 \in 1 .. l /\ k + 1 + (m - k - 1) = m
          OBVIOUS
        <5>2. i \in Nat
          BY <3>0
        <5> QED
          BY <2>1, <3>0, <3>3, <5>1, <5>2, Zenon
      <4>2. Wire(u)[i - Len(n) - 1] = IF u[i - Len(n) - 1] = "." THEN Underscore ELSE u[i - Len(n) - 1]
        BY <4>1 DEF Wire
      <4>3. dotted[i] = u[i - Len(n) - 1] /\ wired[i] = Wire(u)[i - Len(n) - 1]
        BY <2>2, <2>3, <4>1
      <4> QED
        BY <4>2, <4>3
    <3> QED
      BY <3>1, <3>2, <3>3, <2>1, <3>0
  <2>6. Wire(dotted) = [i \in DOMAIN dotted |-> wired[i]]
    BY <2>5 DEF Wire
  <2>7. wired = [i \in DOMAIN dotted |-> wired[i]]
    BY <2>3, <2>4
  <2> QED
    BY <2>2, <2>6, <2>7 DEF McpName, dotted, wired
<1> QED
  BY <1>1, <1>2

\* With the names `orno validate` accepts the wire name of a tool leads back
\* to its server, and gives a name with the same wire form.
LEMMA ToolLeadsBack ==
  ASSUME LInv, ValidateAccepts, NamedAsDocumented, NEW n \in ServerNames, NEW t \in Seq(Words)
  PROVE  LET wire == Wire(McpName(n, t)) IN
           /\ Longest(ServerNames, wire) = {n} /\ ToolPart(n, wire) = Wire(t)
           /\ Wire(McpName(n, ToolPart(n, wire))) = wire
<1>1. ServerNames \in SUBSET Seq(Words) /\ {".", Underscore} \subseteq Words
  BY InputsAssumption DEF LInv, FileGiven, ServerNames
<1>2. Unambiguous(ServerNames) /\ "." \notin ToSet(n) /\ n \in Seq(Words) /\ Underscore \in Words
  BY <1>1 DEF ValidateAccepts, NamesValid, NamedAsDocumented
<1>3. /\ Wire(t) \in Seq(Words)
      /\ Wire(McpName(n, t)) = n \o <<Underscore>> \o Wire(t)
      /\ Wire(McpName(n, Wire(t))) = Wire(McpName(n, t))
  BY <1>1, <1>2, WireOfTool, ZenonT(60)
<1>4. LET wire == n \o <<Underscore>> \o Wire(t)
      IN  Longest(ServerNames, wire) = {n} /\ ToolPart(n, wire) = Wire(t)
  BY <1>1, <1>2, <1>3, WireLeadsBack
<1> QED
  BY <1>3, <1>4

\* With the names `orno validate` accepts every wire name leads back to the
\* server and the tool it was made of.
THEOREM NamesRouteBack == LoaderSpec => []RoutesBack
<1>1. LInv => RoutesBack
  <2> SUFFICES ASSUME LInv, ValidateAccepts, NamedAsDocumented,
                      NEW s \in file.servers, NEW i \in DOMAIN s.tools
               PROVE  LET wire == Wire(McpName(s.name, s.tools[i]))
                      IN  Longest(ServerNames, wire) = {s.name} /\ ToolPart(s.name, wire) = Wire(s.tools[i])
    BY DEF RoutesBack
  <2>1. s.name \in ServerNames /\ s.tools[i] \in Seq(Words)
    BY InputsAssumption DEF LInv, FileGiven, ServerNames
  <2> QED
    BY <2>1, ToolLeadsBack
<1> QED
  BY <1>1, LoaderInvariant, PTL

-----------------------------------------------------------------------------
\* What the lists of tools hold once wildcards are expanded.
Entry == [kind : {"builtin", "subagent", "mcp"}, name : Seq(Words)]

McpEntry(server, tool) == [kind |-> "mcp", name |-> McpName(server, tool)]

Wild(e) == e.kind = "mcp" /\ IsWildcard(e.name)

\* What a set of entries becomes.
Literal(entries) == {e \in entries : ~ Wild(e)}

FromWild(entries, tools) ==
  {e \in Entry : \E w \in entries : /\ Wild(w) /\ WildcardServer(w.name) \in DOMAIN tools
                                   /\ \E t \in ToSet(tools[WildcardServer(w.name)]) :
                                        e = McpEntry(WildcardServer(w.name), t)}

LEMMA GivenTypes ==
  ASSUME LInv
  PROVE  /\ {".", Underscore} \subseteq Words /\ ServerNames \in SUBSET Seq(Words)
         /\ \A a \in Agents : file.agents[a].allowed_tools \in Seq(Entry)
         /\ file.order \in Seq(Seq(Words)) /\ ToSet(file.order) = ServerNames
         /\ Advertised \in [ServerNames -> Seq(Seq(Words))]
<1>1. /\ {".", Underscore} \subseteq Words
      /\ \A a \in Agents : file.agents[a].allowed_tools \in Seq(Entry)
      /\ \A s \in file.servers : s.name \in Seq(Words) /\ s.tools \in Seq(Seq(Words))
      /\ file.order \in Seq(Seq(Words)) /\ ToSet(file.order) = {s.name : s \in file.servers}
  BY InputsAssumption DEF LInv, FileGiven, Entry
<1>2. ServerNames \in SUBSET Seq(Words) /\ ToSet(file.order) = ServerNames
  BY <1>1 DEF ServerNames
<1>3. ASSUME NEW n \in ServerNames PROVE ServerNamed(n).tools \in Seq(Seq(Words))
  <2>1. \E s \in file.servers : s.name = n
    BY DEF ServerNames
  <2>2. ServerNamed(n) \in file.servers
    BY <2>1 DEF ServerNamed
  <2> QED
    BY <1>1, <2>2
<1>4. Advertised \in [ServerNames -> Seq(Seq(Words))]
  BY <1>3 DEF Advertised
<1> QED
  BY <1>1, <1>2, <1>4

\* One entry.
LEMMA MeaningMeans ==
  ASSUME "." \in Words, NEW D \in SUBSET Seq(Words), NEW tools \in [D -> Seq(Seq(Words))],
         NEW e \in Entry
  PROVE  /\ Meaning(e, tools) \in Seq(Entry)
         /\ ~ Wild(e) => ToSet(Meaning(e, tools)) = {e}
         /\ Wild(e) => ToSet(Meaning(e, tools)) = FromWild({e}, tools)
<1> DEFINE server == WildcardServer(e.name)
<1>1. CASE ~ Wild(e)
  <2>1. Meaning(e, tools) = <<e>>
    BY <1>1 DEF Meaning, Wild
  <2>2. <<e>> \in Seq(Entry)
    OBVIOUS
  <2>3. ToSet(<<e>>) = {e}
    BY DEF ToSet
  <2> QED
    BY <1>1, <2>1, <2>2, <2>3
<1>2. CASE Wild(e) /\ server \notin D
  <2>1. Meaning(e, tools) = <<>>
    BY <1>2 DEF Meaning, Wild
  <2>2. <<>> \in Seq(Entry) /\ ToSet(<<>>) = {}
    BY DEF ToSet
  <2>3. FromWild({e}, tools) = {}
    BY <1>2 DEF FromWild
  <2> QED
    BY <1>2, <2>1, <2>2, <2>3
<1>3. CASE Wild(e) /\ server \in D
  <2> DEFINE list == tools[server]
             out  == [i \in DOMAIN list |-> McpEntry(server, list[i])]
  <2>1. Meaning(e, tools) = out
    BY <1>3 DEF Meaning, Wild, McpEntry
  <2>2. server \in Seq(Words) /\ list \in Seq(Seq(Words))
    BY <1>3
  <2>3. DOMAIN list = 1 .. Len(list) /\ Len(list) \in Nat /\ \A i \in DOMAIN list : list[i] \in Seq(Words)
    BY <2>2
  <2>4. ASSUME NEW t \in Seq(Words) PROVE McpEntry(server, t) \in Entry
    <3>1. McpName(server, t) \in Seq(Words)
      BY <2>2, JoinedWith DEF McpName
    <3> QED
      BY <3>1 DEF McpEntry, Entry
  <2>5. out \in [1 .. Len(list) -> Entry]
    <3> HIDE DEF list
    <3> QED BY <2>3, <2>4
  <2>6. out \in Seq(Entry)
    BY <2>3, <2>5
  <2>7. ToSet(out) = {McpEntry(server, t) : t \in ToSet(list)}
    <3> HIDE DEF list
    <3> QED BY DEF ToSet
  <2>8. FromWild({e}, tools) = {McpEntry(server, t) : t \in ToSet(list)}
    <3>1. ToSet(list) \subseteq Seq(Words)
      BY <2>3 DEF ToSet
    <3> QED
      BY <1>3, <2>4, <3>1 DEF FromWild
  <2> HIDE DEF out
  <2> QED
    BY <1>3, <2>1, <2>6, <2>7, <2>8
<1> QED
  BY <1>1, <1>2, <1>3

\* A whole list.
LEMMA ExpandedMeans ==
  ASSUME "." \in Words, NEW D \in SUBSET Seq(Words), NEW tools \in [D -> Seq(Seq(Words))],
         NEW list \in Seq(Entry)
  PROVE  /\ Expanded(list, tools) \in Seq(Entry)
         /\ ToSet(Expanded(list, tools)) = Literal(ToSet(list)) \cup FromWild(ToSet(list), tools)
<1> DEFINE parts == [i \in DOMAIN list |-> Meaning(list[i], tools)]
<1>1. DOMAIN list = 1 .. Len(list) /\ Len(list) \in Nat /\ \A i \in DOMAIN list : list[i] \in Entry
  OBVIOUS
<1>2. ASSUME NEW i \in DOMAIN list
      PROVE  /\ Meaning(list[i], tools) \in Seq(Entry)
             /\ ToSet(Meaning(list[i], tools)) = Literal({list[i]}) \cup FromWild({list[i]}, tools)
  <2>1. list[i] \in Entry
    BY <1>1
  <2>2. ~ Wild(list[i]) => Literal({list[i]}) = {list[i]} /\ FromWild({list[i]}, tools) = {}
    BY DEF Literal, FromWild
  <2>3. Wild(list[i]) => Literal({list[i]}) = {}
    BY DEF Literal
  <2> QED
    BY <2>1, <2>2, <2>3, MeaningMeans, Zenon
<1>3. parts \in Seq(Seq(Entry)) /\ DOMAIN parts = DOMAIN list
  <2>1. parts \in [1 .. Len(list) -> Seq(Entry)]
    BY <1>1, <1>2
  <2> HIDE DEF parts
  <2> QED
    BY <1>1, <2>1
<1>4. Expanded(list, tools) = Distinct(FlattenSeq(parts))
  BY DEF Expanded
<1>5. \A i \in DOMAIN list : ToSet(parts[i]) = Literal({list[i]}) \cup FromWild({list[i]}, tools)
  BY <1>2
<1> HIDE DEF parts
<1>6. /\ FlattenSeq(parts) \in Seq(Entry)
      /\ ToSet(FlattenSeq(parts)) = UNION {ToSet(parts[i]) : i \in DOMAIN parts}
  BY <1>3, FlattenMeans
<1>7. /\ Expanded(list, tools) \in Seq(Entry)
      /\ ToSet(Expanded(list, tools)) = ToSet(FlattenSeq(parts))
  BY <1>4, <1>6, DistinctMeans
<1>8. UNION {ToSet(parts[i]) : i \in DOMAIN list} = Literal(ToSet(list)) \cup FromWild(ToSet(list), tools)
  <2>1. \A x : x \in Literal(ToSet(list)) <=> \E i \in DOMAIN list : x \in Literal({list[i]})
    BY DEF Literal, ToSet
  <2>2. \A x : x \in FromWild(ToSet(list), tools) <=> \E i \in DOMAIN list : x \in FromWild({list[i]}, tools)
    BY Zenon DEF FromWild, ToSet
  <2>3. \A x : x \in UNION {ToSet(parts[i]) : i \in DOMAIN list} <=>
                 \E i \in DOMAIN list : x \in Literal({list[i]}) \cup FromWild({list[i]}, tools)
    BY <1>5
  <2> HIDE DEF Literal, FromWild
  <2>4. \A x : x \in UNION {ToSet(parts[i]) : i \in DOMAIN list} <=>
                 x \in Literal(ToSet(list)) \cup FromWild(ToSet(list), tools)
    BY <2>1, <2>2, <2>3
  <2> QED
    BY <2>4
<1> QED
  BY <1>3, <1>6, <1>7, <1>8

\* The handlers of the servers, all of them.
LEMMA HandlersMean ==
  ASSUME LInv
  PROVE  LET all == FlattenSeq([i \in DOMAIN file.order |-> Handlers(file.order[i], Advertised)]) IN
           /\ all \in Seq(Seq(Words))
           /\ \A h : h \in ToSet(all) <=>
                \E n \in ServerNames : \E t \in ToSet(Advertised[n]) : h = McpName(n, t)
<1> DEFINE order == file.order
           parts == [i \in DOMAIN order |-> Handlers(order[i], Advertised)]
<1>1. order \in Seq(Seq(Words)) /\ ToSet(order) = ServerNames
  BY GivenTypes
<1>2. ASSUME NEW n \in ServerNames
      PROVE  /\ Handlers(n, Advertised) \in Seq(Seq(Words))
             /\ ToSet(Handlers(n, Advertised)) = {McpName(n, t) : t \in ToSet(Advertised[n])}
  <2> DEFINE list == Advertised[n]
             out  == [i \in DOMAIN list |-> McpName(n, list[i])]
  <2>1. n \in Seq(Words) /\ list \in Seq(Seq(Words)) /\ "." \in Words
    BY GivenTypes
  <2> HIDE DEF list
  <2>2. DOMAIN list = 1 .. Len(list) /\ Len(list) \in Nat /\ \A i \in DOMAIN list : list[i] \in Seq(Words)
    BY <2>1
  <2>3. \A t \in Seq(Words) : McpName(n, t) \in Seq(Words)
    BY <2>1, JoinedWith DEF McpName
  <2>4. out \in [1 .. Len(list) -> Seq(Words)]
    BY <2>2, <2>3
  <2>5. out \in Seq(Seq(Words))
    BY <2>2, <2>4
  <2>6. ToSet(out) = {McpName(n, t) : t \in ToSet(list)}
    BY DEF ToSet
  <2>7. Handlers(n, Advertised) = out
    BY DEF Handlers, list
  <2> HIDE DEF out
  <2> QED
    BY <2>5, <2>6, <2>7 DEF list
<1> HIDE DEF order
<1>3. DOMAIN order = 1 .. Len(order) /\ Len(order) \in Nat /\ \A i \in DOMAIN order : order[i] \in ServerNames
  BY <1>1 DEF ToSet
<1>4. parts \in Seq(Seq(Seq(Words))) /\ DOMAIN parts = DOMAIN order
  <2>1. parts \in [1 .. Len(order) -> Seq(Seq(Words))]
    BY <1>2, <1>3
  <2> HIDE DEF parts
  <2> QED
    BY <1>3, <2>1
<1>5. \A i \in DOMAIN order : ToSet(parts[i]) = {McpName(order[i], t) : t \in ToSet(Advertised[order[i]])}
  BY <1>2, <1>3
<1> HIDE DEF parts
<1>6. /\ FlattenSeq(parts) \in Seq(Seq(Words))
      /\ ToSet(FlattenSeq(parts)) = UNION {ToSet(parts[i]) : i \in DOMAIN parts}
  BY <1>4, FlattenMeans
<1>7. ASSUME NEW h
      PROVE  h \in ToSet(FlattenSeq(parts)) <=>
               \E n \in ServerNames : \E t \in ToSet(Advertised[n]) : h = McpName(n, t)
  <2>1. h \in ToSet(FlattenSeq(parts)) <=> \E i \in DOMAIN order : h \in ToSet(parts[i])
    BY <1>4, <1>6
  <2>2. (\E i \in DOMAIN order : h \in ToSet(parts[i])) <=>
          \E i \in DOMAIN order : \E t \in ToSet(Advertised[order[i]]) : h = McpName(order[i], t)
    BY <1>5
  <2>3. \A n : n \in ServerNames <=> \E i \in DOMAIN order : n = order[i]
    BY <1>1 DEF ToSet
  <2> QED
    BY <2>1, <2>2, <2>3
<1> QED
  BY <1>6, <1>7 DEF parts, order

-----------------------------------------------------------------------------
\* The run: what the agents' lists and the handlers are, and what was offered
\* to whom.
Registered == FlattenSeq([i \in DOMAIN file.order |-> Handlers(file.order[i], Advertised)])

Request == [agent : Agents, tools : Seq(Seq(Words))]

BeforeRun ==
  pc \notin {"running", "recording", "replaying"} =>
    /\ stopped = {} /\ tape = <<>>
    /\ lists = [a \in Agents |-> file.agents[a].allowed_tools]

Running ==
  UnderWay =>
    /\ lists = [a \in Agents |-> Expanded(file.agents[a].allowed_tools, Advertised)]
    /\ handlers = Registered
    /\ \A a \in stopped : a \in Agents /\ ~ Starts(a)
    /\ tape \in Seq(Request)
    /\ \A i \in DOMAIN tape : \A a \in Agents :
         tape[i].agent = a => Starts(a) /\ tape[i].tools = Offered(a)

RunInv == LInv /\ BeforeRun /\ Running /\ ReplayOffersSame

LEMMA InitRunInv == LoaderInit => RunInv
BY InitLInv DEF LoaderInit, RunInv, BeforeRun, Running, ReplayOffersSame, UnderWay

\* The tools offered, for any handlers and any names.
OfferedOf(hs, names) ==
  LET mine == KeptAt(hs, {i \in DOMAIN hs : hs[i] \in names}) IN [i \in DOMAIN mine |-> Wire(mine[i])]

LEMMA OfferedMeans ==
  ASSUME Underscore \in Words, NEW hs \in Seq(Seq(Words)), NEW names
  PROVE  /\ OfferedOf(hs, names) \in Seq(Seq(Words))
         /\ ToSet(OfferedOf(hs, names)) = {Wire(h) : h \in ToSet(hs) \cap names}
<1> DEFINE at   == {i \in DOMAIN hs : hs[i] \in names}
           mine == KeptAt(hs, at)
           out  == [i \in DOMAIN mine |-> Wire(mine[i])]
<1>1. mine \in Seq(Seq(Words)) /\ ToSet(mine) = {hs[i] : i \in DOMAIN hs \cap at}
  BY KeptMeans
<1>2. {hs[i] : i \in DOMAIN hs \cap at} = ToSet(hs) \cap names
  BY DEF ToSet
<1>3. OfferedOf(hs, names) = out
  BY DEF OfferedOf
<1> HIDE DEF mine, at
<1>4. DOMAIN mine = 1 .. Len(mine) /\ Len(mine) \in Nat /\ \A i \in DOMAIN mine : mine[i] \in Seq(Words)
  BY <1>1
<1>5. ASSUME NEW u \in Seq(Words) PROVE Wire(u) \in Seq(Words)
  <2>1. DOMAIN u = 1 .. Len(u) /\ Len(u) \in Nat /\ \A i \in DOMAIN u : u[i] \in Words
    OBVIOUS
  <2>2. Wire(u) \in [1 .. Len(u) -> Words]
    BY <2>1 DEF Wire
  <2> QED
    BY <2>1, <2>2
<1>6. out \in [1 .. Len(mine) -> Seq(Words)]
  BY <1>4, <1>5
<1>7. out \in Seq(Seq(Words)) /\ ToSet(out) = {Wire(h) : h \in ToSet(mine)}
  <2>1. ToSet(out) = {Wire(h) : h \in ToSet(mine)}
    BY DEF ToSet
  <2> HIDE DEF out
  <2>2. out \in Seq(Seq(Words))
    BY <1>4, <1>6
  <2> QED
    BY <2>1, <2>2
<1> QED
  BY <1>1, <1>2, <1>3, <1>7

\* The names of MCP tools in a set of entries.
NamesOf(entries) == {e.name : e \in {x \in entries : x.kind = "mcp"}}

LEMMA OfferedIs ==
  /\ \A a : Offered(a) = OfferedOf(handlers, NamesOf(ToSet(lists[a])))
  /\ \A a : Offered(a)' = OfferedOf(handlers', NamesOf(ToSet(lists'[a])))
BY DEF Offered, OfferedOf, NamesOf, McpNames

\* An agent's list while it runs.
LEMMA ListedWhileRunning ==
  ASSUME RunInv, UnderWay, NEW a \in Agents
  PROVE  /\ lists[a] \in Seq(Entry)
         /\ ToSet(lists[a]) = Literal(Listed(a)) \cup FromWild(Listed(a), Advertised)
<1>1. "." \in Words /\ ServerNames \in SUBSET Seq(Words) /\ Advertised \in [ServerNames -> Seq(Seq(Words))]
      /\ file.agents[a].allowed_tools \in Seq(Entry)
  BY GivenTypes DEF RunInv
<1>2. lists[a] = Expanded(file.agents[a].allowed_tools, Advertised)
  BY DEF RunInv, Running
<1> QED
  BY <1>1, <1>2, ExpandedMeans DEF Listed

LEMMA HandlersWhileRunning ==
  ASSUME RunInv, UnderWay
  PROVE  /\ handlers \in Seq(Seq(Words))
         /\ \A h : h \in ToSet(handlers) <=>
              \E n \in ServerNames : \E t \in ToSet(Advertised[n]) : h = McpName(n, t)
<1>1. handlers = Registered /\ LInv
  BY DEF RunInv, Running
<1> QED
  BY <1>1, HandlersMean DEF Registered

\* A tool a wildcard stands for is registered.
LEMMA WildHasHandler ==
  ASSUME RunInv, UnderWay, NEW a \in Agents, NEW e \in FromWild(Listed(a), Advertised)
  PROVE  e.kind = "mcp" /\ e.name \in ToSet(handlers)
<1>1. PICK w \in Listed(a) : /\ Wild(w) /\ WildcardServer(w.name) \in DOMAIN Advertised
                             /\ \E t \in ToSet(Advertised[WildcardServer(w.name)]) :
                                  e = McpEntry(WildcardServer(w.name), t)
  BY DEF FromWild
<1>2. PICK t \in ToSet(Advertised[WildcardServer(w.name)]) : e = McpEntry(WildcardServer(w.name), t)
  BY <1>1
<1>3. e.kind = "mcp" /\ e.name = McpName(WildcardServer(w.name), t)
  BY <1>2 DEF McpEntry
<1>4. WildcardServer(w.name) \in ServerNames
  BY <1>1 DEF Advertised
<1> QED
  BY <1>3, <1>4, HandlersWhileRunning

\* What `orno validate` accepts is refused by a loop for one of two reasons.
LEMMA StopsForTwo == RunInv => ValidatedStarts
<1> SUFFICES ASSUME RunInv, UnderWay, ValidateAccepts, NEW a \in stopped,
                    ~ (pc = "running" /\ UsesJail(a) /\ ~ Jailed(a))
             PROVE  \E e \in Listed(a) : e.kind = "mcp" /\ ~ IsWildcard(e.name) /\ e.name \notin ToSet(handlers)
  BY DEF ValidatedStarts
<1>1. a \in Agents /\ ~ Starts(a)
  BY DEF RunInv, Running
<1>2. AgentValid(a) /\ \A e \in Listed(a) : EntryAllowed(a, e)
  BY <1>1 DEF ValidateAccepts, RunInv, LInv, AgentsChecked, Accepted, UnderWay
<1>3. PICK e \in ToSet(lists[a]) : ~ HasHandler(e)
  BY <1>1, <1>2 DEF Starts, AgentValid
<1>4. e \in Literal(Listed(a)) \/ e \in FromWild(Listed(a), Advertised)
  BY <1>1, <1>3, ListedWhileRunning
<1>5. e \notin FromWild(Listed(a), Advertised)
  BY <1>1, <1>3, WildHasHandler DEF HasHandler
<1>6. e \in Listed(a) /\ ~ Wild(e)
  BY <1>4, <1>5 DEF Literal
<1>7. e \in Entry
  <2>1. file.agents[a].allowed_tools \in Seq(Entry)
    BY <1>1, GivenTypes DEF RunInv
  <2> QED
    BY <1>6, <2>1 DEF Listed, ToSet
<1>8. KnownTool(e) /\ EntryAllowed(a, e)
  BY <1>2, <1>6 DEF AgentValid
<1>9. e.kind = "mcp"
  <2>1. CASE e.kind = "builtin"
    BY <1>3, <1>8, <2>1 DEF KnownTool, HasHandler
  <2>2. CASE e.kind = "subagent"
    BY <1>3, <1>8, <2>2 DEF EntryAllowed, HasHandler
  <2> QED
    BY <1>7, <2>1, <2>2 DEF Entry
<1> QED
  BY <1>3, <1>6, <1>9 DEF Wild, HasHandler

-----------------------------------------------------------------------------
\* The replay.
\* The wire names on the tape, and what is derived from them.
LEMMA DiscoveredMeans ==
  ASSUME RunInv, UnderWay
  PROVE  /\ Discovered \in Seq(Seq(Words))
         /\ \A w : w \in ToSet(Discovered) <=> \E i \in DOMAIN tape : w \in ToSet(tape[i].tools)
<1> DEFINE parts == [i \in DOMAIN tape |-> tape[i].tools]
<1>1. DOMAIN tape = 1 .. Len(tape) /\ Len(tape) \in Nat /\ \A i \in DOMAIN tape : tape[i].tools \in Seq(Seq(Words))
  <2>1. tape \in Seq(Request)
    BY DEF RunInv, Running
  <2>2. DOMAIN tape = 1 .. Len(tape) /\ Len(tape) \in Nat /\ \A i \in DOMAIN tape : tape[i] \in Request
    BY <2>1
  <2> QED
    BY <2>2 DEF Request
<1>2. parts \in Seq(Seq(Seq(Words))) /\ DOMAIN parts = DOMAIN tape /\ \A i \in DOMAIN tape : parts[i] = tape[i].tools
  <2>1. parts \in [1 .. Len(tape) -> Seq(Seq(Words))] /\ \A i \in DOMAIN tape : parts[i] = tape[i].tools
    BY <1>1
  <2> HIDE DEF parts
  <2> QED
    BY <1>1, <2>1
<1>3. Discovered = Distinct(FlattenSeq(parts))
  BY DEF Discovered
<1> HIDE DEF parts
<1>4. /\ FlattenSeq(parts) \in Seq(Seq(Words))
      /\ ToSet(FlattenSeq(parts)) = UNION {ToSet(parts[i]) : i \in DOMAIN parts}
  BY <1>2, FlattenMeans
<1>5. Discovered \in Seq(Seq(Words)) /\ ToSet(Discovered) = ToSet(FlattenSeq(parts))
  BY <1>3, <1>4, DistinctMeans
<1>6. \A w : w \in UNION {ToSet(parts[i]) : i \in DOMAIN tape} <=> \E i \in DOMAIN tape : w \in ToSet(tape[i].tools)
  BY <1>2
<1> QED
  BY <1>2, <1>4, <1>5, <1>6

LEMMA DerivedMeans ==
  ASSUME RunInv, UnderWay, NEW n \in ServerNames
  PROVE  /\ Derived(n) \in Seq(Seq(Words))
         /\ ToSet(Derived(n)) = {ToolPart(n, w) : w \in {v \in ToSet(Discovered) : Longest(ServerNames, v) = {n}}}
<1> DEFINE seen == Discovered
           at   == {i \in DOMAIN seen : Longest(ServerNames, seen[i]) = {n}}
           of   == KeptAt(seen, at)
           out  == [i \in DOMAIN of |-> ToolPart(n, of[i])]
<1>1. seen \in Seq(Seq(Words)) /\ n \in Seq(Words)
  BY DiscoveredMeans, GivenTypes DEF RunInv
<1>2. Derived(n) = out
  BY DEF Derived
<1> HIDE DEF seen
<1>3. of \in Seq(Seq(Words)) /\ ToSet(of) = {seen[i] : i \in DOMAIN seen \cap at}
  BY <1>1, KeptMeans
<1>4. {seen[i] : i \in DOMAIN seen \cap at} = {v \in ToSet(seen) : Longest(ServerNames, v) = {n}}
  BY DEF ToSet
<1> HIDE DEF at, of
<1>5. DOMAIN of = 1 .. Len(of) /\ Len(of) \in Nat /\ \A i \in DOMAIN of : of[i] \in Seq(Words)
  BY <1>3
<1>6. \A v \in Seq(Words) : ToolPart(n, v) \in Seq(Words)
  BY <1>1 DEF ToolPart
<1>7. out \in [1 .. Len(of) -> Seq(Words)]
  BY <1>5, <1>6
<1>8. ToSet(out) = {ToolPart(n, w) : w \in ToSet(of)}
  BY DEF ToSet
<1> HIDE DEF out
<1>9. out \in Seq(Seq(Words))
  BY <1>5, <1>7
<1> QED
  BY <1>2, <1>3, <1>4, <1>8, <1>9 DEF seen

\* What a replay registers and lists.
LEMMA ReplayMeans ==
  ASSUME RunInv, Replay
  PROVE  LET derived == [name \in ServerNames |-> Derived(name)] IN
           /\ \A a \in Agents : ToSet(lists'[a]) = Literal(Listed(a)) \cup FromWild(Listed(a), derived)
           /\ handlers' \in Seq(Seq(Words))
           /\ \A a \in Agents : NamesOf(ToSet(lists'[a])) \subseteq ToSet(handlers')
<1> DEFINE derived == [name \in ServerNames |-> Derived(name)]
           new(a) == Expanded(file.agents[a].allowed_tools, derived)
<1>1. UnderWay
  BY DEF Replay, UnderWay
<1>2. "." \in Words /\ ServerNames \in SUBSET Seq(Words)
      /\ \A a \in Agents : file.agents[a].allowed_tools \in Seq(Entry)
  BY GivenTypes DEF RunInv
<1>3. derived \in [ServerNames -> Seq(Seq(Words))]
  BY <1>1, DerivedMeans
<1>4. lists' = [a \in Agents |-> new(a)]
  BY DEF Replay
<1> HIDE DEF derived
<1>5. ASSUME NEW a \in Agents
      PROVE  /\ new(a) \in Seq(Entry)
             /\ ToSet(new(a)) = Literal(Listed(a)) \cup FromWild(Listed(a), derived)
  BY <1>2, <1>3, ExpandedMeans DEF Listed
<1> HIDE DEF new
<1>6. \A a \in Agents : lists'[a] \in Seq(Entry) /\ lists'[a] = new(a)
  BY <1>4, <1>5
<1> DEFINE parts == [i \in DOMAIN AgentOrder |-> lists'[AgentOrder[i]]]
           all   == FlattenSeq(parts)
           at    == {i \in DOMAIN all : all[i].kind = "mcp"}
           mcp   == KeptAt(all, at)
           names == [i \in DOMAIN mcp |-> mcp[i].name]
<1>7. handlers' = Distinct(names)
  BY DEF Replay, Stubs
<1>8. /\ \A i \in DOMAIN AgentOrder : AgentOrder[i] \in Agents
      /\ \A a \in Agents : \E i \in DOMAIN AgentOrder : AgentOrder[i] = a
  BY AgentOrderAssumption DEF ToSet
<1>9. \E m \in Nat : DOMAIN AgentOrder = 1 .. m
  BY AgentOrderAssumption
<1>10. parts \in Seq(Seq(Entry)) /\ DOMAIN parts = DOMAIN AgentOrder
       /\ \A i \in DOMAIN AgentOrder : parts[i] = lists'[AgentOrder[i]]
  <2>1. PICK m \in Nat : DOMAIN AgentOrder = 1 .. m
    BY <1>9
  <2>2. parts \in [1 .. m -> Seq(Entry)] /\ \A i \in DOMAIN AgentOrder : parts[i] = lists'[AgentOrder[i]]
    BY <1>6, <1>8, <2>1
  <2> HIDE DEF parts
  <2> QED
    BY <2>1, <2>2
<1> HIDE DEF parts
<1>11. all \in Seq(Entry) /\ ToSet(all) = UNION {ToSet(parts[i]) : i \in DOMAIN parts}
  BY <1>10, FlattenMeans
<1> HIDE DEF all
<1>12. mcp \in Seq(Entry) /\ ToSet(mcp) = {all[i] : i \in DOMAIN all \cap at}
  BY <1>11, KeptMeans
<1>13. {all[i] : i \in DOMAIN all \cap at} = {e \in ToSet(all) : e.kind = "mcp"}
  BY DEF ToSet
<1> HIDE DEF at, mcp
<1>14. names \in Seq(Seq(Words)) /\ ToSet(names) = {e.name : e \in ToSet(mcp)}
  <2>1. DOMAIN mcp = 1 .. Len(mcp) /\ Len(mcp) \in Nat /\ \A i \in DOMAIN mcp : mcp[i] \in Entry
    BY <1>12
  <2>2. names \in [1 .. Len(mcp) -> Seq(Words)]
    BY <2>1 DEF Entry
  <2>3. ToSet(names) = {e.name : e \in ToSet(mcp)}
    BY DEF ToSet
  <2> HIDE DEF names
  <2> QED
    BY <2>1, <2>2, <2>3
<1> HIDE DEF names
<1>15. handlers' \in Seq(Seq(Words)) /\ ToSet(handlers') = ToSet(names)
  BY <1>7, <1>14, DistinctMeans
<1>16. ASSUME NEW a \in Agents, NEW e \in ToSet(lists'[a]), e.kind = "mcp" PROVE e.name \in ToSet(handlers')
  <2>1. PICK i \in DOMAIN AgentOrder : AgentOrder[i] = a
    BY <1>8
  <2>2. e \in ToSet(all)
    BY <1>10, <1>11, <2>1
  <2> QED
    BY <1>12, <1>13, <1>14, <1>15, <1>16, <2>2
<1>17. \A a \in Agents : NamesOf(ToSet(lists'[a])) \subseteq ToSet(handlers')
  BY <1>16 DEF NamesOf
<1>18. \A a \in Agents : ToSet(lists'[a]) = Literal(Listed(a)) \cup FromWild(Listed(a), derived)
  BY <1>5, <1>6
<1> QED
  BY <1>15, <1>17, <1>18 DEF derived

\* A wire name on the tape is that of a tool some server has.
LEMMA TapeNamesTools ==
  ASSUME RunInv, UnderWay, NEW w \in ToSet(Discovered)
  PROVE  \E n \in ServerNames : \E t \in ToSet(Advertised[n]) : w = Wire(McpName(n, t))
<1>1. PICK i \in DOMAIN tape : w \in ToSet(tape[i].tools)
  BY DiscoveredMeans
<1>2. tape[i].tools = OfferedOf(handlers, NamesOf(ToSet(lists[tape[i].agent])))
  <2>1. tape[i] \in Request
    BY DEF RunInv, Running
  <2>2. tape[i].agent \in Agents
    BY <2>1 DEF Request
  <2> QED
    BY <2>2, OfferedIs DEF RunInv, Running
<1>3. Underscore \in Words /\ handlers \in Seq(Seq(Words))
  BY HandlersWhileRunning, GivenTypes DEF RunInv
<1>4. PICK h \in ToSet(handlers) : w = Wire(h)
  BY <1>1, <1>2, <1>3, OfferedMeans
<1> QED
  BY <1>4, HandlersWhileRunning

\* What an agent with a request on the tape was offered: the wire form of
\* every MCP tool it lists.
LEMMA OfferedAll ==
  ASSUME RunInv, UnderWay, NEW i \in DOMAIN tape
  PROVE  /\ tape[i].agent \in Agents
         /\ ToSet(tape[i].tools) = {Wire(h) : h \in NamesOf(ToSet(lists[tape[i].agent]))}
<1> DEFINE a == tape[i].agent
           mine == NamesOf(ToSet(lists[a]))
<1>1. a \in Agents
  <2>1. tape[i] \in Request
    BY DEF RunInv, Running
  <2> QED
    BY <2>1 DEF Request
<1>2. Starts(a) /\ tape[i].tools = OfferedOf(handlers, mine)
  BY <1>1, OfferedIs DEF RunInv, Running
<1>3. mine \subseteq ToSet(handlers)
  BY <1>2 DEF Starts, HasHandler, NamesOf
<1>4. Underscore \in Words /\ handlers \in Seq(Seq(Words))
  BY HandlersWhileRunning, GivenTypes DEF RunInv
<1> HIDE DEF mine, a
<1>5. ToSet(tape[i].tools) = {Wire(h) : h \in ToSet(handlers) \cap mine}
  BY <1>2, <1>4, OfferedMeans
<1>6. ToSet(handlers) \cap mine = mine
  BY <1>3
<1> QED
  BY <1>1, <1>5, <1>6 DEF mine, a

\* A wildcard puts the tools of its server among an agent's names.
LEMMA WildEntryNamed ==
  ASSUME LInv, NEW tools \in [ServerNames -> Seq(Seq(Words))], NEW entries,
         NEW w \in entries, Wild(w), WildcardServer(w.name) \in ServerNames,
         NEW t \in ToSet(tools[WildcardServer(w.name)])
  PROVE  McpName(WildcardServer(w.name), t) \in NamesOf(FromWild(entries, tools))
<1> DEFINE n == WildcardServer(w.name)
<1>1. n \in Seq(Words) /\ "." \in Words /\ tools[n] \in Seq(Seq(Words)) /\ n \in DOMAIN tools
  BY GivenTypes
<1>2. t \in Seq(Words)
  <2>1. t \in ToSet(tools[n])
    OBVIOUS
  <2> HIDE DEF n
  <2> QED BY <1>1, <2>1 DEF ToSet
<1>3. McpName(n, t) \in Seq(Words)
  <2> HIDE DEF n
  <2> QED BY <1>1, <1>2, JoinedWith DEF McpName
<1>4. McpEntry(n, t) \in Entry /\ McpEntry(n, t).kind = "mcp" /\ McpEntry(n, t).name = McpName(n, t)
  <2> HIDE DEF n
  <2> QED BY <1>3 DEF McpEntry, Entry
<1>5. McpEntry(n, t) \in FromWild(entries, tools)
  BY <1>1, <1>4 DEF FromWild
<1> QED
  BY <1>4, <1>5 DEF NamesOf

\* A wildcard stands for tools of the same wire names again.
LEMMA WildcardsAgree ==
  ASSUME RunInv, Replay, ValidateAccepts, NamedAsDocumented, NEW i \in DOMAIN tape,
         NEW e \in Listed(tape[i].agent), Wild(e), WildcardServer(e.name) \in ServerNames
  PROVE  LET n == WildcardServer(e.name) IN
           {Wire(McpName(n, t)) : t \in ToSet(Advertised[n])} = {Wire(McpName(n, t)) : t \in ToSet(Derived(n))}
<1> DEFINE n == WildcardServer(e.name)
           a == tape[i].agent
<1>1. UnderWay /\ LInv
  BY DEF Replay, RunInv, UnderWay
<1>2. /\ n \in ServerNames /\ ServerNames \in SUBSET Seq(Words)
      /\ \A m \in ServerNames : Advertised[m] \in Seq(Seq(Words))
  BY <1>1, GivenTypes
<1>3. \A m \in ServerNames : ToSet(Advertised[m]) \subseteq Seq(Words)
  BY <1>2 DEF ToSet
<1>4. ToSet(Derived(n)) = {ToolPart(n, w) : w \in {v \in ToSet(Discovered) : Longest(ServerNames, v) = {n}}}
  BY <1>1, <1>2, DerivedMeans
<1>5. ASSUME NEW m \in ServerNames, NEW t \in ToSet(Advertised[m])
      PROVE  LET wire == Wire(McpName(m, t)) IN
               Longest(ServerNames, wire) = {m} /\ Wire(McpName(m, ToolPart(m, wire))) = wire
  BY <1>1, <1>3, ToolLeadsBack
<1>6. ASSUME NEW t \in ToSet(Advertised[n])
      PROVE  \E u \in ToSet(Derived(n)) : Wire(McpName(n, u)) = Wire(McpName(n, t))
  <2> DEFINE wire == Wire(McpName(n, t))
  <2>1. a \in Agents /\ ToSet(tape[i].tools) = {Wire(h) : h \in NamesOf(ToSet(lists[a]))}
    BY <1>1, OfferedAll
  <2>2. Advertised \in [ServerNames -> Seq(Seq(Words))]
    BY <1>1, GivenTypes
  <2>3. McpName(n, t) \in NamesOf(FromWild(Listed(a), Advertised))
    BY <1>1, <1>2, <2>2, WildEntryNamed
  <2>4. McpName(n, t) \in NamesOf(ToSet(lists[a]))
    BY <1>1, <2>1, <2>3, ListedWhileRunning DEF NamesOf
  <2>5. wire \in ToSet(Discovered)
    BY <1>1, <2>1, <2>4, DiscoveredMeans
  <2>6. ToolPart(n, wire) \in ToSet(Derived(n))
    BY <1>2, <1>4, <1>5, <2>5
  <2> QED
    BY <1>2, <1>5, <2>6
<1>7. ASSUME NEW u \in ToSet(Derived(n))
      PROVE  \E t \in ToSet(Advertised[n]) : Wire(McpName(n, u)) = Wire(McpName(n, t))
  <2>1. PICK w \in ToSet(Discovered) : Longest(ServerNames, w) = {n} /\ u = ToolPart(n, w)
    BY <1>4
  <2>2. PICK m \in ServerNames : \E t \in ToSet(Advertised[m]) : w = Wire(McpName(m, t))
    BY <1>1, TapeNamesTools
  <2>3. PICK t \in ToSet(Advertised[m]) : w = Wire(McpName(m, t))
    BY <2>2
  <2>4. Longest(ServerNames, w) = {m} /\ Wire(McpName(m, ToolPart(m, w))) = w
    BY <1>5, <2>3
  <2>5. m = n
    BY <2>1, <2>4
  <2> QED
    BY <2>1, <2>3, <2>4, <2>5
<1> HIDE DEF n
<1>8. {Wire(McpName(n, t)) : t \in ToSet(Advertised[n])} = {Wire(McpName(n, t)) : t \in ToSet(Derived(n))}
  BY <1>6, <1>7
<1> QED
  BY <1>8 DEF n

\* Hence the same is offered.
LEMMA ReplayKeepsOffers ==
  ASSUME RunInv, Replay, ValidateAccepts, NamedAsDocumented, NEW i \in DOMAIN tape
  PROVE  ToSet(Offered(tape[i].agent)') = ToSet(tape[i].tools)
<1> DEFINE a    == tape[i].agent
           old  == NamesOf(ToSet(lists[a]))
           new  == NamesOf(ToSet(lists'[a]))
           derived == [name \in ServerNames |-> Derived(name)]
<1>1. UnderWay /\ LInv
  BY DEF Replay, RunInv, UnderWay
<1>2. a \in Agents /\ ToSet(tape[i].tools) = {Wire(h) : h \in old}
  BY <1>1, OfferedAll
<1>3. /\ ToSet(lists'[a]) = Literal(Listed(a)) \cup FromWild(Listed(a), derived)
      /\ handlers' \in Seq(Seq(Words)) /\ new \subseteq ToSet(handlers')
  BY <1>2, ReplayMeans
<1>4. ToSet(Offered(a)') = {Wire(h) : h \in new}
  <2>1. Offered(a)' = OfferedOf(handlers', new)
    BY OfferedIs DEF Replay
  <2>2. Underscore \in Words
    BY <1>1, GivenTypes
  <2> HIDE DEF new
  <2>3. ToSet(OfferedOf(handlers', new)) = {Wire(h) : h \in ToSet(handlers') \cap new}
    BY <1>3, <2>2, OfferedMeans
  <2>4. ToSet(handlers') \cap new = new
    BY <1>3
  <2> QED
    BY <2>1, <2>3, <2>4
<1>5. ToSet(lists[a]) = Literal(Listed(a)) \cup FromWild(Listed(a), Advertised)
  BY <1>1, <1>2, ListedWhileRunning
<1>6. DOMAIN derived = ServerNames /\ DOMAIN Advertised = ServerNames
      /\ \A n \in ServerNames : derived[n] = Derived(n)
  BY DEF Advertised
<1> HIDE DEF derived
<1>7. ASSUME NEW h \in old PROVE \E k \in new : Wire(k) = Wire(h)
  <2>1. PICK e \in ToSet(lists[a]) : e.kind = "mcp" /\ h = e.name
    BY DEF NamesOf
  <2>2. CASE e \in Literal(Listed(a))
    <3>1. h \in new
      BY <1>3, <2>1, <2>2 DEF NamesOf
    <3> QED
      BY <3>1
  <2>3. CASE e \in FromWild(Listed(a), Advertised)
    <3>1. PICK w \in Listed(a) : /\ Wild(w) /\ WildcardServer(w.name) \in ServerNames
                                 /\ \E t \in ToSet(Advertised[WildcardServer(w.name)]) :
                                      e = McpEntry(WildcardServer(w.name), t)
      BY <1>6, <2>3 DEF FromWild
    <3> DEFINE n == WildcardServer(w.name)
    <3>2. PICK t \in ToSet(Advertised[n]) : e = McpEntry(n, t)
      BY <3>1
    <3>3. PICK u \in ToSet(Derived(n)) : Wire(McpName(n, u)) = Wire(McpName(n, t))
      BY <3>1, WildcardsAgree
    <3>4. McpName(n, u) \in NamesOf(FromWild(Listed(a), derived))
      <4>1. derived \in [ServerNames -> Seq(Seq(Words))]
        BY <1>1, DerivedMeans DEF derived
      <4>2. u \in ToSet(derived[n])
        BY <1>6, <3>1
      <4> QED
        BY <1>1, <3>1, <4>1, <4>2, WildEntryNamed
    <3>5. McpName(n, u) \in new
      BY <1>3, <3>4 DEF NamesOf
    <3> QED
      BY <2>1, <3>2, <3>3, <3>5 DEF McpEntry
  <2> QED
    BY <1>5, <2>1, <2>2, <2>3
<1>8. ASSUME NEW k \in new PROVE \E h \in old : Wire(k) = Wire(h)
  <2>1. PICK e \in ToSet(lists'[a]) : e.kind = "mcp" /\ k = e.name
    BY DEF NamesOf
  <2>2. CASE e \in Literal(Listed(a))
    <3>1. k \in old
      BY <1>5, <2>1, <2>2 DEF NamesOf
    <3> QED
      BY <3>1
  <2>3. CASE e \in FromWild(Listed(a), derived)
    <3>1. PICK w \in Listed(a) : /\ Wild(w) /\ WildcardServer(w.name) \in ServerNames
                                 /\ \E u \in ToSet(derived[WildcardServer(w.name)]) :
                                      e = McpEntry(WildcardServer(w.name), u)
      BY <1>6, <2>3 DEF FromWild
    <3> DEFINE n == WildcardServer(w.name)
    <3>2. PICK u \in ToSet(Derived(n)) : e = McpEntry(n, u)
      BY <1>6, <3>1
    <3>3. PICK t \in ToSet(Advertised[n]) : Wire(McpName(n, u)) = Wire(McpName(n, t))
      BY <3>1, WildcardsAgree
    <3>4. McpName(n, t) \in NamesOf(FromWild(Listed(a), Advertised))
      <4>1. Advertised \in [ServerNames -> Seq(Seq(Words))]
        BY <1>1, GivenTypes
      <4> QED
        BY <1>1, <3>1, <4>1, WildEntryNamed
    <3>5. McpName(n, t) \in old
      BY <1>5, <3>4 DEF NamesOf
    <3> QED
      BY <2>1, <3>2, <3>3, <3>5 DEF McpEntry
  <2> QED
    BY <1>3, <2>1, <2>2, <2>3
<1>9. {Wire(h) : h \in new} = {Wire(h) : h \in old}
  <2> HIDE DEF new, old
  <2> QED BY <1>7, <1>8
<1> QED
  BY <1>2, <1>4, <1>9

LEMMA StepRunInv == RunInv /\ [LoaderNext]_loaderVars => RunInv'
<1> SUFFICES ASSUME RunInv, [LoaderNext]_loaderVars PROVE RunInv'
  OBVIOUS
<1>1. LInv' /\ LInv
  BY StepLInv DEF RunInv
<1>2. file' = file
  BY DEF LoaderNext, LoadStep, CheckVersion, CheckServers, CheckNodes, CheckGraph, CheckAgents, Check,
         ValidateCommand, Spawn, Begin, Replay, Stopped, loaderVars
<1>3. Advertised' = Advertised /\ Registered' = Registered /\ (ValidateAccepts <=> ValidateAccepts')
      /\ (NamedAsDocumented <=> NamedAsDocumented')
  BY <1>2 DEF Advertised, ServerNamed, ServerNames, Registered, Handlers, ValidateAccepts, AgentValid, Listed,
              NamesValid, NamedAsDocumented
<1>4. CASE LoadStep \/ ValidateCommand
  <2>1. UNCHANGED kept
    BY <1>4 DEF LoadStep, CheckVersion, CheckServers, CheckNodes, CheckGraph, CheckAgents, Check, ValidateCommand
  <2>2. pc \notin {"running", "recording", "replaying"} /\ pc' \notin {"running", "recording", "replaying"}
    BY <1>4 DEF LoadStep, CheckVersion, CheckServers, CheckNodes, CheckGraph, CheckAgents, Check, ValidateCommand
  <2> QED
    BY <1>1, <1>2, <2>1, <2>2 DEF RunInv, BeforeRun, Running, UnderWay, ReplayOffersSame, kept
<1>5. CASE Spawn
  <2>1. /\ pc = "accepted" /\ pc' \in {"running", "recording"} /\ stopped' = stopped /\ tape' = tape
        /\ lists' = [a \in Agents |-> Expanded(lists[a], Advertised)] /\ handlers' = Registered
    BY <1>5 DEF Spawn, Registered
  <2>2. stopped = {} /\ tape = <<>> /\ lists = [a \in Agents |-> file.agents[a].allowed_tools]
    BY <2>1 DEF RunInv, BeforeRun
  <2>3. lists' = [a \in Agents |-> Expanded(file'.agents[a].allowed_tools, Advertised')]
    BY <1>2, <1>3, <2>1, <2>2
  <2>4. tape' \in Seq(Request) /\ DOMAIN tape' = {} /\ stopped' = {}
    BY <2>1, <2>2
  <2>5. Running'
    BY <1>3, <2>1, <2>3, <2>4 DEF Running, UnderWay
  <2> QED
    BY <1>1, <2>1, <2>5 DEF RunInv, BeforeRun, ReplayOffersSame, UnderWay
<1>6. ASSUME NEW a \in Agents, Begin(a) PROVE RunInv'
  <2>1. /\ UnderWay /\ pc' = pc /\ lists' = lists /\ handlers' = handlers
        /\ IF Starts(a) THEN tape' = Append(tape, [agent |-> a, tools |-> Offered(a)]) /\ stopped' = stopped
                        ELSE stopped' = stopped \cup {a} /\ tape' = tape
    BY <1>6 DEF Begin
  <2>2. \A b : Starts(b)' = Starts(b) /\ Offered(b)' = Offered(b)
    BY <1>2, <2>1 DEF Starts, UsesJail, Jailed, HasHandler, Offered, McpNames
  <2>3. /\ lists' = [b \in Agents |-> Expanded(file'.agents[b].allowed_tools, Advertised')]
        /\ handlers' = Registered'
    BY <1>2, <1>3, <2>1 DEF RunInv, Running
  <2>4. /\ \A b \in stopped : b \in Agents /\ ~ Starts(b)
        /\ tape \in Seq(Request)
        /\ \A i \in DOMAIN tape : \A b \in Agents : tape[i].agent = b => Starts(b) /\ tape[i].tools = Offered(b)
    BY <2>1 DEF RunInv, Running
  <2>5. CASE ~ Starts(a)
    <3>1. stopped' = stopped \cup {a} /\ tape' = tape
      BY <2>1, <2>5
    <3>2. \A b \in stopped' : b \in Agents /\ ~ Starts(b)'
      BY <2>2, <2>4, <2>5, <3>1
    <3>3. \A i \in DOMAIN tape' : \A b \in Agents :
            tape'[i].agent = b => Starts(b)' /\ tape'[i].tools = Offered(b)'
      BY <2>2, <2>4, <3>1
    <3>4. Running'
      BY <2>1, <2>3, <2>4, <3>1, <3>2, <3>3 DEF Running, UnderWay
    <3> QED
      BY <1>1, <2>1, <3>4 DEF RunInv, BeforeRun, ReplayOffersSame, UnderWay
  <2>6. CASE Starts(a)
    <3> DEFINE request == [agent |-> a, tools |-> Offered(a)]
    <3>1. stopped' = stopped /\ tape' = Append(tape, request)
      BY <2>1, <2>6
    <3>2. Offered(a) \in Seq(Seq(Words))
      <4>1. Underscore \in Words /\ handlers \in Seq(Seq(Words))
        BY <1>1, <2>1, HandlersWhileRunning, GivenTypes
      <4> QED
        BY <4>1, OfferedIs, OfferedMeans
    <3>3. request \in Request
      BY <3>2 DEF Request
    <3>4. request.agent = a /\ request.tools = Offered(a)
      OBVIOUS
    <3> HIDE DEF request
    <3>5. /\ tape' \in Seq(Request) /\ DOMAIN tape' = DOMAIN tape \cup {Len(tape) + 1}
          /\ tape'[Len(tape) + 1] = request /\ \A i \in DOMAIN tape : tape'[i] = tape[i]
      BY <2>4, <3>1, <3>3
    <3>6. \A i \in DOMAIN tape' : \A b \in Agents :
            tape'[i].agent = b => Starts(b)' /\ tape'[i].tools = Offered(b)'
      BY <2>2, <2>4, <2>6, <3>4, <3>5
    <3>7. \A b \in stopped' : b \in Agents /\ ~ Starts(b)'
      BY <2>2, <2>4, <3>1
    <3>8. Running'
      BY <2>1, <2>3, <3>5, <3>6, <3>7 DEF Running, UnderWay
    <3> QED
      BY <1>1, <2>1, <3>8 DEF RunInv, BeforeRun, ReplayOffersSame, UnderWay
  <2> QED
    BY <2>5, <2>6
<1>7. CASE Replay
  <2>1. pc' = "replaying" /\ tape' = tape
    BY <1>7 DEF Replay
  <2>2. ReplayOffersSame'
    <3> SUFFICES ASSUME ValidateAccepts, NamedAsDocumented, NEW i \in DOMAIN tape
                 PROVE  ToSet(Offered(tape[i].agent)') = ToSet(tape[i].tools)
      BY <1>3, <2>1 DEF ReplayOffersSame
    <3> QED
      BY <1>7, ReplayKeepsOffers
  <2> QED
    BY <1>1, <2>1, <2>2 DEF RunInv, BeforeRun, Running, UnderWay
<1>8. CASE UNCHANGED loaderVars
  <2>1. /\ pc' = pc /\ lists' = lists /\ handlers' = handlers /\ stopped' = stopped /\ tape' = tape
    BY <1>8 DEF loaderVars
  <2>2. \A b : Starts(b)' = Starts(b) /\ Offered(b)' = Offered(b)
    BY <1>2, <2>1 DEF Starts, UsesJail, Jailed, HasHandler, Offered, McpNames
  <2>3. BeforeRun'
    BY <1>2, <2>1 DEF RunInv, BeforeRun
  <2>4. Running'
    BY <1>2, <1>3, <2>1, <2>2 DEF RunInv, Running, UnderWay
  <2>5. ReplayOffersSame'
    BY <1>3, <2>1, <2>2 DEF RunInv, ReplayOffersSame
  <2> QED
    BY <1>1, <2>3, <2>4, <2>5 DEF RunInv
<1> QED
  BY <1>4, <1>5, <1>6, <1>7, <1>8 DEF LoaderNext, Stopped

THEOREM RunInvariant == LoaderSpec => []RunInv
BY InitRunInv, StepRunInv, PTL DEF LoaderSpec

\* Every refusal of a loop to start that `orno validate` does not foresee has
\* one of two reasons, for every file.
THEOREM ValidatedRun == LoaderSpec => []ValidatedStarts
BY RunInvariant, StopsForTwo, PTL

\* A replay offers every agent of the tape the tools of the recording, for
\* every file, and whatever agents made requests in whatever order.
THEOREM ReplayOffers == LoaderSpec => []ReplayOffersSame
<1>1. RunInv => ReplayOffersSame
  BY DEF RunInv
<1> QED
  BY <1>1, RunInvariant, PTL
=============================================================================
