---------------------------- MODULE GraphProofs ----------------------------
(***************************************************************************)
(* Lemmas about the graph operators and about queues without repetitions,  *)
(* cited by the proofs of the cycle check and of the walker.               *)
(***************************************************************************)
EXTENDS PipelineGraph, FiniteSetTheorems, SequenceTheorems, TLAPS

\* The entries of a node are finitely many, so its unmet ones are a number,
\* which is zero exactly when everything it needs is done.
LEMMA UnmetCounts ==
  ASSUME NEW g \in [Node -> Seq(Node)], NEW n \in Node, NEW done
  PROVE  /\ Unmet(g, n, done) \in Nat
         /\ Unmet(g, n, done) = 0 <=> Needs(g, n) \subseteq done
         /\ Unmet(g, n, {}) = Len(g[n])
<1>1. g[n] \in Seq(Node) /\ Len(g[n]) \in Nat /\ DOMAIN g[n] = 1 .. Len(g[n])
  BY LenProperties
<1>2. IsFiniteSet(DOMAIN g[n]) /\ Cardinality(DOMAIN g[n]) = Len(g[n])
  <2> DEFINE len == Len(g[n])
  <2>1. len \in Int /\ 1 \in Int /\ DOMAIN g[n] = 1 .. len
    BY <1>1
  <2> HIDE DEF len
  <2>2. IsFiniteSet(1 .. len) /\ Cardinality(1 .. len) = IF 1 > len THEN 0 ELSE len - 1 + 1
    BY <2>1, FS_Interval
  <2>3. len \in Nat
    BY <1>1 DEF len
  <2>4. Cardinality(1 .. len) = len
    BY <2>2, <2>3
  <2>5. QED
    BY <2>1, <2>2, <2>4 DEF len
<1> DEFINE open == {k \in DOMAIN g[n] : g[n][k] \notin done}
<1>3. open \in SUBSET (DOMAIN g[n])
  OBVIOUS
<1>4. IsFiniteSet(open)
  BY <1>2, <1>3, FS_Subset
<1>5. Unmet(g, n, done) \in Nat
  BY <1>4, FS_CardinalityType DEF Unmet
<1>6. Unmet(g, n, done) = 0 <=> open = {}
  BY <1>4, FS_EmptySet DEF Unmet
<1>7. open = {} <=> Needs(g, n) \subseteq done
  BY DEF Needs, Range
<1>8. {k \in DOMAIN g[n] : g[n][k] \notin {}} = DOMAIN g[n]
  OBVIOUS
<1>9. QED
  BY <1>2, <1>5, <1>6, <1>7, <1>8 DEF Unmet

\* When d becomes done, the unmet entries of n drop by the entries of n that
\* name d.
LEMMA UnmetDrops ==
  ASSUME NEW g \in [Node -> Seq(Node)], NEW n \in Node, NEW done,
         NEW d \in Node, d \notin done
  PROVE  /\ Unmet(g, n, done \cup {d})
              = Unmet(g, n, done) - Cardinality(Occurrences(g, n, d))
         /\ Cardinality(Occurrences(g, n, d)) \in Nat
         /\ d \notin Needs(g, n) => Cardinality(Occurrences(g, n, d)) = 0
<1>1. g[n] \in Seq(Node) /\ Len(g[n]) \in Nat /\ DOMAIN g[n] = 1 .. Len(g[n])
  BY LenProperties
<1>2. IsFiniteSet(DOMAIN g[n])
  BY <1>1, FS_Interval
<1> DEFINE before == {k \in DOMAIN g[n] : g[n][k] \notin done}
           after == {k \in DOMAIN g[n] : g[n][k] \notin done \cup {d}}
           occ == Occurrences(g, n, d)
<1>3. before \in SUBSET (DOMAIN g[n]) /\ occ \in SUBSET (DOMAIN g[n])
  BY DEF Occurrences
<1>4. IsFiniteSet(before) /\ IsFiniteSet(occ)
  BY <1>2, <1>3, FS_Subset
<1>5. after = before \ occ /\ before \cap occ = occ
  BY DEF Occurrences
<1>6. Cardinality(after) = Cardinality(before) - Cardinality(occ)
  BY <1>4, <1>5, FS_Difference
<1>7. Cardinality(occ) \in Nat
  BY <1>4, FS_CardinalityType
<1>8. d \notin Needs(g, n) => occ = {}
  BY DEF Needs, Range, Occurrences
<1>9. QED
  BY <1>6, <1>7, <1>8, FS_EmptySet DEF Unmet

\* Filtering a queue without repetitions gives a queue without repetitions
\* that holds exactly what was kept.
LEMMA InOrderKeeps ==
  ASSUME NEW q \in Seq(Node), IsInjective(q),
         NEW keep \in SUBSET Node, NEW r \in InOrder(q, keep)
  PROVE  r \in Seq(Node) /\ Range(r) = keep /\ IsInjective(r)
<1>1. IsFiniteSet(Node)
  BY FS_Interval, NAssumption DEF Node
<1>2. IsFiniteSet(keep)
  BY <1>1, FS_Subset
<1>3. Cardinality(keep) \in Nat
  BY <1>2, FS_CardinalityType
<1>4. r \in [1 .. Cardinality(keep) -> Node]
  BY DEF InOrder
<1>5. r \in Seq(Node)
  BY <1>3, <1>4, SeqDef
<1>6. ASSUME NEW i \in DOMAIN r, NEW j \in DOMAIN r, r[i] = r[j], i < j
      PROVE  FALSE
  <2>1. PICK a \in DOMAIN q, b \in DOMAIN q : a < b /\ q[a] = r[i] /\ q[b] = r[j]
    BY <1>6 DEF InOrder
  <2>2. a = b
    BY <1>6, <2>1 DEF IsInjective
  <2>3. a \in Int /\ b \in Int
    BY LenProperties
  <2>4. QED
    BY <2>1, <2>2, <2>3
<1>7. \A i, j \in DOMAIN r : i \in Int /\ j \in Int
  BY <1>3, <1>4
<1>8. IsInjective(r)
  BY <1>6, <1>7 DEF IsInjective
<1>9. QED
  BY <1>5, <1>8 DEF InOrder

LEMMA SourceOrderIsSeq ==
  SourceOrder \in Seq(Node) /\ IsInjective(SourceOrder)
<1>1. SourceOrder \in [1 .. N -> Node]
  BY DEF SourceOrder, Node
<1>2. SourceOrder \in Seq(Node)
  BY <1>1, NAssumption, SeqDef
<1>3. QED
  BY <1>2 DEF SourceOrder, IsInjective

\* Popping the front of a queue without repetitions removes that element
\* and no other.
LEMMA TailInjective ==
  ASSUME NEW q \in Seq(Node), IsInjective(q), q # <<>>
  PROVE  /\ Head(q) \in Range(q) /\ Head(q) \in Node
         /\ Tail(q) \in Seq(Node) /\ IsInjective(Tail(q))
         /\ Range(Tail(q)) = Range(q) \ {Head(q)}
<1>1. Len(q) \in Nat /\ Len(q) > 0 /\ DOMAIN q = 1 .. Len(q) /\ Head(q) = q[1]
  BY LenProperties, EmptySeq
<1>2. /\ Tail(q) \in Seq(Node) /\ Len(Tail(q)) = Len(q) - 1 /\ Head(q) \in Node
      /\ \A i \in 1 .. Len(Tail(q)) : Tail(q)[i] = q[i + 1]
  BY HeadTailProperties
<1>3. DOMAIN Tail(q) = 1 .. (Len(q) - 1)
  BY <1>2, LenProperties
<1>4. ASSUME NEW i \in DOMAIN Tail(q), NEW j \in DOMAIN Tail(q), Tail(q)[i] = Tail(q)[j]
      PROVE  i = j
  <2>1. i + 1 \in DOMAIN q /\ j + 1 \in DOMAIN q /\ q[i + 1] = q[j + 1]
    BY <1>1, <1>2, <1>3, <1>4
  <2>2. i + 1 = j + 1
    BY <2>1 DEF IsInjective
  <2>3. QED
    BY <1>1, <1>3, <2>2
<1>5. \A x \in Range(Tail(q)) : x \in Range(q) /\ x # Head(q)
  <2>1. SUFFICES ASSUME NEW i \in 1 .. (Len(q) - 1)
                 PROVE  Tail(q)[i] \in Range(q) /\ Tail(q)[i] # Head(q)
    BY <1>3 DEF Range
  <2>2. i + 1 \in DOMAIN q /\ 1 \in DOMAIN q /\ Tail(q)[i] = q[i + 1] /\ i + 1 # 1
    BY <1>1, <1>2
  <2>3. QED
    BY <1>1, <2>2 DEF Range, IsInjective
<1>6. \A x \in Range(q) : x # Head(q) => x \in Range(Tail(q))
  <2>1. SUFFICES ASSUME NEW i \in 1 .. Len(q), q[i] # q[1]
                 PROVE  q[i] \in Range(Tail(q))
    BY <1>1 DEF Range
  <2>2. i - 1 \in 1 .. Len(Tail(q)) /\ q[i] = Tail(q)[i - 1]
    BY <1>1, <1>2, <2>1
  <2>3. QED
    BY <1>2, <1>3, <2>2 DEF Range
<1>7. Head(q) \in Range(q)
  BY <1>1 DEF Range
<1>8. QED
  BY <1>2, <1>4, <1>5, <1>6, <1>7 DEF IsInjective

\* Taking the top of a stack without repetitions removes that element and
\* no other.
LEMMA PopInjective ==
  ASSUME NEW q \in Seq(Node), IsInjective(q), q # <<>>,
         NEW p, p = SubSeq(q, 1, Len(q) - 1)
  PROVE  /\ q[Len(q)] \in Node /\ q[Len(q)] \in Range(q)
         /\ p \in Seq(Node) /\ IsInjective(p)
         /\ Range(p) = Range(q) \ {q[Len(q)]}
<1>1. Len(q) \in Nat /\ Len(q) > 0 /\ DOMAIN q = 1 .. Len(q) /\ Len(q) \in DOMAIN q
  BY LenProperties, EmptySeq
<1>2. /\ p \in Seq(Node) /\ Len(p) = Len(q) - 1
      /\ \A i \in 1 .. (Len(q) - 1) : p[i] = q[i]
  BY <1>1
<1>3. DOMAIN p = 1 .. (Len(q) - 1)
  BY <1>2, LenProperties
<1>4. IsInjective(p)
  BY <1>1, <1>2, <1>3 DEF IsInjective
<1>5. \A i \in 1 .. (Len(q) - 1) : q[i] # q[Len(q)]
  BY <1>1 DEF IsInjective
<1>6. Range(p) = Range(q) \ {q[Len(q)]}
  <2>1. Range(p) = {q[i] : i \in 1 .. (Len(q) - 1)}
    BY <1>2, <1>3 DEF Range
  <2>2. Range(q) = {q[i] : i \in 1 .. (Len(q) - 1)} \cup {q[Len(q)]}
    BY <1>1 DEF Range
  <2>3. QED
    BY <1>5, <2>1, <2>2
<1>7. QED
  BY <1>1, <1>2, <1>4, <1>6, ElementOfSeq DEF Range

\* Popping the front of any queue: its head aside, the same elements stay.
LEMMA TailRange ==
  ASSUME NEW q \in Seq(Node), q # <<>>
  PROVE  /\ Head(q) \in Range(q) /\ Head(q) \in Node
         /\ Tail(q) \in Seq(Node)
         /\ Range(Tail(q)) \subseteq Range(q)
         /\ Range(q) \subseteq Range(Tail(q)) \cup {Head(q)}
<1>1. Len(q) \in Nat /\ Len(q) > 0 /\ DOMAIN q = 1 .. Len(q) /\ Head(q) = q[1]
  BY LenProperties, EmptySeq
<1>2. /\ Tail(q) \in Seq(Node) /\ Len(Tail(q)) = Len(q) - 1 /\ Head(q) \in Node
      /\ \A i \in 1 .. Len(Tail(q)) : Tail(q)[i] = q[i + 1]
  BY HeadTailProperties
<1>3. DOMAIN Tail(q) = 1 .. (Len(q) - 1)
  BY <1>2, LenProperties
<1>4. \A i \in 1 .. (Len(q) - 1) : i + 1 \in DOMAIN q /\ Tail(q)[i] = q[i + 1]
  BY <1>1, <1>2
<1>5. Range(Tail(q)) \subseteq Range(q)
  BY <1>3, <1>4 DEF Range
<1>6. ASSUME NEW i \in 1 .. Len(q), i # 1 PROVE q[i] \in Range(Tail(q))
  <2>1. i - 1 \in 1 .. Len(Tail(q)) /\ q[i] = Tail(q)[i - 1]
    BY <1>1, <1>2, <1>6
  <2>2. QED
    BY <1>2, <1>3, <2>1 DEF Range
<1>7. QED
  BY <1>1, <1>2, <1>5, <1>6 DEF Range

\* A need is an ancestor, and so is an ancestor of a need.
LEMMA AncestorStep ==
  ASSUME NEW g \in [Node -> Seq(Node)], NEW d \in Node, NEW n \in Node, d \in Needs(g, n)
  PROVE  /\ Ancestor(g, d, n)
         /\ \A a \in Node : Ancestor(g, a, d) => Ancestor(g, a, n)
BY DEF Ancestor

LEMMA ReversedSourceIsSeq ==
  ASSUME NEW q, q = [i \in DOMAIN SourceOrder |-> SourceOrder[Len(SourceOrder) + 1 - i]]
  PROVE  q \in Seq(Node) /\ IsInjective(q)
<1>1. Len(SourceOrder) = N /\ DOMAIN SourceOrder = 1 .. N
  <2>1. SourceOrder \in Seq(Node) /\ DOMAIN SourceOrder = 1 .. N
    BY SourceOrderIsSeq DEF SourceOrder, Node
  <2>2. DOMAIN SourceOrder = 1 .. Len(SourceOrder) /\ Len(SourceOrder) \in Nat
    BY <2>1, LenProperties
  <2>3. QED
    BY <2>1, <2>2, NAssumption
<1>2. q = [i \in 1 .. N |-> N + 1 - i]
  BY <1>1, NAssumption DEF SourceOrder, Node
<1>3. q \in [1 .. N -> Node]
  BY <1>2, NAssumption DEF Node
<1>4. q \in Seq(Node)
  BY <1>3, NAssumption, SeqDef
<1>5. DOMAIN q = 1 .. N /\ \A i \in 1 .. N : q[i] = N + 1 - i
  BY <1>2
<1>6. \A i, j \in 1 .. N : N + 1 - i = N + 1 - j => i = j
  BY NAssumption
<1>7. IsInjective(q)
  BY <1>5, <1>6 DEF IsInjective
<1>8. QED
  BY <1>4, <1>7

\* What a node needs are nodes.
LEMMA NeedsAreNodes ==
  ASSUME NEW g \in [Node -> Seq(Node)], NEW n \in Node
  PROVE  Needs(g, n) \subseteq Node
BY RangeOfSeq DEF Needs

LEMMA NodesAreFinite == IsFiniteSet(Node) /\ Cardinality(Node) = N
<1>1. N \in Int /\ 1 \in Int /\ N >= 1
  BY NAssumption
<1>2. IsFiniteSet(1 .. N) /\ Cardinality(1 .. N) = IF 1 > N THEN 0 ELSE N - 1 + 1
  BY <1>1, FS_Interval
<1>3. QED
  BY <1>1, <1>2 DEF Node

\* Two queues without repetitions and without a common element concatenate
\* to one without repetitions.
LEMMA ConcatInjective ==
  ASSUME NEW q \in Seq(Node), IsInjective(q), NEW r \in Seq(Node), IsInjective(r),
         Range(q) \cap Range(r) = {}
  PROVE  /\ q \o r \in Seq(Node)
         /\ Range(q \o r) = Range(q) \cup Range(r)
         /\ IsInjective(q \o r)
<1>1. q \o r \in Seq(Node) /\ Range(q \o r) = Range(q) \cup Range(r)
  BY ConcatProperties, RangeConcatenation
<1>2. /\ Len(q) \in Nat /\ Len(r) \in Nat /\ DOMAIN q = 1 .. Len(q) /\ DOMAIN r = 1 .. Len(r)
      /\ DOMAIN (q \o r) = 1 .. (Len(q) + Len(r))
  BY <1>1, LenProperties, ConcatProperties
<1>3. \A i \in 1 .. (Len(q) + Len(r)) :
        (q \o r)[i] = IF i <= Len(q) THEN q[i] ELSE r[i - Len(q)]
  BY <1>2, ConcatProperties
<1>4. \A i \in 1 .. Len(q), j \in 1 .. Len(r) : q[i] # r[j]
  BY <1>2 DEF Range
<1>5. ASSUME NEW i \in DOMAIN (q \o r), NEW j \in DOMAIN (q \o r), (q \o r)[i] = (q \o r)[j]
      PROVE  i = j
  <2>1. CASE i <= Len(q) /\ j <= Len(q)
    BY <1>2, <1>3, <1>5, <2>1 DEF IsInjective
  <2>2. CASE i > Len(q) /\ j > Len(q)
    <3>1. r[i - Len(q)] = r[j - Len(q)]
      BY <1>2, <1>3, <1>5, <2>2
    <3>2. i - Len(q) \in DOMAIN r /\ j - Len(q) \in DOMAIN r
      BY <1>2, <2>2
    <3>3. i - Len(q) = j - Len(q)
      BY <3>1, <3>2 DEF IsInjective
    <3>4. QED
      BY <1>2, <3>3
  <2>3. CASE i <= Len(q) /\ j > Len(q)
    <3>1. q[i] = r[j - Len(q)] /\ i \in 1 .. Len(q) /\ j - Len(q) \in 1 .. Len(r)
      BY <1>2, <1>3, <1>5, <2>3
    <3>2. QED
      BY <1>4, <3>1
  <2>4. CASE i > Len(q) /\ j <= Len(q)
    <3>1. q[j] = r[i - Len(q)] /\ j \in 1 .. Len(q) /\ i - Len(q) \in 1 .. Len(r)
      BY <1>2, <1>3, <1>5, <2>4
    <3>2. QED
      BY <1>4, <3>1
  <2>5. QED
    BY <1>2, <2>1, <2>2, <2>3, <2>4
<1>6. QED
  BY <1>1, <1>5 DEF IsInjective
=============================================================================
