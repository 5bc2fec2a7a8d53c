--------------------------- MODULE NodeMemoryProofs ---------------------------
(***************************************************************************)
(* The bounds of what a node's work leaves behind, for every pipeline, cap *)
(* and sequence of answers: the template cache, the histories of nested    *)
(* loops and the state buffers.                                            *)
(***************************************************************************)
EXTENDS NodeMemory, WellFoundedInduction, SequenceTheorems, TLAPS

Templates == DOMAIN Reads

-----------------------------------------------------------------------------
(* The cache.  Its list has no source twice: otherwise the source pushed   *)
(* out at the end could still be in it.                                    *)

Distinct(lru) == \A i, j \in DOMAIN lru : lru[i] = lru[j] => i = j

StoreOK(st) ==
  /\ st \in [lru : Seq(Templates), compiled : SUBSET Templates]
  /\ st.compiled = ToSet(st.lru)
  /\ Len(st.lru) <= Capacity
  /\ Distinct(st.lru)

LEMMA EmptyOK == StoreOK(EmptyStore)
<1>1. EmptyStore.lru = <<>> /\ EmptyStore.compiled = {} /\ EmptyStore \in [lru : Seq(Templates), compiled : SUBSET Templates]
  BY DEF EmptyStore
<1> QED
  BY <1>1, CapacityAssumption DEF StoreOK, ToSet, Distinct

\* Moving an element to the front of a list keeps its elements.
LEMMA RefreshedOK ==
  ASSUME NEW lru \in Seq(Templates), NEW s, Contains(lru, s), Distinct(lru)
  PROVE  /\ Refreshed(lru, s) \in Seq(Templates) /\ Len(Refreshed(lru, s)) = Len(lru)
         /\ ToSet(Refreshed(lru, s)) = ToSet(lru) /\ Distinct(Refreshed(lru, s))
<1> DEFINE k == CHOOSE i \in DOMAIN lru : lru[i] = s
           n == Len(lru)
           r == Refreshed(lru, s)
<1>1. k \in 1 .. n /\ lru[k] = s /\ n \in Nat \ {0} /\ DOMAIN lru = 1 .. n /\ s \in Templates
  BY DEF Contains
<1>2. r = <<s>> \o (SubSeq(lru, 1, k - 1) \o SubSeq(lru, k + 1, n))
  BY DEF Refreshed, RemoveAt
<1> HIDE DEF k, n, r
<1>3. /\ SubSeq(lru, 1, k - 1) \in Seq(Templates) /\ SubSeq(lru, k + 1, n) \in Seq(Templates)
      /\ Len(SubSeq(lru, 1, k - 1)) = k - 1 /\ Len(SubSeq(lru, k + 1, n)) = n - k
      /\ \A i \in 1 .. k - 1 : SubSeq(lru, 1, k - 1)[i] = lru[i]
      /\ \A i \in 1 .. n - k : SubSeq(lru, k + 1, n)[i] = lru[k + i]
  <2>1. \A i \in 1 .. n : lru[i] \in Templates
    BY <1>1
  <2>2. /\ SubSeq(lru, 1, k - 1) \in Seq(Templates)
        /\ Len(SubSeq(lru, 1, k - 1)) = IF 1 <= k - 1 THEN (k - 1) - 1 + 1 ELSE 0
        /\ \A i \in 1 .. (k - 1) - 1 + 1 : SubSeq(lru, 1, k - 1)[i] = lru[1 + i - 1]
    <3>1. 1 \in Int /\ k - 1 \in Int /\ \A i \in 1 .. k - 1 : lru[i] \in Templates
      BY <1>1, <2>1
    <3> QED
      BY <3>1, SubSeqProperties
  <2>3. /\ SubSeq(lru, k + 1, n) \in Seq(Templates)
        /\ Len(SubSeq(lru, k + 1, n)) = IF k + 1 <= n THEN n - (k + 1) + 1 ELSE 0
        /\ \A i \in 1 .. n - (k + 1) + 1 : SubSeq(lru, k + 1, n)[i] = lru[(k + 1) + i - 1]
    <3>1. k + 1 \in Int /\ n \in Int /\ \A i \in k + 1 .. n : lru[i] \in Templates
      BY <1>1, <2>1
    <3> QED
      BY <3>1, SubSeqProperties
  <2>4. \A i \in 1 .. k - 1 : i \in 1 .. (k - 1) - 1 + 1 /\ 1 + i - 1 = i
    BY <1>1
  <2>5. \A i \in 1 .. n - k : i \in 1 .. n - (k + 1) + 1 /\ (k + 1) + i - 1 = k + i
    BY <1>1
  <2>6. Len(SubSeq(lru, 1, k - 1)) = k - 1 /\ Len(SubSeq(lru, k + 1, n)) = n - k
    BY <1>1, <2>2, <2>3
  <2> QED
    BY <2>2, <2>3, <2>4, <2>5, <2>6
<1> DEFINE a == SubSeq(lru, 1, k - 1)
           b == SubSeq(lru, k + 1, n)
           ab == a \o b
<1>4. /\ ab \in Seq(Templates) /\ Len(ab) = n - 1
      /\ \A i \in 1 .. n - 1 : ab[i] = IF i < k THEN lru[i] ELSE lru[i + 1]
  <2> HIDE DEF a, b
  <2>1. /\ a \in Seq(Templates) /\ b \in Seq(Templates) /\ Len(a) = k - 1 /\ Len(b) = n - k
        /\ \A i \in 1 .. k - 1 : a[i] = lru[i]
        /\ \A i \in 1 .. n - k : b[i] = lru[k + i]
    BY <1>3 DEF a, b
  <2>0. /\ ab \in Seq(Templates) /\ Len(ab) = Len(a) + Len(b)
        /\ \A i \in 1 .. Len(a) + Len(b) : ab[i] = IF i <= Len(a) THEN a[i] ELSE b[i - Len(a)]
    BY <2>1, ConcatProperties
  <2>2. ab \in Seq(Templates) /\ Len(ab) = n - 1
    BY <1>1, <2>0, <2>1
  <2>3. \A i \in 1 .. n - 1 : ab[i] = IF i <= k - 1 THEN a[i] ELSE b[i - (k - 1)]
    BY <1>1, <2>0, <2>1
  <2>4. ASSUME NEW i \in 1 .. n - 1 PROVE ab[i] = IF i < k THEN lru[i] ELSE lru[i + 1]
    <3>1. CASE i < k
      BY <1>1, <2>1, <2>3, <3>1
    <3>2. CASE ~ (i < k)
      <4>1. i - (k - 1) \in 1 .. n - k /\ k + (i - (k - 1)) = i + 1
        BY <1>1, <3>2
      <4>2. b[i - (k - 1)] = lru[i + 1]
        BY <2>1, <4>1
      <4>3. ~ (i <= k - 1) /\ i \in 1 .. n - 1
        BY <1>1, <3>2
      <4> QED
        BY <2>3, <3>2, <4>2, <4>3
    <3> QED
      BY <3>1, <3>2
  <2> QED
    BY <2>2, <2>4
<1>5. r = <<s>> \o ab
  BY <1>2
<1> HIDE DEF a, b, ab
<1>6. /\ r \in Seq(Templates) /\ Len(r) = n /\ DOMAIN r = 1 .. n /\ r[1] = s
      /\ \A i \in 2 .. n : r[i] = ab[i - 1]
  BY <1>1, <1>4, <1>5
<1>7. \A i \in 2 .. n : r[i] = IF i <= k THEN lru[i - 1] ELSE lru[i]
  <2> SUFFICES ASSUME NEW i \in 2 .. n PROVE r[i] = IF i <= k THEN lru[i - 1] ELSE lru[i]
    OBVIOUS
  <2>1. i - 1 \in 1 .. n - 1 /\ (i - 1) + 1 = i /\ (i - 1 < k <=> i <= k)
    BY <1>1
  <2>2. ab[i - 1] = IF i - 1 < k THEN lru[i - 1] ELSE lru[(i - 1) + 1]
    BY <1>4, <2>1
  <2> QED
    BY <1>6, <2>1, <2>2
\* Where each element of the new list was in the old one, and back.
<1> DEFINE was(i) == IF i = 1 THEN k ELSE IF i <= k THEN i - 1 ELSE i
<1>8. \A i \in 1 .. n : was(i) \in 1 .. n /\ r[i] = lru[was(i)]
  BY <1>1, <1>6, <1>7
<1>9. \A i, j \in 1 .. n : was(i) = was(j) => i = j
  BY <1>1
<1>10. \A j \in 1 .. n : \E i \in 1 .. n : was(i) = j
  <2> SUFFICES ASSUME NEW j \in 1 .. n PROVE \E i \in 1 .. n : was(i) = j
    OBVIOUS
  <2>1. CASE j = k
    BY <1>1, <2>1
  <2>2. CASE j < k
    <3>1. j + 1 \in 1 .. n /\ was(j + 1) = j
      BY <1>1, <2>2
    <3> QED
      BY <3>1
  <2>3. CASE j > k
    <3>1. was(j) = j
      BY <1>1, <2>3
    <3> QED
      BY <3>1
  <2> QED
    BY <1>1, <2>1, <2>2, <2>3
<1> HIDE DEF was
<1>11. Distinct(r)
  BY <1>1, <1>6, <1>8, <1>9 DEF Distinct
<1>12. ToSet(r) = ToSet(lru)
  <2>1. ASSUME NEW t \in ToSet(r) PROVE t \in ToSet(lru)
    BY <1>1, <1>6, <1>8 DEF ToSet
  <2>2. ASSUME NEW t \in ToSet(lru) PROVE t \in ToSet(r)
    <3>1. PICK j \in 1 .. n : lru[j] = t
      BY <1>1 DEF ToSet
    <3>2. PICK i \in 1 .. n : was(i) = j
      BY <1>10
    <3>3. r[i] = t /\ i \in DOMAIN r
      BY <1>6, <1>8, <3>1, <3>2
    <3> QED
      BY <3>3 DEF ToSet
  <2> QED
    BY <2>1, <2>2
<1> QED
  BY <1>6, <1>11, <1>12 DEF r, n

\* A source that is not cached goes to the front; the last one may go.
LEMMA WithOK ==
  ASSUME NEW st, StoreOK(st), NEW s \in Templates, ~ Contains(st.lru, s)
  PROVE  StoreOK(With(st, s))
<1> DEFINE lru == <<s>> \o st.lru
           n == Len(st.lru)
<1>1. st.lru \in Seq(Templates) /\ n \in Nat /\ DOMAIN st.lru = 1 .. n /\ n <= Capacity /\ Capacity \in Nat \ {0}
  BY CapacityAssumption DEF StoreOK
<1>2. /\ lru \in Seq(Templates) /\ Len(lru) = n + 1 /\ DOMAIN lru = 1 .. n + 1 /\ lru[1] = s
      /\ \A i \in 2 .. n + 1 : lru[i] = st.lru[i - 1]
  BY <1>1
<1> HIDE DEF lru, n
<1>3. \A i \in 1 .. n : st.lru[i] # s
  BY DEF Contains, n
<1>4. Distinct(lru)
  <2> SUFFICES ASSUME NEW i \in 1 .. n + 1, NEW j \in 1 .. n + 1, lru[i] = lru[j] PROVE i = j
    BY <1>2 DEF Distinct
  <2>1. CASE i = 1 \/ j = 1
    <3>0. \A m \in 2 .. n + 1 : m - 1 \in 1 .. n /\ lru[m] = st.lru[m - 1]
      BY <1>1, <1>2
    <3>1. \A m \in 2 .. n + 1 : lru[m] # s
      BY <1>3, <3>0
    <3> QED
      BY <1>1, <1>2, <2>1, <3>1
  <2>2. CASE i # 1 /\ j # 1
    <3>1. i - 1 \in DOMAIN st.lru /\ j - 1 \in DOMAIN st.lru /\ st.lru[i - 1] = st.lru[j - 1]
      BY <1>1, <1>2, <2>2
    <3>2. i - 1 = j - 1
      BY <3>1 DEF StoreOK, Distinct
    <3> QED
      BY <3>2
  <2> QED
    BY <2>1, <2>2
<1>5. ToSet(lru) = ToSet(st.lru) \cup {s}
  <2>1. ASSUME NEW t \in ToSet(lru) PROVE t \in ToSet(st.lru) \cup {s}
    <3>1. PICK i \in 1 .. n + 1 : lru[i] = t
      BY <1>2 DEF ToSet
    <3>2. CASE i = 1
      BY <1>2, <3>1, <3>2
    <3>3. CASE i # 1
      <4>1. i - 1 \in DOMAIN st.lru /\ t = st.lru[i - 1]
        BY <1>1, <1>2, <3>1, <3>3
      <4> QED
        BY <4>1 DEF ToSet
    <3> QED
      BY <3>2, <3>3
  <2>2. ASSUME NEW t \in ToSet(st.lru) PROVE t \in ToSet(lru)
    <3>1. PICK i \in 1 .. n : st.lru[i] = t
      BY <1>1 DEF ToSet
    <3>2. i + 1 \in 2 .. n + 1 /\ (i + 1) - 1 = i
      BY <1>1
    <3>3. i + 1 \in DOMAIN lru /\ lru[i + 1] = t
      BY <1>1, <1>2, <3>1, <3>2
    <3> QED
      BY <3>3 DEF ToSet
  <2>3. s \in ToSet(lru)
    <3>1. 1 \in DOMAIN lru
      BY <1>1, <1>2
    <3> QED
      BY <1>2, <3>1 DEF ToSet
  <2> QED
    BY <2>1, <2>2, <2>3
<1>6. st.compiled = ToSet(st.lru) /\ ToSet(lru) \in SUBSET Templates
  BY <1>2 DEF StoreOK, ToSet
<1>7. CASE Len(lru) <= Capacity
  <2> DEFINE w == [lru |-> lru, compiled |-> st.compiled \cup {s}]
  <2>1. With(st, s) = w
    BY <1>7 DEF With, lru
  <2>2. w.lru = lru /\ w.compiled = ToSet(lru) /\ w \in [lru : Seq(Templates), compiled : SUBSET Templates]
    BY <1>2, <1>5, <1>6
  <2> HIDE DEF w
  <2> QED
    BY <1>4, <1>7, <2>1, <2>2 DEF StoreOK
<1>8. CASE ~ (Len(lru) <= Capacity)
  <2> DEFINE f == Front(lru)
             w == [lru |-> f, compiled |-> (st.compiled \cup {s}) \ {Last(lru)}]
  <2>1. With(st, s) = w
    BY <1>8 DEF With, lru
  <2>2. f \in Seq(Templates) /\ Len(f) = n /\ DOMAIN f = 1 .. n /\ \A i \in 1 .. n : f[i] = lru[i]
    BY <1>1, <1>2 DEF Front
  <2>3. Last(lru) = lru[n + 1]
    BY <1>2 DEF Last
  <2> HIDE DEF f
  <2>4. ToSet(f) = ToSet(lru) \ {Last(lru)}
    <3>1. ASSUME NEW t \in ToSet(f) PROVE t \in ToSet(lru) \ {Last(lru)}
      <4>1. PICK i \in 1 .. n : f[i] = t
        BY <2>2 DEF ToSet
      <4>2. i \in DOMAIN lru /\ n + 1 \in DOMAIN lru /\ i # n + 1 /\ lru[i] = t
        BY <1>1, <1>2, <2>2, <4>1
      <4>3. t # lru[n + 1]
        BY <1>4, <4>2 DEF Distinct
      <4> QED
        BY <2>3, <4>2, <4>3 DEF ToSet
    <3>2. ASSUME NEW t \in ToSet(lru), t # Last(lru) PROVE t \in ToSet(f)
      <4>1. PICK i \in 1 .. n + 1 : lru[i] = t
        BY <1>2 DEF ToSet
      <4>2. i \in 1 .. n
        BY <1>1, <2>3, <3>2, <4>1
      <4> QED
        BY <2>2, <4>1, <4>2 DEF ToSet
    <3> QED
      BY <3>1, <3>2
  <2>5. Distinct(f)
    <3> SUFFICES ASSUME NEW i \in 1 .. n, NEW j \in 1 .. n, f[i] = f[j] PROVE i = j
      BY <2>2 DEF Distinct
    <3>1. i \in DOMAIN lru /\ j \in DOMAIN lru /\ lru[i] = lru[j]
      BY <1>1, <1>2, <2>2
    <3> QED
      BY <1>4, <3>1 DEF Distinct
  <2>6. w.lru = f /\ w.compiled = ToSet(f) /\ w \in [lru : Seq(Templates), compiled : SUBSET Templates]
    BY <1>5, <1>6, <2>2, <2>4
  <2> HIDE DEF w
  <2> QED
    BY <1>1, <2>1, <2>2, <2>5, <2>6 DEF StoreOK
<1> QED
  BY <1>7, <1>8

LEMMA LookedOK ==
  ASSUME NEW st, StoreOK(st), NEW s \in Templates
  PROVE  StoreOK(Looked(st, s))
<1>1. CASE s \in Oversize \/ (~ Contains(st.lru, s) /\ s \in Malformed)
  BY <1>1 DEF Looked
<1>2. CASE s \notin Oversize /\ Contains(st.lru, s)
  <2> DEFINE w == [st EXCEPT !.lru = Refreshed(st.lru, s)]
  <2>1. Looked(st, s) = w
    BY <1>2 DEF Looked
  <2>2. /\ Refreshed(st.lru, s) \in Seq(Templates) /\ Len(Refreshed(st.lru, s)) = Len(st.lru)
        /\ ToSet(Refreshed(st.lru, s)) = ToSet(st.lru) /\ Distinct(Refreshed(st.lru, s))
    BY <1>2, RefreshedOK DEF StoreOK
  <2>3. /\ w \in [lru : Seq(Templates), compiled : SUBSET Templates]
        /\ w.lru = Refreshed(st.lru, s) /\ w.compiled = st.compiled
    BY <2>2 DEF StoreOK
  <2> HIDE DEF w
  <2> QED
    BY <2>1, <2>2, <2>3 DEF StoreOK
<1>3. CASE s \notin Oversize /\ ~ Contains(st.lru, s) /\ s \notin Malformed
  BY <1>3, WithOK DEF Looked
<1> QED
  BY <1>1, <1>2, <1>3

-----------------------------------------------------------------------------
(* The sources still to render are sources of the pipeline, so that every  *)
(* step leaves the store well formed.                                      *)

StoreInv == node \in Nat /\ todo \in Seq(Templates) /\ StoreOK(store)

LEMMA GoToOK ==
  ASSUME NEW n \in Nat, GoTo(n)
  PROVE  node' \in Nat /\ todo' \in Seq(Templates)
<1>1. Nodes \in Nat /\ Sources \in [0 .. Nodes -> Seq(Templates)]
  BY MemoryAssumption DEF Templates
<1>2. CASE n <= Nodes
  <2>1. n \in 0 .. Nodes /\ node' = n /\ todo' = Sources[n]
    BY <1>1, <1>2 DEF GoTo
  <2> QED
    BY <1>1, <2>1
<1>3. CASE ~ (n <= Nodes)
  BY <1>1, <1>3 DEF GoTo
<1> QED
  BY <1>2, <1>3

LEMMA LeaveKeepsStore ==
  ASSUME NEW ok, NEW size, Leave(ok, size), UNCHANGED store, StoreInv
  PROVE  StoreInv'
<1>1. CASE Len(loops) > 1
  BY <1>1 DEF Leave, StoreInv
<1>2. CASE ~ (Len(loops) > 1)
  <2>1. GoTo(node + 1) /\ node + 1 \in Nat
    BY <1>2 DEF Leave, StoreInv
  <2> QED
    BY <2>1, GoToOK DEF StoreInv
<1> QED
  BY <1>1, <1>2

LEMMA StoreInitially == MemoryInit => StoreInv
<1> SUFFICES ASSUME MemoryInit PROVE StoreInv
  OBVIOUS
<1>1. node = 0 /\ todo = Sources[0] /\ store = EmptyStore
  BY DEF MemoryInit
<1>2. 0 \in 0 .. Nodes /\ Sources \in [0 .. Nodes -> Seq(Templates)]
  BY MemoryAssumption DEF Templates
<1>3. Sources[0] \in Seq(Templates)
  BY <1>2
<1> QED
  BY <1>1, <1>3, EmptyOK DEF StoreInv

LEMMA StoreStep == StoreInv /\ [MemoryNext]_memory => StoreInv'
<1> SUFFICES ASSUME StoreInv, [MemoryNext]_memory PROVE StoreInv'
  OBVIOUS
<1>1. CASE RenderNext
  <2> DEFINE s == Head(todo)
  <2>1. todo # <<>> /\ store' = Looked(store, s)
    BY <1>1 DEF RenderNext
  <2>2. s \in Templates /\ Tail(todo) \in Seq(Templates)
    BY <2>1 DEF StoreInv
  <2>3. StoreOK(store')
    BY <2>1, <2>2, LookedOK DEF StoreInv
  <2>4. CASE Compiles(s) /\ Defined(s)
    BY <1>1, <2>2, <2>3, <2>4 DEF RenderNext, StoreInv
  <2>5. CASE ~ (Compiles(s) /\ Defined(s))
    <3>1. GoTo(IF node = 0 THEN Nodes + 1 ELSE node + 1)
      BY <1>1, <2>5 DEF RenderNext
    <3>2. (IF node = 0 THEN Nodes + 1 ELSE node + 1) \in Nat
      BY MemoryAssumption DEF StoreInv
    <3> QED
      BY <2>3, <3>1, <3>2, GoToOK DEF StoreInv
  <2> QED
    BY <2>4, <2>5
<1>2. CASE VarsRendered
  <2>1. GoTo(1) /\ UNCHANGED store
    BY <1>2 DEF VarsRendered
  <2> QED
    BY <2>1, GoToOK DEF StoreInv
<1>3. CASE UNCHANGED <<node, todo, store>>
  BY <1>3 DEF StoreInv
<1>4. ASSUME NEW ok, NEW size, Leave(ok, size), UNCHANGED store PROVE StoreInv'
  BY <1>4, LeaveKeepsStore
<1>5. CASE Execute \/ Delegate \/ RunOver \/ UNCHANGED memory
  BY <1>3, <1>5 DEF Execute, Delegate, RunOver, memory
<1>6. CASE CallFails
  BY <1>4, <1>6 DEF CallFails
<1>7. CASE \E n \in 1 .. MaxCalls : CallTools(n)
  BY <1>3, <1>7 DEF CallTools
<1>8. CASE \E ok \in BOOLEAN : Finish(ok)
  BY <1>4, <1>8 DEF Finish
<1>9. CASE \E size \in Sizes : OtherTool(size)
  BY <1>3, <1>9 DEF OtherTool
<1>10. CASE \E key \in Keys \cup BadKeys, size \in Sizes : SetState(key, size)
  BY <1>3, <1>10 DEF SetState
<1> QED
  BY <1>1, <1>2, <1>5, <1>6, <1>7, <1>8, <1>9, <1>10 DEF MemoryNext, MemoryStep

\* However many sources a run renders, the environment holds exactly the
\* templates the LRU list names, and no more of them than there is room for.
THEOREM CacheIsExact == MemorySpec => []CompiledIsCached
<1>1. StoreInv => CompiledIsCached
  BY DEF StoreInv, StoreOK, CompiledIsCached
<1> QED
  BY <1>1, StoreInitially, StoreStep, PTL DEF MemorySpec

-----------------------------------------------------------------------------
(* The histories.  Where a message of a cut history stands in the whole    *)
(* one is counted from the end.                                            *)

Message == [kind : {"calls", "result"}, turn : Nat, size : Nat]

Tails(ms, said) ==
  /\ Len(ms) <= Len(said)
  /\ \A i \in 1 .. Len(ms) : ms[i] = said[Len(said) - Len(ms) + i]

LEMMA TailsIsSuffix ==
  ASSUME NEW ms \in Seq(Message), NEW said \in Seq(Message), Tails(ms, said)
  PROVE  IsSuffix(ms, said)
<1> DEFINE n == Len(ms)
           t == Len(said)
           rm == Reverse(ms)
           rs == Reverse(said)
<1>1. n \in Nat /\ t \in Nat /\ n <= t
  BY DEF Tails
<1>2. /\ rm \in Seq(Message) /\ Len(rm) = n /\ \A i \in 1 .. n : rm[i] = ms[(n - i) + 1]
      /\ rs \in Seq(Message) /\ Len(rs) = t /\ \A i \in 1 .. t : rs[i] = said[(t - i) + 1]
  BY <1>1 DEF Reverse
<1>3. \A i \in 1 .. n : rm[i] = rs[i]
  <2> SUFFICES ASSUME NEW i \in 1 .. n PROVE rm[i] = rs[i]
    OBVIOUS
  <2>1. (n - i) + 1 \in 1 .. n /\ t - n + ((n - i) + 1) = (t - i) + 1 /\ i \in 1 .. t
    BY <1>1
  <2> HIDE DEF rm, rs
  <2>2. ms[(n - i) + 1] = said[t - n + ((n - i) + 1)]
    BY <2>1 DEF Tails
  <2> QED
    BY <1>2, <2>1, <2>2
<1> HIDE DEF rm, rs, n, t
<1>4. SubSeq(rm, 1, n) = SubSeq(rs, 1, n)
  BY <1>1, <1>2, <1>3
<1> QED
  BY <1>1, <1>2, <1>4 DEF IsSuffix, IsPrefix, rm, rs

HistoryOK(ms, said) ==
  /\ Tails(ms, said)
  /\ Len(ms) >= 2 \/ ms = said
  /\ Len(ms) > 2 => Sized(ms) <= HistoryCap

\* What the eviction keeps is the whole, or its end, with the last two.
LEMMA CappedOK ==
  ASSUME NEW ms \in Seq(Message)
  PROVE  /\ Capped(ms) \in Seq(Message)
         /\ Tails(Capped(ms), ms)
         /\ Len(Capped(ms)) >= 2 \/ Capped(ms) = ms
         /\ Len(Capped(ms)) > 2 => Sized(Capped(ms)) <= HistoryCap
<1> DEFINE n == Len(ms)
           fits(i) == Sized(SubSeq(ms, i + 1, n)) <= HistoryCap
           S == {i \in 0 .. n : n - i <= 2 \/ fits(i)}
           k == Min(S)
           cut == SubSeq(ms, k + 1, n)
<1> HIDE DEF fits
<1>1. n \in Nat /\ DOMAIN ms = 1 .. n /\ \A i \in 1 .. n : ms[i] \in Message
  OBVIOUS
<1>2. CASE Sized(ms) <= HistoryCap
  <2>1. Capped(ms) = ms
    BY <1>2 DEF Capped
  <2>2. \A i \in 1 .. n : n - n + i = i
    BY <1>1
  <2> HIDE DEF n
  <2> QED
    BY <1>1, <1>2, <2>1, <2>2 DEF Tails, n
<1>3. CASE ~ (Sized(ms) <= HistoryCap)
  <2>1. Capped(ms) = cut
    BY <1>3 DEF Capped, fits
  <2>2. k \in S /\ \A i \in S : k <= i
    <3>1. n \in S /\ S \subseteq Nat
      BY <1>1
    <3> DEFINE less == OpToRel(<, Nat)
    <3>2. less = {p \in Nat \X Nat : p[1] < p[2]} /\ IsWellFoundedOn(less, Nat)
      BY NatLessThanWellFounded DEF OpToRel
    <3> HIDE DEF S, less
    <3>3. PICK x \in S : \A y \in S : ~ (<<y, x>> \in less)
      BY <3>1, <3>2, WFMin
    <3>4. \A y \in S : x <= y
      <4>1. \A y \in S : ~ (y < x)
        <5> SUFFICES ASSUME NEW y \in S, y < x PROVE FALSE
          OBVIOUS
        <5>1. <<y, x>> \in Nat \X Nat /\ <<y, x>>[1] < <<y, x>>[2]
          BY <3>1
        <5>2. <<y, x>> \in less
          BY <3>2, <5>1, Zenon
        <5> QED
          BY <3>3, <5>2
      <4> QED
        BY <3>1, <4>1
    <3> QED
      BY <3>4 DEF Min
  <2> HIDE DEF k
  <2>3. k \in 0 .. n /\ (n - k <= 2 \/ fits(k))
    BY <2>2
  <2>4. k = 0 \/ n - k >= 2
    <3> SUFFICES ASSUME k > 0, n - k < 2 PROVE FALSE
      BY <1>1, <2>3
    <3>1. k - 1 \in 0 .. n /\ n - (k - 1) <= 2
      BY <1>1, <2>3
    <3>2. k - 1 \in S
      BY <3>1
    <3> HIDE DEF S
    <3> QED
      BY <1>1, <2>2, <2>3, <3>2
  <2>5. /\ cut \in Seq(Message) /\ Len(cut) = n - k
        /\ \A i \in 1 .. n - k : cut[i] = ms[k + i]
    <3>1. k + 1 \in Int /\ n \in Int /\ \A i \in k + 1 .. n : ms[i] \in Message
      BY <1>1, <2>3
    <3>2. /\ cut \in Seq(Message)
          /\ Len(cut) = IF k + 1 <= n THEN n - (k + 1) + 1 ELSE 0
          /\ \A i \in 1 .. n - (k + 1) + 1 : cut[i] = ms[(k + 1) + i - 1]
      BY <3>1, SubSeqProperties
    <3>3. \A i \in 1 .. n - k : i \in 1 .. n - (k + 1) + 1 /\ (k + 1) + i - 1 = k + i
      BY <1>1, <2>3
    <3>4. Len(cut) = n - k
      <4> HIDE DEF n, cut
      <4> QED
        BY <1>1, <2>3, <3>2
    <3> QED
      BY <3>2, <3>3, <3>4
  <2>6. fits(k) => Sized(cut) <= HistoryCap
    BY DEF fits
  <2> HIDE DEF cut, n
  <2>7. Tails(cut, ms)
    <3>1. Len(ms) = n /\ \A i \in 1 .. n - k : n - (n - k) + i = k + i
      BY <1>1, <2>3 DEF n
    <3>2. n - k <= n
      BY <1>1, <2>3
    <3> QED
      BY <2>5, <3>1, <3>2 DEF Tails
  <2>8. Len(cut) >= 2 \/ cut = ms
    <3>1. CASE k = 0
      <4>1. Len(cut) = Len(ms) /\ \A i \in 1 .. Len(ms) : cut[i] = ms[i]
        BY <1>1, <2>5, <3>1 DEF n
      <4> QED
        BY <2>5, <4>1
    <3>2. CASE n - k >= 2
      BY <2>5, <3>2
    <3> QED
      BY <2>4, <3>1, <3>2
  <2>9. Len(cut) > 2 => Sized(cut) <= HistoryCap
    BY <1>1, <2>3, <2>5, <2>6
  <2> QED
    BY <2>1, <2>5, <2>7, <2>8, <2>9
<1> QED
  BY <1>2, <1>3

LEMMA HistoryGrows ==
  ASSUME NEW ms \in Seq(Message), NEW said \in Seq(Message), NEW m \in Message,
         HistoryOK(ms, said)
  PROVE  /\ Capped(Append(ms, m)) \in Seq(Message)
         /\ HistoryOK(Capped(Append(ms, m)), Append(said, m))
<1> DEFINE a == Append(ms, m)
           b == Append(said, m)
           c == Capped(a)
<1>1. /\ a \in Seq(Message) /\ Len(a) = Len(ms) + 1 /\ a[Len(ms) + 1] = m
      /\ b \in Seq(Message) /\ Len(b) = Len(said) + 1 /\ b[Len(said) + 1] = m
      /\ \A i \in 1 .. Len(ms) : a[i] = ms[i]
      /\ \A i \in 1 .. Len(said) : b[i] = said[i]
      /\ Len(ms) \in Nat /\ Len(said) \in Nat
  OBVIOUS
<1>2. ms = said => a = b
  OBVIOUS
<1> HIDE DEF a, b
<1>3. /\ c \in Seq(Message) /\ Tails(c, a) /\ (Len(c) >= 2 \/ c = a)
      /\ (Len(c) > 2 => Sized(c) <= HistoryCap)
  BY <1>1, CappedOK
<1> HIDE DEF c
<1>4. Tails(a, b)
  <2>1. Len(a) <= Len(b)
    BY <1>1 DEF HistoryOK, Tails
  <2>2. ASSUME NEW i \in 1 .. Len(a) PROVE a[i] = b[Len(b) - Len(a) + i]
    <3>1. CASE i <= Len(ms)
      <4>1. ms[i] = said[Len(said) - Len(ms) + i]
        BY <1>1, <3>1 DEF HistoryOK, Tails
      <4>2. /\ Len(said) - Len(ms) + i \in 1 .. Len(said)
            /\ Len(b) - Len(a) + i = Len(said) - Len(ms) + i
            /\ i \in 1 .. Len(ms)
        BY <1>1, <3>1 DEF HistoryOK, Tails
      <4> QED
        BY <1>1, <4>1, <4>2
    <3>2. CASE i = Len(ms) + 1
      <4>1. Len(b) - Len(a) + i = Len(said) + 1
        BY <1>1, <3>2
      <4> QED
        BY <1>1, <3>2, <4>1
    <3> QED
      BY <1>1, <3>1, <3>2
  <2> QED
    BY <2>1, <2>2 DEF Tails
<1>5. Tails(c, b)
  <2>1. Len(c) \in Nat /\ Len(a) \in Nat /\ Len(b) \in Nat /\ Len(c) <= Len(a) /\ Len(a) <= Len(b)
    BY <1>1, <1>3, <1>4 DEF Tails
  <2>2. ASSUME NEW i \in 1 .. Len(c) PROVE c[i] = b[Len(b) - Len(c) + i]
    <3> DEFINE j == Len(a) - Len(c) + i
    <3>1. j \in 1 .. Len(a) /\ Len(b) - Len(a) + j = Len(b) - Len(c) + i
      BY <2>1
    <3>2. c[i] = a[j]
      BY <1>3 DEF Tails
    <3> HIDE DEF j
    <3>3. a[j] = b[Len(b) - Len(a) + j]
      BY <1>4, <3>1 DEF Tails
    <3> QED
      BY <3>1, <3>2, <3>3
  <2> QED
    BY <2>1, <2>2 DEF Tails
<1>6. Len(c) >= 2 \/ c = b
  <2>1. CASE ms = said
    BY <1>2, <1>3, <2>1
  <2>2. CASE Len(ms) >= 2
    BY <1>1, <1>3, <2>2
  <2> QED
    BY <2>1, <2>2 DEF HistoryOK
<1>7. c \in Seq(Message) /\ HistoryOK(c, b)
  BY <1>3, <1>5, <1>6 DEF HistoryOK
<1> QED
  BY <1>7 DEF a, b, c

-----------------------------------------------------------------------------
(* The loops.  A loop's history and buffer are its own, so an action only  *)
(* has to leave each loop it touches in order.                             *)

LoopRecord == [messages : Seq(Message), said : Seq(Message), awaits : Int, turn : Nat,
               buffer : [Keys -> Nat], acked : [Keys -> Nat]]

BufferOK(l) == l.buffer = l.acked /\ StateSize(l.buffer) <= StateCap

Loop == {l \in LoopRecord : HistoryOK(l.messages, l.said) /\ BufferOK(l)}

LoopsInv == loops \in Seq(Loop) /\ context = told

LEMMA FreshOK == Fresh \in Loop
<1>1. Fresh \in LoopRecord /\ Fresh.messages = <<>> /\ Fresh.said = <<>>
      /\ Fresh.buffer = NoState /\ Fresh.acked = NoState
  BY DEF Fresh, LoopRecord, NoState
<1>2. HistoryOK(<<>>, <<>>)
  BY DEF HistoryOK, Tails
<1> QED
  BY <1>1, <1>2, MemoryAssumption DEF Loop, BufferOK

\* What comes into a loop's record is a message; what it waits for, and its
\* turn, touch neither the history nor the buffer.
LEMMA PushedOK ==
  ASSUME NEW l \in Loop, NEW a \in Int, NEW t \in Nat, NEW m \in Message
  PROVE  Pushed([l EXCEPT !.awaits = a, !.turn = t], m) \in Loop
<1> DEFINE base == [l EXCEPT !.awaits = a, !.turn = t]
           w == [base EXCEPT !.messages = Capped(Append(l.messages, m)),
                             !.said = Append(l.said, m)]
<1>1. l \in LoopRecord /\ HistoryOK(l.messages, l.said) /\ BufferOK(l)
  BY DEF Loop
<1>2. base \in LoopRecord /\ base.messages = l.messages /\ base.said = l.said
      /\ base.buffer = l.buffer /\ base.acked = l.acked
  BY <1>1 DEF LoopRecord
<1>3. Pushed(base, m) = w
  BY <1>2 DEF Pushed
<1> HIDE DEF base
<1>4. /\ l.messages \in Seq(Message) /\ l.said \in Seq(Message)
      /\ Append(l.said, m) \in Seq(Message)
  BY <1>1 DEF LoopRecord
<1>5. /\ Capped(Append(l.messages, m)) \in Seq(Message)
      /\ HistoryOK(Capped(Append(l.messages, m)), Append(l.said, m))
  BY <1>1, <1>4, HistoryGrows
<1>6. w \in LoopRecord /\ w.messages = Capped(Append(l.messages, m))
      /\ w.said = Append(l.said, m) /\ w.buffer = l.buffer /\ w.acked = l.acked
  BY <1>2, <1>4, <1>5 DEF LoopRecord
<1> HIDE DEF w
<1>7. HistoryOK(w.messages, w.said) /\ BufferOK(w)
  BY <1>1, <1>5, <1>6 DEF BufferOK
<1> QED
  BY <1>3, <1>6, <1>7 DEF Loop, base

LEMMA AnsweredOK ==
  ASSUME NEW l \in Loop, NEW size \in Nat
  PROVE  Answered(l, size) \in Loop
<1> DEFINE m == [kind |-> "result", turn |-> l.turn, size |-> size]
           base == [l EXCEPT !.awaits = l.awaits - 1]
           full == [l EXCEPT !.awaits = l.awaits - 1, !.turn = l.turn]
<1>1. l \in LoopRecord /\ l.awaits - 1 \in Int /\ l.turn \in Nat /\ m \in Message
  BY DEF Loop, LoopRecord, Message
<1>2. base = full
  BY <1>1 DEF LoopRecord
<1>3. Answered(l, size) = Pushed(base, m)
  BY DEF Answered
<1>4. Pushed(full, m) \in Loop
  BY <1>1, PushedOK
<1> HIDE DEF base, full, m
<1> QED
  BY <1>2, <1>3, <1>4

LEMMA WithTopOK ==
  ASSUME NEW l \in Loop, loops \in Seq(Loop), loops # <<>>
  PROVE  WithTop(l) \in Seq(Loop)
<1>1. Len(loops) \in 1 .. Len(loops)
  OBVIOUS
<1> QED
  BY <1>1 DEF WithTop

LEMMA TopOK ==
  ASSUME loops \in Seq(Loop), loops # <<>>
  PROVE  top \in Loop
<1>1. Len(loops) \in DOMAIN loops
  OBVIOUS
<1> QED
  BY <1>1 DEF top, Last

LEMMA LeaveOK ==
  ASSUME NEW ok, NEW size \in Sizes, Leave(ok, size), LoopsInv, loops # <<>>
  PROVE  LoopsInv'
<1>1. loops \in Seq(Loop) /\ context = told /\ size \in Nat /\ Len(loops) \in Nat
  BY MemoryAssumption DEF LoopsInv
<1>2. CASE Len(loops) > 1
  <2> DEFINE n == Len(loops) - 1
             rest == [i \in 1 .. n |-> IF i = n THEN Answered(loops[i], size) ELSE loops[i]]
  <2>1. loops' = rest /\ UNCHANGED <<context, told>>
    BY <1>2 DEF Leave
  <2>2. n \in Nat /\ \A i \in 1 .. n : loops[i] \in Loop
    BY <1>1, <1>2
  <2>3. \A i \in 1 .. n : Answered(loops[i], size) \in Loop
    BY <1>1, <2>2, AnsweredOK
  <2> HIDE DEF n
  <2>4. rest \in Seq(Loop)
    BY <2>2, <2>3
  <2> QED
    BY <1>1, <2>1, <2>4 DEF LoopsInv
<1>3. CASE ~ (Len(loops) > 1)
  <2>1. top.buffer = top.acked
    BY <1>1, TopOK DEF Loop, BufferOK
  <2>2. /\ loops' = <<>>
        /\ IF ok /\ top.buffer # NoState THEN context' = [context EXCEPT ![node] = {top.buffer}]
                                          ELSE UNCHANGED context
        /\ IF ok /\ top.acked # NoState THEN told' = [told EXCEPT ![node] = {top.acked}]
                                         ELSE UNCHANGED told
    BY <1>3, Zenon DEF Leave
  <2>3. context' = told'
    <3>1. CASE ok /\ top.buffer # NoState
      BY <1>1, <2>1, <2>2, <3>1
    <3>2. CASE ~ (ok /\ top.buffer # NoState)
      BY <1>1, <2>1, <2>2, <3>2
    <3> QED
      BY <3>1, <3>2
  <2> QED
    BY <2>2, <2>3 DEF LoopsInv
<1> QED
  BY <1>2, <1>3

\* A write undone leaves the loop's history and buffer as they were.
LEMMA UndoneOK ==
  ASSUME NEW l \in Loop, NEW a \in Int, NEW t \in Nat
  PROVE  [l EXCEPT !.buffer = l.buffer, !.awaits = a, !.turn = t] \in Loop
<1> DEFINE w == [l EXCEPT !.buffer = l.buffer, !.awaits = a, !.turn = t]
<1>1. l \in LoopRecord /\ HistoryOK(l.messages, l.said) /\ BufferOK(l)
  BY DEF Loop
<1>2. l.buffer \in [Keys -> Nat]
  BY <1>1 DEF LoopRecord
<1>3. /\ w \in LoopRecord /\ w.messages = l.messages /\ w.said = l.said
      /\ w.buffer = l.buffer /\ w.acked = l.acked
  BY <1>1, <1>2 DEF LoopRecord
<1> HIDE DEF w
<1>4. w \in Loop
  BY <1>1, <1>3 DEF Loop, BufferOK
<1> QED
  BY <1>4 DEF w

LEMMA SetStateOK ==
  ASSUME NEW key \in Keys \cup BadKeys, NEW size \in Sizes, SetState(key, size), LoopsInv
  PROVE  LoopsInv'
<1> DEFINE next == [top.buffer EXCEPT ![key] = size]
           kept == [top EXCEPT !.buffer = next, !.acked = [top.acked EXCEPT ![key] = size]]
           undone == [top EXCEPT !.buffer = top.buffer, !.awaits = 0, !.turn = MaxIterations]
<1>1. /\ loops \in Seq(Loop) /\ loops # <<>> /\ context = told /\ UNCHANGED <<context, told>>
      /\ size \in Nat /\ MaxIterations \in Nat
  BY MemoryAssumption DEF SetState, Handling, LoopsInv
<1>2. /\ top \in Loop /\ top \in LoopRecord /\ HistoryOK(top.messages, top.said)
      /\ BufferOK(top)
  BY <1>1, TopOK DEF Loop
<1>3. CASE key \in BadKeys
  <2>1. loops' = WithTop(Answered(top, 1))
    BY <1>3 DEF SetState
  <2>2. Answered(top, 1) \in Loop
    BY <1>2, AnsweredOK
  <2> QED
    BY <1>1, <2>1, <2>2, WithTopOK DEF LoopsInv
<1>4. CASE key \notin BadKeys /\ StateSize(next) <= StateCap
  <2>1. loops' = WithTop(Answered(kept, 1))
    BY <1>4 DEF SetState
  <2>2. /\ kept \in LoopRecord /\ kept.messages = top.messages /\ kept.said = top.said
        /\ kept.buffer = next /\ kept.acked = [top.acked EXCEPT ![key] = size]
    <3>1. top.buffer \in [Keys -> Nat] /\ top.acked \in [Keys -> Nat]
      BY <1>2 DEF LoopRecord
    <3>2. next \in [Keys -> Nat] /\ [top.acked EXCEPT ![key] = size] \in [Keys -> Nat]
      BY <1>1, <3>1
    <3> HIDE DEF next
    <3> QED
      BY <1>2, <3>2 DEF LoopRecord
  <2>3. kept.buffer = kept.acked /\ StateSize(kept.buffer) <= StateCap
    BY <1>2, <1>4, <2>2 DEF BufferOK
  <2> HIDE DEF kept
  <2>4. kept \in Loop
    BY <1>2, <2>2, <2>3 DEF Loop, BufferOK
  <2>5. Answered(kept, 1) \in Loop
    BY <2>4, AnsweredOK
  <2> QED
    BY <1>1, <2>1, <2>5, WithTopOK DEF LoopsInv
<1>5. CASE key \notin BadKeys /\ ~ (StateSize(next) <= StateCap)
  <2>1. loops' = WithTop(undone)
    BY <1>5 DEF SetState, RolledBack
  <2>2. PICK a \in Int : a = 0
    OBVIOUS
  <2>3. undone \in Loop
    <3>1. [top EXCEPT !.buffer = top.buffer, !.awaits = a, !.turn = MaxIterations] \in Loop
      BY <1>1, <1>2, UndoneOK
    <3> QED
      BY <2>2, <3>1
  <2> QED
    BY <1>1, <2>1, <2>3, WithTopOK DEF LoopsInv
<1> QED
  BY <1>3, <1>4, <1>5

LEMMA CallToolsOK ==
  ASSUME NEW n \in 1 .. MaxCalls, CallTools(n), LoopsInv
  PROVE  LoopsInv'
<1> DEFINE m == [kind |-> "calls", turn |-> top.turn + 1, size |-> n]
           base == [top EXCEPT !.awaits = n, !.turn = top.turn + 1]
<1>1. /\ loops \in Seq(Loop) /\ loops # <<>> /\ context = told /\ UNCHANGED <<context, told>>
      /\ loops' = WithTop(Pushed(base, m))
  BY DEF CallTools, Waiting, LoopsInv
<1>2. top \in Loop /\ top.turn + 1 \in Nat /\ n \in Int /\ m \in Message
  <2>1. top \in Loop /\ n \in Nat
    BY <1>1, TopOK, MemoryAssumption
  <2> QED
    BY <2>1 DEF Loop, LoopRecord, Message
<1> HIDE DEF m
<1>3. Pushed(base, m) \in Loop
  BY <1>2, PushedOK
<1> HIDE DEF base
<1> QED
  BY <1>1, <1>3, WithTopOK DEF LoopsInv

LEMMA LoopsInitially == MemoryInit => LoopsInv
  BY DEF MemoryInit, LoopsInv

LEMMA LoopsStep == LoopsInv /\ [MemoryNext]_memory => LoopsInv'
<1> SUFFICES ASSUME LoopsInv, [MemoryNext]_memory PROVE LoopsInv'
  OBVIOUS
<1>1. CASE UNCHANGED <<loops, context, told>>
  BY <1>1 DEF LoopsInv
<1>2. CASE RenderNext \/ VarsRendered \/ RunOver \/ UNCHANGED memory
  BY <1>1, <1>2 DEF RenderNext, VarsRendered, RunOver, memory
<1>3. CASE Execute
  BY <1>3, FreshOK DEF Execute, LoopsInv
<1>4. CASE Delegate
  BY <1>4, FreshOK DEF Delegate, LoopsInv
<1>5. CASE CallFails
  <2>1. PICK size \in Sizes : Leave(FALSE, size)
    BY <1>5 DEF CallFails
  <2>2. loops # <<>>
    BY <1>5 DEF CallFails, Handling
  <2> QED
    BY <2>1, <2>2, LeaveOK
<1>6. CASE \E n \in 1 .. MaxCalls : CallTools(n)
  BY <1>6, CallToolsOK
<1>7. CASE \E ok \in BOOLEAN : Finish(ok)
  <2>1. PICK ok \in BOOLEAN, size \in Sizes : Leave(ok, size)
    BY <1>7 DEF Finish
  <2>2. loops # <<>>
    BY <1>7 DEF Finish, Waiting
  <2> QED
    BY <2>1, <2>2, LeaveOK
<1>8. CASE \E size \in Sizes : OtherTool(size)
  <2>1. PICK size \in Sizes : OtherTool(size)
    BY <1>8
  <2>2. PICK s \in Truncations(size) : loops' = WithTop(Answered(top, s))
    BY <2>1 DEF OtherTool
  <2>3. /\ loops \in Seq(Loop) /\ loops # <<>> /\ context = told /\ UNCHANGED <<context, told>>
    BY <2>1 DEF OtherTool, Handling, LoopsInv
  <2>4. s \in Nat
    BY MemoryAssumption DEF Truncations
  <2>5. Answered(top, s) \in Loop
    BY <2>3, <2>4, TopOK, AnsweredOK
  <2> QED
    BY <2>2, <2>3, <2>5, WithTopOK DEF LoopsInv
<1>9. CASE \E key \in Keys \cup BadKeys, size \in Sizes : SetState(key, size)
  BY <1>9, SetStateOK
<1> QED
  BY <1>2, <1>3, <1>4, <1>5, <1>6, <1>7, <1>8, <1>9 DEF MemoryNext, MemoryStep

LEMMA LoopsAlways == MemorySpec => []LoopsInv
  BY LoopsInitially, LoopsStep, PTL DEF MemorySpec

\* What every loop of the tree sends is the end of its conversation, with the
\* two latest messages, within the cap as soon as there are more than two.
THEOREM HistoryStaysRecent == MemorySpec => []HistoryIsRecent
<1>1. LoopsInv => HistoryIsRecent
  <2> SUFFICES ASSUME LoopsInv, NEW i \in DOMAIN loops
               PROVE  /\ IsSuffix(loops[i].messages, loops[i].said)
                      /\ Len(loops[i].messages) >= 2 \/ loops[i].messages = loops[i].said
                      /\ Len(loops[i].messages) > 2 => Sized(loops[i].messages) <= HistoryCap
    BY DEF HistoryIsRecent
  <2>1. loops[i] \in Loop
    BY DEF LoopsInv
  <2>2. /\ loops[i].messages \in Seq(Message) /\ loops[i].said \in Seq(Message)
        /\ HistoryOK(loops[i].messages, loops[i].said)
    BY <2>1 DEF Loop, LoopRecord
  <2> QED
    BY <2>2, TailsIsSuffix DEF HistoryOK
<1> QED
  BY <1>1, LoopsAlways, PTL

\* A state buffer holds what the calls answered `ok` wrote, within its cap,
\* and what later nodes read of a node is what its loop was told it wrote.
THEOREM StateIsAcked == MemorySpec => []StateIsWhatWasAcked
<1>1. LoopsInv => StateIsWhatWasAcked
  <2> SUFFICES ASSUME LoopsInv, NEW i \in DOMAIN loops
               PROVE  /\ loops[i].buffer = loops[i].acked /\ StateSize(loops[i].buffer) <= StateCap
                      /\ context = told
    BY DEF StateIsWhatWasAcked, LoopsInv
  <2>1. loops[i] \in Loop
    BY DEF LoopsInv
  <2> QED
    BY <2>1 DEF LoopsInv, Loop, BufferOK
<1> QED
  BY <1>1, LoopsAlways, PTL
=============================================================================
