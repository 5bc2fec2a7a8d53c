------------------------- MODULE RecordReplayProofs -------------------------
(* A replay is the recorded run or it fails, for pipelines of any length,   *)
(* any answers and any tools.                                               *)
EXTENDS RecordReplay, FiniteSetTheorems, WellFoundedInduction, TLAPS

-----------------------------------------------------------------------------
\* What may be said, by whom.
Asks == {"user", "result"}

Replies == Tools \cup {"final"}

Texts ==
  Outputs \cup {a.text : a \in Answers}
    \cup Denials \cup {"masked", "scrubbed", "plain", "secret", "none", "invalid", "error"}

Msg == [role : Asks \cup Replies, text : Texts]

\* Speakers, tools and the final text are told apart.
LEMMA RolesDiffer ==
  /\ "user" \in Asks /\ "result" \in Asks /\ "user" # "result"
  /\ "final" \in Replies /\ Tools \subseteq Replies /\ "final" \notin Tools
  /\ Asks \cap Replies = {} /\ "error" \notin Replies /\ "error" \notin Asks
  /\ \A r \in Asks : r = "user" \/ r = "result"
  /\ \A r \in Replies : r \in Tools \/ r = "final"
  /\ Effectful \subseteq Tools /\ "SetState" \in Tools
<1>1. "user" \notin Tools /\ "result" \notin Tools /\ "final" \notin Tools /\ "error" \notin Tools
  BY TagsAssumption DEF Tools
<1> QED
  BY <1>1 DEF Asks, Replies, Tools

\* Redaction leaves every text but a secret as it is.
LEMMA MaskIs ==
  ASSUME NEW t
  PROVE  /\ Mask(t) # "secret" /\ t # "secret" => Mask(t) = t
         /\ t \in Denials \cup {"invalid", "error", "none"} <=>
              Mask(t) \in Denials \cup {"invalid", "error", "none"}
         /\ t \in Denials \cup {"invalid", "error", "none"} => Mask(t) = t
         /\ t \in Texts => Mask(t) \in Texts
BY DEF Mask, Texts, Denials

\* Only tools with effects are denied, on a replay all of them, and a denial
\* by policy is never taken for one of a host.
LEMMA DenialIs ==
  /\ Denials \subseteq Texts /\ Denials \cap {"secret", "masked", "error", "invalid", "none"} = {}
  /\ "host_refused" \in Denials
  /\ \A r \in Effectful : DenialOnReplay(r) \in Denials \ {"host_refused"}
  /\ \A r : r \notin Effectful => DenialOnReplay(r) = "none"
  /\ \A r, allow : \/ Denial(r, allow) = "none"
                   \/ r \in Effectful /\ Denial(r, allow) \in Denials \ {"host_refused"}
BY DEF Denials, Texts, Effectful, DenialOnReplay, Denial

-----------------------------------------------------------------------------
(* Logs and tapes.  A log is a function on places: the number of a node and *)
(* a position of its conversation.  A tape lists a log from a place on: all *)
(* of it, or when it was cut its first part.                                *)
Place == Nat \X Nat

Before(x, y) == x[1] < y[1] \/ (x[1] = y[1] /\ x[2] < y[2])

ListsBy(at, s, f, c, full) ==
  /\ at \in [1 .. Len(s) -> DOMAIN f]
  /\ \A i \in 1 .. Len(s) : ~ Before(at[i], c) /\ s[i] = f[at[i]]
  /\ \A i, j \in 1 .. Len(s) : i < j => Before(at[i], at[j])
  /\ \A x \in DOMAIN f : \/ Before(x, c)
                         \/ \E i \in 1 .. Len(s) : at[i] = x
                         \/ ~ full /\ \A i \in 1 .. Len(s) : Before(at[i], x)

Lists(s, f, c, full) == \E at : ListsBy(at, s, f, c, full)

\* Places are totally ordered.
LEMMA Order ==
  /\ \A x, y, z \in Place : Before(x, y) /\ Before(y, z) => Before(x, z)
  /\ \A x, y \in Place : Before(x, y) \/ Before(y, x) \/ x = y
  /\ \A x, y \in Place : ~ (Before(x, y) /\ Before(y, x))
  /\ \A x \in Place : ~ Before(x, x)
<1>1. \A x \in Place : x[1] \in Nat /\ x[2] \in Nat /\ x = <<x[1], x[2]>>
  BY DEF Place
<1> QED
  BY <1>1 DEF Before

\* Nothing is listed of nothing.
LEMMA ListsNothing ==
  ASSUME NEW f, NEW c, NEW full, DOMAIN f = {}
  PROVE  /\ Lists(<<>>, f, c, full)
         /\ \A S : \A s \in Seq(S) : Lists(s, f, c, full) => s = <<>>
<1>1. ListsBy(<<>>, <<>>, f, c, full)
  BY DEF ListsBy
<1>2. ASSUME NEW S, NEW s \in Seq(S), NEW at, ListsBy(at, s, f, c, full) PROVE s = <<>>
  <2>1. \A i \in 1 .. Len(s) : at[i] \in DOMAIN f
    BY <1>2 DEF ListsBy
  <2>2. 1 \notin 1 .. Len(s)
    BY <2>1
  <2> QED
    BY <2>2
<1> QED
  BY <1>1, <1>2 DEF Lists

\* The next entry is written at the end of the tape.
LEMMA ListsAppend ==
  ASSUME NEW S, NEW s \in Seq(S), NEW f, NEW g, NEW c \in Place, Lists(s, f, c, TRUE),
         DOMAIN f \subseteq Place, NEW x \in Place, ~ Before(x, c),
         \A y \in DOMAIN f : Before(y, x) /\ g[y] = f[y],
         DOMAIN g = DOMAIN f \cup {x}
  PROVE  Lists(Append(s, g[x]), g, c, TRUE)
<1>1. PICK at : ListsBy(at, s, f, c, TRUE)
  BY DEF Lists
<1> DEFINE n == Len(s)
           t == Append(s, g[x])
           new == [i \in 1 .. n + 1 |-> IF i = n + 1 THEN x ELSE at[i]]
<1>2. /\ n \in Nat /\ Len(t) = n + 1 /\ t[n + 1] = g[x]
      /\ \A i \in 1 .. n : t[i] = s[i] /\ i \in 1 .. n + 1 /\ i # n + 1
      /\ \A i \in 1 .. n + 1 : i \in 1 .. n \/ i = n + 1
  OBVIOUS
<1>3. /\ DOMAIN new = 1 .. n + 1 /\ new[n + 1] = x
      /\ \A i \in 1 .. n : new[i] = at[i] /\ at[i] \in DOMAIN f
  BY <1>1, <1>2 DEF ListsBy
<1> HIDE DEF n, t
<1>4. new \in [1 .. n + 1 -> DOMAIN g]
  BY <1>2, <1>3
<1> HIDE DEF new
<1>5. \A i \in 1 .. n + 1 : ~ Before(new[i], c) /\ t[i] = g[new[i]]
  BY <1>1, <1>2, <1>3 DEF ListsBy, n
<1>6. \A i, j \in 1 .. n + 1 : i < j => Before(new[i], new[j])
  <2> TAKE i, j \in 1 .. n + 1
  <2> HAVE i < j
  <2>1. i \in 1 .. n
    BY <1>2
  <2>2. CASE j \in 1 .. n
    BY <1>1, <1>3, <2>1, <2>2 DEF ListsBy, n
  <2>3. CASE j = n + 1
    BY <1>3, <2>1, <2>3
  <2> QED
    BY <1>2, <2>2, <2>3
<1>7. ASSUME NEW y \in DOMAIN g PROVE Before(y, c) \/ \E i \in 1 .. n + 1 : new[i] = y
  <2>1. CASE y = x
    BY <1>2, <1>3, <2>1
  <2>2. CASE y \in DOMAIN f
    <3>1. Before(y, c) \/ \E i \in 1 .. n : at[i] = y
      BY <1>1, <2>2 DEF ListsBy, n
    <3> QED
      BY <1>2, <1>3, <3>1
  <2> QED
    BY <2>1, <2>2
<1>8. ListsBy(new, t, g, c, TRUE)
  BY <1>2, <1>4, <1>5, <1>6, <1>7 DEF ListsBy
<1> QED
  BY <1>8 DEF Lists, t

\* A tape that is cut lists a first part.
LEMMA ListsCut ==
  ASSUME NEW S, NEW s \in Seq(S), NEW f, NEW c \in Place, NEW full, Lists(s, f, c, full),
         DOMAIN f \subseteq Place, NEW k \in Nat, k <= Len(s)
  PROVE  Lists(SubSeq(s, 1, k), f, c, FALSE)
<1>1. PICK at : ListsBy(at, s, f, c, full)
  BY DEF Lists
<1> DEFINE n == Len(s)
           t == SubSeq(s, 1, k)
           new == [i \in 1 .. k |-> at[i]]
<1>2. /\ n \in Nat /\ Len(t) = k
      /\ \A i \in 1 .. k : t[i] = s[i] /\ i \in 1 .. n
  OBVIOUS
<1> HIDE DEF n, t
<1>3. \A i \in 1 .. n : at[i] \in DOMAIN f
  BY <1>1 DEF ListsBy, n
<1>4. new \in [1 .. k -> DOMAIN f] /\ \A i \in 1 .. k : new[i] = at[i]
  BY <1>2, <1>3
<1> HIDE DEF new
<1>5. ASSUME NEW x \in DOMAIN f
      PROVE  Before(x, c) \/ (\E i \in 1 .. k : new[i] = x) \/ \A i \in 1 .. k : Before(new[i], x)
  <2>1. CASE \E j \in 1 .. n : at[j] = x /\ j > k
    <3>1. PICK j \in 1 .. n : at[j] = x /\ j > k
      BY <2>1
    <3>2. \A i \in 1 .. k : i < j
      BY <3>1
    <3> QED
      BY <1>1, <1>2, <1>4, <3>1, <3>2 DEF ListsBy, n
  <2>2. CASE \E j \in 1 .. n : at[j] = x /\ ~ (j > k)
    BY <1>2, <1>4, <2>2
  <2>3. CASE ~ \E j \in 1 .. n : at[j] = x
    BY <1>1, <1>2, <1>4, <2>3 DEF ListsBy, n
  <2> QED
    BY <2>1, <2>2, <2>3
<1>6. ListsBy(new, t, f, c, FALSE)
  <2>1. \A i \in 1 .. k : ~ Before(new[i], c) /\ t[i] = f[new[i]]
    BY <1>1, <1>2, <1>4 DEF ListsBy, n
  <2>2. \A i, j \in 1 .. k : i < j => Before(new[i], new[j])
    BY <1>1, <1>2, <1>4 DEF ListsBy, n
  <2> QED
    BY <1>2, <1>4, <1>5, <2>1, <2>2 DEF ListsBy
<1> QED
  BY <1>6 DEF Lists, t

\* Nothing was logged at the place the replay leaves.
LEMMA ListsSkip ==
  ASSUME NEW s, NEW f, NEW c, NEW d, NEW full, Lists(s, f, c, full),
         \A x \in DOMAIN f : Before(x, c) <=> Before(x, d)
  PROVE  Lists(s, f, d, full)
<1>1. PICK at : ListsBy(at, s, f, c, full)
  BY DEF Lists
<1>2. ListsBy(at, s, f, d, full)
  BY <1>1 DEF ListsBy
<1> QED
  BY <1>2 DEF Lists

\* A tape without its entry k.
LEMMA RemovedIs ==
  ASSUME NEW S, NEW s \in Seq(S), NEW k \in 1 .. Len(s)
  PROVE  /\ RemoveAt(s, k) \in Seq(S) /\ Len(RemoveAt(s, k)) = Len(s) - 1 /\ Len(s) \in Nat \ {0}
         /\ \A i \in 1 .. Len(s) - 1 :
              /\ RemoveAt(s, k)[i] = s[IF i < k THEN i ELSE i + 1]
              /\ i \in 1 .. Len(s) /\ i + 1 \in 1 .. Len(s)
<1> DEFINE n == Len(s)
           a == SubSeq(s, 1, k - 1)
           b == SubSeq(s, k + 1, n)
<1>1. n \in Nat /\ k \in Nat /\ 1 <= k /\ k <= n
  OBVIOUS
<1>2. /\ a \in Seq(S) /\ Len(a) = k - 1
      /\ \A i \in 1 .. k - 1 : a[i] = s[i]
  BY <1>1
<1>3. b \in Seq(S) /\ Len(b) = n - k
  BY <1>1
<1>4. \A i \in 1 .. n - k : b[i] = s[k + i]
  <2> TAKE i \in 1 .. n - k
  <2>1. i \in 1 .. n - (k + 1) + 1 /\ (k + 1) + i - 1 = k + i
    BY <1>1
  <2>2. b[i] = s[(k + 1) + i - 1]
    BY <1>1, <2>1
  <2> QED
    BY <2>1, <2>2
<1> HIDE DEF n, a, b
<1>5. /\ a \o b \in Seq(S) /\ Len(a \o b) = n - 1
      /\ \A i \in 1 .. k - 1 : (a \o b)[i] = a[i]
      /\ \A i \in k .. n - 1 : (a \o b)[i] = b[i - (k - 1)] /\ i - (k - 1) \in 1 .. n - k
  BY <1>1, <1>2, <1>3, SMTT(60)
<1>6. ASSUME NEW i \in 1 .. n - 1
      PROVE  (a \o b)[i] = s[IF i < k THEN i ELSE i + 1] /\ i \in 1 .. n /\ i + 1 \in 1 .. n
  <2>1. CASE i < k
    BY <1>1, <1>2, <1>5, <2>1
  <2>2. CASE ~ (i < k)
    <3>1. i \in k .. n - 1 /\ k + (i - (k - 1)) = i + 1
      BY <1>1, <2>2
    <3> QED
      BY <1>1, <1>4, <1>5, <2>2, <3>1
  <2> QED
    BY <2>1, <2>2
<1>7. RemoveAt(s, k) = a \o b
  BY DEF RemoveAt, n, a, b
<1> QED
  BY <1>1, <1>5, <1>6, <1>7 DEF n

\* What was logged at this place is the first entry of the tape, if the tape
\* goes as far; without it the tape lists the log from the next place on.
LEMMA ListsHead ==
  ASSUME NEW S, NEW s \in Seq(S), NEW f, NEW c \in DOMAIN f, NEW d \in Place, NEW full \in BOOLEAN,
         Lists(s, f, c, full), DOMAIN f \subseteq Place,
         \A x \in DOMAIN f : Before(x, d) <=> Before(x, c) \/ x = c
  PROVE  \/ s = <<>> /\ ~ full
         \/ s # <<>> /\ s[1] = f[c] /\ Lists(RemoveAt(s, 1), f, d, full)
<1>1. PICK at : ListsBy(at, s, f, c, full)
  BY DEF Lists
<1> DEFINE n == Len(s)
<1>2. n \in Nat /\ ~ Before(c, c) /\ c \in Place
  BY Order
<1>3. \A i \in 1 .. n : at[i] \in DOMAIN f /\ at[i] \in Place
  BY <1>1 DEF ListsBy
<1>4. CASE ~ \E i \in 1 .. n : at[i] = c
  <2>1. ~ full /\ \A i \in 1 .. n : Before(at[i], c)
    BY <1>1, <1>2, <1>4 DEF ListsBy
  <2>2. 1 .. n = {}
    BY <1>1, <2>1 DEF ListsBy
  <2> QED
    BY <1>2, <2>1, <2>2
<1>5. CASE \E i \in 1 .. n : at[i] = c
  <2>1. PICK k \in 1 .. n : at[k] = c
    BY <1>5
  <2>2. ~ (1 < k)
    BY <1>1, <1>2, <2>1 DEF ListsBy
  <2>3. at[1] = c /\ s # <<>> /\ 1 \in 1 .. n
    BY <2>1, <2>2
  <2>4. s[1] = f[c]
    BY <1>1, <2>3 DEF ListsBy
  <2> DEFINE t == RemoveAt(s, 1)
             new == [i \in 1 .. n - 1 |-> at[i + 1]]
  <2>5. /\ Len(t) = n - 1 /\ n \in Nat \ {0}
        /\ \A i \in 1 .. n - 1 : t[i] = s[i + 1] /\ i + 1 \in 1 .. n
    BY <2>3, RemovedIs
  <2>6. new \in [1 .. n - 1 -> DOMAIN f] /\ \A i \in 1 .. n - 1 : new[i] = at[i + 1]
    BY <1>3, <2>5
  <2> HIDE DEF t, new, n
  <2>7. \A i \in 1 .. n - 1 : ~ Before(new[i], d) /\ t[i] = f[new[i]]
    <3> TAKE i \in 1 .. n - 1
    <3>1. Before(at[1], at[i + 1]) /\ s[i + 1] = f[at[i + 1]] /\ at[i + 1] \in DOMAIN f
      BY <1>1, <1>3, <2>3, <2>5 DEF ListsBy, n
    <3>2. at[i + 1] # c /\ ~ Before(at[i + 1], c)
      BY <1>3, <2>3, <2>5, <3>1, Order
    <3> QED
      BY <2>5, <2>6, <3>1, <3>2
  <2>8. \A i, j \in 1 .. n - 1 : i < j => Before(new[i], new[j])
    <3> TAKE i, j \in 1 .. n - 1
    <3> HAVE i < j
    <3>1. i + 1 < j + 1 /\ i + 1 \in 1 .. n /\ j + 1 \in 1 .. n
      BY <2>5
    <3>2. Before(at[i + 1], at[j + 1])
      BY <1>1, <3>1 DEF ListsBy, n
    <3> QED
      BY <2>6, <3>2
  <2>9. ASSUME NEW x \in DOMAIN f
        PROVE  \/ Before(x, d)
               \/ \E i \in 1 .. n - 1 : new[i] = x
               \/ ~ full /\ \A i \in 1 .. n - 1 : Before(new[i], x)
    <3>1. CASE Before(x, c) \/ x = c
      BY <3>1
    <3>2. CASE \E j \in 1 .. n : at[j] = x /\ x # c
      <4>1. PICK j \in 1 .. n : at[j] = x /\ x # c
        BY <3>2
      <4>2. j - 1 \in 1 .. n - 1 /\ (j - 1) + 1 = j
        BY <2>3, <2>5, <4>1
      <4> QED
        BY <2>6, <4>1, <4>2
    <3>3. CASE ~ full /\ \A j \in 1 .. n : Before(at[j], x)
      BY <2>5, <2>6, <3>3
    <3> QED
      BY <1>1, <3>1, <3>2, <3>3 DEF ListsBy, n
  <2>10. ListsBy(new, t, f, d, full)
    BY <2>5, <2>6, <2>7, <2>8, <2>9 DEF ListsBy
  <2> QED
    BY <2>3, <2>4, <2>10 DEF Lists, t
<1> QED
  BY <1>4, <1>5

-----------------------------------------------------------------------------
(* Whatever the order they are asked for, entries of a tape are taken once: *)
(* what is left comes from other places of the log than what was used.      *)
Owns(s, f, used) ==
  \E at \in [1 .. Len(s) -> DOMAIN f \ used] :
    /\ \A i \in 1 .. Len(s) : s[i] = f[at[i]]
    /\ \A i, j \in 1 .. Len(s) : at[i] = at[j] => i = j

\* Before anything is used every entry is owned.
LEMMA ListsOwns ==
  ASSUME NEW S, NEW s \in Seq(S), NEW f, NEW c, NEW full, DOMAIN f \subseteq Place, Lists(s, f, c, full)
  PROVE  Owns(s, f, {})
<1>1. PICK at : ListsBy(at, s, f, c, full)
  BY DEF Lists
<1>2. at \in [1 .. Len(s) -> DOMAIN f \ {}] /\ Len(s) \in Nat
  BY <1>1 DEF ListsBy
<1>3. ASSUME NEW i \in 1 .. Len(s), NEW j \in 1 .. Len(s), at[i] = at[j] PROVE i = j
  <2>1. at[i] \in Place /\ ~ Before(at[i], at[i])
    BY <1>2, Order
  <2> QED
    BY <1>1, <1>2, <1>3, <2>1 DEF ListsBy
<1> QED
  BY <1>1, <1>2, <1>3 DEF ListsBy, Owns

\* Taking an entry, wherever it is, uses one place more.
LEMMA OwnsTake ==
  ASSUME NEW S, NEW s \in Seq(S), NEW f, NEW used, Owns(s, f, used), NEW k \in 1 .. Len(s)
  PROVE  \E x \in DOMAIN f \ used : s[k] = f[x] /\ Owns(RemoveAt(s, k), f, used \cup {x})
<1>1. PICK at \in [1 .. Len(s) -> DOMAIN f \ used] :
             /\ \A i \in 1 .. Len(s) : s[i] = f[at[i]]
             /\ \A i, j \in 1 .. Len(s) : at[i] = at[j] => i = j
  BY DEF Owns
<1> DEFINE n == Len(s)
           t == RemoveAt(s, k)
           old(i) == IF i < k THEN i ELSE i + 1
           new == [i \in 1 .. n - 1 |-> at[old(i)]]
<1>2. /\ Len(t) = n - 1 /\ n \in Nat \ {0}
      /\ \A i \in 1 .. n - 1 : t[i] = s[old(i)] /\ i \in 1 .. n /\ i + 1 \in 1 .. n
  BY RemovedIs
<1>3. \A i \in 1 .. n - 1 : old(i) \in 1 .. n /\ old(i) # k
  BY <1>2
<1>4. \A i, j \in 1 .. n - 1 : old(i) = old(j) => i = j
  OBVIOUS
<1> HIDE DEF t, old
<1>5. \A i \in 1 .. n - 1 : new[i] = at[old(i)] /\ at[old(i)] \in DOMAIN f \ (used \cup {at[k]})
  BY <1>1, <1>3
<1>6. new \in [1 .. n - 1 -> DOMAIN f \ (used \cup {at[k]})]
  BY <1>5
<1> HIDE DEF new
<1>7. \A i \in 1 .. n - 1 : t[i] = f[new[i]]
  BY <1>1, <1>2, <1>3, <1>5
<1>8. ASSUME NEW i \in 1 .. n - 1, NEW j \in 1 .. n - 1, new[i] = new[j] PROVE i = j
  <2>1. at[old(i)] = at[old(j)] /\ old(i) \in 1 .. n /\ old(j) \in 1 .. n
    BY <1>3, <1>5, <1>8
  <2>2. old(i) = old(j)
    BY <1>1, <2>1
  <2> QED
    BY <1>4, <2>2
<1>9. Owns(t, f, used \cup {at[k]})
  <2>1. 1 .. Len(t) = 1 .. n - 1
    BY <1>2
  <2>2. /\ new \in [1 .. Len(t) -> DOMAIN f \ (used \cup {at[k]})]
        /\ \A i \in 1 .. Len(t) : t[i] = f[new[i]]
        /\ \A i, j \in 1 .. Len(t) : new[i] = new[j] => i = j
    BY <1>6, <1>7, <1>8, <2>1
  <2> QED
    BY <2>2 DEF Owns
<1> QED
  BY <1>1, <1>9 DEF t

\* The queue of a key: its oldest entry is taken, if there is one.
LEMMA FoundIs ==
  ASSUME NEW s, Len(s) \in Nat, NEW key
  PROVE  /\ \/ Found(s, key) = 0 /\ \A i \in 1 .. Len(s) : s[i].key # key
            \/ Found(s, key) \in 1 .. Len(s) /\ s[Found(s, key)].key = key
         /\ 1 \in 1 .. Len(s) /\ s[1].key = key => Found(s, key) = 1
<1> DEFINE I == {i \in 1 .. Len(s) : s[i].key = key}
<1>1. Found(s, key) = IF I # {} THEN Min(I) ELSE 0
  BY DEF Found, SelectInSeq
<1>2. CASE I = {}
  <2>1. \A i \in 1 .. Len(s) : s[i].key # key
    BY <1>2
  <2> HIDE DEF I
  <2>2. Found(s, key) = 0
    BY <1>1, <1>2
  <2> QED
    BY <2>1, <2>2
<1>3. CASE I # {}
  <2>1. I \subseteq Nat
    OBVIOUS
  <2> DEFINE less == OpToRel(<, Nat)
  <2>a. less = {p \in Nat \X Nat : p[1] < p[2]} /\ IsWellFoundedOn(less, Nat)
    BY NatLessThanWellFounded DEF OpToRel
  <2> HIDE DEF I, less
  <2>2. PICK x \in I : \A y \in I : ~ (<<y, x>> \in less)
    BY <1>3, <2>1, <2>a, WFMin
  <2>3. ASSUME NEW y \in I PROVE x <= y
    <3>1. <<y, x>> \in Nat \X Nat /\ <<y, x>>[1] = y /\ <<y, x>>[2] = x
      BY <2>1
    <3>2. ~ (y < x)
      BY <2>2, <2>a, <3>1
    <3> QED
      BY <2>1, <3>2
  <2>4. Min(I) \in I /\ \A y \in I : Min(I) <= y
    BY <2>3 DEF Min
  <2>5. 1 \in I => Min(I) = 1
    BY <2>1, <2>4 DEF I
  <2>6. Found(s, key) = Min(I)
    BY <1>1, <1>3
  <2> QED
    BY <2>4, <2>5, <2>6 DEF I
<1> QED
  BY <1>2, <1>3

-----------------------------------------------------------------------------
(* The machine.  A conversation is a prompt, then by turns a response and,  *)
(* if that was a call, its result; a final text ends it, and so does the    *)
(* result after which no request is left.                                   *)
Limit == 2 * MaxIterations

Grammar(h) ==
  \A i \in 1 .. Len(h) :
    /\ h[i].role = "user" <=> i = 1
    /\ h[i].role \in Asks /\ i < Len(h) => i <= Limit /\ h[i + 1].role \in Replies
    /\ h[i].role \in Tools /\ i < Len(h) => h[i + 1].role = "result"
    /\ h[i].role = "final" => i = Len(h)

Ends == {"ok", "skipped", "template", "llm_error", "lost", "tool_error", "limit", "replay_miss"}

Done == [end : Ends, history : Seq(Msg), output : Texts, state : Texts]

Machines ==
  [node : Nat \ {0}, pc : {"open", "llm", "tool", "stop"}, history : Seq(Msg), state : Texts, done : Seq(Done)]

Agent == [prompt : Prompts, allow : SUBSET Flags]

\* How a node ended: well exactly if its last word is a final text.
Over(d) ==
  /\ d.end = "ok" <=> d.history # <<>> /\ Last(d.history).role = "final"
  /\ d.output = IF d.end = "ok" THEN Last(d.history).text ELSE "none"

Asking(h) == h # <<>> /\ Last(h).role \in Asks /\ Len(h) <= Limit

Calling(h) == h # <<>> /\ Last(h).role \in Tools

Sound(p, m) ==
  /\ p \in Seq(Agent) /\ m \in Machines
  /\ Len(m.done) + 1 = m.node /\ m.node <= Len(p) + 1
  /\ m.pc = "stop" <=> m.node = Len(p) + 1
  /\ m.pc = "open" \/ m.pc = "stop" => m.history = <<>>
  /\ Grammar(m.history)
  /\ m.pc = "llm" => Asking(m.history)
  /\ m.pc = "tool" => Calling(m.history)
  /\ \A n \in 1 .. Len(m.done) : Grammar(m.done[n].history) /\ Over(m.done[n])

\* The conversation of the node at hand is h, and the node is over with this
\* end or still runs.
Said(m, k, h, end) ==
  /\ h \in Seq(Msg) /\ Grammar(h) /\ m.node \in Nat
  /\ Len(m.history) \in Nat /\ Len(h) \in {Len(m.history), Len(m.history) + 1}
  /\ \A i \in 1 .. Len(m.history) : h[i] = m.history[i]
  /\ Len(m.done) + 1 = m.node
  /\ \A n \in 1 .. Len(m.done) : k.done[n] = m.done[n]
  /\ IF end = "running"
     THEN k.node = m.node /\ k.done = m.done /\ k.history = h /\ h # <<>>
     ELSE /\ k.node = m.node + 1 /\ Len(k.done) = m.node /\ k.history = <<>>
          /\ k.pc = "open" \/ k.pc = "stop"
          /\ k.done[m.node].end = end /\ k.done[m.node].history = h /\ Over(k.done[m.node])

LEMMA AppendIs ==
  ASSUME NEW S, NEW s \in Seq(S), NEW x \in S
  PROVE  /\ Append(s, x) \in Seq(S) /\ Append(s, x) # <<>> /\ Len(s) \in Nat
         /\ Len(Append(s, x)) = Len(s) + 1 /\ Append(s, x)[Len(s) + 1] = x
         /\ \A i \in 1 .. Len(s) : Append(s, x)[i] = s[i]
         /\ Last(Append(s, x)) = x
<1>1. /\ Append(s, x) \in Seq(S) /\ Append(s, x) # <<>> /\ Len(s) \in Nat
      /\ Len(Append(s, x)) = Len(s) + 1 /\ Append(s, x)[Len(s) + 1] = x
      /\ \A i \in 1 .. Len(s) : Append(s, x)[i] = s[i]
  OBVIOUS
<1> QED
  BY <1>1 DEF Last

LEMMA LimitIs == Limit \in Nat /\ Limit >= 2
BY IterationsPositive DEF Limit

\* A request is answered, a call gets its result.
LEMMA GrammarGoesOn ==
  ASSUME NEW h \in Seq(Msg), Grammar(h), NEW x \in Msg,
         \/ Asking(h) /\ x.role \in Replies
         \/ Calling(h) /\ x.role = "result"
  PROVE  Grammar(Append(h, x))
<1> DEFINE g == Append(h, x)
           n == Len(h)
<1>1. /\ n \in Nat /\ Len(g) = n + 1 /\ g[n + 1] = x
      /\ \A i \in 1 .. n : g[i] = h[i]
  BY AppendIs
<1>2. n # 0 /\ n \in 1 .. n
  BY DEF Asking, Calling
<1>3. \/ h[n].role \in Asks /\ n <= Limit /\ x.role \in Replies
      \/ h[n].role \in Tools /\ x.role = "result"
  BY DEF Asking, Calling, Last
<1> HIDE DEF g, n
<1>4. \A i \in 1 .. n + 1 : i \in 1 .. n \/ i = n + 1
  BY <1>1
<1>5. ASSUME NEW i \in 1 .. n
      PROVE  /\ g[i].role = "user" <=> i = 1
             /\ g[i].role \in Asks => i <= Limit /\ g[i + 1].role \in Replies
             /\ g[i].role \in Tools => g[i + 1].role = "result"
             /\ g[i].role # "final"
  <2>1. g[i] = h[i]
    BY <1>1
  <2>2. CASE i = n
    BY <1>1, <1>2, <1>3, <2>1, <2>2, RolesDiffer DEF Grammar, n
  <2>3. CASE i # n
    <3>1. i < n /\ i + 1 \in 1 .. n
      BY <1>1, <2>3
    <3> QED
      BY <1>1, <2>1, <3>1 DEF Grammar, n
  <2> QED
    BY <2>2, <2>3
<1>6. x.role # "user" /\ n + 1 # 1
  BY <1>1, <1>2, <1>3, RolesDiffer
<1> QED
  <2>1. ASSUME NEW i \in 1 .. n + 1
        PROVE  /\ g[i].role = "user" <=> i = 1
               /\ g[i].role \in Asks /\ i < n + 1 => i <= Limit /\ g[i + 1].role \in Replies
               /\ g[i].role \in Tools /\ i < n + 1 => g[i + 1].role = "result"
               /\ g[i].role = "final" => i = n + 1
    <3>1. CASE i \in 1 .. n
      BY <1>5, <3>1
    <3>2. CASE i = n + 1
      BY <1>1, <1>6, <3>2
    <3> QED
      BY <1>4, <3>1, <3>2
  <2> QED
    BY <1>1, <2>1 DEF Grammar, g

\* A prompt is a conversation.
LEMMA GrammarStarts ==
  ASSUME NEW x \in Msg, x.role = "user"
  PROVE  Grammar(<<x>>) /\ Asking(<<x>>) /\ <<x>> \in Seq(Msg)
<1>1. Len(<<x>>) = 1 /\ <<x>>[1] = x /\ <<x>> \in Seq(Msg) /\ <<x>> # <<>>
  OBVIOUS
<1>2. x.role \in Asks /\ x.role \notin Tools /\ x.role # "final"
  BY RolesDiffer
<1>3. Grammar(<<x>>)
  <2>1. \A i \in 1 .. 1 : i = 1 /\ ~ (i < 1)
    OBVIOUS
  <2> QED
    BY <1>1, <1>2, <2>1 DEF Grammar
<1> QED
  BY <1>1, <1>2, <1>3, LimitIs DEF Asking, Last

LEMMA GrammarEmpty == Grammar(<<>>) /\ <<>> \in Seq(Msg) /\ Len(<<>>) = 0
BY DEF Grammar

\* n is m at the node's last word.
Alike(m, n) ==
  /\ n \in Machines /\ n.node = m.node /\ n.done = m.done /\ Grammar(n.history)
  /\ Len(n.history) \in {Len(m.history), Len(m.history) + 1}
  /\ \A i \in 1 .. Len(m.history) : n.history[i] = m.history[i]

\* Types of the parts of a machine.
LEMMA SoundIs ==
  ASSUME NEW m, Sound(plan, m)
  PROVE  /\ m \in Machines /\ m.node \in Nat \ {0} /\ m.history \in Seq(Msg) /\ m.done \in Seq(Done) /\ m.state \in Texts
         /\ Len(plan) \in Nat /\ Len(m.done) \in Nat /\ Len(m.history) \in Nat
         /\ m.node <= Len(plan) + 1 /\ Len(m.done) + 1 = m.node
         /\ DOMAIN m.done = 1 .. m.node - 1
         /\ m.pc # "stop" => m.node <= Len(plan)
         /\ Alike(m, m)
         /\ \A n \in 1 .. Len(m.done) :
              /\ m.done[n] \in Done /\ m.done[n].history \in Seq(Msg) /\ Len(m.done[n].history) \in Nat
              /\ m.done[n].output \in Texts /\ m.done[n].end \in Ends
<1>1. /\ m \in Machines /\ m.node \in Nat \ {0} /\ m.history \in Seq(Msg) /\ m.done \in Seq(Done) /\ m.state \in Texts
  BY DEF Sound, Machines
<1>2. /\ Len(plan) \in Nat /\ Len(m.done) \in Nat /\ Len(m.history) \in Nat
      /\ m.node <= Len(plan) + 1 /\ Len(m.done) + 1 = m.node
      /\ m.pc # "stop" => m.node <= Len(plan)
  BY <1>1 DEF Sound
<1>3. DOMAIN m.done = 1 .. m.node - 1
  BY <1>1, <1>2
<1>4. Alike(m, m)
  BY <1>1 DEF Sound, Alike
<1>5. ASSUME NEW n \in 1 .. Len(m.done)
      PROVE  /\ m.done[n] \in Done /\ m.done[n].history \in Seq(Msg) /\ Len(m.done[n].history) \in Nat
             /\ m.done[n].output \in Texts /\ m.done[n].end \in Ends
  <2>1. m.done[n] \in Done
    BY <1>1
  <2> QED
    BY <2>1 DEF Done
<1> QED
  BY <1>1, <1>2, <1>3, <1>4, <1>5

LEMMA NoneIsText == "none" \in Texts
BY DEF Texts

\* Ended closes the conversation of the node and opens the next one.
LEMMA EndedIs ==
  ASSUME NEW m, Sound(plan, m), m.pc # "stop", NEW n, Alike(m, n), NEW end \in Ends, end # "running",
         NEW out \in Texts,
         end = "ok" <=> n.history # <<>> /\ Last(n.history).role = "final",
         out = IF end = "ok" THEN Last(n.history).text ELSE "none"
  PROVE  /\ Sound(plan, Ended(n, end, out)) /\ Said(m, Ended(n, end, out), n.history, end)
         /\ Ended(n, end, out).state = "none" /\ Ended(n, end, out).done[m.node].state = n.state
         /\ Ended(n, end, out).done[m.node].output = out
<1> DEFINE d == [end |-> end, history |-> n.history, output |-> out, state |-> n.state]
           k == Ended(n, end, out)
<1>1. d \in Done /\ n.history \in Seq(Msg) /\ n.done = m.done /\ n.node = m.node
  BY DEF Alike, Machines, Done
<1>2. Over(d)
  BY DEF Over
<1>3. /\ k.node = m.node + 1 /\ k.history = <<>> /\ k.state = "none" /\ k.done = Append(m.done, d)
      /\ k.pc = IF m.node = Len(plan) THEN "stop" ELSE "open"
      /\ k = [node |-> k.node, pc |-> k.pc, history |-> k.history, state |-> k.state, done |-> k.done]
  BY <1>1 DEF Ended
<1>4. d.end = end /\ d.history = n.history /\ d.state = n.state /\ d.output = out
  OBVIOUS
<1> HIDE DEF d, k
<1>5. /\ Append(m.done, d) \in Seq(Done) /\ Len(Append(m.done, d)) = m.node
      /\ Append(m.done, d)[m.node] = d
      /\ \A i \in 1 .. Len(m.done) : Append(m.done, d)[i] = m.done[i]
      /\ m.node \in Nat \ {0} /\ Len(m.done) = m.node - 1 /\ m.node <= Len(plan) /\ Len(plan) \in Nat
      /\ Len(m.history) \in Nat
  BY <1>1, SoundIs, AppendIs
<1>6. k \in Machines
  <2>1. k.node \in Nat \ {0} /\ k.pc \in {"open", "llm", "tool", "stop"} /\ k.history \in Seq(Msg)
        /\ k.state \in Texts /\ k.done \in Seq(Done)
    BY <1>3, <1>5, NoneIsText
  <2> QED
    BY <1>3, <2>1 DEF Machines
<1>7. \A i \in 1 .. m.node : i \in 1 .. Len(m.done) \/ i = m.node
  BY <1>5
<1>8. \A i \in 1 .. Len(k.done) : Grammar(k.done[i].history) /\ Over(k.done[i])
  BY <1>2, <1>3, <1>4, <1>5, <1>7 DEF Sound, Alike
<1>9. Sound(plan, k)
  <2>1. Len(k.done) + 1 = k.node /\ k.node <= Len(plan) + 1 /\ (k.pc = "stop" <=> k.node = Len(plan) + 1)
        /\ k.pc # "llm" /\ k.pc # "tool"
    BY <1>3, <1>5
  <2>2. plan \in Seq(Agent)
    BY DEF Sound
  <2> QED
    BY <1>3, <1>6, <1>8, <2>1, <2>2, GrammarEmpty DEF Sound
<1>10. Said(m, k, n.history, end)
  <2>1. k.pc = "open" \/ k.pc = "stop"
    BY <1>3
  <2> QED
    BY <1>1, <1>2, <1>3, <1>4, <1>5, <2>1 DEF Said, Alike
<1> QED
  BY <1>3, <1>4, <1>5, <1>9, <1>10 DEF k

LEMMA EndNames ==
  /\ Ends \cap {"running"} = {}
  /\ \A e \in {"skipped", "template", "llm_error", "lost", "tool_error", "limit", "replay_miss"} : e \in Ends /\ e # "ok"
  /\ "ok" \in Ends
BY DEF Ends

\* A failure ends the node where its conversation is.
LEMMA FailedIs ==
  ASSUME NEW m, Sound(plan, m), m.pc # "stop", NEW n, Alike(m, n),
         n.history = <<>> \/ Last(n.history).role # "final",
         NEW end \in Ends, end # "ok"
  PROVE  /\ Sound(plan, Failed(n, end)) /\ Said(m, Failed(n, end), n.history, end)
         /\ Failed(n, end).state = "none" /\ Failed(n, end).done[m.node].state = n.state
         /\ Failed(n, end).done[m.node].output = "none"
BY EndedIs, EndNames, NoneIsText DEF Failed

\* A message more, and the node still runs.
LEMMA AlikeRuns ==
  ASSUME NEW m, Sound(plan, m), m.pc # "stop", NEW k, Alike(m, k),
         \/ k.pc = "llm" /\ Asking(k.history)
         \/ k.pc = "tool" /\ Calling(k.history)
  PROVE  Sound(plan, k) /\ Said(m, k, k.history, "running")
<1>1. /\ k.node = m.node /\ k.done = m.done /\ k.history # <<>> /\ k.history \in Seq(Msg) /\ k \in Machines
      /\ k.pc # "stop" /\ k.pc # "open"
  BY DEF Alike, Asking, Calling, Machines
<1>2. Sound(plan, k)
  BY <1>1, SoundIs DEF Sound, Alike
<1>3. Said(m, k, k.history, "running")
  BY <1>1, SoundIs DEF Said, Alike
<1> QED
  BY <1>2, <1>3

Begun(m, t) == [m EXCEPT !.pc = "llm", !.history = <<Says("user", t)>>]

LEMMA SaysIs ==
  ASSUME NEW r, NEW t
  PROVE  /\ Says(r, t).role = r /\ Says(r, t).text = t
         /\ r \in Asks \cup Replies /\ t \in Texts => Says(r, t) \in Msg
BY DEF Says, Msg

LEMMA MsgIs ==
  ASSUME NEW x \in Msg
  PROVE  x.role \in Asks \cup Replies /\ x.text \in Texts /\ x = Says(x.role, x.text)
BY DEF Msg, Says

\* An answer is a message that a loop can take.
LEMMA AnswersAreMsgs ==
  ASSUME NEW a \in Answers
  PROVE  a \in Msg /\ a.role \in Replies
<1>1. a = Says(a.role, a.text) /\ a.role \in Replies
  BY TagsAssumption DEF Says, Replies, Tools
<1>2. a.text \in Texts
  BY DEF Texts
<1> QED
  BY <1>1, <1>2, SaysIs

\* A node starts with its prompt.
LEMMA BegunIs ==
  ASSUME NEW m, Sound(plan, m), m.pc = "open", NEW t \in Texts
  PROVE  /\ Sound(plan, Begun(m, t)) /\ Said(m, Begun(m, t), <<Says("user", t)>>, "running")
         /\ Begun(m, t).state = m.state /\ Begun(m, t).pc = "llm"
<1> DEFINE x == Says("user", t)
           k == Begun(m, t)
<1>1. x \in Msg /\ x.role = "user"
  BY SaysIs, RolesDiffer
<1>2. Grammar(<<x>>) /\ Asking(<<x>>) /\ <<x>> \in Seq(Msg) /\ Len(<<x>>) = 1
  BY <1>1, GrammarStarts
<1>3. m.history = <<>> /\ m \in Machines /\ Len(m.history) = 0 /\ \A i \in 1 .. Len(m.history) : FALSE
  BY GrammarEmpty DEF Sound
<1>4. /\ k \in Machines /\ k.pc = "llm" /\ k.history = <<x>> /\ k.node = m.node /\ k.done = m.done
      /\ k.state = m.state
  BY <1>2, <1>3 DEF Machines, Begun
<1> HIDE DEF x, k
<1>5. Alike(m, k)
  BY <1>2, <1>3, <1>4 DEF Alike
<1> QED
  BY <1>2, <1>4, <1>5, AlikeRuns DEF x, k

\* What becomes of a prompt, kind by kind.
LEMMA OpenedIs ==
  ASSUME NEW m, Sound(plan, m), m.pc = "open", NEW inputs \in BOOLEAN, plan \in Plans
  PROVE  LET kind == plan[m.node].prompt
             prev == m.done[m.node - 1]
             k    == Opened(m, inputs)
         IN  /\ kind = "fixed" => k = Begun(m, "plain")
             /\ kind = "literal" => k = Begun(m, "secret")
             /\ kind = "var" => k = Begun(m, IF inputs THEN "plain" ELSE Scrubbed("plain"))
             /\ kind = "inputs" => k = IF inputs THEN Begun(m, "secret") ELSE Failed(m, "template")
             /\ kind = "output" =>
                  /\ m.node - 1 \in 1 .. Len(m.done)
                  /\ k = IF prev.end # "ok" THEN Failed(m, "skipped")
                         ELSE IF prev.output = "none" THEN Failed(m, "template") ELSE Begun(m, prev.output)
             /\ kind = "state" =>
                  /\ m.node - 1 \in 1 .. Len(m.done)
                  /\ k = IF prev.end # "ok" THEN Failed(m, "skipped")
                         ELSE IF prev.state = "none" THEN Failed(m, "template") ELSE Begun(m, prev.state)
             /\ kind \in Prompts
<1> DEFINE kind == plan[m.node].prompt
           prev == m.done[m.node - 1]
           k    == Opened(m, inputs)
<1>1. m.node \in 1 .. Len(plan) /\ m.node \in Nat \ {0} /\ Len(m.done) = m.node - 1
  BY SoundIs
<1>2. kind \in Prompts
  <2>1. plan[m.node] \in Agent
    BY <1>1 DEF Sound
  <2> QED
    BY <2>1 DEF Agent
<1>3. kind = "output" \/ kind = "state" => m.node # 1
  BY FirstNodeStandsAlone
<1>4. Last(m.done) = prev
  BY <1>1 DEF Last
<1>5. kind = "output" \/ kind = "state" => m.node - 1 \in 1 .. Len(m.done)
  BY <1>1, <1>3
<1> HIDE DEF kind, prev
<1>6. kind = "fixed" => k = Begun(m, "plain")
  BY DEF Opened, Begun, kind
<1>7. kind = "literal" => k = Begun(m, "secret")
  BY DEF Opened, Begun, kind
<1>8. kind = "var" => k = Begun(m, IF inputs THEN "plain" ELSE Scrubbed("plain"))
  BY DEF Opened, Begun, kind, Scrubbed
<1>9. kind = "inputs" => k = IF inputs THEN Begun(m, "secret") ELSE Failed(m, "template")
  BY DEF Opened, Begun, kind
<1>10. kind = "output" => k = IF prev.end # "ok" THEN Failed(m, "skipped")
                              ELSE IF prev.output = "none" THEN Failed(m, "template") ELSE Begun(m, prev.output)
  BY <1>4 DEF Opened, Begun, kind
<1>11. kind = "state" => k = IF prev.end # "ok" THEN Failed(m, "skipped")
                              ELSE IF prev.state = "none" THEN Failed(m, "template") ELSE Begun(m, prev.state)
  BY <1>4 DEF Opened, Begun, kind
<1> QED
  BY <1>2, <1>5, <1>6, <1>7, <1>8, <1>9, <1>10, <1>11 DEF kind, prev

\* Whatever the prompt, the node starts or is over without a word.
LEMMA OpenedEither ==
  ASSUME NEW m, Sound(plan, m), m.pc = "open", NEW inputs \in BOOLEAN, plan \in Plans
  PROVE  \/ \E t \in Texts : Opened(m, inputs) = Begun(m, t)
         \/ Opened(m, inputs) = Failed(m, "skipped")
         \/ Opened(m, inputs) = Failed(m, "template")
<1> DEFINE kind == plan[m.node].prompt
<1>1. "plain" \in Texts /\ "secret" \in Texts /\ Scrubbed("plain") \in Texts
  BY DEF Texts, Scrubbed
<1>2. kind \in Prompts
  BY OpenedIs
<1>3. m.node - 1 \in 1 .. Len(m.done) => m.done[m.node - 1] \in Done
  BY SoundIs
<1>4. m.node - 1 \in 1 .. Len(m.done) => m.done[m.node - 1].output \in Texts /\ m.done[m.node - 1].state \in Texts
  BY <1>3 DEF Done
<1>5. CASE kind = "fixed" \/ kind = "literal" \/ kind = "var" \/ kind = "inputs"
  BY <1>1, <1>5, OpenedIs
<1>6. CASE kind = "output" \/ kind = "state"
  BY <1>4, <1>6, OpenedIs
<1> QED
  BY <1>2, <1>5, <1>6 DEF Prompts

\* A final text ends the node well, a call goes on.
LEMMA AnsweredIs ==
  ASSUME NEW m, Sound(plan, m), m.pc = "llm", NEW a \in Msg, a.role \in Replies
  PROVE  LET k == Answered(m, a)
             h == Append(m.history, a)
         IN  /\ Sound(plan, k) /\ Said(m, k, h, IF a.role = "final" THEN "ok" ELSE "running")
             /\ a.role = "final" => k.state = "none" /\ k.done[m.node].state = m.state
                                    /\ k.done[m.node].output = a.text
             /\ a.role # "final" => k.state = m.state /\ k.pc = "tool"
<1> DEFINE n == [m EXCEPT !.pc = "tool", !.history = Append(@, a)]
           h == Append(m.history, a)
<1>1. m \in Machines /\ m.history \in Seq(Msg) /\ Asking(m.history) /\ Grammar(m.history) /\ m.pc # "stop"
  BY SoundIs DEF Sound
<1>2. Grammar(h)
  BY <1>1, GrammarGoesOn
<1>3. /\ h \in Seq(Msg) /\ h # <<>> /\ Len(h) = Len(m.history) + 1 /\ Last(h) = a
      /\ \A i \in 1 .. Len(m.history) : h[i] = m.history[i]
  BY <1>1, AppendIs
<1> HIDE DEF h
<1>4. /\ n \in Machines /\ n.pc = "tool" /\ n.history = h /\ n.node = m.node /\ n.done = m.done /\ n.state = m.state
  BY <1>1, <1>3 DEF Machines, h
<1> HIDE DEF n
<1>5. Alike(m, n)
  BY <1>2, <1>3, <1>4 DEF Alike
<1>6. CASE a.role = "final"
  <2>1. Answered(m, a) = Ended(n, "ok", a.text)
    BY <1>6 DEF Answered, n
  <2>2. a.text \in Texts
    BY MsgIs
  <2> DEFINE k == Ended(n, "ok", a.text)
  <2>3. "ok" \in Ends /\ "ok" # "running" /\ n.history # <<>> /\ Last(n.history).role = "final" /\ Last(n.history).text = a.text
    BY <1>3, <1>4, <1>6, EndNames
  <2>4. /\ Sound(plan, k) /\ Said(m, k, n.history, "ok") /\ k.state = "none" /\ k.done[m.node].state = n.state
        /\ k.done[m.node].output = a.text
    BY <1>1, <1>5, <2>2, <2>3, EndedIs
  <2> QED
    BY <1>4, <1>6, <2>1, <2>4 DEF h
<1>7. CASE a.role # "final"
  <2>1. Answered(m, a) = n
    BY <1>7 DEF Answered, n
  <2>2. Calling(n.history)
    BY <1>3, <1>4, <1>7, RolesDiffer DEF Calling
  <2> QED
    BY <1>1, <1>4, <1>5, <1>7, <2>1, <2>2, AlikeRuns DEF h
<1> QED
  BY <1>6, <1>7

\* A result goes into the history; past the limit the node fails.
LEMMA ResultedIs ==
  ASSUME NEW m, Sound(plan, m), m.pc = "tool", NEW t \in Texts
  PROVE  LET k == Resulted(m, t)
             h == Append(m.history, Says("result", t))
         IN  /\ Sound(plan, k)
             /\ Said(m, k, h, IF Len(m.history) + 1 > Limit THEN "limit" ELSE "running")
             /\ Len(m.history) + 1 > Limit => k.state = "none" /\ k.done[m.node].state = m.state
                                              /\ k.done[m.node].output = "none"
             /\ ~ (Len(m.history) + 1 > Limit) => k.state = m.state /\ k.pc = "llm"
<1> DEFINE x == Says("result", t)
           n == [m EXCEPT !.pc = "llm", !.history = Append(@, Says("result", t))]
           h == Append(m.history, x)
<1>1. m \in Machines /\ m.history \in Seq(Msg) /\ Calling(m.history) /\ Grammar(m.history) /\ m.pc # "stop"
  BY SoundIs DEF Sound
<1>2. x \in Msg /\ x.role = "result" /\ x.role \in Asks /\ x.role # "final"
  BY SaysIs, RolesDiffer
<1> HIDE DEF x
<1>3. Grammar(h)
  BY <1>1, <1>2, GrammarGoesOn
<1>4. /\ h \in Seq(Msg) /\ h # <<>> /\ Len(h) = Len(m.history) + 1 /\ Last(h) = x
      /\ \A i \in 1 .. Len(m.history) : h[i] = m.history[i]
  BY <1>1, <1>2, AppendIs
<1> HIDE DEF h
<1>5. /\ n \in Machines /\ n.pc = "llm" /\ n.history = h /\ n.node = m.node /\ n.done = m.done /\ n.state = m.state
  BY <1>1, <1>4 DEF Machines, h, x
<1>6. Resulted(m, t) = IF Len(h) > Limit THEN Failed(n, "limit") ELSE n
  BY <1>5 DEF Resulted, Limit
<1> HIDE DEF n
<1>7. Alike(m, n)
  BY <1>3, <1>4, <1>5 DEF Alike
<1>8. CASE Len(h) > Limit
  <2> DEFINE k == Failed(n, "limit")
  <2>1. "limit" \in Ends /\ "limit" # "ok" /\ Last(n.history).role # "final"
    BY <1>2, <1>4, <1>5, EndNames
  <2>2. /\ Sound(plan, k) /\ Said(m, k, n.history, "limit") /\ k.state = "none" /\ k.done[m.node].state = n.state
        /\ k.done[m.node].output = "none"
    BY <1>1, <1>7, <2>1, FailedIs
  <2>3. Resulted(m, t) = k /\ Len(m.history) + 1 > Limit
    BY <1>4, <1>6, <1>8
  <2> QED
    BY <1>5, <2>2, <2>3 DEF h, x
<1>9. CASE ~ (Len(h) > Limit)
  <2>1. Asking(n.history)
    <3>1. Len(h) <= Limit
      BY <1>1, <1>4, <1>9, LimitIs
    <3> QED
      BY <1>2, <1>4, <1>5, <3>1 DEF Asking
  <2> QED
    BY <1>1, <1>4, <1>5, <1>6, <1>7, <1>9, <2>1, AlikeRuns DEF h, x
<1> QED
  BY <1>8, <1>9

\* A run starts sound.
LEMMA SoundStart == plan \in Plans => Sound(plan, Machine)
<1> SUFFICES ASSUME plan \in Plans PROVE Sound(plan, Machine)
  OBVIOUS
<1>0. plan \in Seq(Agent) /\ plan # <<>>
  BY PlansAssumption DEF Agent
<1>1. plan \in Seq(Agent) /\ plan # <<>> /\ Len(plan) \in Nat /\ Len(plan) # 0
  BY <1>0
<1>2. Machine \in Machines
  BY NoneIsText DEF Machine, Machines
<1> QED
  BY <1>1, <1>2, GrammarEmpty DEF Machine, Sound

-----------------------------------------------------------------------------
(* What a run leaves on the tapes: a request of a node is at the place of   *)
(* the last message it holds, a tool call at its own place.                 *)
HistoryOf(m, n) == IF n \in 1 .. Len(m.done) THEN m.done[n].history ELSE m.history

EndOf(m, n) == IF n \in 1 .. Len(m.done) THEN m.done[n].end ELSE "running"

\* The places where one of these roles spoke and was answered, or the node
\* ended with this error.
At(m, roles, err) ==
  {x \in Place : /\ x[1] \in 1 .. m.node /\ x[2] \in 1 .. Len(HistoryOf(m, x[1]))
                 /\ HistoryOf(m, x[1])[x[2]].role \in roles
                 /\ x[2] < Len(HistoryOf(m, x[1])) \/ EndOf(m, x[1]) = err}

LlmAt(m) == At(m, Asks, "llm_error")

\* A call that is denied leaves no entry; what it was answered tells.
Kept(h, i) == i < Len(h) => h[i + 1].text \notin Denials

ToolAt(m) == {x \in At(m, Tools, "tool_error") : Kept(HistoryOf(m, x[1]), x[2])}

LlmEntry(h, i) ==
  [key |-> Masked(SubSeq(h, 1, i)),
   res |-> IF i < Len(h) THEN Says(h[i + 1].role, Mask(h[i + 1].text)) ELSE Says("error", "none")]

ToolEntry(h, i) ==
  [key |-> h[i], res |-> IF i < Len(h) /\ h[i + 1].text # "invalid" THEN h[i + 1].text ELSE "error"]

LlmLog(m) == [x \in LlmAt(m) |-> LlmEntry(HistoryOf(m, x[1]), x[2])]

ToolLog(m) == [x \in ToolAt(m) |-> ToolEntry(HistoryOf(m, x[1]), x[2])]

LEMMA PlaceIs ==
  /\ \A n, i \in Nat : <<n, i>> \in Place /\ <<n, i>>[1] = n /\ <<n, i>>[2] = i
  /\ \A x \in Place : x[1] \in Nat /\ x[2] \in Nat /\ x = <<x[1], x[2]>>
BY DEF Place

\* A step changes the conversation at hand and no other.
LEMMA SaidTale ==
  ASSUME NEW m, NEW k, NEW h, NEW end, Said(m, k, h, end), Len(m.done) \in Nat
  PROVE  /\ \A n \in 1 .. m.node - 1 : HistoryOf(k, n) = HistoryOf(m, n) /\ EndOf(k, n) = EndOf(m, n)
         /\ HistoryOf(m, m.node) = m.history /\ EndOf(m, m.node) = "running"
         /\ HistoryOf(k, m.node) = h /\ EndOf(k, m.node) = end
         /\ k.node = m.node + 1 => HistoryOf(k, k.node) = <<>> /\ EndOf(k, k.node) = "running"
         /\ k.node \in {m.node, m.node + 1} /\ m.node \in Nat \ {0} /\ 1 .. Len(m.done) = 1 .. m.node - 1
<1>1. m.node \in Nat \ {0} /\ Len(m.done) = m.node - 1
  BY DEF Said
<1>2. CASE end = "running"
  BY <1>1, <1>2 DEF Said, HistoryOf, EndOf
<1>3. CASE end # "running"
  <2>1. Len(k.done) = m.node /\ k.node = m.node + 1 /\ k.done[m.node].end = end /\ k.done[m.node].history = h
        /\ k.history = <<>> /\ \A n \in 1 .. m.node - 1 : k.done[n] = m.done[n]
    BY <1>1, <1>3 DEF Said
  <2> QED
    BY <1>1, <2>1 DEF HistoryOf, EndOf
<1> QED
  BY <1>2, <1>3

Here(m) == <<m.node, Len(m.history)>>

\* The last message of m, of one of these roles, is answered, or is the end.
Grows(m, h, end, roles, err) ==
  /\ m.history # <<>> /\ Last(m.history).role \in roles
  /\ Len(h) # Len(m.history) \/ end = err

\* One message more: at most one place more, the last of all.
LEMMA AtStep ==
  ASSUME NEW m, NEW k, NEW h, NEW end, Said(m, k, h, end), Len(m.done) \in Nat, m.history \in Seq(Msg),
         NEW roles, NEW err, err # "running", Len(h) # Len(m.history) => end # err
  PROVE  /\ \A x : x \in At(k, roles, err) <=>
                  x \in At(m, roles, err) \/ (x = Here(m) /\ Grows(m, h, end, roles, err))
         /\ \A x \in At(m, roles, err) :
              /\ x \in Place /\ Before(x, Here(m)) /\ x[1] \in 1 .. m.node
              /\ x[2] \in 1 .. Len(HistoryOf(m, x[1]))
              /\ x[1] = m.node => HistoryOf(m, x[1]) = m.history /\ HistoryOf(k, x[1]) = h
                                  /\ x[2] < Len(m.history)
              /\ x[1] # m.node => HistoryOf(k, x[1]) = HistoryOf(m, x[1])
<1> DEFINE here == <<m.node, Len(m.history)>>
           n == Len(m.history)
<1>1. /\ n \in Nat /\ Len(h) \in Nat /\ Len(h) \in {n, n + 1} /\ \A i \in 1 .. n : h[i] = m.history[i]
      /\ m.node \in Nat \ {0}
  BY SaidTale DEF Said
<1>2. /\ \A i \in 1 .. m.node - 1 : HistoryOf(k, i) = HistoryOf(m, i) /\ EndOf(k, i) = EndOf(m, i)
      /\ HistoryOf(m, m.node) = m.history /\ EndOf(m, m.node) = "running"
      /\ HistoryOf(k, m.node) = h /\ EndOf(k, m.node) = end
      /\ k.node = m.node + 1 => HistoryOf(k, k.node) = <<>>
      /\ k.node \in {m.node, m.node + 1}
  BY SaidTale
<1>3. here \in Place /\ here[1] = m.node /\ here[2] = n
  BY <1>1, PlaceIs
<1>4. m.history # <<>> <=> n # 0
  OBVIOUS
<1>5. 1 .. k.node \subseteq 1 .. m.node + 1 /\ 1 .. m.node \subseteq 1 .. k.node
  BY <1>1, <1>2
<1> HIDE DEF here, n
<1>6. ASSUME NEW x \in At(m, roles, err)
      PROVE  /\ x \in Place /\ Before(x, here) /\ x[1] \in 1 .. m.node
             /\ x[2] \in 1 .. Len(HistoryOf(m, x[1]))
             /\ x[1] = m.node => HistoryOf(m, x[1]) = m.history /\ HistoryOf(k, x[1]) = h /\ x[2] < n
             /\ x[1] # m.node => HistoryOf(k, x[1]) = HistoryOf(m, x[1])
             /\ x \in At(k, roles, err)
  <2>1. /\ x \in Place /\ x[1] \in 1 .. m.node /\ x[2] \in 1 .. Len(HistoryOf(m, x[1]))
        /\ HistoryOf(m, x[1])[x[2]].role \in roles
        /\ x[2] < Len(HistoryOf(m, x[1])) \/ EndOf(m, x[1]) = err
    BY DEF At
  <2>2. x[1] \in Nat /\ x[2] \in Nat
    BY <2>1, PlaceIs
  <2>3. CASE x[1] = m.node
    <3>1. x[2] < n /\ x[2] \in 1 .. n /\ x[2] \in 1 .. Len(h) /\ x[2] < Len(h)
      BY <1>1, <1>2, <2>1, <2>2, <2>3 DEF n
    <3>2. HistoryOf(k, x[1])[x[2]].role \in roles
      BY <1>1, <1>2, <2>1, <2>3, <3>1 DEF n
    <3>3. x \in At(k, roles, err)
      BY <1>2, <1>5, <2>1, <2>3, <3>1, <3>2 DEF At
    <3> QED
      BY <1>2, <1>3, <2>1, <2>3, <3>1, <3>3 DEF Before
  <2>4. CASE x[1] # m.node
    <3>1. x[1] \in 1 .. m.node - 1 /\ x[1] < m.node
      BY <1>1, <2>1, <2>4
    <3>2. x \in At(k, roles, err)
      BY <1>2, <1>5, <2>1, <3>1 DEF At
    <3> QED
      BY <1>2, <1>3, <2>1, <2>4, <3>1, <3>2 DEF Before
  <2> QED
    BY <2>3, <2>4
<1> DEFINE new == /\ m.history # <<>> /\ Last(m.history).role \in roles
                  /\ Len(h) # n \/ end = err
<1>7. ASSUME NEW x \in At(k, roles, err), x \notin At(m, roles, err)
      PROVE  x = here /\ new
  <2>1. /\ x \in Place /\ x[1] \in 1 .. k.node /\ x[2] \in 1 .. Len(HistoryOf(k, x[1]))
        /\ HistoryOf(k, x[1])[x[2]].role \in roles
        /\ x[2] < Len(HistoryOf(k, x[1])) \/ EndOf(k, x[1]) = err
    BY DEF At
  <2>2. x[1] \in Nat /\ x[2] \in Nat /\ x = <<x[1], x[2]>>
    BY <2>1, PlaceIs
  <2>3. x[1] \notin 1 .. m.node - 1
    <3> SUFFICES ASSUME x[1] \in 1 .. m.node - 1 PROVE FALSE
      OBVIOUS
    <3>1. x[1] \in 1 .. m.node
      BY <1>1
    <3> QED
      BY <1>2, <1>7, <2>1, <3>1 DEF At
  <2>4. x[1] # m.node + 1
    <3> SUFFICES ASSUME x[1] = m.node + 1 PROVE FALSE
      OBVIOUS
    <3>1. k.node = m.node + 1
      BY <1>1, <1>2, <2>1
    <3>2. HistoryOf(k, x[1]) = <<>>
      BY <1>2, <3>1
    <3> QED
      BY <2>1, <3>2
  <2>5. x[1] = m.node
    BY <1>1, <1>5, <2>1, <2>3, <2>4, SMTT(60)
  <2>6. /\ x[2] \in 1 .. Len(h) /\ h[x[2]].role \in roles
        /\ x[2] < Len(h) \/ end = err
    BY <1>2, <2>1, <2>5
  <2>7. ~ (x[2] < n)
    <3> SUFFICES ASSUME x[2] < n PROVE FALSE
      OBVIOUS
    <3>1. x[2] \in 1 .. n /\ m.history[x[2]].role \in roles /\ m.node \in 1 .. m.node
      BY <1>1, <2>2, <2>6
    <3> QED
      BY <1>2, <1>7, <2>1, <2>5, <3>1 DEF At, n
  <2>8. x[2] = n /\ (Len(h) # n \/ end = err)
    <3>1. CASE Len(h) = n
      BY <1>1, <2>2, <2>6, <2>7, <3>1
    <3>2. CASE Len(h) = n + 1
      <4>1. end # err
        BY <1>1, <3>2 DEF n
      <4> QED
        BY <1>1, <2>2, <2>6, <2>7, <3>2, <4>1
    <3> QED
      BY <1>1, <3>1, <3>2
  <2>9. m.history # <<>> /\ Last(m.history).role \in roles
    <3>1. n \in 1 .. n /\ n # 0
      BY <1>1, <2>6, <2>8
    <3> QED
      BY <1>1, <1>4, <2>6, <2>8, <3>1 DEF Last, n
  <2> QED
    BY <2>2, <2>5, <2>8, <2>9 DEF here, n
<1>8. new => here \in At(k, roles, err)
  <2> SUFFICES ASSUME new PROVE here \in At(k, roles, err)
    OBVIOUS
  <2>1. n \in 1 .. n /\ n \in 1 .. Len(h)
    BY <1>1, <1>4
  <2>2. h[n].role \in roles
    BY <1>1, <2>1 DEF Last, n
  <2>3. n < Len(h) \/ end = err
    BY <1>1
  <2>4. m.node \in 1 .. k.node
    BY <1>1, <1>5
  <2> QED
    BY <1>2, <1>3, <2>1, <2>2, <2>3, <2>4 DEF At
<1>9. \A x : x \in At(k, roles, err) <=> x \in At(m, roles, err) \/ (x = here /\ new)
  BY <1>6, <1>7, <1>8
<1> QED
  BY <1>6, <1>9 DEF here, n, Here, Grows

LEMMA SameSeq ==
  ASSUME NEW S, NEW s \in Seq(S), NEW t \in Seq(S), Len(s) = Len(t), \A i \in 1 .. Len(s) : s[i] = t[i]
  PROVE  s = t
OBVIOUS

LEMMA FrontIs ==
  ASSUME NEW S, NEW s \in Seq(S), NEW n \in Nat, n <= Len(s)
  PROVE  /\ SubSeq(s, 1, n) \in Seq(S) /\ Len(SubSeq(s, 1, n)) = n
         /\ \A i \in 1 .. n : SubSeq(s, 1, n)[i] = s[i] /\ i \in 1 .. Len(s)
         /\ n = Len(s) => SubSeq(s, 1, n) = s
OBVIOUS

LEMMA MaskedIs ==
  ASSUME NEW h \in Seq(Msg)
  PROVE  /\ Masked(h) \in Seq(Msg) /\ Len(Masked(h)) = Len(h) /\ Len(h) \in Nat
         /\ \A i \in 1 .. Len(h) : /\ h[i] \in Msg /\ Masked(h)[i] = Says(h[i].role, Mask(h[i].text))
                                   /\ Masked(h)[i].role = h[i].role /\ Masked(h)[i].text = Mask(h[i].text)
<1>1. DOMAIN h = 1 .. Len(h) /\ Len(h) \in Nat
  OBVIOUS
<1>2. \A x \in Msg : [x EXCEPT !.text = Mask(@)] = Says(x.role, Mask(x.text))
  BY DEF Msg, Says
<1>3. \A x \in Msg : Says(x.role, Mask(x.text)) \in Msg /\ Says(x.role, Mask(x.text)).role = x.role
                     /\ Says(x.role, Mask(x.text)).text = Mask(x.text)
  BY MsgIs, SaysIs, MaskIs
<1>4. Masked(h) = [i \in 1 .. Len(h) |-> Says(h[i].role, Mask(h[i].text))]
  BY <1>1, <1>2 DEF Masked
<1>5. Masked(h) \in Seq(Msg) /\ Len(Masked(h)) = Len(h)
  BY <1>1, <1>3, <1>4
<1> QED
  BY <1>1, <1>3, <1>4, <1>5

\* An entry looks no further than the answer.
LEMMA EntrySame ==
  ASSUME NEW g \in Seq(Msg), NEW h \in Seq(Msg), Len(g) <= Len(h), \A i \in 1 .. Len(g) : h[i] = g[i],
         NEW i \in 1 .. Len(g), i < Len(g)
  PROVE  LlmEntry(h, i) = LlmEntry(g, i) /\ ToolEntry(h, i) = ToolEntry(g, i)
<1>1. Len(g) \in Nat /\ Len(h) \in Nat /\ i \in Nat /\ i <= Len(g) /\ i <= Len(h) /\ i < Len(h) /\ i + 1 \in 1 .. Len(g)
  OBVIOUS
<1>2. /\ SubSeq(h, 1, i) \in Seq(Msg) /\ SubSeq(g, 1, i) \in Seq(Msg)
      /\ Len(SubSeq(h, 1, i)) = i /\ Len(SubSeq(g, 1, i)) = i
      /\ \A j \in 1 .. i : SubSeq(h, 1, i)[j] = SubSeq(g, 1, i)[j]
  BY <1>1, FrontIs
<1>3. SubSeq(h, 1, i) = SubSeq(g, 1, i)
  BY <1>2, SameSeq
<1>4. h[i] = g[i] /\ h[i + 1] = g[i + 1]
  BY <1>1
<1> QED
  BY <1>1, <1>3, <1>4 DEF LlmEntry, ToolEntry

Origin == <<1, 0>>

\* A tape that lists the requests of a run lists them after its next step.
LEMMA LlmGrows ==
  ASSUME NEW m, NEW k, NEW h, NEW end, Sound(plan, m), Said(m, k, h, end),
         Len(h) # Len(m.history) => end # "llm_error",
         NEW S, NEW s \in Seq(S), Lists(s, LlmLog(m), Origin, TRUE)
  PROVE  Lists(IF Grows(m, h, end, Asks, "llm_error")
               THEN Append(s, LlmEntry(h, Len(m.history))) ELSE s,
               LlmLog(k), Origin, TRUE)
<1> DEFINE n == Len(m.history)
           here == Here(m)
           new == Grows(m, h, end, Asks, "llm_error")
           f == LlmLog(m)
           g == LlmLog(k)
<1>1. /\ m.history \in Seq(Msg) /\ h \in Seq(Msg) /\ n \in Nat /\ Len(h) \in {n, n + 1} /\ m.node \in Nat \ {0}
      /\ Len(m.done) \in Nat /\ \A i \in 1 .. n : h[i] = m.history[i]
  BY SoundIs DEF Said
<1>2. /\ \A x : x \in LlmAt(k) <=> x \in LlmAt(m) \/ (x = here /\ new)
      /\ \A x \in LlmAt(m) :
           /\ x \in Place /\ Before(x, here) /\ x[1] \in 1 .. m.node
           /\ x[2] \in 1 .. Len(HistoryOf(m, x[1]))
           /\ x[1] = m.node => HistoryOf(m, x[1]) = m.history /\ HistoryOf(k, x[1]) = h
                               /\ x[2] < n
           /\ x[1] # m.node => HistoryOf(k, x[1]) = HistoryOf(m, x[1])
  <2>1. "llm_error" # "running"
    OBVIOUS
  <2> QED
    BY <1>1, <2>1, AtStep DEF LlmAt
<1>3. DOMAIN f = LlmAt(m) /\ DOMAIN g = LlmAt(k)
  BY DEF LlmLog
<1>4. \A x \in LlmAt(m) : x \in LlmAt(k) /\ LlmEntry(HistoryOf(k, x[1]), x[2]) = LlmEntry(HistoryOf(m, x[1]), x[2])
  <2> TAKE x \in LlmAt(m)
  <2>1. CASE x[1] = m.node
    <3>1. Len(m.history) <= Len(h) /\ x[2] \in 1 .. n /\ x[2] < n
      BY <1>1, <1>2, <2>1
    <3>2. LlmEntry(h, x[2]) = LlmEntry(m.history, x[2]) /\ ToolEntry(h, x[2]) = ToolEntry(m.history, x[2])
      BY <1>1, <3>1, EntrySame
    <3>3. h[x[2]] = m.history[x[2]]
      BY <1>1, <3>1
    <3> QED
      BY <1>2, <2>1, <3>2, <3>3
  <2>2. CASE x[1] # m.node
    BY <1>2, <2>2
  <2> QED
    BY <2>1, <2>2
<1>5. \A x \in LlmAt(m) : g[x] = f[x] /\ Before(x, here)
  BY <1>2, <1>4 DEF LlmLog
<1>6. here \in Place /\ here[1] = m.node /\ here[2] = n /\ Origin \in Place /\ Origin[1] = 1 /\ Origin[2] = 0
  BY <1>1, PlaceIs DEF Origin, Here
<1>7. ~ Before(here, Origin)
  BY <1>1, <1>6 DEF Before
<1>8. new => g[here] = LlmEntry(h, n)
  <2>1. new => here \in LlmAt(k)
    BY <1>2
  <2>2. HistoryOf(k, m.node) = h
    BY <1>1, SaidTale
  <2> QED
    BY <1>6, <2>1, <2>2 DEF LlmLog
<1> HIDE DEF f, g, here
<1>9. CASE new
  <2>1. DOMAIN g = DOMAIN f \cup {here} /\ DOMAIN f \subseteq Place
    BY <1>2, <1>3, <1>9
  <2>2. Lists(s, f, Origin, TRUE)
    BY DEF f
  <2>3. Lists(Append(s, g[here]), g, Origin, TRUE)
    BY <1>3, <1>5, <1>6, <1>7, <2>1, <2>2, ListsAppend, ZenonT(60)
  <2> QED
    BY <1>8, <1>9, <2>3 DEF g
<1>10. CASE ~ new
  <2>1. DOMAIN g = DOMAIN f
    BY <1>2, <1>3, <1>10
  <2>2. g = f
    <3>1. f = [x \in DOMAIN f |-> f[x]] /\ g = [x \in DOMAIN g |-> g[x]]
      BY DEF f, g, LlmLog
    <3> QED
      BY <1>3, <1>5, <2>1, <3>1
  <2> QED
    BY <1>10, <2>2 DEF f, g
<1> QED
  BY <1>9, <1>10

\* The same of the tool calls, of which denied ones leave no entry.
LEMMA ToolGrows ==
  ASSUME NEW m, NEW k, NEW h, NEW end, Sound(plan, m), Said(m, k, h, end),
         Len(h) # Len(m.history) => end # "tool_error",
         NEW S, NEW s \in Seq(S), Lists(s, ToolLog(m), Origin, TRUE)
  PROVE  Lists(IF Grows(m, h, end, Tools, "tool_error") /\ Kept(h, Len(m.history))
               THEN Append(s, ToolEntry(h, Len(m.history))) ELSE s,
               ToolLog(k), Origin, TRUE)
<1> DEFINE n == Len(m.history)
           here == Here(m)
           said == Grows(m, h, end, Tools, "tool_error")
           new == said /\ Kept(h, n)
           f == ToolLog(m)
           g == ToolLog(k)
<1>1. /\ m.history \in Seq(Msg) /\ h \in Seq(Msg) /\ n \in Nat /\ Len(h) \in {n, n + 1} /\ m.node \in Nat \ {0}
      /\ Len(m.done) \in Nat /\ \A i \in 1 .. n : h[i] = m.history[i]
  BY SoundIs DEF Said
<1>2. /\ \A x : x \in At(k, Tools, "tool_error") <=> x \in At(m, Tools, "tool_error") \/ (x = here /\ said)
      /\ \A x \in At(m, Tools, "tool_error") :
           /\ x \in Place /\ Before(x, here) /\ x[1] \in 1 .. m.node
           /\ x[2] \in 1 .. Len(HistoryOf(m, x[1]))
           /\ x[1] = m.node => HistoryOf(m, x[1]) = m.history /\ HistoryOf(k, x[1]) = h
                               /\ x[2] < n
           /\ x[1] # m.node => HistoryOf(k, x[1]) = HistoryOf(m, x[1])
  <2>1. "tool_error" # "running"
    OBVIOUS
  <2> QED
    BY <1>1, <2>1, AtStep
<1>3. DOMAIN f = ToolAt(m) /\ DOMAIN g = ToolAt(k)
  BY DEF ToolLog
<1>4. \A x \in At(m, Tools, "tool_error") :
        /\ ToolEntry(HistoryOf(k, x[1]), x[2]) = ToolEntry(HistoryOf(m, x[1]), x[2])
        /\ Kept(HistoryOf(k, x[1]), x[2]) <=> Kept(HistoryOf(m, x[1]), x[2])
  <2> TAKE x \in At(m, Tools, "tool_error")
  <2>1. CASE x[1] = m.node
    <3>1. Len(m.history) <= Len(h) /\ x[2] \in 1 .. n /\ x[2] < n
      BY <1>1, <1>2, <2>1
    <3>2. LlmEntry(h, x[2]) = LlmEntry(m.history, x[2]) /\ ToolEntry(h, x[2]) = ToolEntry(m.history, x[2])
      BY <1>1, <3>1, EntrySame
    <3>3. Kept(h, x[2]) <=> Kept(m.history, x[2])
      <4>1. x[2] + 1 \in 1 .. n /\ x[2] < Len(h) /\ h[x[2] + 1] = m.history[x[2] + 1]
        BY <1>1, <3>1
      <4> QED
        BY <3>1, <4>1 DEF Kept
    <3> QED
      BY <1>2, <2>1, <3>2, <3>3
  <2>2. CASE x[1] # m.node
    BY <1>2, <2>2
  <2> QED
    BY <2>1, <2>2
<1>5. \A x \in ToolAt(m) : x \in ToolAt(k) /\ g[x] = f[x] /\ Before(x, here)
  BY <1>2, <1>4 DEF ToolLog, ToolAt
<1>6. here \in Place /\ here[1] = m.node /\ here[2] = n /\ Origin \in Place /\ Origin[1] = 1 /\ Origin[2] = 0
  BY <1>1, PlaceIs DEF Origin, Here
<1>7. ~ Before(here, Origin)
  BY <1>1, <1>6 DEF Before
<1>8. HistoryOf(k, m.node) = h
  BY <1>1, SaidTale
<1>9. Kept(HistoryOf(k, here[1]), here[2]) <=> Kept(h, n)
  BY <1>6, <1>8
<1>10. \A x : x \in ToolAt(k) <=> x \in ToolAt(m) \/ (x = here /\ new)
  <2>1. \A x : x \in ToolAt(k) => x \in ToolAt(m) \/ (x = here /\ new)
    BY <1>2, <1>4, <1>6, <1>9 DEF ToolAt
  <2>2. new => here \in ToolAt(k)
    BY <1>2, <1>6, <1>9 DEF ToolAt
  <2> QED
    BY <1>5, <2>1, <2>2
<1>11. new => g[here] = ToolEntry(h, n)
  <2>1. new => here \in ToolAt(k)
    BY <1>10
  <2> QED
    BY <1>6, <1>8, <2>1 DEF ToolLog
<1>12. CASE new
  <2> HIDE DEF f, g, here
  <2>1. DOMAIN g = DOMAIN f \cup {here} /\ DOMAIN f \subseteq Place
    BY <1>2, <1>3, <1>10, <1>12 DEF ToolAt
  <2>2. Lists(s, f, Origin, TRUE)
    BY DEF f
  <2>3. Lists(Append(s, g[here]), g, Origin, TRUE)
    BY <1>3, <1>5, <1>6, <1>7, <2>1, <2>2, ListsAppend, ZenonT(60)
  <2> QED
    BY <1>11, <1>12, <2>3 DEF g
<1>13. CASE ~ new
  <2>1. DOMAIN g = DOMAIN f
    BY <1>3, <1>10, <1>13
  <2>2. f = [x \in DOMAIN f |-> f[x]] /\ g = [x \in DOMAIN g |-> g[x]]
    BY DEF ToolLog
  <2> HIDE DEF f, g
  <2>3. g = f
    BY <1>3, <1>5, <2>1, <2>2
  <2> QED
    BY <1>13, <2>3 DEF f, g
<1> QED
  BY <1>12, <1>13


-----------------------------------------------------------------------------
(* The recorded run: what its conversations hold, whatever the plan.        *)

\* No model answers with the mark that scrubbing the YAML leaves.
Plain == \A a \in Answers : a.text # "scrubbed"

\* The recording denied a call of this tool as the replay does.
Repeats(p, n, role) == Denial(role, p[n].allow) = DenialOnReplay(role)

\* What a call is answered.
Fits(p, n, role, t) ==
  /\ t \notin {"secret", "error"}
  /\ role \notin Effectful => t \notin Denials
  /\ role \in Effectful => (t = DenialOnReplay(role) <=> Repeats(p, n, role))

Heard(p, n, h) ==
  \A i \in 1 .. Len(h) :
    h[i].role \in Tools /\ i < Len(h) => Fits(p, n, h[i].role, h[i + 1].text)

\* What the last word says of the end.
Closed(h, end) ==
  /\ h = <<>> => end \in {"skipped", "template"}
  /\ h # <<>> /\ Last(h).role \in Asks =>
       end \in {"llm_error", "lost", "limit"} /\ (end = "limit" <=> Len(h) > Limit)
  /\ h # <<>> /\ Last(h).role \in Tools => end \in {"tool_error", "lost"}

\* How node n began, after prev.
Begins(p, n, prev, h, end) ==
  /\ p[n].prompt \in {"fixed", "var"} => h # <<>> /\ h[1].text = "plain"
  /\ p[n].prompt = "literal" => h # <<>> /\ h[1].text = "secret"
  /\ p[n].prompt = "output" /\ n > 1 =>
       IF prev.end # "ok" THEN end = "skipped" /\ h = <<>>
       ELSE IF prev.output = "none" THEN end = "template" /\ h = <<>>
       ELSE h # <<>> /\ h[1].text = prev.output

\* What the model says is one of the answers; what it is asked, not scrubbed.
Spoken(h) ==
  \A i \in 1 .. Len(h) :
    /\ h[i].role \in Replies => h[i] \in Answers
    /\ Plain /\ h[i].role = "user" => h[i].text # "scrubbed"

Story(p, n, prev, h, end) ==
  Heard(p, n, h) /\ (end # "running" => Closed(h, end)) /\ Begins(p, n, prev, h, end) /\ Spoken(h)

Tale(p, m) ==
  /\ \A n \in 1 .. m.node :
       n \in 1 .. Len(m.done) \/ m.history # <<>> =>
         Story(p, n, m.done[n - 1], HistoryOf(m, n), EndOf(m, n))
  /\ Plain => m.state # "scrubbed" /\ \A n \in 1 .. Len(m.done) : m.done[n].state # "scrubbed"

\* Each step tells the next part of the story of one node.
LEMMA TaleGoesOn ==
  ASSUME NEW m, Sound(plan, m), Tale(plan, m), NEW k, NEW h, NEW end, Said(m, k, h, end),
         Story(plan, m.node, m.done[m.node - 1], h, end),
         Plain => k.state # "scrubbed" /\ (end # "running" => k.done[m.node].state # "scrubbed")
  PROVE  Tale(plan, k)
<1>1. /\ \A n \in 1 .. m.node - 1 : HistoryOf(k, n) = HistoryOf(m, n) /\ EndOf(k, n) = EndOf(m, n)
      /\ HistoryOf(k, m.node) = h /\ EndOf(k, m.node) = end
      /\ k.node \in {m.node, m.node + 1} /\ m.node \in Nat \ {0} /\ Len(m.done) = m.node - 1
  BY SoundIs, SaidTale
<1>2. /\ end = "running" => k.node = m.node /\ k.done = m.done
      /\ end # "running" => k.node = m.node + 1 /\ Len(k.done) = m.node /\ k.history = <<>>
      /\ \A n \in 1 .. m.node - 1 : k.done[n] = m.done[n]
  BY <1>1 DEF Said
<1>3. ASSUME NEW n \in 1 .. k.node, n \in 1 .. Len(k.done) \/ k.history # <<>>
      PROVE  Story(plan, n, k.done[n - 1], HistoryOf(k, n), EndOf(k, n))
  <2>1. n \in 1 .. m.node
    BY <1>1, <1>2, <1>3
  <2>2. n > 1 => k.done[n - 1] = m.done[n - 1]
    BY <1>1, <1>2, <2>1
  <2>3. Story(plan, n, m.done[n - 1], HistoryOf(k, n), EndOf(k, n))
    <3>1. CASE n = m.node
      BY <1>1, <3>1
    <3>2. CASE n # m.node
      <4>1. n \in 1 .. m.node - 1
        BY <1>1, <2>1, <3>2
      <4> QED
        BY <1>1, <2>1, <4>1 DEF Tale
    <3> QED
      BY <3>1, <3>2
  <2> QED
    BY <2>2, <2>3 DEF Story, Begins
<1>4. Plain => k.state # "scrubbed" /\ \A n \in 1 .. Len(k.done) : k.done[n].state # "scrubbed"
  <2> SUFFICES ASSUME Plain PROVE k.state # "scrubbed" /\ \A n \in 1 .. Len(k.done) : k.done[n].state # "scrubbed"
    OBVIOUS
  <2>1. \A n \in 1 .. Len(k.done) : n \in 1 .. Len(m.done) \/ (end # "running" /\ n = m.node)
    BY <1>1, <1>2
  <2> QED
    BY <1>1, <1>2, <2>1 DEF Tale
<1> QED
  BY <1>3, <1>4 DEF Tale

\* One message more.
LEMMA StoryGoesOn ==
  ASSUME NEW n, NEW prev, NEW g \in Seq(Msg), g # <<>>, Story(plan, n, prev, g, "running"),
         NEW x \in Msg, NEW end,
         Last(g).role \in Tools => Fits(plan, n, Last(g).role, x.text),
         x.role = "result" \/ x \in Answers,
         end # "running" => Closed(Append(g, x), end)
  PROVE  Story(plan, n, prev, Append(g, x), end)
<1> DEFINE h == Append(g, x)
           l == Len(g)
<1>1. /\ h # <<>> /\ l \in Nat /\ Len(h) = l + 1 /\ h[l + 1] = x /\ l # 0
      /\ \A i \in 1 .. l : h[i] = g[i]
  BY AppendIs
<1>2. Last(g) = g[l] /\ l \in 1 .. l /\ 1 \in 1 .. l
  BY <1>1 DEF Last
<1> HIDE DEF h, l
<1>3. Heard(plan, n, h)
  <2> SUFFICES ASSUME NEW i \in 1 .. l + 1, h[i].role \in Tools, i < l + 1
               PROVE  Fits(plan, n, h[i].role, h[i + 1].text)
    BY <1>1 DEF Heard
  <2>1. i \in 1 .. l /\ h[i] = g[i]
    BY <1>1
  <2>2. CASE i = l
    BY <1>1, <1>2, <2>1, <2>2
  <2>3. CASE i # l
    <3>1. i < l /\ i + 1 \in 1 .. l
      BY <1>1, <2>1, <2>3
    <3> QED
      BY <1>1, <2>1, <3>1 DEF Story, Heard, l
  <2> QED
    BY <2>2, <2>3
<1>4. Begins(plan, n, prev, h, end)
  BY <1>1, <1>2 DEF Story, Begins
<1>5. Spoken(h)
  <2> SUFFICES ASSUME NEW i \in 1 .. l + 1
               PROVE  /\ h[i].role \in Replies => h[i] \in Answers
                      /\ Plain /\ h[i].role = "user" => h[i].text # "scrubbed"
    BY <1>1 DEF Spoken
  <2>1. i \in 1 .. l \/ i = l + 1
    BY <1>1
  <2>2. x.role # "user" /\ (x.role \in Replies => x \in Answers)
    BY RolesDiffer, AnswersAreMsgs
  <2> QED
    BY <1>1, <2>1, <2>2 DEF Story, Spoken, l
<1> QED
  BY <1>3, <1>4, <1>5 DEF Story, h

\* The end, without another message.
LEMMA StoryStops ==
  ASSUME NEW n, NEW prev, NEW h, h # <<>>, Story(plan, n, prev, h, "running"), NEW end, Closed(h, end)
  PROVE  Story(plan, n, prev, h, end)
BY DEF Story, Begins

LlmEntries == [key : Seq(Msg), res : [role : Replies \cup {"error"}, text : Texts]]

ToolEntries == [key : Msg, res : Texts]

Tapes == [llm : Seq(LlmEntries), tool : Seq(ToolEntries)]

\* The run so far is on the tapes: all of it or, of a cut bundle, a first part.
Taped(m, t, full) ==
  t \in Tapes /\ Lists(t.llm, LlmLog(m), Origin, full) /\ Lists(t.tool, ToolLog(m), Origin, full)

Live(p, m, t) == Sound(p, m) /\ Tale(p, m) /\ Taped(m, t, TRUE)

\* What an entry holds.
LEMMA EntryTypes ==
  ASSUME NEW h \in Seq(Msg), NEW i \in 1 .. Len(h)
  PROVE  /\ (i < Len(h) => h[i + 1].role \in Replies) => LlmEntry(h, i) \in LlmEntries
         /\ ToolEntry(h, i) \in ToolEntries
<1>1. Len(h) \in Nat /\ i \in Nat /\ i <= Len(h) /\ h[i] \in Msg /\ (i < Len(h) => h[i + 1] \in Msg)
  OBVIOUS
<1>2. Masked(SubSeq(h, 1, i)) \in Seq(Msg)
  BY <1>1, FrontIs, MaskedIs
<1>3. "error" \in Texts /\ "none" \in Texts
  BY DEF Texts
<1>4. i < Len(h) => h[i + 1].text \in Texts /\ Mask(h[i + 1].text) \in Texts
  BY <1>1, MsgIs, MaskIs
<1>5. (i < Len(h) => h[i + 1].role \in Replies) => LlmEntry(h, i) \in LlmEntries
  BY <1>2, <1>3, <1>4 DEF LlmEntry, LlmEntries, Says
<1>6. ToolEntry(h, i) \in ToolEntries
  BY <1>1, <1>3, <1>4 DEF ToolEntry, ToolEntries
<1> QED
  BY <1>5, <1>6

\* A step of the recorded run writes what it adds to the log.
LEMMA LiveGoesOn ==
  ASSUME NEW m, NEW t, Live(plan, m, t), m.pc # "stop",
         NEW k, NEW h, NEW end, Sound(plan, k), Said(m, k, h, end),
         Len(h) # Len(m.history) => end # "llm_error" /\ end # "tool_error",
         Story(plan, m.node, m.done[m.node - 1], h, end),
         Plain => k.state # "scrubbed" /\ (end # "running" => k.done[m.node].state # "scrubbed"),
         NEW u, u = [llm |-> u.llm, tool |-> u.tool],
         u.llm = IF Grows(m, h, end, Asks, "llm_error")
                 THEN Append(t.llm, LlmEntry(h, Len(m.history))) ELSE t.llm,
         u.tool = IF Grows(m, h, end, Tools, "tool_error") /\ Kept(h, Len(m.history))
                  THEN Append(t.tool, ToolEntry(h, Len(m.history))) ELSE t.tool
  PROVE  Live(plan, k, u)
<1>1. Sound(plan, m) /\ Tale(plan, m) /\ Taped(m, t, TRUE)
  BY DEF Live
<1>2. Tale(plan, k)
  BY <1>1, TaleGoesOn
<1>3. t.llm \in Seq(LlmEntries) /\ t.tool \in Seq(ToolEntries)
  BY <1>1 DEF Taped, Tapes
<1>4. Lists(u.llm, LlmLog(k), Origin, TRUE)
  BY <1>1, <1>3, LlmGrows, ZenonT(60) DEF Taped
<1>5. Lists(u.tool, ToolLog(k), Origin, TRUE)
  BY <1>1, <1>3, ToolGrows, ZenonT(60) DEF Taped
<1>6. /\ m.history \in Seq(Msg) /\ h \in Seq(Msg) /\ Grammar(h) /\ Len(h) \in Nat
      /\ Len(h) \in {Len(m.history), Len(m.history) + 1} /\ Len(m.history) \in Nat
      /\ \A i \in 1 .. Len(m.history) : h[i] = m.history[i]
  BY <1>1, SoundIs DEF Said
<1>7. u.llm \in Seq(LlmEntries)
  <2>1. CASE Grows(m, h, end, Asks, "llm_error")
    <3>1. Len(m.history) \in 1 .. Len(h) /\ h[Len(m.history)].role \in Asks
      BY <1>6, <2>1, SMTT(60) DEF Grows, Last
    <3>2. Len(m.history) < Len(h) => h[Len(m.history) + 1].role \in Replies
      BY <1>6, <3>1 DEF Grammar
    <3>3. LlmEntry(h, Len(m.history)) \in LlmEntries
      BY <1>6, <3>1, <3>2, EntryTypes
    <3> QED
      BY <1>3, <2>1, <3>3, AppendIs
  <2>2. CASE ~ Grows(m, h, end, Asks, "llm_error")
    BY <1>3, <2>2
  <2> QED
    BY <2>1, <2>2
<1>8. u.tool \in Seq(ToolEntries)
  <2>1. Grows(m, h, end, Tools, "tool_error") => Len(m.history) \in 1 .. Len(h)
    BY <1>6 DEF Grows
  <2>2. Grows(m, h, end, Tools, "tool_error") => ToolEntry(h, Len(m.history)) \in ToolEntries
    BY <1>6, <2>1, EntryTypes
  <2> QED
    BY <1>3, <2>2, AppendIs
<1>9. Taped(k, u, TRUE)
  BY <1>4, <1>5, <1>7, <1>8 DEF Taped, Tapes
<1> QED
  BY <1>2, <1>9 DEF Live

\* A node that starts.
LEMMA StoryBegins ==
  ASSUME NEW n, NEW prev, NEW t \in Texts, Plain => t # "scrubbed",
         plan[n].prompt \in {"fixed", "var"} => t = "plain",
         plan[n].prompt = "literal" => t = "secret",
         plan[n].prompt = "output" => prev.end = "ok" /\ prev.output # "none" /\ t = prev.output
  PROVE  Story(plan, n, prev, <<Says("user", t)>>, "running")
<1> DEFINE h == <<Says("user", t)>>
<1>1. Len(h) = 1 /\ h[1].role = "user" /\ h[1].text = t /\ h # <<>>
  BY SaysIs
<1>2. \A i \in 1 .. 1 : i = 1 /\ ~ (i < 1)
  OBVIOUS
<1>3. "user" \notin Replies
  BY RolesDiffer
<1> HIDE DEF h
<1>4. Heard(plan, n, h)
  BY <1>1, <1>2 DEF Heard
<1>5. Spoken(h)
  BY <1>1, <1>2, <1>3 DEF Spoken
<1>6. Begins(plan, n, prev, h, "running")
  BY <1>1 DEF Begins
<1> QED
  BY <1>4, <1>5, <1>6 DEF Story, h

\* A node that is over before it says a word.
LEMMA StoryEmpty ==
  ASSUME NEW n, NEW prev, NEW end \in {"skipped", "template"}, plan[n].prompt \notin {"fixed", "var", "literal"},
         plan[n].prompt = "output" =>
           \/ prev.end # "ok" /\ end = "skipped"
           \/ prev.end = "ok" /\ prev.output = "none" /\ end = "template"
  PROVE  Story(plan, n, prev, <<>>, end)
<1>1. Len(<<>>) = 0 /\ 1 .. 0 = {}
  OBVIOUS
<1>2. Heard(plan, n, <<>>) /\ Spoken(<<>>)
  BY <1>1 DEF Heard, Spoken
<1>3. Closed(<<>>, end)
  BY DEF Closed
<1>4. Begins(plan, n, prev, <<>>, end)
  BY DEF Begins
<1> QED
  BY <1>2, <1>3, <1>4 DEF Story

\* The output of a node and its state are not what scrubbing leaves.
LEMMA OutputIsPlain ==
  ASSUME NEW m, Sound(plan, m), Tale(plan, m), NEW n \in 1 .. Len(m.done), Plain
  PROVE  m.done[n].output # "scrubbed" /\ m.done[n].state # "scrubbed"
<1> DEFINE d == m.done[n]
<1>1. d.history \in Seq(Msg) /\ Len(d.history) \in Nat /\ n \in 1 .. m.node /\ Over(d)
  <2>1. /\ d.history \in Seq(Msg) /\ Len(d.history) \in Nat
        /\ m.node \in Nat /\ Len(m.done) \in Nat /\ Len(m.done) + 1 = m.node
    BY SoundIs
  <2>2. Over(d)
    BY DEF Sound
  <2> QED
    BY <2>1, <2>2
<1>2. Spoken(d.history)
  BY <1>1 DEF Tale, Story, HistoryOf
<1>3. CASE d.end = "ok"
  <2>1. /\ d.history # <<>> /\ Last(d.history).role = "final" /\ Len(d.history) \in 1 .. Len(d.history)
        /\ Last(d.history) = d.history[Len(d.history)] /\ d.output = Last(d.history).text
    BY <1>1, <1>3 DEF Over, Last
  <2>2. Last(d.history) \in Answers
    BY <1>2, <2>1, RolesDiffer DEF Spoken
  <2> QED
    BY <2>1, <2>2 DEF Plain, Tale
<1>4. CASE d.end # "ok"
  BY <1>1, <1>4 DEF Over, Tale
<1> QED
  BY <1>3, <1>4

\* Opening a node writes nothing.
LEMMA OpenKeeps ==
  ASSUME plan \in Plans, NEW m, NEW t, Live(plan, m, t), m.pc = "open"
  PROVE  Live(plan, Opened(m, TRUE), t)
<1> DEFINE prev == m.done[m.node - 1]
           kind == plan[m.node].prompt
           k == Opened(m, TRUE)
<1>1. Sound(plan, m) /\ Tale(plan, m) /\ t = [llm |-> t.llm, tool |-> t.tool] /\ m.history = <<>> /\ Len(m.history) = 0
  BY DEF Live, Taped, Tapes, Sound
<1>2. \A h, end, roles, err : ~ Grows(m, h, end, roles, err)
  BY <1>1 DEF Grows
<1>3. Plain => m.state # "scrubbed"
  BY <1>1 DEF Tale
<1>4. m.node - 1 \in 1 .. Len(m.done) =>
        /\ prev.output \in Texts /\ prev.state \in Texts
        /\ Plain => prev.output # "scrubbed" /\ prev.state # "scrubbed"
  <2>1. m.node - 1 \in 1 .. Len(m.done) => prev \in Done
    BY <1>1, SoundIs
  <2> QED
    BY <1>1, <2>1, OutputIsPlain DEF Done
<1>5. ASSUME NEW x \in Texts, k = Begun(m, x), Plain => x # "scrubbed",
             kind \in {"fixed", "var"} => x = "plain",
             kind = "literal" => x = "secret",
             kind = "output" => prev.end = "ok" /\ prev.output # "none" /\ x = prev.output
      PROVE  Live(plan, k, t)
  <2> DEFINE h == <<Says("user", x)>>
  <2>1. Story(plan, m.node, prev, h, "running")
    BY <1>5, StoryBegins
  <2>2. Sound(plan, k) /\ Said(m, k, h, "running") /\ k.state = m.state
    BY <1>1, <1>5, BegunIs
  <2>3. "running" # "llm_error" /\ "running" # "tool_error" /\ m.pc # "stop"
    OBVIOUS
  <2> HIDE DEF h, k
  <2> QED
    BY <1>1, <1>2, <1>3, <2>1, <2>2, <2>3, LiveGoesOn
<1>6. ASSUME NEW end \in {"skipped", "template"}, k = Failed(m, end), kind \notin {"fixed", "var", "literal"},
             kind = "output" =>
               \/ prev.end # "ok" /\ end = "skipped"
               \/ prev.end = "ok" /\ prev.output = "none" /\ end = "template"
      PROVE  Live(plan, k, t)
  <2>1. Story(plan, m.node, prev, <<>>, end)
    BY <1>6, StoryEmpty
  <2>2. end \in Ends /\ end # "ok" /\ m.pc # "stop" /\ Alike(m, m) /\ Len(m.history) = Len(<<>>)
    BY <1>1, EndNames, SoundIs
  <2> HIDE DEF k
  <2>3. Sound(plan, k) /\ Said(m, k, m.history, end) /\ k.state = "none" /\ k.done[m.node].state = m.state
    <3>1. m.history = <<>> \/ Last(m.history).role # "final"
      BY <1>1
    <3> QED
      BY <1>1, <1>6, <2>2, <3>1, FailedIs
  <2> QED
    BY <1>1, <1>2, <1>3, <2>1, <2>2, <2>3, LiveGoesOn DEF prev
<1>7. "plain" \in Texts /\ "secret" \in Texts /\ "plain" # "scrubbed" /\ "secret" # "scrubbed"
  BY DEF Texts
<1>8. /\ kind \in Prompts
      /\ kind = "fixed" => k = Begun(m, "plain")
      /\ kind = "literal" => k = Begun(m, "secret")
      /\ kind = "var" => k = Begun(m, "plain")
      /\ kind = "inputs" => k = Begun(m, "secret")
      /\ kind = "output" =>
           /\ m.node - 1 \in 1 .. Len(m.done)
           /\ k = IF prev.end # "ok" THEN Failed(m, "skipped")
                  ELSE IF prev.output = "none" THEN Failed(m, "template") ELSE Begun(m, prev.output)
      /\ kind = "state" =>
           /\ m.node - 1 \in 1 .. Len(m.done)
           /\ k = IF prev.end # "ok" THEN Failed(m, "skipped")
                  ELSE IF prev.state = "none" THEN Failed(m, "template") ELSE Begun(m, prev.state)
  BY <1>1, OpenedIs
<1> SUFFICES Live(plan, k, t)
  OBVIOUS
<1> HIDE DEF k, kind, prev
<1>9. CASE kind = "fixed" \/ kind = "var"
  <2>1. k = Begun(m, "plain") /\ kind # "literal" /\ kind # "output"
    BY <1>8, <1>9
  <2> QED
    BY <1>5, <1>7, <2>1
<1>12. CASE kind = "literal" \/ kind = "inputs"
  <2>1. k = Begun(m, "secret") /\ kind \notin {"fixed", "var"} /\ kind # "output"
    BY <1>8, <1>12
  <2> QED
    BY <1>5, <1>7, <2>1
<1>10. CASE kind = "output"
  <2>1. /\ m.node - 1 \in 1 .. Len(m.done) /\ kind \notin {"fixed", "var", "literal"}
        /\ k = IF prev.end # "ok" THEN Failed(m, "skipped")
               ELSE IF prev.output = "none" THEN Failed(m, "template") ELSE Begun(m, prev.output)
    BY <1>8, <1>10
  <2>2. CASE prev.end # "ok"
    BY <1>6, <2>1, <2>2
  <2>3. CASE prev.end = "ok" /\ prev.output = "none"
    BY <1>6, <1>10, <2>1, <2>3
  <2>4. CASE prev.end = "ok" /\ prev.output # "none"
    BY <1>4, <1>5, <1>10, <2>1, <2>4
  <2> QED
    BY <2>2, <2>3, <2>4
<1>11. CASE kind = "state"
  <2>1. /\ m.node - 1 \in 1 .. Len(m.done) /\ kind \notin {"fixed", "var", "literal"}
        /\ k = IF prev.end # "ok" THEN Failed(m, "skipped")
               ELSE IF prev.state = "none" THEN Failed(m, "template") ELSE Begun(m, prev.state)
    BY <1>8, <1>11
  <2>2. CASE prev.end # "ok"
    BY <1>6, <2>1, <2>2
  <2>3. CASE prev.end = "ok" /\ prev.state = "none"
    BY <1>6, <1>11, <2>1, <2>3
  <2>4. CASE prev.end = "ok" /\ prev.state # "none"
    BY <1>4, <1>5, <1>11, <2>1, <2>4
  <2> QED
    BY <2>2, <2>3, <2>4
<1> QED
  BY <1>8, <1>9, <1>10, <1>11, <1>12 DEF Prompts

\* Of the node at hand: its story so far, and what its last word may be.
LEMMA AtHand ==
  ASSUME NEW m, NEW t, Live(plan, m, t), m.pc \in {"llm", "tool"}
  PROVE  /\ Sound(plan, m) /\ t = [llm |-> t.llm, tool |-> t.tool] /\ m.pc # "stop"
         /\ m.history \in Seq(Msg) /\ m.history # <<>> /\ Len(m.history) \in Nat \ {0}
         /\ Last(m.history) = m.history[Len(m.history)] /\ Len(m.history) \in 1 .. Len(m.history)
         /\ Last(m.history) \in Msg
         /\ Story(plan, m.node, m.done[m.node - 1], m.history, "running")
         /\ m.pc = "llm" => Last(m.history).role \in Asks /\ Last(m.history).role \notin Tools /\ Len(m.history) <= Limit
         /\ m.pc = "tool" => Last(m.history).role \in Tools /\ Last(m.history).role \notin Asks
                             /\ Last(m.history) \in Answers
         /\ Last(m.history).role # "final"
         /\ Alike(m, m)
         /\ Plain => m.state # "scrubbed"
<1>1. Sound(plan, m) /\ Tale(plan, m) /\ t = [llm |-> t.llm, tool |-> t.tool] /\ m.pc # "stop"
  BY DEF Live, Taped, Tapes
<1>2. /\ m.history \in Seq(Msg) /\ m.node \in Nat \ {0} /\ Alike(m, m) /\ Len(m.done) = m.node - 1
      /\ Len(m.done) \in Nat
  BY <1>1, SoundIs
<1>3. /\ m.pc = "llm" => Asking(m.history)
      /\ m.pc = "tool" => Calling(m.history)
  BY <1>1 DEF Sound
<1>4. m.history # <<>> /\ (m.pc = "llm" => Len(m.history) <= Limit)
  BY <1>3 DEF Asking, Calling
<1>5. /\ Len(m.history) \in Nat \ {0} /\ Len(m.history) \in 1 .. Len(m.history)
      /\ Last(m.history) = m.history[Len(m.history)] /\ Last(m.history) \in Msg
  BY <1>2, <1>4 DEF Last
<1>6. Story(plan, m.node, m.done[m.node - 1], HistoryOf(m, m.node), EndOf(m, m.node))
  <2>1. m.node \in 1 .. m.node
    BY <1>2
  <2> QED
    BY <1>1, <1>4, <2>1 DEF Tale
<1>7. HistoryOf(m, m.node) = m.history /\ EndOf(m, m.node) = "running"
  BY <1>2 DEF HistoryOf, EndOf
<1>8. /\ m.pc = "llm" => Last(m.history).role \in Asks
      /\ m.pc = "tool" => Last(m.history).role \in Tools
  BY <1>3 DEF Asking, Calling
<1>9. Spoken(m.history)
  BY <1>6, <1>7 DEF Story
<1>10. m.pc = "tool" => Last(m.history) \in Answers
  BY <1>5, <1>8, <1>9, RolesDiffer DEF Spoken
<1>11. Plain => m.state # "scrubbed"
  BY <1>1 DEF Tale
<1> QED
  BY <1>1, <1>2, <1>4, <1>5, <1>6, <1>7, <1>8, <1>10, <1>11, RolesDiffer

LEMMA TapeIs ==
  ASSUME NEW t \in Tapes, NEW x
  PROVE  /\ [t EXCEPT !.llm = x] = [llm |-> x, tool |-> t.tool]
         /\ [t EXCEPT !.tool = x] = [llm |-> t.llm, tool |-> x]
         /\ t.llm \in Seq(LlmEntries) /\ t.tool \in Seq(ToolEntries)
         /\ t = [llm |-> t.llm, tool |-> t.tool]
BY DEF Tapes

\* A response and its entry.
LEMMA CompleteKeeps ==
  ASSUME NEW m, NEW t, Live(plan, m, t), m.pc = "llm", NEW a \in Answers
  PROVE  Live(plan, Answered(m, a),
              [t EXCEPT !.llm = Append(@, [key |-> Masked(m.history), res |-> Says(a.role, Mask(a.text))])])
<1> DEFINE n == Len(m.history)
           h == Append(m.history, a)
           k == Answered(m, a)
           e == [key |-> Masked(m.history), res |-> Says(a.role, Mask(a.text))]
           u == [t EXCEPT !.llm = Append(@, e)]
           end == IF a.role = "final" THEN "ok" ELSE "running"
<1>1. a \in Msg /\ a.role \in Replies /\ a.role \notin Asks
  BY AnswersAreMsgs, RolesDiffer
<1>2. /\ Sound(plan, m) /\ t = [llm |-> t.llm, tool |-> t.tool] /\ m.pc # "stop"
      /\ m.history \in Seq(Msg) /\ m.history # <<>> /\ n \in Nat \ {0}
      /\ Story(plan, m.node, m.done[m.node - 1], m.history, "running")
      /\ Last(m.history).role \in Asks /\ Last(m.history).role \notin Tools
      /\ Plain => m.state # "scrubbed"
  BY AtHand
<1>3. /\ Sound(plan, k) /\ Said(m, k, h, end)
      /\ a.role = "final" => k.state = "none" /\ k.done[m.node].state = m.state
      /\ a.role # "final" => k.state = m.state
  BY <1>1, <1>2, AnsweredIs
<1>4. /\ h \in Seq(Msg) /\ h # <<>> /\ Len(h) = n + 1 /\ h[n + 1] = a /\ Last(h) = a
      /\ \A i \in 1 .. n : h[i] = m.history[i]
  BY <1>1, <1>2, AppendIs
<1>5. u = [llm |-> Append(t.llm, e), tool |-> t.tool]
  <2>1. t \in Tapes
    BY DEF Live, Taped
  <2> HIDE DEF e
  <2>2. u = [t EXCEPT !.llm = Append(t.llm, e)]
    BY <2>1 DEF Tapes
  <2> HIDE DEF u
  <2> QED
    BY <2>1, <2>2, TapeIs
<1> HIDE DEF h, k, u
<1>6. end # "running" => Closed(h, end)
  BY <1>1, <1>4, RolesDiffer DEF Closed
<1>7. Story(plan, m.node, m.done[m.node - 1], h, end)
  BY <1>1, <1>2, <1>6, StoryGoesOn DEF h
<1>8. e = LlmEntry(h, n)
  <2>1. SubSeq(h, 1, n) \in Seq(Msg) /\ Len(SubSeq(h, 1, n)) = n /\ \A i \in 1 .. n : SubSeq(h, 1, n)[i] = h[i]
    BY <1>2, <1>4, FrontIs
  <2>2. SubSeq(h, 1, n) = m.history
    <3> DEFINE front == SubSeq(h, 1, n)
               said == m.history
               S == Msg
    <3>1. front \in Seq(S) /\ said \in Seq(S) /\ Len(front) = Len(said) /\ \A i \in 1 .. Len(front) : front[i] = said[i]
      BY <1>2, <1>4, <2>1
    <3> HIDE DEF front, said, S
    <3>2. front = said
      BY <3>1, SameSeq, ZenonT(60)
    <3> QED
      BY <3>2 DEF front, said
  <2>3. n < Len(h)
    BY <1>2, <1>4
  <2> QED
    BY <1>2, <1>4, <2>2, <2>3 DEF LlmEntry
<1>9. end \notin {"llm_error", "tool_error"} /\ (end # "running" <=> a.role = "final")
  OBVIOUS
<1> HIDE DEF end, e
<1>10. Grows(m, h, end, Asks, "llm_error") /\ ~ Grows(m, h, end, Tools, "tool_error")
  BY <1>2, <1>4 DEF Grows
<1>11. /\ u = [llm |-> u.llm, tool |-> u.tool]
       /\ u.llm = Append(t.llm, LlmEntry(h, Len(m.history))) /\ u.tool = t.tool
  BY <1>5, <1>8
<1>12. Plain => k.state # "scrubbed" /\ (end # "running" => k.done[m.node].state # "scrubbed")
  BY <1>2, <1>3, <1>9
<1>13. Live(plan, k, u)
  BY <1>2, <1>3, <1>7, <1>9, <1>10, <1>11, <1>12, LiveGoesOn
<1> QED
  BY <1>13 DEF k, u, e

\* A failure, with the entry of an error or with none.
LEMMA FailKeeps ==
  ASSUME NEW m, NEW t, Live(plan, m, t), m.pc \in {"llm", "tool"}, NEW end, Closed(m.history, end),
         NEW u, u = [llm |-> u.llm, tool |-> u.tool],
         u.llm = IF end = "llm_error"
                 THEN Append(t.llm, [key |-> Masked(m.history), res |-> Says("error", "none")]) ELSE t.llm,
         u.tool = IF end = "tool_error"
                  THEN Append(t.tool, [key |-> Last(m.history), res |-> "error"]) ELSE t.tool
  PROVE  Live(plan, Failed(m, end), u)
<1> DEFINE n == Len(m.history)
           h == m.history
           k == Failed(m, end)
<1>1. /\ Sound(plan, m) /\ m.pc # "stop"
      /\ h \in Seq(Msg) /\ h # <<>> /\ n \in Nat \ {0}
      /\ Story(plan, m.node, m.done[m.node - 1], h, "running")
      /\ Last(h) = h[n] /\ Alike(m, m) /\ Last(h).role # "final"
      /\ Plain => m.state # "scrubbed"
  BY AtHand
<1>2. \/ Last(h).role \in Asks /\ Last(h).role \notin Tools
      \/ Last(h).role \in Tools /\ Last(h).role \notin Asks
  <2>1. m.pc = "llm" \/ m.pc = "tool"
    OBVIOUS
  <2> QED
    BY <2>1, AtHand
<1>3. /\ Last(h).role \in Asks => end # "tool_error"
      /\ Last(h).role \in Tools => end # "llm_error"
      /\ end \in {"llm_error", "lost", "limit", "tool_error"}
  BY <1>1, <1>2 DEF Closed
<1>4. end \in Ends /\ end # "ok"
  BY <1>3, EndNames
<1>5. Sound(plan, k) /\ Said(m, k, h, end) /\ k.state = "none" /\ k.done[m.node].state = m.state
  BY <1>1, <1>4, FailedIs
<1>6. Story(plan, m.node, m.done[m.node - 1], h, end)
  BY <1>1, StoryStops
<1>7. /\ Grows(m, h, end, Asks, "llm_error") <=> end = "llm_error"
      /\ Grows(m, h, end, Tools, "tool_error") <=> end = "tool_error"
  BY <1>1, <1>2, <1>3 DEF Grows
<1>8. LlmEntry(h, n) = [key |-> Masked(h), res |-> Says("error", "none")]
  <2>1. SubSeq(h, 1, n) = h /\ ~ (n < Len(h))
    BY <1>1, FrontIs
  <2> QED
    BY <2>1 DEF LlmEntry
<1>9. ToolEntry(h, n) = [key |-> Last(h), res |-> "error"]
  <2>1. ~ (n < Len(h))
    BY <1>1
  <2> QED
    BY <1>1, <2>1 DEF ToolEntry
<1>a. Kept(h, n)
  BY <1>1 DEF Kept
<1> HIDE DEF k
<1>10. Live(plan, k, u)
  BY <1>1, <1>5, <1>6, <1>7, <1>8, <1>9, <1>a, LiveGoesOn
<1> QED
  BY <1>10 DEF k

\* SetState changes nothing but the state.
LEMMA StateSet ==
  ASSUME NEW m, Sound(plan, m), NEW s \in Texts
  PROVE  /\ Sound(plan, [m EXCEPT !.state = s])
         /\ [m EXCEPT !.state = s].pc = m.pc /\ [m EXCEPT !.state = s].history = m.history
         /\ [m EXCEPT !.state = s].node = m.node /\ [m EXCEPT !.state = s].done = m.done
         /\ [m EXCEPT !.state = s].state = s
<1>1. m \in Machines
  BY DEF Sound
<1>2. /\ [m EXCEPT !.state = s] \in Machines
      /\ [m EXCEPT !.state = s].pc = m.pc /\ [m EXCEPT !.state = s].history = m.history
      /\ [m EXCEPT !.state = s].node = m.node /\ [m EXCEPT !.state = s].done = m.done
      /\ [m EXCEPT !.state = s].state = s
  BY <1>1 DEF Machines
<1> QED
  BY <1>2 DEF Sound

\* A result and its entry, or a denial and none.
LEMMA ResultKeeps ==
  ASSUME NEW m, NEW t, Live(plan, m, t), m.pc = "tool",
         NEW x \in Texts, Fits(plan, m.node, Last(m.history).role, x),
         NEW s \in Texts, Plain => s # "scrubbed",
         NEW u, u = [llm |-> u.llm, tool |-> u.tool], u.llm = t.llm,
         u.tool = IF x \notin Denials
                  THEN Append(t.tool, [key |-> Last(m.history), res |-> IF x # "invalid" THEN x ELSE "error"])
                  ELSE t.tool
  PROVE  Live(plan, Resulted([m EXCEPT !.state = s], x), u)
<1> DEFINE n == Len(m.history)
           o == [m EXCEPT !.state = s]
           y == Says("result", x)
           h == Append(m.history, y)
           k == Resulted(o, x)
           end == IF n + 1 > Limit THEN "limit" ELSE "running"
<1>1. /\ Sound(plan, m) /\ m.pc # "stop"
      /\ m.history \in Seq(Msg) /\ m.history # <<>> /\ n \in Nat \ {0} /\ n \in 1 .. n
      /\ Story(plan, m.node, m.done[m.node - 1], m.history, "running")
      /\ Last(m.history) = m.history[n]
      /\ Last(m.history).role \in Tools /\ Last(m.history).role \notin Asks
  BY AtHand
<1>2. y \in Msg /\ y.role = "result" /\ y.text = x /\ "result" \in Asks /\ "result" \notin Tools
  BY SaysIs, RolesDiffer
<1>3. Sound(plan, o) /\ o.pc = m.pc /\ o.history = m.history /\ o.node = m.node /\ o.done = m.done /\ o.state = s
  BY <1>1, StateSet
<1> HIDE DEF o
<1>4. /\ Sound(plan, k) /\ Said(o, k, h, end)
      /\ n + 1 > Limit => k.state = "none" /\ k.done[m.node].state = s
      /\ ~ (n + 1 > Limit) => k.state = s
  BY <1>3, ResultedIs
<1> HIDE DEF y, k
<1>5. /\ h \in Seq(Msg) /\ h # <<>> /\ Len(h) = n + 1 /\ h[n + 1] = y /\ Last(h) = y
      /\ \A i \in 1 .. n : h[i] = m.history[i]
  BY <1>1, <1>2, AppendIs
<1> HIDE DEF h
<1>6. Said(m, k, h, end)
  BY <1>3, <1>4 DEF Said
<1>7. end # "running" => Closed(h, end)
  BY <1>2, <1>5, RolesDiffer DEF Closed
<1>8. Story(plan, m.node, m.done[m.node - 1], h, end)
  BY <1>1, <1>2, <1>7, StoryGoesOn DEF h
<1>9. end \notin {"llm_error", "tool_error"}
  OBVIOUS
<1>10. Plain => k.state # "scrubbed" /\ (end # "running" => k.done[m.node].state # "scrubbed")
  BY <1>4
<1> HIDE DEF end
<1>11. Grows(m, h, end, Tools, "tool_error") /\ ~ Grows(m, h, end, Asks, "llm_error")
  BY <1>1, <1>5, <1>9 DEF Grows
<1>12. ToolEntry(h, n) = [key |-> Last(m.history), res |-> IF x # "invalid" THEN x ELSE "error"]
  <2>1. h[n] = Last(m.history) /\ n < Len(h) /\ h[n + 1].text = x
    BY <1>1, <1>2, <1>5
  <2> QED
    BY <2>1 DEF ToolEntry
<1>a. Kept(h, n) <=> x \notin Denials
  <2>1. n < Len(h) /\ h[n + 1].text = x
    BY <1>1, <1>2, <1>5
  <2> QED
    BY <2>1 DEF Kept
<1>13. Live(plan, k, u)
  BY <1>1, <1>4, <1>6, <1>8, <1>9, <1>10, <1>11, <1>12, <1>a, LiveGoesOn
<1> QED
  BY <1>13 DEF k, o

-----------------------------------------------------------------------------
(* The replay m of a recorded run l: on its track node by node and place by *)
(* place, or off it, and then it does not end well unless l itself was not  *)
(* what a replay can repeat.                                                *)
Same(d, e) == e.end = d.end /\ e.history = Masked(d.history) /\ e.output = Mask(d.output)

Track(p, l, full, m, t) ==
  /\ \A n \in 1 .. m.node - 1 : Same(l.done[n], m.done[n])
  /\ m.node <= Len(p) =>
       /\ Len(m.history) <= Len(l.done[m.node].history)
       /\ m.history = Masked(SubSeq(l.done[m.node].history, 1, Len(m.history)))
  /\ Lists(t.llm, LlmLog(l), Here(m), full)
  /\ Lists(t.tool, ToolLog(l), Here(m), full)

\* Replayable, of any plan and run.
Faithful(p, b, l, n) ==
  /\ l.done[n].end \in {"ok", "llm_error", "tool_error", "limit", "skipped"}
  /\ l.done[n].history = Masked(l.done[n].history)
  /\ p[n].prompt \notin {"inputs", "state"}
  /\ ~ (b /\ p[n].prompt = "var")
  /\ \A i \in DOMAIN l.done[n].history :
       /\ l.done[n].history[i].text # "invalid"
       /\ l.done[n].history[i].role \in Effectful =>
            Repeats(p, n, l.done[n].history[i].role) /\ i < Len(l.done[n].history)

\* The replay left the track at a node that is marked.
Marked(p, b, l, full, m) ==
  full => \E d \in 1 .. Len(p) : /\ d <= m.node /\ ~ Faithful(p, b, l, d)
                                 /\ \A n \in 1 .. d - 1 : Same(l.done[n], m.done[n])

\* A recording of which every node ended well and every answer can be found.
Clean(l) ==
  \A n \in 1 .. Len(l.done) :
    /\ l.done[n].end = "ok"
    /\ \A i \in 1 .. Len(l.done[n].history) :
         /\ l.done[n].history[i].role \in Effectful /\ i < Len(l.done[n].history) =>
              l.done[n].history[i + 1].text = DenialOnReplay(l.done[n].history[i].role)
         /\ l.done[n].history[i].role \in Tools \ Effectful => l.done[n].history[i].text # "secret"

Doomed(m) == m.pc = "llm" /\ Len(m.history) = 1 /\ m.history[1].text \in {"secret", "scrubbed"}

FailedSome(m) == \E n \in 1 .. Len(m.done) : m.done[n].end # "ok"

Off(p, b, l, full, m) ==
  Marked(p, b, l, full, m) /\ (Plain /\ Clean(l) => Doomed(m) \/ FailedSome(m))

\* Of a replay itself: a call holds no secret, a tool with effects is denied.
Echoed(h) ==
  \A i \in 1 .. Len(h) :
    /\ h[i].role \in Replies => h[i].text # "secret"
    /\ h[i].role \in Effectful /\ i < Len(h) => h[i + 1].text = DenialOnReplay(h[i].role)

Echoes(m) ==
  /\ \A n \in 1 .. m.node : Echoed(HistoryOf(m, n))
  /\ m.state = "none" /\ \A n \in 1 .. Len(m.done) : m.done[n].state = "none"

\* Each node that ended well used the last entry of a recorded node that did,
\* and has its conversation.
Well(m) == {n \in 1 .. Len(m.done) : m.done[n].end = "ok"}

PaidBy(l, m, t, used, from) ==
  /\ Owns(t.llm, LlmLog(l), used)
  /\ from \in [Well(m) -> Well(l)]
  /\ \A n \in Well(m) : /\ m.done[n].history = Masked(l.done[from[n]].history)
                        /\ <<from[n], Len(l.done[from[n]].history) - 1>> \in used
  /\ \A i, j \in Well(m) : from[i] = from[j] => i = j

Paid(l, m, t) == \E used, from : PaidBy(l, m, t, used, from)

\* Each call that was answered, and not denied, used an entry of that call.
Served(m) == At(m, Tools \ Effectful, "never")

ServedBy(l, m, t, used, from) ==
  /\ Owns(t.tool, ToolLog(l), used)
  /\ from \in [Served(m) -> used \cap ToolAt(l)]
  /\ \A x \in Served(m) :
       HistoryOf(l, from[x][1])[from[x][2]] = HistoryOf(m, x[1])[x[2]]
  /\ \A x, y \in Served(m) : from[x] = from[y] => x = y

ServedAll(l, m, t) == \E used, from : ServedBy(l, m, t, used, from)

Follows(p, b, l, full, m, t) ==
  /\ Sound(p, m) /\ Echoes(m) /\ t \in Tapes
  /\ Track(p, l, full, m, t) \/ Off(p, b, l, full, m)
  /\ Paid(l, m, t)
  /\ ServedAll(l, m, t)

Phases == {"record", "written", "replay", "refused"}

Inv ==
  /\ plan \in Plans /\ bearer \in BOOLEAN /\ phase \in Phases /\ cut \in BOOLEAN
  /\ phase = "record" => Live(plan, live, tape) /\ ~ cut
  /\ phase # "record" => live.pc = "stop"
  /\ Sound(plan, live) /\ Tale(plan, live)
  /\ phase # "replay" => replay = Machine /\ Taped(live, tape, ~ cut)
  /\ phase = "replay" => Follows(plan, bearer, live, ~ cut, replay, tape)

\* The places of a run that is over.
LEMMA AtIs ==
  ASSUME NEW l, Sound(plan, l), l.pc = "stop", NEW roles, NEW err
  PROVE  /\ Len(plan) \in Nat /\ Len(l.done) = Len(plan)
         /\ \A n \in 1 .. Len(plan) : HistoryOf(l, n) = l.done[n].history /\ EndOf(l, n) = l.done[n].end
         /\ \A x : x \in At(l, roles, err) <=>
                     /\ x \in Place /\ x[1] \in 1 .. Len(plan) /\ x[2] \in 1 .. Len(l.done[x[1]].history)
                     /\ l.done[x[1]].history[x[2]].role \in roles
                     /\ x[2] < Len(l.done[x[1]].history) \/ l.done[x[1]].end = err
<1>1. /\ Len(plan) \in Nat /\ Len(l.done) = Len(plan) /\ l.node = Len(plan) + 1
      /\ l.history = <<>>
  BY SoundIs DEF Sound
<1>2. \A n \in 1 .. Len(plan) : HistoryOf(l, n) = l.done[n].history /\ EndOf(l, n) = l.done[n].end
  BY <1>1 DEF HistoryOf, EndOf
<1>3. HistoryOf(l, l.node) = <<>>
  BY <1>1 DEF HistoryOf
<1>4. 1 .. Len(HistoryOf(l, l.node)) = {}
  BY <1>3, GrammarEmpty
<1>5. \A i \in 1 .. l.node : i \in 1 .. Len(plan) \/ i = l.node
  BY <1>1
<1>6. \A i \in 1 .. Len(plan) : i \in 1 .. l.node
  BY <1>1
<1>7. ASSUME NEW x
      PROVE  x \in At(l, roles, err) <=>
               /\ x \in Place /\ x[1] \in 1 .. Len(plan) /\ x[2] \in 1 .. Len(l.done[x[1]].history)
               /\ l.done[x[1]].history[x[2]].role \in roles
               /\ x[2] < Len(l.done[x[1]].history) \/ l.done[x[1]].end = err
  <2>1. CASE x[1] \in 1 .. Len(plan)
    BY <1>2, <1>6, <2>1 DEF At
  <2>2. CASE x[1] \notin 1 .. Len(plan)
    BY <1>4, <1>5, <2>2 DEF At
  <2> QED
    BY <2>1, <2>2
<1> QED
  BY <1>1, <1>2, <1>7

\* The place after this one, as far as the log of the recorded run goes.
LEMMA CursorMoves ==
  ASSUME NEW l, Sound(plan, l), l.pc = "stop", NEW roles, NEW err,
         NEW m, Sound(plan, m), NEW k, NEW h, NEW end, Said(m, k, h, end),
         end = "running" => Len(h) = Len(m.history) + 1,
         end # "running" => Len(h) = Len(l.done[m.node].history) /\ end = l.done[m.node].end,
         Len(h) # Len(m.history) => end # err
  PROVE  /\ Here(k) \in Place
         /\ \A x \in At(l, roles, err) : Before(x, Here(k)) <=> Before(x, Here(m)) \/ x = Here(m)
<1> DEFINE n == Len(m.history)
<1>1. n \in Nat /\ m.node \in Nat \ {0} /\ Len(h) \in {n, n + 1}
  BY SoundIs DEF Said
<1>2. /\ end = "running" => k.node = m.node /\ k.history = h
      /\ end # "running" => k.node = m.node + 1 /\ k.history = <<>>
  BY DEF Said
<1>3. Here(k) = IF end = "running" THEN <<m.node, n + 1>> ELSE <<m.node + 1, 0>>
  BY <1>2 DEF Here
<1>4. Here(m) = <<m.node, n>>
  BY DEF Here
<1> HIDE DEF n
<1>5. /\ Here(m)[1] = m.node /\ Here(m)[2] = n
      /\ Here(k)[1] = IF end = "running" THEN m.node ELSE m.node + 1
      /\ Here(k)[2] = IF end = "running" THEN n + 1 ELSE 0
      /\ Here(k) \in Place
  <2>1. Here(m)[1] = m.node /\ Here(m)[2] = n
    BY <1>1, <1>4, PlaceIs
  <2>2. CASE end = "running"
    <3>1. Here(k) = <<m.node, n + 1>> /\ n + 1 \in Nat
      BY <1>1, <1>3, <2>2
    <3> QED
      BY <1>1, <2>1, <2>2, <3>1, PlaceIs
  <2>3. CASE end # "running"
    <3>1. Here(k) = <<m.node + 1, 0>> /\ m.node + 1 \in Nat
      BY <1>1, <1>3, <2>3
    <3> QED
      BY <1>1, <2>1, <2>3, <3>1, PlaceIs
  <2> QED
    BY <2>2, <2>3
<1>6. ASSUME NEW x \in At(l, roles, err)
      PROVE  Before(x, Here(k)) <=> Before(x, Here(m)) \/ x = Here(m)
  <2>1. /\ x \in Place /\ x[1] \in Nat /\ x[2] \in Nat /\ x = <<x[1], x[2]>>
        /\ x[2] \in 1 .. Len(l.done[x[1]].history)
        /\ x[2] < Len(l.done[x[1]].history) \/ l.done[x[1]].end = err
    BY AtIs, PlaceIs
  <2>2. x = Here(m) <=> x[1] = m.node /\ x[2] = n
    BY <1>4, <1>5, <2>1
  <2>3. CASE end = "running"
    BY <1>1, <1>5, <2>1, <2>2, <2>3 DEF Before
  <2>4. CASE end # "running"
    <3>1. x[1] = m.node => x[2] <= n
      <4>1. CASE Len(h) = n
        BY <1>1, <2>1, <2>4, <4>1
      <4>2. CASE Len(h) # n
        BY <1>1, <2>1, <2>4, <4>2 DEF n
      <4> QED
        BY <4>1, <4>2
    <3>2. Before(x, Here(k)) <=> x[1] < m.node + 1
      BY <1>5, <2>1, <2>4 DEF Before
    <3>3. Before(x, Here(m)) <=> x[1] < m.node \/ (x[1] = m.node /\ x[2] < n)
      BY <1>5 DEF Before
    <3> QED
      BY <1>1, <2>1, <2>2, <3>1, <3>2, <3>3
  <2> QED
    BY <2>3, <2>4
<1> QED
  BY <1>5, <1>6

\* The replay takes the first entry, or there was none for this place.
LEMMA ListsMove ==
  ASSUME NEW S, NEW s \in Seq(S), NEW f, NEW c, NEW d \in Place, NEW full \in BOOLEAN,
         Lists(s, f, c, full), DOMAIN f \subseteq Place,
         \A x \in DOMAIN f : Before(x, d) <=> Before(x, c) \/ x = c,
         NEW r, IF c \in DOMAIN f THEN s # <<>> /\ r = Left(s, 1) ELSE r = s
  PROVE  Lists(r, f, d, full)
<1>1. CASE c \in DOMAIN f
  BY <1>1, ListsHead DEF Left
<1>2. CASE c \notin DOMAIN f
  <2>1. \A x \in DOMAIN f : Before(x, c) <=> Before(x, d)
    BY <1>2
  <2> QED
    BY <1>2, <2>1, ListsSkip
<1> QED
  BY <1>1, <1>2

\* Where the logs are defined.
LEMMA LogDomains ==
  ASSUME NEW l
  PROVE  /\ DOMAIN LlmLog(l) = LlmAt(l) /\ DOMAIN ToolLog(l) = ToolAt(l)
         /\ LlmAt(l) \subseteq Place /\ ToolAt(l) \subseteq At(l, Tools, "tool_error")
         /\ ToolAt(l) \subseteq Place
BY DEF LlmLog, ToolLog, LlmAt, ToolAt, At

\* The prompt that was sent is the recorded one, masked; so is what follows.
LEMMA TrackGoesOn ==
  ASSUME NEW l, Sound(plan, l), l.pc = "stop", NEW m, Sound(plan, m), m.pc # "stop",
         NEW t \in Tapes, NEW full \in BOOLEAN, Track(plan, l, full, m, t),
         NEW k, NEW h, NEW end, Sound(plan, k), Said(m, k, h, end),
         Len(h) <= Len(l.done[m.node].history), h = Masked(SubSeq(l.done[m.node].history, 1, Len(h))),
         end = "running" => Len(h) = Len(m.history) + 1,
         end # "running" => Len(h) = Len(l.done[m.node].history) /\ end = l.done[m.node].end,
         Len(h) # Len(m.history) => end # "llm_error" /\ end # "tool_error",
         NEW u,
         IF Here(m) \in LlmAt(l) THEN t.llm # <<>> /\ u.llm = Left(t.llm, 1) ELSE u.llm = t.llm,
         IF Here(m) \in ToolAt(l) THEN t.tool # <<>> /\ u.tool = Left(t.tool, 1) ELSE u.tool = t.tool
  PROVE  Track(plan, l, full, k, u)
<1> DEFINE lh == l.done[m.node].history
<1>1. /\ m.node \in 1 .. Len(plan) /\ Len(plan) \in Nat /\ Len(l.done) = Len(plan) /\ Len(m.done) = m.node - 1
      /\ l.done[m.node].history \in Seq(Msg) /\ Len(lh) \in Nat /\ Over(l.done[m.node])
  <2>1. m.node \in 1 .. Len(plan) /\ Len(plan) \in Nat /\ Len(m.done) = m.node - 1
    BY SoundIs
  <2>2. Len(l.done) = Len(plan)
    BY AtIs
  <2> QED
    BY <2>1, <2>2, SoundIs DEF Sound
<1>2. Lists(u.llm, LlmLog(l), Here(k), full)
  <2>1. /\ Here(k) \in Place
        /\ \A x \in LlmAt(l) : Before(x, Here(k)) <=> Before(x, Here(m)) \/ x = Here(m)
    BY CursorMoves DEF LlmAt
  <2>2. Lists(t.llm, LlmLog(l), Here(m), full) /\ t.llm \in Seq(LlmEntries)
    BY TapeIs DEF Track
  <2> QED
    BY <2>1, <2>2, LogDomains, ListsMove
<1>3. Lists(u.tool, ToolLog(l), Here(k), full)
  <2>1. /\ Here(k) \in Place
        /\ \A x \in At(l, Tools, "tool_error") : Before(x, Here(k)) <=> Before(x, Here(m)) \/ x = Here(m)
    BY CursorMoves, ZenonT(60)
  <2>2. Lists(t.tool, ToolLog(l), Here(m), full) /\ t.tool \in Seq(ToolEntries)
    BY TapeIs DEF Track
  <2>3. \A x \in ToolAt(l) : Before(x, Here(k)) <=> Before(x, Here(m)) \/ x = Here(m)
    BY <2>1, LogDomains
  <2> QED
    BY <2>1, <2>2, <2>3, LogDomains, ListsMove
<1>4. CASE end = "running"
  <2>1. k.node = m.node /\ k.done = m.done /\ k.history = h
    BY <1>4 DEF Said
  <2> QED
    BY <1>2, <1>3, <2>1 DEF Track
<1>5. CASE end # "running"
  <2>1. /\ k.node = m.node + 1 /\ k.history = <<>> /\ \A n \in 1 .. m.node - 1 : k.done[n] = m.done[n]
        /\ k.done[m.node].end = end /\ k.done[m.node].history = h /\ Over(k.done[m.node])
    BY <1>1, <1>5 DEF Said
  <2>2. h = Masked(lh) /\ Len(h) = Len(lh) /\ end = l.done[m.node].end
    <3>1. SubSeq(lh, 1, Len(lh)) = lh
      BY <1>1, FrontIs
    <3> QED
      BY <1>5, <3>1
  <2>3. Same(l.done[m.node], k.done[m.node])
    <3>1. CASE end = "ok"
      <4>1. lh # <<>> /\ Len(lh) \in 1 .. Len(lh) /\ Last(lh) = lh[Len(lh)] /\ l.done[m.node].output = Last(lh).text
        BY <1>1, <2>2, <3>1 DEF Over, Last
      <4>2. Masked(lh)[Len(lh)].text = Mask(Last(lh).text) /\ Last(h) = Masked(lh)[Len(lh)]
        BY <1>1, <2>2, <4>1, MaskedIs DEF Last
      <4>3. k.done[m.node].output = Last(h).text
        BY <2>1, <3>1 DEF Over
      <4> QED
        BY <2>1, <2>2, <4>1, <4>2, <4>3 DEF Same
    <3>2. CASE end # "ok"
      <4>1. k.done[m.node].output = "none" /\ l.done[m.node].output = "none"
        BY <1>1, <2>1, <2>2, <3>2 DEF Over
      <4>2. Mask("none") = "none"
        BY DEF Mask
      <4> QED
        BY <2>1, <2>2, <4>1, <4>2 DEF Same
    <3> QED
      BY <3>1, <3>2
  <2>4. \A n \in 1 .. k.node - 1 : n \in 1 .. m.node - 1 \/ n = m.node
    BY <1>1, <2>1
  <2>5. \A n \in 1 .. k.node - 1 : Same(l.done[n], k.done[n])
    BY <2>1, <2>3, <2>4 DEF Track
  <2>6. k.node <= Len(plan) =>
          /\ Len(k.history) <= Len(l.done[k.node].history)
          /\ k.history = Masked(SubSeq(l.done[k.node].history, 1, Len(k.history)))
    <3> SUFFICES ASSUME k.node <= Len(plan)
                 PROVE  /\ Len(k.history) <= Len(l.done[k.node].history)
                        /\ k.history = Masked(SubSeq(l.done[k.node].history, 1, Len(k.history)))
      OBVIOUS
    <3> DEFINE g == l.done[k.node].history
    <3>1. k.node \in 1 .. Len(l.done)
      BY <1>1, <2>1
    <3>2. g \in Seq(Msg) /\ Len(g) \in Nat /\ Len(k.history) = 0
      BY <2>1, <3>1, SoundIs, GrammarEmpty
    <3> HIDE DEF g
    <3>3. SubSeq(g, 1, 0) = <<>>
      BY <3>2, FrontIs
    <3>4. Masked(<<>>) = <<>>
      <4>1. Masked(<<>>) \in Seq(Msg) /\ Len(Masked(<<>>)) = 0
        BY GrammarEmpty, MaskedIs
      <4> QED
        BY <4>1
    <3>5. SubSeq(g, 1, Len(k.history)) = <<>>
      BY <3>2, <3>3
    <3>6. k.history = Masked(SubSeq(g, 1, Len(k.history))) /\ Len(k.history) <= Len(g)
      <4>1. Len(k.history) <= Len(g)
        BY <3>2
      <4>2. Masked(SubSeq(g, 1, Len(k.history))) = Masked(<<>>)
        BY <3>5
      <4> QED
        BY <2>1, <3>4, <4>1, <4>2
    <3> QED
      BY <3>6 DEF g
  <2> QED
    BY <1>2, <1>3, <2>5, <2>6 DEF Track
<1> QED
  BY <1>4, <1>5

\* A failed node stays failed.
LEMMA FailsStay ==
  ASSUME NEW m, Sound(plan, m), NEW k, NEW h, NEW end, Said(m, k, h, end)
  PROVE  /\ FailedSome(m) => FailedSome(k)
         /\ end \notin {"ok", "running"} => FailedSome(k)
<1>1. m.node \in Nat \ {0} /\ Len(m.done) = m.node - 1 /\ \A n \in 1 .. Len(m.done) : k.done[n] = m.done[n]
  BY SoundIs DEF Said
<1>2. CASE end = "running"
  BY <1>1, <1>2 DEF Said, FailedSome
<1>3. CASE end # "running"
  <2>1. Len(k.done) = m.node /\ k.done[m.node].end = end /\ m.node \in 1 .. m.node
    BY <1>1, <1>3 DEF Said
  <2>2. \A n \in 1 .. Len(m.done) : n \in 1 .. m.node
    BY <1>1
  <2>3. FailedSome(m) => FailedSome(k)
    BY <1>1, <2>1, <2>2 DEF FailedSome
  <2>4. end \notin {"ok", "running"} => FailedSome(k)
    BY <2>1 DEF FailedSome
  <2> QED
    BY <2>3, <2>4
<1> QED
  BY <1>2, <1>3

\* Once off the track, a replay never ends well unnoticed.
LEMMA OffStays ==
  ASSUME NEW l, NEW full, NEW m, Sound(plan, m), Off(plan, bearer, l, full, m),
         NEW k, NEW h, NEW end, Said(m, k, h, end), Plain /\ Doomed(m) => FailedSome(k)
  PROVE  Off(plan, bearer, l, full, k)
<1>1. m.node \in Nat \ {0} /\ Len(m.done) = m.node - 1 /\ \A n \in 1 .. Len(m.done) : k.done[n] = m.done[n]
  BY SoundIs DEF Said
<1>2. k.node \in {m.node, m.node + 1}
  BY SoundIs, SaidTale
<1>3. Marked(plan, bearer, l, full, k)
  <2> SUFFICES ASSUME full
               PROVE  \E d \in 1 .. Len(plan) : /\ d <= k.node /\ ~ Faithful(plan, bearer, l, d)
                                                /\ \A n \in 1 .. d - 1 : Same(l.done[n], k.done[n])
    BY DEF Marked
  <2>1. PICK d \in 1 .. Len(plan) : /\ d <= m.node /\ ~ Faithful(plan, bearer, l, d)
                                    /\ \A n \in 1 .. d - 1 : Same(l.done[n], m.done[n])
    BY DEF Off, Marked
  <2>2. \A n \in 1 .. d - 1 : n \in 1 .. Len(m.done)
    BY <1>1, <2>1
  <2>3. d <= k.node /\ \A n \in 1 .. d - 1 : Same(l.done[n], k.done[n])
    BY <1>1, <1>2, <2>1, <2>2
  <2> QED
    BY <2>1, <2>3
<1>4. FailedSome(m) => FailedSome(k)
  BY FailsStay
<1> QED
  BY <1>3, <1>4 DEF Off

\* The step that leaves the track.
LEMMA Leaves ==
  ASSUME NEW l, NEW full, NEW m, Sound(plan, m), m.pc # "stop", NEW t, Track(plan, l, full, m, t),
         NEW k, NEW h, NEW end, Said(m, k, h, end),
         ~ full \/ ~ Faithful(plan, bearer, l, m.node),
         Plain /\ Clean(l) => Doomed(k) \/ end \notin {"ok", "running"}
  PROVE  Off(plan, bearer, l, full, k)
<1>1. /\ m.node \in 1 .. Len(plan) /\ Len(m.done) = m.node - 1 /\ m.node \in Nat
      /\ \A n \in 1 .. Len(m.done) : k.done[n] = m.done[n]
  <2>1. m.node \in 1 .. Len(plan) /\ Len(m.done) = m.node - 1 /\ m.node \in Nat
    BY SoundIs
  <2>2. \A n \in 1 .. Len(m.done) : k.done[n] = m.done[n]
    BY DEF Said
  <2> QED
    BY <2>1, <2>2
<1>2. k.node \in {m.node, m.node + 1}
  BY SoundIs, SaidTale
<1>3. m.node <= k.node /\ \A n \in 1 .. m.node - 1 : Same(l.done[n], k.done[n])
  <2>1. \A n \in 1 .. m.node - 1 : n \in 1 .. Len(m.done) /\ Same(l.done[n], m.done[n])
    BY <1>1 DEF Track
  <2> QED
    BY <1>1, <1>2, <2>1
<1>4. Marked(plan, bearer, l, full, k)
  BY <1>1, <1>3 DEF Marked
<1>5. end \notin {"ok", "running"} => FailedSome(k)
  BY FailsStay
<1> QED
  BY <1>4, <1>5 DEF Off

\* A step of the replay echoes what it was fed.
LEMMA EchoesGoOn ==
  ASSUME NEW m, Sound(plan, m), Echoes(m), NEW k, NEW h, NEW end, Said(m, k, h, end), Echoed(h),
         k.state = "none", end # "running" => k.done[m.node].state = "none"
  PROVE  Echoes(k)
<1>1. /\ \A n \in 1 .. m.node - 1 : HistoryOf(k, n) = HistoryOf(m, n)
      /\ HistoryOf(k, m.node) = h
      /\ k.node = m.node + 1 => HistoryOf(k, k.node) = <<>>
      /\ k.node \in {m.node, m.node + 1} /\ m.node \in Nat \ {0} /\ Len(m.done) = m.node - 1
  BY SoundIs, SaidTale
<1>2. Echoed(<<>>)
  BY GrammarEmpty DEF Echoed
<1>3. ASSUME NEW n \in 1 .. k.node PROVE Echoed(HistoryOf(k, n))
  <2>1. n \in 1 .. m.node - 1 \/ n = m.node \/ (n = m.node + 1 /\ k.node = m.node + 1)
    BY <1>1
  <2>2. n \in 1 .. m.node - 1 => n \in 1 .. m.node
    BY <1>1
  <2> QED
    BY <1>1, <1>2, <2>1, <2>2 DEF Echoes
<1>4. ASSUME NEW n \in 1 .. Len(k.done) PROVE k.done[n].state = "none"
  <2>1. CASE end = "running"
    BY <1>4, <2>1 DEF Said, Echoes
  <2>2. CASE end # "running"
    <3>1. Len(k.done) = m.node /\ \A i \in 1 .. Len(m.done) : k.done[i] = m.done[i]
      BY <2>2 DEF Said
    <3>2. n \in 1 .. Len(m.done) \/ n = m.node
      BY <1>1, <3>1
    <3> QED
      BY <2>2, <3>1, <3>2 DEF Echoes
  <2> QED
    BY <2>1, <2>2
<1> QED
  BY <1>3, <1>4 DEF Echoes

\* One message more in an echo.
LEMMA EchoedAppend ==
  ASSUME NEW g \in Seq(Msg), Echoed(g), NEW x \in Msg, x.role \in Replies => x.text # "secret",
         g # <<>> /\ Last(g).role \in Effectful => x.text = DenialOnReplay(Last(g).role)
  PROVE  Echoed(Append(g, x))
<1> DEFINE h == Append(g, x)
           l == Len(g)
<1>1. l \in Nat /\ Len(h) = l + 1 /\ h[l + 1] = x /\ \A i \in 1 .. l : h[i] = g[i]
  BY AppendIs
<1>2. l # 0 => g # <<>> /\ Last(g) = g[l]
  BY DEF Last
<1> HIDE DEF h, l
<1>3. ASSUME NEW i \in 1 .. l + 1
      PROVE  /\ h[i].role \in Replies => h[i].text # "secret"
             /\ h[i].role \in Effectful /\ i < l + 1 => h[i + 1].text = DenialOnReplay(h[i].role)
  <2>1. CASE i = l + 1
    BY <1>1, <2>1
  <2>2. CASE i = l
    <3>1. i \in 1 .. l /\ l # 0
      BY <1>1, <1>3, <2>2
    <3> QED
      BY <1>1, <1>2, <2>2, <3>1 DEF Echoed, l
  <2>3. CASE i < l
    <3>1. i \in 1 .. l /\ i + 1 \in 1 .. l
      BY <1>1, <1>3, <2>3
    <3> QED
      BY <1>1, <2>3, <3>1 DEF Echoed, l
  <2> QED
    BY <1>1, <2>1, <2>2, <2>3
<1> QED
  BY <1>1, <1>3 DEF Echoed, h

\* The nodes that ended well, after a step.
LEMMA WellStep ==
  ASSUME NEW m, Sound(plan, m), NEW k, NEW h, NEW end, Said(m, k, h, end)
  PROVE  /\ \A n : n \in Well(k) <=> n \in Well(m) \/ (end = "ok" /\ n = m.node)
         /\ \A n \in Well(m) : k.done[n] = m.done[n] /\ n # m.node
         /\ end = "ok" => k.done[m.node].history = h
<1>1. m.node \in Nat \ {0} /\ Len(m.done) = m.node - 1 /\ \A n \in 1 .. Len(m.done) : k.done[n] = m.done[n]
  BY SoundIs DEF Said
<1>2. CASE end = "running"
  BY <1>1, <1>2 DEF Said, Well
<1>3. CASE end # "running"
  <2>1. Len(k.done) = m.node /\ k.done[m.node].end = end /\ k.done[m.node].history = h
    BY <1>3 DEF Said
  <2>2. \A n : n \in 1 .. m.node <=> n \in 1 .. Len(m.done) \/ n = m.node
    BY <1>1
  <2>3. m.node \notin 1 .. Len(m.done)
    BY <1>1
  <2> QED
    BY <1>1, <2>1, <2>2, <2>3 DEF Well
<1> QED
  BY <1>2, <1>3

\* No node ended well in this step.
LEMMA PaidStays ==
  ASSUME NEW l, NEW m, Sound(plan, m), NEW t, NEW used, NEW from, PaidBy(l, m, t, used, from),
         NEW k, NEW h, NEW end, Said(m, k, h, end), end # "ok",
         NEW u, NEW more, Owns(u.llm, LlmLog(l), used \cup more)
  PROVE  Paid(l, k, u)
<1>1. Well(k) = Well(m) /\ \A n \in Well(m) : k.done[n] = m.done[n]
  BY WellStep
<1>2. PaidBy(l, k, u, used \cup more, from)
  BY <1>1 DEF PaidBy
<1> QED
  BY <1>2 DEF Paid

\* A node ended well with the last entry of a recorded node.
LEMMA PaidGoesOn ==
  ASSUME NEW l, NEW m, Sound(plan, m), NEW t, NEW used, NEW from, PaidBy(l, m, t, used, from),
         NEW k, NEW h, Said(m, k, h, "ok"),
         NEW n \in Well(l), h = Masked(l.done[n].history),
         NEW u, <<n, Len(l.done[n].history) - 1>> \notin used,
         Owns(u.llm, LlmLog(l), used \cup {<<n, Len(l.done[n].history) - 1>>})
  PROVE  Paid(l, k, u)
<1> DEFINE x == <<n, Len(l.done[n].history) - 1>>
           new == [i \in Well(k) |-> IF i = m.node THEN n ELSE from[i]]
<1>1. /\ \A i : i \in Well(k) <=> i \in Well(m) \/ i = m.node
      /\ \A i \in Well(m) : k.done[i] = m.done[i] /\ i # m.node
      /\ k.done[m.node].history = h
  BY WellStep
<1>2. /\ from \in [Well(m) -> Well(l)]
      /\ \A i \in Well(m) : /\ m.done[i].history = Masked(l.done[from[i]].history)
                            /\ <<from[i], Len(l.done[from[i]].history) - 1>> \in used
      /\ \A i, j \in Well(m) : from[i] = from[j] => i = j
  BY DEF PaidBy
<1>3. \A i \in Well(m) : from[i] # n /\ from[i] \in Well(l)
  BY <1>2
<1> HIDE DEF x
<1>4. new \in [Well(k) -> Well(l)] /\ new[m.node] = n /\ \A i \in Well(m) : new[i] = from[i]
  BY <1>1, <1>3
<1> HIDE DEF new
<1>5. \A i \in Well(k) : /\ k.done[i].history = Masked(l.done[new[i]].history)
                         /\ <<new[i], Len(l.done[new[i]].history) - 1>> \in used \cup {x}
  BY <1>1, <1>2, <1>4 DEF x
<1>6. \A i, j \in Well(k) : new[i] = new[j] => i = j
  BY <1>1, <1>2, <1>3, <1>4
<1>7. PaidBy(l, k, u, used \cup {x}, new)
  BY <1>4, <1>5, <1>6 DEF PaidBy, x
<1> QED
  BY <1>7 DEF Paid

\* The calls that were answered, after a step.
LEMMA ServedStep ==
  ASSUME NEW m, Sound(plan, m), NEW k, NEW h, NEW end, Said(m, k, h, end), end # "never"
  PROVE  /\ \A x : x \in Served(k) <=> x \in Served(m) \/ (x = Here(m) /\ Grows(m, h, end, Tools \ Effectful, "never"))
         /\ \A x \in Served(m) : /\ x # Here(m)
                                 /\ HistoryOf(k, x[1])[x[2]] = HistoryOf(m, x[1])[x[2]]
         /\ m.history # <<>> => HistoryOf(k, Here(m)[1])[Here(m)[2]] = Last(m.history)
<1>1. /\ m.history \in Seq(Msg) /\ Len(m.done) \in Nat /\ Len(m.history) \in Nat /\ m.node \in Nat
      /\ \A i \in 1 .. Len(m.history) : h[i] = m.history[i]
  BY SoundIs DEF Said
<1>2. /\ \A x : x \in Served(k) <=> x \in Served(m) \/ (x = Here(m) /\ Grows(m, h, end, Tools \ Effectful, "never"))
      /\ \A x \in Served(m) :
           /\ x \in Place /\ Before(x, Here(m)) /\ x[1] \in 1 .. m.node
           /\ x[2] \in 1 .. Len(HistoryOf(m, x[1]))
           /\ x[1] = m.node => HistoryOf(m, x[1]) = m.history /\ HistoryOf(k, x[1]) = h
                               /\ x[2] < Len(m.history)
           /\ x[1] # m.node => HistoryOf(k, x[1]) = HistoryOf(m, x[1])
  <2>1. "never" # "running"
    OBVIOUS
  <2> QED
    BY <1>1, <2>1, AtStep DEF Served
<1>3. HistoryOf(k, m.node) = h
  BY <1>1, SaidTale
<1>4. Here(m) \in Place /\ Here(m)[1] = m.node /\ Here(m)[2] = Len(m.history)
  BY <1>1, PlaceIs DEF Here
<1>5. m.history # <<>> => h[Len(m.history)] = Last(m.history)
  <2>1. m.history # <<>> => Len(m.history) \in 1 .. Len(m.history)
    BY <1>1
  <2> QED
    BY <1>1, <2>1 DEF Last
<1>6. ASSUME NEW x \in Served(m)
      PROVE  x # Here(m) /\ HistoryOf(k, x[1])[x[2]] = HistoryOf(m, x[1])[x[2]]
  <2>1. x # Here(m)
    BY <1>2, <1>4, Order
  <2>2. CASE x[1] = m.node
    BY <1>1, <1>2, <2>1, <2>2
  <2>3. CASE x[1] # m.node
    BY <1>2, <2>1, <2>3
  <2> QED
    BY <2>2, <2>3
<1> QED
  BY <1>2, <1>3, <1>4, <1>5, <1>6

\* No call was answered from the tape.
LEMMA ServedStays ==
  ASSUME NEW l, NEW m, Sound(plan, m), NEW t, NEW used, NEW from, ServedBy(l, m, t, used, from),
         NEW k, NEW h, NEW end, Said(m, k, h, end), end # "never",
         ~ Grows(m, h, end, Tools \ Effectful, "never"),
         NEW u, NEW more, Owns(u.tool, ToolLog(l), used \cup more)
  PROVE  ServedAll(l, k, u)
<1>1. Served(k) = Served(m)
  BY ServedStep
<1>2. \A x \in Served(m) : HistoryOf(k, x[1])[x[2]] = HistoryOf(m, x[1])[x[2]]
  BY ServedStep
<1>3. from \in [Served(k) -> (used \cup more) \cap ToolAt(l)]
  BY <1>1 DEF ServedBy
<1>4. ServedBy(l, k, u, used \cup more, from)
  BY <1>1, <1>2, <1>3 DEF ServedBy
<1> QED
  BY <1>4 DEF ServedAll

\* A call was answered with an entry of that call.
LEMMA ServedGoesOn ==
  ASSUME NEW l, NEW m, Sound(plan, m), m.history # <<>>, NEW t, NEW used, NEW from, ServedBy(l, m, t, used, from),
         NEW k, NEW h, NEW end, Said(m, k, h, end), end # "never",
         Grows(m, h, end, Tools \ Effectful, "never"),
         NEW y \in ToolAt(l), y \notin used, HistoryOf(l, y[1])[y[2]] = Last(m.history),
         NEW u, Owns(u.tool, ToolLog(l), used \cup {y})
  PROVE  ServedAll(l, k, u)
<1> DEFINE new == [x \in Served(k) |-> IF x = Here(m) THEN y ELSE from[x]]
<1>1. /\ \A x : x \in Served(k) <=> x \in Served(m) \/ x = Here(m)
      /\ \A x \in Served(m) : x # Here(m) /\ HistoryOf(k, x[1])[x[2]] = HistoryOf(m, x[1])[x[2]]
      /\ HistoryOf(k, Here(m)[1])[Here(m)[2]] = Last(m.history)
  BY ServedStep
<1>2. /\ from \in [Served(m) -> used \cap ToolAt(l)]
      /\ \A x \in Served(m) : HistoryOf(l, from[x][1])[from[x][2]] = HistoryOf(m, x[1])[x[2]]
      /\ \A x, z \in Served(m) : from[x] = from[z] => x = z
  BY DEF ServedBy
<1>3. \A x \in Served(m) : from[x] # y /\ from[x] \in used \cap ToolAt(l)
  BY <1>2
<1>4. /\ new \in [Served(k) -> (used \cup {y}) \cap ToolAt(l)]
      /\ new[Here(m)] = y /\ \A x \in Served(m) : new[x] = from[x]
  BY <1>1, <1>3
<1> HIDE DEF new
<1>5. \A x \in Served(k) : HistoryOf(l, new[x][1])[new[x][2]] = HistoryOf(k, x[1])[x[2]]
  <2> TAKE x \in Served(k)
  <2>1. CASE x = Here(m)
    BY <1>1, <1>4, <2>1
  <2>2. CASE x \in Served(m)
    BY <1>1, <1>2, <1>4, <2>2
  <2> QED
    BY <1>1, <2>1, <2>2
<1>6. \A x, z \in Served(k) : new[x] = new[z] => x = z
  BY <1>1, <1>2, <1>3, <1>4
<1>7. ServedBy(l, k, u, used \cup {y}, new)
  BY <1>4, <1>5, <1>6 DEF ServedBy
<1> QED
  BY <1>7 DEF ServedAll

\* A run that was recorded to its end.
Recorded(l) == Sound(plan, l) /\ Tale(plan, l) /\ l.pc = "stop"

\* What is known of a recorded node.
LEMMA RecordedIs ==
  ASSUME NEW l, Recorded(l), NEW n \in 1 .. Len(plan)
  PROVE  /\ Len(plan) \in Nat /\ Len(l.done) = Len(plan)
         /\ l.done[n].history \in Seq(Msg) /\ Len(l.done[n].history) \in Nat
         /\ Grammar(l.done[n].history) /\ Over(l.done[n]) /\ l.done[n].end \in Ends /\ l.done[n].end # "running"
         /\ Story(plan, n, l.done[n - 1], l.done[n].history, l.done[n].end)
<1>1. Len(plan) \in Nat /\ Len(l.done) = Len(plan) /\ HistoryOf(l, n) = l.done[n].history /\ EndOf(l, n) = l.done[n].end
  BY AtIs DEF Recorded
<1>2. /\ l.done[n].history \in Seq(Msg) /\ Len(l.done[n].history) \in Nat /\ l.done[n].end \in Ends
      /\ n \in 1 .. l.node
  BY <1>1, SoundIs, SMTT(60) DEF Recorded
<1>3. Grammar(l.done[n].history) /\ Over(l.done[n])
  BY <1>1 DEF Recorded, Sound
<1>4. Story(plan, n, l.done[n - 1], l.done[n].history, l.done[n].end)
  BY <1>1, <1>2 DEF Recorded, Tale
<1> QED
  BY <1>1, <1>2, <1>3, <1>4, EndNames

\* Where a replay on its track stands in the recorded conversation.
LEMMA OnTrackAt ==
  ASSUME NEW l, Recorded(l), NEW m, Sound(plan, m), m.pc \in {"llm", "tool"},
         NEW full, NEW t, Track(plan, l, full, m, t)
  PROVE  LET lh == l.done[m.node].history
             i  == Len(m.history)
         IN  /\ m.node \in 1 .. Len(plan) /\ lh \in Seq(Msg) /\ Len(lh) \in Nat
             /\ i \in 1 .. Len(lh) /\ i \in Nat /\ m.history \in Seq(Msg) /\ m.history # <<>>
             /\ lh[i] \in Msg /\ Last(m.history) = Says(lh[i].role, Mask(lh[i].text))
             /\ Last(m.history).role = lh[i].role /\ Last(m.history).text = Mask(lh[i].text)
             /\ m.history = Masked(SubSeq(lh, 1, i))
             /\ Here(m) \in Place /\ Here(m)[1] = m.node /\ Here(m)[2] = i
             /\ m.pc = "llm" => lh[i].role \in Asks /\ i <= Limit
             /\ m.pc = "tool" => lh[i].role \in Tools
             /\ i = Len(lh) => Last(lh) = lh[i]
<1> DEFINE lh == l.done[m.node].history
           i  == Len(m.history)
<1>1. m.node \in 1 .. Len(plan) /\ m.node \in Nat /\ i \in Nat /\ m.history \in Seq(Msg)
  BY SoundIs
<1>2. lh \in Seq(Msg) /\ Len(lh) \in Nat
  BY <1>1, RecordedIs
<1>3. i <= Len(lh) /\ m.history = Masked(SubSeq(lh, 1, i))
  BY <1>1 DEF Track
<1>4. m.history # <<>> /\ (m.pc = "llm" => Last(m.history).role \in Asks /\ i <= Limit)
      /\ (m.pc = "tool" => Last(m.history).role \in Tools)
  BY DEF Sound, Asking, Calling
<1>5. i \in 1 .. Len(lh) /\ i \in 1 .. i /\ Last(m.history) = m.history[i]
  BY <1>1, <1>2, <1>3, <1>4 DEF Last
<1> HIDE DEF lh
<1>6. SubSeq(lh, 1, i) \in Seq(Msg) /\ Len(SubSeq(lh, 1, i)) = i /\ SubSeq(lh, 1, i)[i] = lh[i]
  BY <1>1, <1>2, <1>3, <1>5, FrontIs
<1>7. /\ lh[i] \in Msg /\ Masked(SubSeq(lh, 1, i))[i] = Says(lh[i].role, Mask(lh[i].text))
  <2> DEFINE g == SubSeq(lh, 1, i)
  <2>1. lh[i] \in Msg
    BY <1>2, <1>5
  <2>2. g \in Seq(Msg) /\ i \in 1 .. Len(g) /\ g[i] = lh[i]
    BY <1>5, <1>6
  <2> HIDE DEF g
  <2>3. Masked(g)[i] = Says(lh[i].role, Mask(lh[i].text))
    BY <2>2, MaskedIs
  <2> QED
    BY <2>1, <2>3 DEF g
<1>8. Last(m.history) = Says(lh[i].role, Mask(lh[i].text))
  BY <1>3, <1>5, <1>7
<1>9. Here(m) \in Place /\ Here(m)[1] = m.node /\ Here(m)[2] = i
  BY <1>1, PlaceIs DEF Here
<1>10. i = Len(lh) => Last(lh) = lh[i]
  BY DEF Last
<1>11. Last(m.history).role = lh[i].role /\ Last(m.history).text = Mask(lh[i].text)
  BY <1>8, SaysIs
<1> QED
  BY <1>1, <1>2, <1>3, <1>4, <1>5, <1>7, <1>8, <1>9, <1>10, <1>11 DEF lh

\* The next word, masked, prolongs the conversation.
LEMMA Prolonged ==
  ASSUME NEW g \in Seq(Msg), NEW i \in Nat, i < Len(g)
  PROVE  /\ Append(Masked(SubSeq(g, 1, i)), Says(g[i + 1].role, Mask(g[i + 1].text))) = Masked(SubSeq(g, 1, i + 1))
         /\ Len(SubSeq(g, 1, i + 1)) = i + 1
<1> DEFINE a == SubSeq(g, 1, i)
           b == SubSeq(g, 1, i + 1)
           x == Says(g[i + 1].role, Mask(g[i + 1].text))
<1>1. Len(g) \in Nat /\ i + 1 \in Nat /\ i <= Len(g) /\ i + 1 <= Len(g) /\ i + 1 \in 1 .. Len(g)
  OBVIOUS
<1>2. a \in Seq(Msg) /\ Len(a) = i /\ \A j \in 1 .. i : a[j] = g[j]
  BY <1>1, FrontIs
<1>3. b \in Seq(Msg) /\ Len(b) = i + 1 /\ \A j \in 1 .. i + 1 : b[j] = g[j]
  BY <1>1, FrontIs
<1> HIDE DEF a, b
<1>4. /\ Masked(a) \in Seq(Msg) /\ Len(Masked(a)) = i
      /\ \A j \in 1 .. i : Masked(a)[j] = Says(a[j].role, Mask(a[j].text))
  BY <1>2, MaskedIs
<1>5. /\ Masked(b) \in Seq(Msg) /\ Len(Masked(b)) = i + 1
      /\ \A j \in 1 .. i + 1 : Masked(b)[j] = Says(b[j].role, Mask(b[j].text))
  BY <1>3, MaskedIs
<1>6. x \in Msg
  BY <1>1, MsgIs, MaskIs, SaysIs
<1>7. /\ Append(Masked(a), x) \in Seq(Msg) /\ Len(Append(Masked(a), x)) = i + 1
      /\ Append(Masked(a), x)[i + 1] = x
      /\ \A j \in 1 .. i : Append(Masked(a), x)[j] = Masked(a)[j]
  BY <1>4, <1>6, AppendIs
<1>8. ASSUME NEW j \in 1 .. i + 1 PROVE Append(Masked(a), x)[j] = Masked(b)[j]
  <2>1. CASE j = i + 1
    BY <1>1, <1>3, <1>5, <1>7, <2>1
  <2>2. CASE j \in 1 .. i
    <3>1. a[j] = b[j]
      BY <1>2, <1>3, <2>2
    <3>2. Append(Masked(a), x)[j] = Says(a[j].role, Mask(a[j].text))
      BY <1>4, <1>7, <2>2
    <3>3. Masked(b)[j] = Says(b[j].role, Mask(b[j].text))
      BY <1>5
    <3> QED
      BY <3>1, <3>2, <3>3
  <2>3. j \in 1 .. i \/ j = i + 1
    BY <1>1
  <2> QED
    BY <2>1, <2>2, <2>3
<1> HIDE DEF x
<1>9. Append(Masked(a), x) = Masked(b)
  BY <1>5, <1>7, <1>8, SameSeq
<1> QED
  BY <1>3, <1>9 DEF a, b, x

\* What a replay on its track finds for a request.
LEMMA HeadLlm ==
  ASSUME NEW l, Recorded(l), NEW m, Sound(plan, m), m.pc = "llm",
         NEW full \in BOOLEAN, NEW t \in Tapes, Track(plan, l, full, m, t)
  PROVE  LET lh == l.done[m.node].history
             i  == Len(m.history)
         IN  /\ Here(m) \notin ToolAt(l)
             /\ \/ /\ Here(m) \in LlmAt(l) /\ t.llm # <<>> /\ Found(t.llm, m.history) = 1
                   /\ t.llm[1] = LlmEntry(lh, i)
                   /\ i < Len(lh) \/ (i = Len(lh) /\ l.done[m.node].end = "llm_error")
                \/ t.llm = <<>> /\ ~ full
                \/ i = Len(lh) /\ l.done[m.node].end = "lost"
<1> DEFINE lh == l.done[m.node].history
           i  == Len(m.history)
<1>1. /\ m.node \in 1 .. Len(plan) /\ lh \in Seq(Msg) /\ Len(lh) \in Nat /\ i \in 1 .. Len(lh) /\ i \in Nat
      /\ m.history = Masked(SubSeq(lh, 1, i)) /\ lh[i].role \in Asks /\ i <= Limit
      /\ Here(m) \in Place /\ Here(m)[1] = m.node /\ Here(m)[2] = i
      /\ i = Len(lh) => Last(lh) = lh[i]
  BY OnTrackAt
<1>2. Story(plan, m.node, l.done[m.node - 1], lh, l.done[m.node].end) /\ l.done[m.node].end # "running"
  BY <1>1, RecordedIs
<1>3. Here(m) \notin ToolAt(l)
  <2>1. lh[i].role \notin Tools
    BY <1>1, RolesDiffer
  <2>2. Here(m) \notin At(l, Tools, "tool_error")
    BY <1>1, <2>1, AtIs DEF Recorded
  <2> QED
    BY <2>2, LogDomains
<1>4. CASE i < Len(lh) \/ l.done[m.node].end = "llm_error"
  <2>1. Here(m) \in LlmAt(l)
    <3> DEFINE x == Here(m)
    <3>1. /\ x \in Place /\ x[1] \in 1 .. Len(plan) /\ x[2] \in 1 .. Len(l.done[x[1]].history)
          /\ l.done[x[1]].history[x[2]].role \in Asks
          /\ x[2] < Len(l.done[x[1]].history) \/ l.done[x[1]].end = "llm_error"
      BY <1>1, <1>4
    <3> HIDE DEF x
    <3>2. x \in At(l, Asks, "llm_error")
      BY <3>1, AtIs DEF Recorded
    <3> QED
      BY <3>2 DEF LlmAt, x
  <2>2. LlmLog(l)[Here(m)] = LlmEntry(lh, i)
    BY <1>1, <2>1, AtIs DEF LlmLog, Recorded
  <2>3. /\ Lists(t.llm, LlmLog(l), Here(m), full) /\ t.llm \in Seq(LlmEntries)
        /\ DOMAIN LlmLog(l) = LlmAt(l) /\ LlmAt(l) \subseteq Place
    BY TapeIs, LogDomains DEF Track
  <2>4. \/ t.llm = <<>> /\ ~ full
        \/ t.llm # <<>> /\ t.llm[1] = LlmEntry(lh, i)
    <3> DEFINE d == <<m.node, i + 1>>
    <3>1. d \in Place /\ d[1] = m.node /\ d[2] = i + 1
      BY <1>1, PlaceIs
    <3>2. \A x \in LlmAt(l) : Before(x, d) <=> Before(x, Here(m)) \/ x = Here(m)
      <4> TAKE x \in LlmAt(l)
      <4>1. x[1] \in Nat /\ x[2] \in Nat /\ x = <<x[1], x[2]>>
        BY <2>3, PlaceIs
      <4>2. x = Here(m) <=> x[1] = m.node /\ x[2] = i
        BY <1>1, <4>1 DEF Here
      <4> QED
        BY <1>1, <3>1, <4>1, <4>2 DEF Before
    <3> HIDE DEF d
    <3> QED
      BY <2>1, <2>2, <2>3, <3>1, <3>2, ListsHead
  <2>5. CASE t.llm # <<>> /\ t.llm[1] = LlmEntry(lh, i)
    <3>1. t.llm[1].key = m.history
      BY <1>1, <2>5 DEF LlmEntry
    <3>2. Len(t.llm) \in Nat /\ 1 \in 1 .. Len(t.llm)
      BY <2>3, <2>5
    <3>3. Found(t.llm, m.history) = 1
      BY <3>1, <3>2, FoundIs
    <3>4. i < Len(lh) \/ (i = Len(lh) /\ l.done[m.node].end = "llm_error")
      BY <1>1, <1>4
    <3> QED
      BY <1>3, <2>1, <2>5, <3>3, <3>4
  <2> QED
    BY <1>3, <2>4, <2>5
<1>5. CASE ~ (i < Len(lh) \/ l.done[m.node].end = "llm_error")
  <2> HIDE DEF lh, i
  <2>1. i = Len(lh) /\ lh # <<>> /\ Last(lh).role \in Asks
    BY <1>1, <1>5
  <2>2. l.done[m.node].end = "lost"
    BY <1>1, <1>2, <1>5, <2>1, LimitIs DEF Story, Closed
  <2> QED
    BY <1>3, <2>1, <2>2 DEF lh, i
<1> QED
  BY <1>4, <1>5

\* What it finds for a call that is not denied: a call that held a secret is
\* on the tape as it was, and in the replay masked.
LEMMA HeadTool ==
  ASSUME NEW l, Recorded(l), NEW m, Sound(plan, m), m.pc = "tool", Last(m.history).role \notin Effectful,
         NEW full \in BOOLEAN, NEW t \in Tapes, Track(plan, l, full, m, t)
  PROVE  LET lh == l.done[m.node].history
             i  == Len(m.history)
         IN  /\ Here(m) \notin LlmAt(l)
             /\ \/ /\ Here(m) \in ToolAt(l) /\ t.tool # <<>>
                   /\ lh[i].text # "secret" => Found(t.tool, Last(m.history)) = 1
                   /\ t.tool[1] = ToolEntry(lh, i)
                   /\ i < Len(lh) \/ (i = Len(lh) /\ l.done[m.node].end = "tool_error")
                \/ t.tool = <<>> /\ ~ full
                \/ i = Len(lh) /\ l.done[m.node].end = "lost"
<1> DEFINE lh == l.done[m.node].history
           i  == Len(m.history)
<1>1. /\ m.node \in 1 .. Len(plan) /\ lh \in Seq(Msg) /\ Len(lh) \in Nat /\ i \in 1 .. Len(lh) /\ i \in Nat
      /\ lh[i].role \in Tools /\ lh[i].role = Last(m.history).role /\ lh[i] \in Msg
      /\ Last(m.history) = Says(lh[i].role, Mask(lh[i].text))
      /\ Here(m) \in Place /\ Here(m)[1] = m.node /\ Here(m)[2] = i
      /\ i = Len(lh) => Last(lh) = lh[i]
  <2>1. /\ m.node \in 1 .. Len(plan) /\ lh \in Seq(Msg) /\ Len(lh) \in Nat /\ i \in 1 .. Len(lh) /\ i \in Nat
        /\ Here(m) \in Place /\ Here(m)[1] = m.node /\ Here(m)[2] = i
    BY OnTrackAt
  <2>2. lh[i].role \in Tools /\ lh[i].role = Last(m.history).role
    BY OnTrackAt
  <2>3. lh[i] \in Msg /\ (i = Len(lh) => Last(lh) = lh[i])
    BY OnTrackAt
  <2>4. Last(m.history) = Says(lh[i].role, Mask(lh[i].text))
    BY OnTrackAt
  <2> HIDE DEF lh, i
  <2> QED
    BY <2>1, <2>2, <2>3, <2>4
<1>2. Story(plan, m.node, l.done[m.node - 1], lh, l.done[m.node].end) /\ l.done[m.node].end # "running"
  BY <1>1, RecordedIs
<1>3. Here(m) \notin LlmAt(l)
  <2>1. lh[i].role \notin Asks
    BY <1>1, RolesDiffer
  <2> QED
    BY <1>1, <2>1, AtIs DEF Recorded, LlmAt
<1>4. CASE i < Len(lh) \/ l.done[m.node].end = "tool_error"
  <2>1. Here(m) \in At(l, Tools, "tool_error") /\ HistoryOf(l, m.node) = lh
    <3>1. HistoryOf(l, m.node) = lh
      BY <1>1, AtIs DEF Recorded
    <3>2. Here(m) \in At(l, Tools, "tool_error")
      <4> DEFINE x == Here(m)
      <4>1. /\ x \in Place /\ x[1] \in 1 .. Len(plan) /\ x[2] \in 1 .. Len(l.done[x[1]].history)
            /\ l.done[x[1]].history[x[2]].role \in Tools
            /\ x[2] < Len(l.done[x[1]].history) \/ l.done[x[1]].end = "tool_error"
        BY <1>1, <1>4
      <4> HIDE DEF x
      <4>2. x \in At(l, Tools, "tool_error")
        BY <4>1, AtIs DEF Recorded
      <4> QED
        BY <4>2 DEF x
    <3> QED
      BY <3>1, <3>2
  <2>2. Here(m) \in ToolAt(l)
    <3>1. i < Len(lh) => Fits(plan, m.node, lh[i].role, lh[i + 1].text)
      BY <1>1, <1>2 DEF Story, Heard
    <3>2. Kept(lh, i)
      BY <1>1, <3>1 DEF Kept, Fits
    <3> QED
      BY <1>1, <2>1, <3>2 DEF ToolAt
  <2>3. ToolLog(l)[Here(m)] = ToolEntry(lh, i)
    BY <1>1, <2>1, <2>2 DEF ToolLog
  <2>4. /\ Lists(t.tool, ToolLog(l), Here(m), full) /\ t.tool \in Seq(ToolEntries)
        /\ DOMAIN ToolLog(l) = ToolAt(l) /\ ToolAt(l) \subseteq Place
    BY TapeIs, LogDomains DEF Track
  <2>5. \/ t.tool = <<>> /\ ~ full
        \/ t.tool # <<>> /\ t.tool[1] = ToolEntry(lh, i)
    <3> DEFINE d == <<m.node, i + 1>>
    <3> HIDE DEF lh, i
    <3>1. d \in Place /\ d[1] = m.node /\ d[2] = i + 1
      BY <1>1, PlaceIs
    <3>2. \A x \in ToolAt(l) : Before(x, d) <=> Before(x, Here(m)) \/ x = Here(m)
      <4> TAKE x \in ToolAt(l)
      <4>1. x[1] \in Nat /\ x[2] \in Nat /\ x = <<x[1], x[2]>>
        BY <2>4, PlaceIs
      <4>2. x = Here(m) <=> x[1] = m.node /\ x[2] = i
        BY <1>1, <4>1 DEF Here, i
      <4> QED
        BY <1>1, <3>1, <4>1, <4>2 DEF Before
    <3> HIDE DEF d
    <3> QED
      BY <2>2, <2>3, <2>4, <3>1, <3>2, ListsHead
  <2>6. CASE t.tool # <<>> /\ t.tool[1] = ToolEntry(lh, i)
    <3>1. t.tool[1].key = lh[i]
      BY <2>6 DEF ToolEntry
    <3>2. lh[i].text # "secret" => Last(m.history) = lh[i]
      <4>1. lh[i].text # "secret" => Mask(lh[i].text) = lh[i].text
        BY DEF Mask
      <4>2. lh[i] = Says(lh[i].role, lh[i].text)
        BY <1>1, MsgIs
      <4> QED
        BY <1>1, <4>1, <4>2
    <3>3. Len(t.tool) \in Nat /\ 1 \in 1 .. Len(t.tool)
      BY <2>4, <2>6
    <3>4. lh[i].text # "secret" => Found(t.tool, Last(m.history)) = 1
      BY <3>1, <3>2, <3>3, FoundIs
    <3>5. i < Len(lh) \/ (i = Len(lh) /\ l.done[m.node].end = "tool_error")
      <4> HIDE DEF lh, i
      <4> QED
        BY <1>1, <1>4
    <3> QED
      BY <1>3, <2>2, <2>6, <3>4, <3>5
  <2> QED
    BY <1>3, <2>5, <2>6
<1>5. CASE ~ (i < Len(lh) \/ l.done[m.node].end = "tool_error")
  <2> HIDE DEF lh, i
  <2>1. i = Len(lh) /\ lh # <<>> /\ Last(lh).role \in Tools
    BY <1>1, <1>5
  <2>2. l.done[m.node].end = "lost"
    BY <1>1, <1>2, <1>5, <2>1 DEF Story, Closed
  <2> QED
    BY <1>3, <2>1, <2>2 DEF lh, i
<1> QED
  BY <1>4, <1>5

\* Where an entry that is found comes from.
LEMMA LlmEntryOf ==
  ASSUME NEW l, Recorded(l), NEW t \in Tapes, NEW used, Owns(t.llm, LlmLog(l), used),
         NEW key, Found(t.llm, key) # 0
  PROVE  LET e == t.llm[Found(t.llm, key)]
         IN  \E x \in LlmAt(l) \ used :
               /\ e = LlmEntry(l.done[x[1]].history, x[2]) /\ e.key = key
               /\ Owns(Left(t.llm, Found(t.llm, key)), LlmLog(l), used \cup {x})
<1> DEFINE i == Found(t.llm, key)
<1>1. t.llm \in Seq(LlmEntries) /\ Len(t.llm) \in Nat
  <2>1. t.llm \in Seq(LlmEntries)
    BY TapeIs
  <2> QED
    BY <2>1
<1>2. i \in 1 .. Len(t.llm) /\ t.llm[i].key = key
  BY <1>1, FoundIs
<1> HIDE DEF i
<1>3. PICK x \in DOMAIN LlmLog(l) \ used :
             t.llm[i] = LlmLog(l)[x] /\ Owns(RemoveAt(t.llm, i), LlmLog(l), used \cup {x})
  BY <1>1, <1>2, OwnsTake
<1>4. x \in LlmAt(l) /\ LlmLog(l)[x] = LlmEntry(HistoryOf(l, x[1]), x[2])
  BY <1>3 DEF LlmLog
<1>5. HistoryOf(l, x[1]) = l.done[x[1]].history
  BY <1>4, AtIs DEF LlmAt, Recorded
<1> QED
  BY <1>2, <1>3, <1>4, <1>5 DEF i, Left

\* The same of an entry of a tool.
LEMMA ToolEntryOf ==
  ASSUME NEW l, Recorded(l), NEW t \in Tapes, NEW used, Owns(t.tool, ToolLog(l), used),
         NEW key, Found(t.tool, key) # 0
  PROVE  LET e == t.tool[Found(t.tool, key)]
         IN  \E x \in ToolAt(l) \ used :
               /\ e = ToolEntry(HistoryOf(l, x[1]), x[2]) /\ e.key = key
               /\ Owns(Left(t.tool, Found(t.tool, key)), ToolLog(l), used \cup {x})
<1> DEFINE i == Found(t.tool, key)
<1>1. t.tool \in Seq(ToolEntries) /\ Len(t.tool) \in Nat
  <2>1. t.tool \in Seq(ToolEntries)
    BY TapeIs
  <2> QED
    BY <2>1
<1>2. i \in 1 .. Len(t.tool) /\ t.tool[i].key = key
  BY <1>1, FoundIs
<1> HIDE DEF i
<1>3. PICK x \in DOMAIN ToolLog(l) \ used :
             t.tool[i] = ToolLog(l)[x] /\ Owns(RemoveAt(t.tool, i), ToolLog(l), used \cup {x})
  BY <1>1, <1>2, OwnsTake
<1>4. x \in ToolAt(l) /\ ToolLog(l)[x] = ToolEntry(HistoryOf(l, x[1]), x[2])
  BY <1>3 DEF ToolLog
<1> QED
  BY <1>2, <1>3, <1>4 DEF i, Left

\* No request was recorded that begins with a secret, or with what scrubbing
\* leaves.
LEMMA DoomedMisses ==
  ASSUME NEW l, Recorded(l), NEW t \in Tapes, NEW used, Owns(t.llm, LlmLog(l), used), Plain,
         NEW m, Doomed(m)
  PROVE  Found(t.llm, m.history) = 0
<1> SUFFICES ASSUME Found(t.llm, m.history) # 0 PROVE FALSE
  OBVIOUS
<1>1. PICK x \in LlmAt(l) \ used : LlmEntry(l.done[x[1]].history, x[2]).key = m.history
  <2> DEFINE e == t.llm[Found(t.llm, m.history)]
  <2>1. \E x \in LlmAt(l) \ used :
          /\ e = LlmEntry(l.done[x[1]].history, x[2]) /\ e.key = m.history
          /\ Owns(Left(t.llm, Found(t.llm, m.history)), LlmLog(l), used \cup {x})
    BY LlmEntryOf
  <2> HIDE DEF e
  <2> QED
    BY <2>1
<1> DEFINE lh == l.done[x[1]].history
<1>2. x[1] \in 1 .. Len(plan) /\ x[2] \in 1 .. Len(lh)
  BY <1>1, AtIs DEF LlmAt, Recorded
<1>3. /\ lh \in Seq(Msg) /\ Len(lh) \in Nat /\ Grammar(lh)
      /\ Story(plan, x[1], l.done[x[1] - 1], lh, l.done[x[1]].end)
  BY <1>2, RecordedIs
<1> HIDE DEF lh
<1>4. 1 \in 1 .. Len(lh) /\ 1 \in 1 .. x[2] /\ x[2] \in Nat /\ x[2] <= Len(lh)
  BY <1>2, <1>3
<1>5. lh[1].text # "scrubbed"
  BY <1>3, <1>4 DEF Story, Spoken, Grammar
<1>6. Mask(lh[1].text) \notin {"secret", "scrubbed"}
  BY <1>5 DEF Mask
<1> DEFINE g == SubSeq(lh, 1, x[2])
<1>7. g \in Seq(Msg) /\ 1 \in 1 .. Len(g) /\ g[1] = lh[1]
  BY <1>3, <1>4, FrontIs
<1> HIDE DEF g
<1>8. Masked(g)[1].text = Mask(lh[1].text)
  BY <1>7, MaskedIs
<1>9. m.history = Masked(g)
  BY <1>1 DEF LlmEntry, g, lh
<1> QED
  BY <1>6, <1>8, <1>9 DEF Doomed

-----------------------------------------------------------------------------
(* The steps of a replay.                                                   *)

\* What is left of the tape s, r, is owned by the places that were not used.
Drains(s, r, f) == \A used : Owns(s, f, used) => \E more : Owns(r, f, used \cup more)

\* Nothing is used.
LEMMA DrainsNothing ==
  ASSUME NEW s, NEW f
  PROVE  Drains(s, s, f)
<1>1. \A used : used \cup {} = used
  OBVIOUS
<1> QED
  BY <1>1 DEF Drains

\* An entry is used.
LEMMA DrainsOne ==
  ASSUME NEW l, Recorded(l), NEW t \in Tapes, NEW key
  PROVE  /\ Found(t.llm, key) # 0 => Drains(t.llm, Left(t.llm, Found(t.llm, key)), LlmLog(l))
         /\ Found(t.tool, key) # 0 => Drains(t.tool, Left(t.tool, Found(t.tool, key)), ToolLog(l))
<1>1. ASSUME Found(t.llm, key) # 0, NEW used, Owns(t.llm, LlmLog(l), used)
      PROVE  \E more : Owns(Left(t.llm, Found(t.llm, key)), LlmLog(l), used \cup more)
  <2>1. \E x \in LlmAt(l) \ used : Owns(Left(t.llm, Found(t.llm, key)), LlmLog(l), used \cup {x})
    BY <1>1, LlmEntryOf
  <2> QED
    BY <2>1
<1>2. ASSUME Found(t.tool, key) # 0, NEW used, Owns(t.tool, ToolLog(l), used)
      PROVE  \E more : Owns(Left(t.tool, Found(t.tool, key)), ToolLog(l), used \cup more)
  <2>1. \E x \in ToolAt(l) \ used : Owns(Left(t.tool, Found(t.tool, key)), ToolLog(l), used \cup {x})
    BY <1>2, ToolEntryOf
  <2> QED
    BY <2>1
<1> QED
  BY <1>1, <1>2 DEF Drains

\* The tapes when an entry is taken.
LEMMA LeftIs ==
  ASSUME NEW t \in Tapes, NEW key
  PROVE  /\ Found(t.llm, key) # 0 =>
              /\ [t EXCEPT !.llm = Left(@, Found(t.llm, key))] \in Tapes
              /\ [t EXCEPT !.llm = Left(@, Found(t.llm, key))].llm = Left(t.llm, Found(t.llm, key))
              /\ [t EXCEPT !.llm = Left(@, Found(t.llm, key))].tool = t.tool
              /\ t.llm[Found(t.llm, key)] \in LlmEntries
         /\ Found(t.tool, key) # 0 =>
              /\ [t EXCEPT !.tool = Left(@, Found(t.tool, key))] \in Tapes
              /\ [t EXCEPT !.tool = Left(@, Found(t.tool, key))].tool = Left(t.tool, Found(t.tool, key))
              /\ [t EXCEPT !.tool = Left(@, Found(t.tool, key))].llm = t.llm
              /\ t.tool[Found(t.tool, key)] \in ToolEntries
<1>1. t.llm \in Seq(LlmEntries) /\ t.tool \in Seq(ToolEntries)
  BY TapeIs
<1>2. Len(t.llm) \in Nat /\ Len(t.tool) \in Nat
  BY <1>1
<1>3. Found(t.llm, key) # 0 => Left(t.llm, Found(t.llm, key)) \in Seq(LlmEntries) /\ t.llm[Found(t.llm, key)] \in LlmEntries
  <2>1. Found(t.llm, key) # 0 => Found(t.llm, key) \in 1 .. Len(t.llm)
    BY <1>2, FoundIs
  <2> QED
    BY <1>1, <2>1, RemovedIs DEF Left
<1>4. Found(t.tool, key) # 0 => Left(t.tool, Found(t.tool, key)) \in Seq(ToolEntries) /\ t.tool[Found(t.tool, key)] \in ToolEntries
  <2>1. Found(t.tool, key) # 0 => Found(t.tool, key) \in 1 .. Len(t.tool)
    BY <1>2, FoundIs
  <2> QED
    BY <1>1, <2>1, RemovedIs DEF Left
<1> QED
  BY <1>1, <1>3, <1>4 DEF Tapes

\* The replayed node at hand.
LEMMA AtHandAgain ==
  ASSUME NEW l, NEW full, NEW m, NEW t, Follows(plan, bearer, l, full, m, t), m.pc \in {"llm", "tool"}
  PROVE  /\ Sound(plan, m) /\ t \in Tapes /\ m.pc # "stop"
         /\ m.history \in Seq(Msg) /\ m.history # <<>> /\ Len(m.history) \in Nat
         /\ Last(m.history) \in Msg
         /\ m.pc = "llm" => Last(m.history).role \in Asks /\ Last(m.history).role \notin Tools
         /\ m.pc = "tool" => Last(m.history).role \in Tools /\ Last(m.history).role \notin Asks
                             /\ Last(m.history).text # "secret"
         /\ Last(m.history).role # "final"
         /\ Alike(m, m) /\ Echoed(m.history) /\ m.state = "none" /\ Echoes(m)
<1>1. Sound(plan, m) /\ t \in Tapes /\ m.pc # "stop" /\ m.state = "none" /\ Echoes(m)
  BY DEF Follows, Echoes
<1>2. /\ m.history \in Seq(Msg) /\ m.node \in Nat \ {0} /\ Alike(m, m) /\ Len(m.done) = m.node - 1
      /\ Len(m.done) \in Nat
  BY <1>1, SoundIs
<1>3. /\ m.pc = "llm" => Asking(m.history)
      /\ m.pc = "tool" => Calling(m.history)
  BY <1>1 DEF Sound
<1>4. m.history # <<>>
  BY <1>3 DEF Asking, Calling
<1>5. /\ Len(m.history) \in Nat /\ Len(m.history) \in 1 .. Len(m.history)
      /\ Last(m.history) = m.history[Len(m.history)] /\ Last(m.history) \in Msg
  BY <1>2, <1>4 DEF Last
<1>6. m.node \in 1 .. m.node /\ HistoryOf(m, m.node) = m.history
  BY <1>2 DEF HistoryOf
<1>7. Echoed(m.history)
  BY <1>1, <1>6 DEF Echoes
<1>8. /\ m.pc = "llm" => Last(m.history).role \in Asks
      /\ m.pc = "tool" => Last(m.history).role \in Tools
  BY <1>3 DEF Asking, Calling
<1>9. m.pc = "tool" => Last(m.history).text # "secret"
  BY <1>5, <1>7, <1>8, RolesDiffer DEF Echoed
<1> QED
  BY <1>1, <1>2, <1>4, <1>5, <1>7, <1>8, <1>9, RolesDiffer

\* A node of the replay fails.
LEMMA FailFollows ==
  ASSUME NEW l, Recorded(l), NEW full, NEW m, NEW t, Follows(plan, bearer, l, full, m, t), m.pc \in {"llm", "tool"},
         NEW end \in {"replay_miss", "llm_error", "tool_error"},
         NEW u \in Tapes, Drains(t.llm, u.llm, LlmLog(l)), Drains(t.tool, u.tool, ToolLog(l)),
         Track(plan, l, full, m, t) =>
           Track(plan, l, full, Failed(m, end), u) \/ Off(plan, bearer, l, full, Failed(m, end))
  PROVE  Follows(plan, bearer, l, full, Failed(m, end), u)
<1> DEFINE k == Failed(m, end)
           h == m.history
<1>1. /\ Sound(plan, m) /\ m.pc # "stop" /\ h # <<>> /\ Last(h).role # "final"
      /\ Alike(m, m) /\ Echoed(h) /\ m.state = "none" /\ Echoes(m)
  BY AtHandAgain
<1>2. end \in Ends /\ end # "ok" /\ end # "never" /\ end # "running"
  BY EndNames
<1>3. Sound(plan, k) /\ Said(m, k, h, end) /\ k.state = "none" /\ k.done[m.node].state = "none"
  BY <1>1, <1>2, FailedIs
<1> HIDE DEF k
<1>4. Echoes(k)
  BY <1>1, <1>3, EchoesGoOn
<1>5. FailedSome(k)
  BY <1>1, <1>2, <1>3, FailsStay
<1>6. Track(plan, l, full, k, u) \/ Off(plan, bearer, l, full, k)
  <2>1. CASE Off(plan, bearer, l, full, m)
    BY <1>1, <1>3, <1>5, <2>1, OffStays
  <2> QED
    BY <2>1 DEF Follows, k
<1>7. Paid(l, k, u)
  <2>1. PICK used, from : PaidBy(l, m, t, used, from)
    BY DEF Follows, Paid
  <2>2. PICK more : Owns(u.llm, LlmLog(l), used \cup more)
    BY <2>1 DEF PaidBy, Drains
  <2> QED
    BY <1>1, <1>2, <1>3, <2>1, <2>2, PaidStays
<1>8. ServedAll(l, k, u)
  <2>1. PICK used, from : ServedBy(l, m, t, used, from)
    BY DEF Follows, ServedAll
  <2>2. PICK more : Owns(u.tool, ToolLog(l), used \cup more)
    BY <2>1 DEF ServedBy, Drains
  <2>3. ~ Grows(m, h, end, Tools \ Effectful, "never")
    BY <1>2 DEF Grows
  <2> QED
    BY <1>1, <1>2, <1>3, <2>1, <2>2, <2>3, ServedStays
<1>9. Follows(plan, bearer, l, full, k, u)
  BY <1>3, <1>4, <1>6, <1>7, <1>8 DEF Follows
<1> QED
  BY <1>9 DEF k

\* A miss: on the track only if the request was lost or the bundle cut.
LEMMA ReanswerMisses ==
  ASSUME NEW l, Recorded(l), NEW full \in BOOLEAN, NEW m, NEW t, Follows(plan, bearer, l, full, m, t), m.pc = "llm",
         Found(t.llm, m.history) = 0
  PROVE  Follows(plan, bearer, l, full, Failed(m, "replay_miss"), t)
<1>1. /\ Sound(plan, m) /\ t \in Tapes /\ m.pc # "stop" /\ Last(m.history).role # "final" /\ Alike(m, m)
  BY AtHandAgain
<1>2. "replay_miss" \in Ends /\ "replay_miss" # "ok" /\ "replay_miss" # "running"
  BY EndNames
<1>3. Said(m, Failed(m, "replay_miss"), m.history, "replay_miss")
  BY <1>1, <1>2, FailedIs
<1>4. ASSUME Track(plan, l, full, m, t) PROVE Off(plan, bearer, l, full, Failed(m, "replay_miss"))
  <2>1. ~ full \/ l.done[m.node].end = "lost"
    BY <1>1, <1>4, HeadLlm
  <2>2. ~ full \/ ~ Faithful(plan, bearer, l, m.node)
    BY <2>1 DEF Faithful
  <2> QED
    BY <1>1, <1>2, <1>3, <1>4, <2>2, Leaves
<1>5. Drains(t.llm, t.llm, LlmLog(l)) /\ Drains(t.tool, t.tool, ToolLog(l))
  BY DrainsNothing
<1> QED
  BY <1>1, <1>4, <1>5, FailFollows

\* The entry holds the response that follows, or the error of the request.
LEMMA EntryIs ==
  ASSUME NEW h \in Seq(Msg), Grammar(h), NEW i \in 1 .. Len(h), h[i].role \in Asks
  PROVE  /\ LlmEntry(h, i).key = Masked(SubSeq(h, 1, i))
         /\ i < Len(h) => /\ LlmEntry(h, i).res = Says(h[i + 1].role, Mask(h[i + 1].text))
                          /\ LlmEntry(h, i).res.role = h[i + 1].role /\ LlmEntry(h, i).res.text = Mask(h[i + 1].text)
                          /\ LlmEntry(h, i).res \in Msg
                          /\ h[i + 1].role \in Replies /\ h[i + 1].role # "error" /\ i + 1 \in 1 .. Len(h)
         /\ ~ (i < Len(h)) => LlmEntry(h, i).res.role = "error" /\ i = Len(h)
<1>1. Len(h) \in Nat /\ i \in Nat /\ i <= Len(h)
  OBVIOUS
<1>2. CASE i < Len(h)
  <2>1. i + 1 \in 1 .. Len(h) /\ h[i + 1].role \in Replies /\ h[i + 1] \in Msg
    BY <1>1, <1>2 DEF Grammar
  <2>2. LlmEntry(h, i).res = Says(h[i + 1].role, Mask(h[i + 1].text)) /\ LlmEntry(h, i).key = Masked(SubSeq(h, 1, i))
    BY <1>2 DEF LlmEntry
  <2>3. h[i + 1].text \in Texts /\ Mask(h[i + 1].text) \in Texts
    BY <2>1, MsgIs, MaskIs
  <2> QED
    BY <1>2, <2>1, <2>2, <2>3, SaysIs, RolesDiffer
<1>3. CASE ~ (i < Len(h))
  <2>1. LlmEntry(h, i).res = Says("error", "none") /\ LlmEntry(h, i).key = Masked(SubSeq(h, 1, i))
    BY <1>3 DEF LlmEntry
  <2> QED
    BY <1>1, <1>3, <2>1, SaysIs
<1> QED
  BY <1>2, <1>3

\* A recorded error of a request.
LEMMA ReanswerFails ==
  ASSUME NEW l, Recorded(l), NEW full \in BOOLEAN, NEW m, NEW t, Follows(plan, bearer, l, full, m, t), m.pc = "llm",
         Found(t.llm, m.history) # 0, t.llm[Found(t.llm, m.history)].res.role = "error"
  PROVE  Follows(plan, bearer, l, full, Failed(m, "llm_error"), [t EXCEPT !.llm = Left(@, Found(t.llm, m.history))])
<1> DEFINE f == Found(t.llm, m.history)
           u == [t EXCEPT !.llm = Left(@, f)]
           k == Failed(m, "llm_error")
           lh == l.done[m.node].history
           i == Len(m.history)
<1>1. /\ Sound(plan, m) /\ t \in Tapes /\ m.pc # "stop" /\ Last(m.history).role # "final" /\ Alike(m, m)
  BY AtHandAgain
<1>2. "llm_error" \in Ends /\ "llm_error" # "ok" /\ "llm_error" # "running" /\ "llm_error" # "tool_error"
  BY EndNames
<1>3. Sound(plan, k) /\ Said(m, k, m.history, "llm_error")
  BY <1>1, <1>2, FailedIs
<1>4. u \in Tapes /\ u.llm = Left(t.llm, f) /\ u.tool = t.tool
  BY <1>1, LeftIs
<1>5. Drains(t.llm, u.llm, LlmLog(l)) /\ Drains(t.tool, u.tool, ToolLog(l))
  BY <1>1, <1>4, DrainsOne, DrainsNothing
<1>6. t.llm # <<>>
  <2>1. t.llm \in Seq(LlmEntries)
    BY <1>1, TapeIs
  <2>2. Len(t.llm) \in Nat
    BY <2>1
  <2>3. f \in 1 .. Len(t.llm)
    BY <2>2, FoundIs
  <2> QED
    BY <2>3
<1> HIDE DEF k, u
<1>7. ASSUME Track(plan, l, full, m, t) PROVE Track(plan, l, full, k, u) \/ Off(plan, bearer, l, full, k)
  <2>1. /\ m.node \in 1 .. Len(plan) /\ lh \in Seq(Msg) /\ Len(lh) \in Nat /\ i \in 1 .. Len(lh)
        /\ m.history = Masked(SubSeq(lh, 1, i)) /\ lh[i].role \in Asks
    BY <1>1, <1>7, OnTrackAt
  <2>2. Grammar(lh)
    BY <2>1, RecordedIs
  <2>3. /\ Here(m) \notin ToolAt(l)
        /\ \/ /\ Here(m) \in LlmAt(l) /\ f = 1
              /\ t.llm[1] = LlmEntry(lh, i)
              /\ i < Len(lh) \/ (i = Len(lh) /\ l.done[m.node].end = "llm_error")
           \/ l.done[m.node].end = "lost"
    BY <1>1, <1>6, <1>7, HeadLlm
  <2>4. CASE l.done[m.node].end = "lost"
    <3>1. ~ Faithful(plan, bearer, l, m.node)
      BY <2>4 DEF Faithful
    <3> QED
      BY <1>1, <1>2, <1>3, <1>7, <3>1, Leaves
  <2>5. CASE l.done[m.node].end # "lost"
    <3>1. ~ (i < Len(lh))
      <4>1. LlmEntry(lh, i).res.role = "error"
        BY <2>3, <2>5
      <4> HIDE DEF lh, i, f
      <4> QED
        BY <2>1, <2>2, <4>1, EntryIs
    <3>2. i = Len(lh) /\ l.done[m.node].end = "llm_error" /\ Here(m) \in LlmAt(l) /\ u.llm = Left(t.llm, 1)
      BY <1>4, <2>3, <2>5, <3>1
    <3>3. Len(m.history) <= Len(lh)
      BY <2>1
    <3>4. Track(plan, l, full, k, u)
      BY <1>1, <1>2, <1>3, <1>4, <1>6, <1>7, <2>1, <2>3, <3>2, <3>3, TrackGoesOn DEF Recorded
    <3> QED
      BY <3>4
  <2> QED
    BY <2>4, <2>5
<1>8. Follows(plan, bearer, l, full, k, u)
  BY <1>4, <1>5, <1>7, FailFollows DEF k
<1> QED
  BY <1>8 DEF k, u

\* A recorded response.
LEMMA ReanswerSpeaks ==
  ASSUME NEW l, Recorded(l), NEW full \in BOOLEAN, NEW m, NEW t, Follows(plan, bearer, l, full, m, t), m.pc = "llm",
         Found(t.llm, m.history) # 0, t.llm[Found(t.llm, m.history)].res.role # "error"
  PROVE  Follows(plan, bearer, l, full, Answered(m, t.llm[Found(t.llm, m.history)].res),
                 [t EXCEPT !.llm = Left(@, Found(t.llm, m.history))])
<1> DEFINE f == Found(t.llm, m.history)
           u == [t EXCEPT !.llm = Left(@, f)]
           e == t.llm[f]
           a == e.res
           k == Answered(m, a)
           h == Append(m.history, a)
           end == IF a.role = "final" THEN "ok" ELSE "running"
           lh == l.done[m.node].history
           i == Len(m.history)
<1>1. /\ Sound(plan, m) /\ t \in Tapes /\ m.pc # "stop" /\ m.history \in Seq(Msg) /\ m.history # <<>> /\ i \in Nat
      /\ Last(m.history).role \in Asks /\ Last(m.history).role \notin Tools
      /\ Echoed(m.history) /\ m.state = "none" /\ Echoes(m)
  BY AtHandAgain
<1>2. u \in Tapes /\ u.llm = Left(t.llm, f) /\ u.tool = t.tool /\ e \in LlmEntries
  BY <1>1, LeftIs
<1>3. PICK used, from : PaidBy(l, m, t, used, from)
  BY DEF Follows, Paid
<1>4. PICK x \in LlmAt(l) \ used :
        /\ e = LlmEntry(l.done[x[1]].history, x[2]) /\ e.key = m.history
        /\ Owns(u.llm, LlmLog(l), used \cup {x})
  <2>1. Owns(t.llm, LlmLog(l), used)
    BY <1>3 DEF PaidBy
  <2>2. \E x \in LlmAt(l) \ used :
          /\ e = LlmEntry(l.done[x[1]].history, x[2]) /\ e.key = m.history
          /\ Owns(Left(t.llm, f), LlmLog(l), used \cup {x})
    BY <1>1, <2>1, LlmEntryOf, ZenonT(60)
  <2> HIDE DEF e, f, u
  <2> QED
    BY <1>2, <2>2
<1> SUFFICES Follows(plan, bearer, l, full, k, u)
  OBVIOUS
<1> DEFINE xh == l.done[x[1]].history
<1>5. /\ x \in Place /\ x[1] \in 1 .. Len(plan) /\ x[2] \in 1 .. Len(xh) /\ xh[x[2]].role \in Asks
  BY <1>4, AtIs DEF LlmAt, Recorded
<1>6. xh \in Seq(Msg) /\ Len(xh) \in Nat /\ Grammar(xh) /\ Over(l.done[x[1]])
  BY <1>5, RecordedIs
<1> HIDE DEF u, f, xh, lh, e
<1>7. /\ x[2] < Len(xh) /\ x[2] \in Nat /\ a = Says(xh[x[2] + 1].role, Mask(xh[x[2] + 1].text))
      /\ a.role = xh[x[2] + 1].role /\ a.text = Mask(xh[x[2] + 1].text) /\ a \in Msg /\ a.role \in Replies
      /\ m.history = Masked(SubSeq(xh, 1, x[2])) /\ x[2] + 1 \in 1 .. Len(xh)
  <2>1. e.res.role # "error"
    BY DEF e, f
  <2>2. e = LlmEntry(xh, x[2])
    BY <1>4 DEF xh
  <2> QED
    BY <1>4, <1>5, <1>6, <2>1, <2>2, EntryIs
<1>8. a.text # "secret"
  BY <1>7 DEF Mask
<1> HIDE DEF a, k
<1>9. /\ Sound(plan, k) /\ Said(m, k, h, end)
      /\ a.role = "final" => k.state = "none" /\ k.done[m.node].state = m.state
      /\ a.role # "final" => k.state = m.state
  BY <1>1, <1>7, AnsweredIs DEF k
<1>10. Len(h) = i + 1
  BY <1>1, <1>7, AppendIs
<1>11. h = Masked(SubSeq(xh, 1, x[2] + 1))
  BY <1>6, <1>7, Prolonged
<1>12. Echoed(h)
  <2>1. Last(m.history).role \notin Effectful
    BY <1>1, RolesDiffer
  <2> QED
    BY <1>1, <1>7, <1>8, <2>1, EchoedAppend
<1>13. end \notin {"llm_error", "tool_error", "never"} /\ (end # "running" <=> a.role = "final") /\ (end = "ok" <=> a.role = "final")
  OBVIOUS
<1> HIDE DEF end, h, i
<1>14. Echoes(k)
  BY <1>1, <1>9, <1>12, <1>13, EchoesGoOn
<1>15. ServedAll(l, k, u)
  <2>1. PICK owned, origin : ServedBy(l, m, t, owned, origin)
    BY DEF Follows, ServedAll
  <2>2. Owns(u.tool, ToolLog(l), owned \cup {})
    <3>1. owned \cup {} = owned
      OBVIOUS
    <3> QED
      BY <1>2, <2>1, <3>1 DEF ServedBy
  <2>3. ~ Grows(m, h, end, Tools \ Effectful, "never")
    BY <1>1 DEF Grows
  <2> QED
    BY <1>1, <1>9, <1>13, <2>1, <2>2, <2>3, ServedStays
<1>16. Paid(l, k, u)
  <2>1. CASE a.role # "final"
    BY <1>1, <1>3, <1>4, <1>9, <1>13, <2>1, PaidStays
  <2>2. CASE a.role = "final"
    <3>1. x[2] + 1 = Len(xh)
      <4> DEFINE j == x[2] + 1
      <4>1. j \in 1 .. Len(xh) /\ xh[j].role = "final"
        BY <1>7, <2>2
      <4> HIDE DEF j
      <4>2. j = Len(xh)
        BY <1>6, <4>1 DEF Grammar
      <4> QED
        BY <4>2 DEF j
    <3>2. h = Masked(xh)
      <4>1. SubSeq(xh, 1, Len(xh)) = xh
        BY <1>6, FrontIs
      <4> QED
        BY <1>11, <3>1, <4>1
    <3>3. l.done[x[1]].end = "ok"
      <4>1. xh # <<>> /\ Last(xh) = xh[x[2] + 1]
        BY <1>7, <3>1 DEF Last
      <4> QED
        BY <1>6, <1>7, <2>2, <4>1 DEF Over, xh
    <3>4. x[1] \in Well(l)
      <4>1. Len(l.done) = Len(plan)
        BY AtIs DEF Recorded
      <4> QED
        BY <1>5, <3>3, <4>1 DEF Well
    <3>5. x = <<x[1], Len(l.done[x[1]].history) - 1>>
      <4>1. x = <<x[1], x[2]>> /\ Len(xh) - 1 = x[2]
        BY <1>5, <1>6, <1>7, <3>1, PlaceIs
      <4> QED
        BY <4>1 DEF xh
    <3>6. Said(m, k, h, "ok")
      BY <1>9, <1>13, <2>2
    <3> DEFINE n == x[1]
    <3>7. /\ n \in Well(l) /\ h = Masked(l.done[n].history)
          /\ <<n, Len(l.done[n].history) - 1>> \notin used
          /\ Owns(u.llm, LlmLog(l), used \cup {<<n, Len(l.done[n].history) - 1>>})
      BY <1>4, <3>2, <3>4, <3>5 DEF xh
    <3> HIDE DEF n
    <3> QED
      BY <1>1, <1>3, <3>6, <3>7, PaidGoesOn
  <2> QED
    BY <2>1, <2>2
<1>17. CASE Off(plan, bearer, l, full, m)
  <2>1. ~ (Plain /\ Doomed(m))
    BY <1>1, <1>3, DoomedMisses DEF PaidBy
  <2>2. Off(plan, bearer, l, full, k)
    BY <1>1, <1>9, <1>17, <2>1, OffStays
  <2>3. Follows(plan, bearer, l, full, k, u)
    BY <1>2, <1>9, <1>14, <1>15, <1>16, <2>2 DEF Follows
  <2> QED
    BY <2>3
<1>18. CASE Track(plan, l, full, m, t)
  <2>1. /\ m.node \in 1 .. Len(plan) /\ lh \in Seq(Msg) /\ Len(lh) \in Nat /\ i \in 1 .. Len(lh)
        /\ m.history = Masked(SubSeq(lh, 1, i)) /\ lh[i].role \in Asks
    BY <1>1, <1>18, OnTrackAt DEF lh, i
  <2>2. Grammar(lh) /\ Over(l.done[m.node])
    BY <2>1, RecordedIs DEF lh
  <2>3. t.llm # <<>>
    <3>1. t.llm \in Seq(LlmEntries)
      BY <1>1, TapeIs
    <3>2. Len(t.llm) \in Nat
      BY <3>1
    <3>3. f \in 1 .. Len(t.llm)
      BY <3>2, FoundIs DEF f
    <3> QED
      BY <3>3
  <2>4. /\ Here(m) \notin ToolAt(l)
        /\ \/ /\ Here(m) \in LlmAt(l) /\ f = 1
              /\ t.llm[1] = LlmEntry(lh, i)
           \/ l.done[m.node].end = "lost"
    BY <1>1, <1>18, <2>3, HeadLlm DEF f, lh, i
  <2>5. CASE l.done[m.node].end = "lost"
    <3>1. ~ Faithful(plan, bearer, l, m.node)
      BY <2>5 DEF Faithful
    <3>2. ~ Clean(l)
      <4>1. m.node \in 1 .. Len(l.done)
        BY <2>1, AtIs DEF Recorded
      <4> QED
        BY <2>5, <4>1 DEF Clean
    <3>3. Off(plan, bearer, l, full, k)
      BY <1>1, <1>9, <1>18, <3>1, <3>2, Leaves
    <3> QED
      BY <1>2, <1>9, <1>14, <1>15, <1>16, <3>3 DEF Follows
  <2>6. CASE l.done[m.node].end # "lost"
    <3>1. e = LlmEntry(lh, i) /\ a.role # "error"
      BY <2>4, <2>6 DEF e, a, f
    <3>2. i < Len(lh) /\ a = Says(lh[i + 1].role, Mask(lh[i + 1].text)) /\ a.role = lh[i + 1].role
      BY <2>1, <2>2, <3>1, EntryIs DEF a
    <3>3. h = Masked(SubSeq(lh, 1, i + 1))
      BY <1>1, <2>1, <3>2, Prolonged DEF h
    <3>4. a.role = "final" => i + 1 = Len(lh) /\ l.done[m.node].end = "ok"
      <4> SUFFICES ASSUME a.role = "final" PROVE i + 1 = Len(lh) /\ l.done[m.node].end = "ok"
        OBVIOUS
      <4>1. i + 1 \in 1 .. Len(lh)
        BY <2>1, <3>2
      <4>2. i + 1 = Len(lh)
        BY <2>2, <3>2, <4>1 DEF Grammar
      <4>3. lh # <<>> /\ Last(lh) = lh[i + 1]
        BY <4>1, <4>2 DEF Last
      <4> QED
        BY <2>2, <3>2, <4>2, <4>3 DEF Over, lh
    <3>5. Len(h) <= Len(lh)
      BY <1>10, <2>1, <3>2
    <3>6. Track(plan, l, full, k, u)
      <4>1. /\ end = "running" => Len(h) = Len(m.history) + 1
            /\ end # "running" => Len(h) = Len(lh) /\ end = l.done[m.node].end
            /\ Len(h) # Len(m.history) => end # "llm_error" /\ end # "tool_error"
        BY <1>10, <1>13, <3>4 DEF i
      <4>2. /\ Here(m) \in LlmAt(l) /\ t.llm # <<>> /\ u.llm = Left(t.llm, 1)
            /\ Here(m) \notin ToolAt(l) /\ u.tool = t.tool
        BY <1>2, <2>3, <2>4, <2>6
      <4>3. h = Masked(SubSeq(lh, 1, Len(h)))
        BY <1>10, <3>3
      <4> QED
        BY <1>1, <1>9, <1>18, <3>5, <4>1, <4>2, <4>3, TrackGoesOn DEF Recorded, lh
    <3> QED
      BY <1>2, <1>9, <1>14, <1>15, <1>16, <3>6 DEF Follows
  <2> QED
    BY <2>5, <2>6
<1> QED
  BY <1>17, <1>18 DEF Follows

\* The message that the recording has next, as the replay is told it.
HeardNext(l, m, x) ==
  /\ Len(m.history) < Len(l.done[m.node].history)
  /\ x = Mask(l.done[m.node].history[Len(m.history) + 1].text)

\* On the track the result of a call is the recorded one, and the loop goes
\* as far as it went.
LEMMA TrackResult ==
  ASSUME NEW l, Recorded(l), NEW full \in BOOLEAN, NEW m, Sound(plan, m), m.pc = "tool",
         NEW t \in Tapes, Track(plan, l, full, m, t),
         NEW x \in Texts, HeardNext(l, m, x), NEW u, u.llm = t.llm,
         IF Here(m) \in ToolAt(l) THEN t.tool # <<>> /\ u.tool = Left(t.tool, 1) ELSE u.tool = t.tool
  PROVE  Track(plan, l, full, Resulted(m, x), u)
<1> DEFINE lh == l.done[m.node].history
           i == Len(m.history)
           k == Resulted(m, x)
           h == Append(m.history, Says("result", x))
           end == IF i + 1 > Limit THEN "limit" ELSE "running"
<1>1. /\ m.node \in 1 .. Len(plan) /\ lh \in Seq(Msg) /\ Len(lh) \in Nat /\ i \in 1 .. Len(lh) /\ i \in Nat
      /\ m.history \in Seq(Msg) /\ m.history = Masked(SubSeq(lh, 1, i)) /\ lh[i].role \in Tools
      /\ Here(m) \in Place /\ Here(m)[1] = m.node /\ Here(m)[2] = i
  BY OnTrackAt
<1>2. /\ Grammar(lh) /\ Story(plan, m.node, l.done[m.node - 1], lh, l.done[m.node].end)
      /\ l.done[m.node].end # "running"
  BY <1>1, RecordedIs
<1>3. Sound(plan, k) /\ Said(m, k, h, end)
  BY ResultedIs
<1>4. i < Len(lh) /\ x = Mask(lh[i + 1].text)
  BY DEF HeardNext
<1> HIDE DEF lh, k
<1>5. i + 1 \in 1 .. Len(lh) /\ lh[i + 1].role = "result" /\ i + 1 <= Len(lh)
  BY <1>1, <1>2, <1>4 DEF Grammar
<1>6. Here(m) \notin LlmAt(l)
  <2>1. lh[i].role \notin Asks
    BY <1>1, RolesDiffer
  <2> QED
    BY <1>1, <2>1, AtIs DEF Recorded, LlmAt, lh
<1>7. h = Masked(SubSeq(lh, 1, i + 1))
  BY <1>1, <1>4, <1>5, Prolonged
<1>8. Len(h) = i + 1
  <2>1. Says("result", x) \in Msg
    BY SaysIs, RolesDiffer
  <2>2. m.history \in Seq(Msg)
    BY <1>1
  <2> QED
    BY <2>1, <2>2, AppendIs
<1>9. i + 1 > Limit => i + 1 = Len(lh) /\ l.done[m.node].end = "limit"
  <2> SUFFICES ASSUME i + 1 > Limit PROVE i + 1 = Len(lh) /\ l.done[m.node].end = "limit"
    OBVIOUS
  <2> HIDE DEF i
  <2>1. lh[i + 1].role \in Asks
    BY <1>5, RolesDiffer
  <2>2. i + 1 = Len(lh)
    <3>1. i \in Nat /\ Len(lh) \in Nat /\ i \in 1 .. Len(lh) /\ Grammar(lh)
      BY <1>1, <1>2
    <3> QED
      BY <1>5, <2>1, <3>1, LimitIs DEF Grammar
  <2>3. lh # <<>> /\ Last(lh).role \in Asks /\ Len(lh) > Limit
    BY <1>5, <2>1, <2>2 DEF Last
  <2> QED
    BY <1>2, <2>2, <2>3 DEF Story, Closed
<1> HIDE DEF h
<1>10. /\ end = "running" => Len(h) = Len(m.history) + 1
       /\ end # "running" => Len(h) = Len(lh) /\ end = l.done[m.node].end
       /\ Len(h) # Len(m.history) => end # "llm_error" /\ end # "tool_error"
  BY <1>8, <1>9
<1>11. h = Masked(SubSeq(lh, 1, Len(h))) /\ Len(h) <= Len(lh)
  BY <1>5, <1>7, <1>8
<1> HIDE DEF end, i
<1>12. Track(plan, l, full, k, u)
  BY <1>3, <1>6, <1>10, <1>11, TrackGoesOn DEF Recorded, lh
<1> QED
  BY <1>12 DEF k

\* A result of the replay, denied or from the tape.
LEMMA ResultFollows ==
  ASSUME NEW l, Recorded(l), NEW full, NEW m, NEW t, Follows(plan, bearer, l, full, m, t), m.pc = "tool",
         NEW x \in Texts, Last(m.history).role \in Effectful => x = DenialOnReplay(Last(m.history).role),
         NEW u \in Tapes, u.llm = t.llm,
         Track(plan, l, full, m, t) =>
           Track(plan, l, full, Resulted(m, x), u) \/ Off(plan, bearer, l, full, Resulted(m, x)),
         \A owned, origin : ServedBy(l, m, t, owned, origin) => ServedAll(l, Resulted(m, x), u)
  PROVE  Follows(plan, bearer, l, full, Resulted(m, x), u)
<1> DEFINE k == Resulted(m, x)
           y == Says("result", x)
           h == Append(m.history, y)
           end == IF Len(m.history) + 1 > Limit THEN "limit" ELSE "running"
<1>1. /\ Sound(plan, m) /\ m.history \in Seq(Msg) /\ m.history # <<>>
      /\ Echoed(m.history) /\ m.state = "none" /\ Echoes(m)
  BY AtHandAgain
<1>2. y \in Msg /\ y.role = "result" /\ y.text = x /\ "result" \notin Replies
  BY SaysIs, RolesDiffer
<1>3. /\ Sound(plan, k) /\ Said(m, k, h, end)
      /\ k.state = "none" /\ (end # "running" => k.done[m.node].state = "none")
  BY <1>1, ResultedIs
<1>4. Echoed(h)
  BY <1>1, <1>2, EchoedAppend
<1>5. end # "ok"
  OBVIOUS
<1> HIDE DEF end, h, k
<1>6. Echoes(k)
  BY <1>1, <1>3, <1>4, EchoesGoOn
<1>7. Track(plan, l, full, k, u) \/ Off(plan, bearer, l, full, k)
  <2>1. ~ Doomed(m)
    BY DEF Doomed
  <2>2. CASE Off(plan, bearer, l, full, m)
    BY <1>1, <1>3, <2>1, <2>2, OffStays
  <2> QED
    BY <2>2 DEF Follows, k
<1>8. Paid(l, k, u)
  <2>1. PICK used, from : PaidBy(l, m, t, used, from)
    BY DEF Follows, Paid
  <2>2. Owns(u.llm, LlmLog(l), used \cup {})
    <3>1. used \cup {} = used
      OBVIOUS
    <3> QED
      BY <2>1, <3>1 DEF PaidBy
  <2> QED
    BY <1>1, <1>3, <1>5, <2>1, <2>2, PaidStays
<1>9. ServedAll(l, k, u)
  BY DEF Follows, ServedAll, k
<1>10. Follows(plan, bearer, l, full, k, u)
  BY <1>3, <1>6, <1>7, <1>8, <1>9 DEF Follows
<1> QED
  BY <1>10 DEF k

\* A tool with effects is denied, as it was recorded or not.
LEMMA RedenyFollows ==
  ASSUME NEW l, Recorded(l), NEW full \in BOOLEAN, NEW m, NEW t, Follows(plan, bearer, l, full, m, t), m.pc = "tool",
         Last(m.history).role \in Effectful
  PROVE  Follows(plan, bearer, l, full, Resulted(m, DenialOnReplay(Last(m.history).role)), t)
<1> DEFINE d == DenialOnReplay(Last(m.history).role)
           k == Resulted(m, d)
           lh == l.done[m.node].history
           i == Len(m.history)
           h == Append(m.history, Says("result", d))
           end == IF i + 1 > Limit THEN "limit" ELSE "running"
<1>1. Sound(plan, m) /\ t \in Tapes /\ m.pc # "stop"
  BY AtHandAgain
<1>2. d \in Texts /\ Mask(d) = d /\ d \in Denials
  BY DenialIs, MaskIs
<1>d. d = DenialOnReplay(Last(m.history).role)
  OBVIOUS
<1> HIDE DEF d
<1>3. Sound(plan, k) /\ Said(m, k, h, end) /\ end # "never"
  BY <1>1, <1>2, ResultedIs
<1>4. ASSUME Track(plan, l, full, m, t) PROVE Track(plan, l, full, k, t) \/ Off(plan, bearer, l, full, k)
  <2>1. /\ m.node \in 1 .. Len(plan) /\ lh \in Seq(Msg) /\ Len(lh) \in Nat /\ i \in 1 .. Len(lh)
        /\ lh[i].role = Last(m.history).role /\ lh[i].role \in Tools
        /\ Here(m) \in Place /\ Here(m)[1] = m.node /\ Here(m)[2] = i
        /\ i = Len(lh) => Last(lh) = lh[i]
    BY <1>1, <1>4, OnTrackAt
  <2>2. /\ Story(plan, m.node, l.done[m.node - 1], lh, l.done[m.node].end) /\ l.done[m.node].end # "running"
        /\ m.node \in 1 .. Len(l.done)
    BY <2>1, RecordedIs
  <2> HIDE DEF lh, i, k, end, h
  <2>3. ASSUME ~ Repeats(plan, m.node, lh[i].role) \/ ~ (i < Len(lh)) PROVE Off(plan, bearer, l, full, k)
    <3>1. ~ Faithful(plan, bearer, l, m.node)
      <4>1. i \in DOMAIN lh
        BY <2>1
      <4> QED
        BY <2>1, <2>3, <4>1 DEF Faithful, lh
    <3>2. ~ Clean(l)
      <4>1. CASE i < Len(lh)
        <5>1. lh[i + 1].text # DenialOnReplay(lh[i].role)
          BY <2>1, <2>2, <2>3, <4>1 DEF Story, Heard, Fits
        <5> QED
          BY <2>1, <2>2, <4>1, <5>1 DEF Clean, lh
      <4>2. CASE ~ (i < Len(lh))
        <5>1. i = Len(lh) /\ lh # <<>> /\ Last(lh).role \in Tools
          BY <2>1, <4>2
        <5>2. l.done[m.node].end # "ok"
          BY <2>2, <5>1 DEF Story, Closed
        <5> QED
          BY <2>2, <5>2 DEF Clean
      <4> QED
        BY <4>1, <4>2
    <3> QED
      BY <1>1, <1>3, <1>4, <3>1, <3>2, Leaves
  <2>4. ASSUME Repeats(plan, m.node, lh[i].role), i < Len(lh) PROVE Track(plan, l, full, k, t)
    <3>1. lh[i + 1].text = d
      BY <1>d, <2>1, <2>2, <2>4 DEF Story, Heard, Fits
    <3>2. Here(m) \notin ToolAt(l)
      <4>1. HistoryOf(l, m.node) = lh
        BY <2>1, AtIs DEF Recorded, lh
      <4> QED
        BY <1>2, <2>1, <2>4, <3>1, <4>1 DEF ToolAt, Kept
    <3>3. d = Mask(lh[i + 1].text)
      BY <1>2, <3>1
    <3>4. HeardNext(l, m, d)
      BY <2>4, <3>3 DEF HeardNext, lh, i
    <3> QED
      BY <1>1, <1>2, <1>4, <2>4, <3>2, <3>4, TrackResult DEF k
  <2> QED
    BY <2>3, <2>4
<1>5. ASSUME NEW owned, NEW origin, ServedBy(l, m, t, owned, origin) PROVE ServedAll(l, k, t)
  <2>1. Owns(t.tool, ToolLog(l), owned \cup {})
    <3>1. owned \cup {} = owned
      OBVIOUS
    <3> QED
      BY <1>5, <3>1 DEF ServedBy
  <2> HIDE DEF k, h, end
  <2>2. ~ Grows(m, h, end, Tools \ Effectful, "never")
    BY DEF Grows
  <2> QED
    BY <1>1, <1>3, <1>5, <2>1, <2>2, ServedStays
<1>6. Follows(plan, bearer, l, full, k, t)
  BY <1>1, <1>2, <1>d, <1>4, <1>5, ResultFollows
<1> QED
  BY <1>6 DEF d

\* A call that held a secret, or that was lost, cannot be repeated.
LEMMA CallLeaves ==
  ASSUME NEW l, Recorded(l), NEW m, Sound(plan, m), m.pc = "tool", Last(m.history).role \notin Effectful,
         NEW full, NEW t, Track(plan, l, full, m, t),
         \/ l.done[m.node].history[Len(m.history)].text = "secret"
         \/ l.done[m.node].end = "lost",
         NEW k, NEW h, NEW end, Said(m, k, h, end)
  PROVE  Off(plan, bearer, l, full, k)
<1> DEFINE lh == l.done[m.node].history
           i == Len(m.history)
<1>1. /\ m.node \in 1 .. Len(plan) /\ lh \in Seq(Msg) /\ Len(lh) \in Nat /\ i \in 1 .. Len(lh)
      /\ lh[i].role = Last(m.history).role /\ lh[i].role \in Tools
  BY OnTrackAt
<1>2. m.node \in 1 .. Len(l.done) /\ m.pc # "stop"
  BY <1>1, RecordedIs
<1> HIDE DEF lh, i
<1>3. CASE l.done[m.node].end = "lost"
  <2>1. ~ Faithful(plan, bearer, l, m.node) /\ ~ Clean(l)
    BY <1>2, <1>3 DEF Faithful, Clean
  <2> QED
    BY <1>2, <2>1, Leaves
<1>4. CASE lh[i].text = "secret"
  <2>1. ~ Clean(l)
    BY <1>1, <1>2, <1>4 DEF Clean, lh
  <2>2. lh # Masked(lh)
    <3>1. Masked(lh)[i].text = Mask(lh[i].text)
      BY <1>1, MaskedIs
    <3>2. Mask(lh[i].text) # "secret"
      BY DEF Mask
    <3> QED
      BY <1>4, <3>1, <3>2
  <2>3. ~ Faithful(plan, bearer, l, m.node)
    BY <2>2 DEF Faithful, lh
  <2> QED
    BY <1>2, <2>1, <2>3, Leaves
<1> QED
  BY <1>3, <1>4 DEF lh, i

\* No entry for a call.
LEMMA RetoolMisses ==
  ASSUME NEW l, Recorded(l), NEW full \in BOOLEAN, NEW m, NEW t, Follows(plan, bearer, l, full, m, t), m.pc = "tool",
         Last(m.history).role \notin Effectful, Found(t.tool, Last(m.history)) = 0
  PROVE  Follows(plan, bearer, l, full, Failed(m, "tool_error"), t)
<1>1. /\ Sound(plan, m) /\ t \in Tapes /\ m.pc # "stop" /\ Last(m.history).role # "final" /\ Alike(m, m)
  BY AtHandAgain
<1>2. "tool_error" \in Ends /\ "tool_error" # "ok" /\ "tool_error" # "running"
  BY EndNames
<1>3. Said(m, Failed(m, "tool_error"), m.history, "tool_error")
  BY <1>1, <1>2, FailedIs
<1>4. ASSUME Track(plan, l, full, m, t) PROVE Off(plan, bearer, l, full, Failed(m, "tool_error"))
  <2>1. \/ l.done[m.node].history[Len(m.history)].text = "secret"
        \/ l.done[m.node].end = "lost"
        \/ ~ full
    BY <1>1, <1>4, HeadTool
  <2>2. CASE ~ full
    BY <1>1, <1>2, <1>3, <1>4, <2>2, Leaves
  <2> QED
    BY <1>1, <1>3, <1>4, <2>1, <2>2, CallLeaves
<1>5. Drains(t.llm, t.llm, LlmLog(l)) /\ Drains(t.tool, t.tool, ToolLog(l))
  BY DrainsNothing
<1> QED
  BY <1>1, <1>4, <1>5, FailFollows

\* The call at hand is the recorded one, and its entry is the next on the tape.
EntryAtHand(l, m, t) ==
  LET lh == l.done[m.node].history
      i  == Len(m.history)
  IN  /\ m.node \in 1 .. Len(plan) /\ lh \in Seq(Msg) /\ Len(lh) \in Nat /\ i \in 1 .. Len(lh)
      /\ lh[i].role \in Tools /\ m.history = Masked(SubSeq(lh, 1, i))
      /\ Heard(plan, m.node, lh)
      /\ Here(m) \notin LlmAt(l) /\ Here(m) \in ToolAt(l)
      /\ t.tool # <<>> /\ Found(t.tool, Last(m.history)) = 1
      /\ t.tool[1] = ToolEntry(lh, i)
      /\ i < Len(lh) \/ (i = Len(lh) /\ l.done[m.node].end = "tool_error")

\* An entry that is found on the track is the first of the tape, or the node
\* cannot be repeated.
LEMMA CallFound ==
  ASSUME NEW l, Recorded(l), NEW full \in BOOLEAN, NEW m, NEW t \in Tapes, Sound(plan, m), m.pc = "tool",
         Last(m.history).role \notin Effectful, Track(plan, l, full, m, t),
         Found(t.tool, Last(m.history)) # 0,
         l.done[m.node].history[Len(m.history)].text # "secret", l.done[m.node].end # "lost"
  PROVE  EntryAtHand(l, m, t)
<1> DEFINE lh == l.done[m.node].history
           i == Len(m.history)
           f == Found(t.tool, Last(m.history))
<1>1. /\ m.node \in 1 .. Len(plan) /\ lh \in Seq(Msg) /\ Len(lh) \in Nat /\ i \in 1 .. Len(lh)
      /\ lh[i].role \in Tools /\ m.history = Masked(SubSeq(lh, 1, i))
  BY OnTrackAt
<1>2. Heard(plan, m.node, lh)
  BY <1>1, RecordedIs DEF Story
<1>3. t.tool # <<>>
  <2>1. t.tool \in Seq(ToolEntries)
    BY TapeIs
  <2>2. Len(t.tool) \in Nat
    BY <2>1
  <2>3. f \in 1 .. Len(t.tool)
    BY <2>2, FoundIs
  <2> QED
    BY <2>3
<1>4. /\ Here(m) \notin LlmAt(l) /\ Here(m) \in ToolAt(l)
      /\ f = 1 /\ t.tool[1] = ToolEntry(lh, i)
      /\ i < Len(lh) \/ (i = Len(lh) /\ l.done[m.node].end = "tool_error")
  BY <1>3, HeadTool
<1> QED
  BY <1>1, <1>2, <1>3, <1>4 DEF EntryAtHand

\* A recorded error of a tool, which in the recording may have been forgiven.
LEMMA RetoolFails ==
  ASSUME NEW l, Recorded(l), NEW full \in BOOLEAN, NEW m, NEW t, Follows(plan, bearer, l, full, m, t), m.pc = "tool",
         Last(m.history).role \notin Effectful,
         Found(t.tool, Last(m.history)) # 0, t.tool[Found(t.tool, Last(m.history))].res = "error"
  PROVE  Follows(plan, bearer, l, full, Failed(m, "tool_error"),
                 [t EXCEPT !.tool = Left(@, Found(t.tool, Last(m.history)))])
<1> DEFINE f == Found(t.tool, Last(m.history))
           u == [t EXCEPT !.tool = Left(@, f)]
           k == Failed(m, "tool_error")
           lh == l.done[m.node].history
           i == Len(m.history)
<1>1. /\ Sound(plan, m) /\ t \in Tapes /\ m.pc # "stop" /\ Last(m.history).role # "final" /\ Alike(m, m)
  BY AtHandAgain
<1>2. "tool_error" \in Ends /\ "tool_error" # "ok" /\ "tool_error" # "running" /\ "tool_error" # "llm_error"
  BY EndNames
<1>3. Sound(plan, k) /\ Said(m, k, m.history, "tool_error")
  BY <1>1, <1>2, FailedIs
<1>4. u \in Tapes /\ u.tool = Left(t.tool, f) /\ u.llm = t.llm
  BY <1>1, LeftIs
<1>5. Drains(t.llm, u.llm, LlmLog(l)) /\ Drains(t.tool, u.tool, ToolLog(l))
  BY <1>1, <1>4, DrainsOne, DrainsNothing
<1> HIDE DEF k, u
<1>6. ASSUME Track(plan, l, full, m, t) PROVE Track(plan, l, full, k, u) \/ Off(plan, bearer, l, full, k)
  <2>1. CASE lh[i].text = "secret" \/ l.done[m.node].end = "lost"
    BY <1>1, <1>3, <1>6, <2>1, CallLeaves
  <2>2. CASE ~ (lh[i].text = "secret" \/ l.done[m.node].end = "lost")
    <3>1. /\ m.node \in 1 .. Len(plan) /\ lh \in Seq(Msg) /\ Len(lh) \in Nat /\ i \in 1 .. Len(lh)
          /\ lh[i].role \in Tools /\ m.history = Masked(SubSeq(lh, 1, i))
          /\ Heard(plan, m.node, lh)
          /\ Here(m) \notin LlmAt(l) /\ Here(m) \in ToolAt(l)
          /\ t.tool # <<>> /\ f = 1 /\ t.tool[1] = ToolEntry(lh, i)
          /\ i < Len(lh) \/ (i = Len(lh) /\ l.done[m.node].end = "tool_error")
      <4>1. EntryAtHand(l, m, t)
        BY <1>1, <1>6, <2>2, CallFound
      <4> QED
        BY <4>1, ZenonT(60) DEF EntryAtHand
    <3>2. CASE i < Len(lh)
      <4> HIDE DEF lh, i
      <4>1. ToolEntry(lh, i).res = "error"
        BY <3>1 DEF f
      <4>2. lh[i + 1].text # "error" /\ i + 1 \in DOMAIN lh
        BY <3>1, <3>2 DEF Heard, Fits
      <4>3. lh[i + 1].text = "invalid"
        BY <3>2, <4>1, <4>2 DEF ToolEntry
      <4>4. ~ Faithful(plan, bearer, l, m.node)
        BY <4>2, <4>3 DEF Faithful, lh
      <4> QED
        BY <1>1, <1>2, <1>3, <1>6, <4>4, Leaves
    <3>3. CASE i = Len(lh) /\ l.done[m.node].end = "tool_error"
      <4>1. Len(m.history) <= Len(lh) /\ u.tool = Left(t.tool, 1)
        BY <1>4, <3>1, <3>3
      <4> QED
        BY <1>1, <1>2, <1>3, <1>4, <1>6, <3>1, <3>3, <4>1, TrackGoesOn DEF Recorded
    <3> QED
      BY <3>1, <3>2, <3>3
  <2> QED
    BY <2>1, <2>2
<1>7. Follows(plan, bearer, l, full, k, u)
  BY <1>4, <1>5, <1>6, FailFollows DEF k
<1> QED
  BY <1>7 DEF k, u

\* A recorded output.
LEMMA RetoolSpeaks ==
  ASSUME NEW l, Recorded(l), NEW full \in BOOLEAN, NEW m, NEW t, Follows(plan, bearer, l, full, m, t), m.pc = "tool",
         Last(m.history).role \notin Effectful,
         Found(t.tool, Last(m.history)) # 0, t.tool[Found(t.tool, Last(m.history))].res # "error"
  PROVE  Follows(plan, bearer, l, full, Resulted(m, t.tool[Found(t.tool, Last(m.history))].res),
                 [t EXCEPT !.tool = Left(@, Found(t.tool, Last(m.history)))])
<1> DEFINE f == Found(t.tool, Last(m.history))
           u == [t EXCEPT !.tool = Left(@, f)]
           x == t.tool[f].res
           k == Resulted(m, x)
           lh == l.done[m.node].history
           i == Len(m.history)
           h == Append(m.history, Says("result", x))
           end == IF i + 1 > Limit THEN "limit" ELSE "running"
<1>1. /\ Sound(plan, m) /\ t \in Tapes /\ m.pc # "stop" /\ m.history \in Seq(Msg) /\ m.history # <<>>
      /\ Last(m.history).role \in Tools /\ Last(m.history) \in Msg
  BY AtHandAgain
<1>2. u \in Tapes /\ u.tool = Left(t.tool, f) /\ u.llm = t.llm /\ t.tool[f] \in ToolEntries
  BY <1>1, LeftIs
<1>3. x \in Texts
  BY <1>2 DEF ToolEntries
<1>4. x # "error" /\ f # 0
  OBVIOUS
<1> HIDE DEF x
<1>5. Sound(plan, k) /\ Said(m, k, h, end) /\ end # "never"
  BY <1>1, <1>3, ResultedIs
<1> HIDE DEF u, k
<1>6. ASSUME Track(plan, l, full, m, t) PROVE Track(plan, l, full, k, u) \/ Off(plan, bearer, l, full, k)
  <2>1. CASE lh[i].text = "secret" \/ l.done[m.node].end = "lost"
    <3> HIDE DEF end, h
    <3> QED
      BY <1>1, <1>5, <1>6, <2>1, CallLeaves
  <2>2. CASE ~ (lh[i].text = "secret" \/ l.done[m.node].end = "lost")
    <3>1. /\ lh \in Seq(Msg) /\ Len(lh) \in Nat /\ i \in 1 .. Len(lh)
          /\ lh[i].role \in Tools
          /\ Heard(plan, m.node, lh)
          /\ Here(m) \in ToolAt(l)
          /\ t.tool # <<>> /\ f = 1 /\ t.tool[1] = ToolEntry(lh, i)
      <4>1. EntryAtHand(l, m, t)
        BY <1>1, <1>6, <2>2, CallFound
      <4> QED
        BY <4>1, ZenonT(60) DEF EntryAtHand
    <3>2. x = ToolEntry(lh, i).res
      BY <3>1 DEF x
    <3> HIDE DEF lh, i, f, h, end
    <3>3. i < Len(lh) /\ x = lh[i + 1].text
      BY <1>4, <3>2 DEF ToolEntry
    <3>4. x # "secret"
      BY <3>1, <3>3 DEF Heard, Fits
    <3>5. x = Mask(lh[i + 1].text)
      BY <3>3, <3>4 DEF Mask
    <3>6. u.tool = Left(t.tool, 1)
      BY <1>2, <3>1
    <3>7. HeardNext(l, m, x)
      BY <3>3, <3>5 DEF HeardNext, lh, i
    <3> QED
      BY <1>1, <1>2, <1>3, <1>6, <3>1, <3>6, <3>7, TrackResult DEF k
  <2> QED
    BY <2>1, <2>2
<1>7. ASSUME NEW owned, NEW origin, ServedBy(l, m, t, owned, origin) PROVE ServedAll(l, k, u)
  <2>1. Owns(t.tool, ToolLog(l), owned)
    BY <1>7 DEF ServedBy
  <2>2. \E y \in ToolAt(l) \ owned :
          /\ t.tool[f] = ToolEntry(HistoryOf(l, y[1]), y[2]) /\ t.tool[f].key = Last(m.history)
          /\ Owns(Left(t.tool, f), ToolLog(l), owned \cup {y})
    BY <1>1, <1>4, <2>1, ToolEntryOf
  <2> HIDE DEF f, h, end
  <2>3. PICK y \in ToolAt(l) \ owned :
          /\ t.tool[f] = ToolEntry(HistoryOf(l, y[1]), y[2]) /\ t.tool[f].key = Last(m.history)
          /\ Owns(u.tool, ToolLog(l), owned \cup {y})
    BY <1>2, <2>2
  <2>4. HistoryOf(l, y[1])[y[2]] = Last(m.history)
    BY <2>3 DEF ToolEntry
  <2>5. Grows(m, h, end, Tools \ Effectful, "never")
    <3>1. Len(h) # Len(m.history)
      <4>1. Says("result", x) \in Msg
        BY <1>3, SaysIs, RolesDiffer
      <4> QED
        BY <1>1, <4>1, AppendIs DEF h
    <3> QED
      BY <1>1, <3>1 DEF Grows
  <2> QED
    BY <1>1, <1>5, <1>7, <2>3, <2>4, <2>5, ServedGoesOn
<1>8. Follows(plan, bearer, l, full, k, u)
  BY <1>2, <1>3, <1>6, <1>7, ResultFollows DEF k
<1> QED
  BY <1>8 DEF k, u, x

\* A node of the replay starts, or is over before it says a word.
LEMMA OpenFollows ==
  ASSUME NEW l, NEW full, NEW m, NEW t, Follows(plan, bearer, l, full, m, t), m.pc = "open",
         NEW k, NEW h, NEW end, Sound(plan, k), Said(m, k, h, end), Echoed(h), end \notin {"ok", "never"},
         k.state = "none", end # "running" => k.done[m.node].state = "none",
         Track(plan, l, full, m, t) => Track(plan, l, full, k, t) \/ Off(plan, bearer, l, full, k)
  PROVE  Follows(plan, bearer, l, full, k, t)
<1>1. Sound(plan, m) /\ Echoes(m) /\ t \in Tapes /\ m.history = <<>>
  BY DEF Follows, Sound
<1>2. Echoes(k)
  BY <1>1, EchoesGoOn
<1>3. Track(plan, l, full, k, t) \/ Off(plan, bearer, l, full, k)
  <2>1. ~ Doomed(m)
    BY DEF Doomed
  <2>2. CASE Off(plan, bearer, l, full, m)
    BY <1>1, <2>1, <2>2, OffStays
  <2> QED
    BY <2>2 DEF Follows
<1>4. \A used : used \cup {} = used
  OBVIOUS
<1>5. Paid(l, k, t)
  <2>1. PICK used, from : PaidBy(l, m, t, used, from)
    BY DEF Follows, Paid
  <2>2. Owns(t.llm, LlmLog(l), used \cup {})
    BY <1>4, <2>1 DEF PaidBy
  <2> QED
    BY <1>1, <2>1, <2>2, PaidStays
<1>6. ServedAll(l, k, t)
  <2>1. PICK used, from : ServedBy(l, m, t, used, from)
    BY DEF Follows, ServedAll
  <2>2. Owns(t.tool, ToolLog(l), used \cup {})
    BY <1>4, <2>1 DEF ServedBy
  <2>3. ~ Grows(m, h, end, Tools \ Effectful, "never")
    BY <1>1 DEF Grows
  <2> QED
    BY <1>1, <2>1, <2>2, <2>3, ServedStays
<1> QED
  BY <1>1, <1>2, <1>3, <1>5, <1>6 DEF Follows

\* Where a replay on its track stands before a node.
LEMMA OpenTrackAt ==
  ASSUME NEW l, Recorded(l), NEW m, Sound(plan, m), m.pc = "open",
         NEW full, NEW t, Track(plan, l, full, m, t)
  PROVE  /\ m.node \in 1 .. Len(plan) /\ m.pc # "stop" /\ m.history = <<>> /\ Len(m.history) = 0
         /\ l.done[m.node].history \in Seq(Msg) /\ Len(l.done[m.node].history) \in Nat
         /\ Grammar(l.done[m.node].history)
         /\ Begins(plan, m.node, l.done[m.node - 1], l.done[m.node].history, l.done[m.node].end)
         /\ m.node > 1 => Same(l.done[m.node - 1], m.done[m.node - 1])
         /\ Here(m) \notin LlmAt(l) /\ Here(m) \notin ToolAt(l)
<1>1. /\ m.node \in 1 .. Len(plan) /\ m.pc # "stop" /\ m.history = <<>> /\ Len(m.history) = 0
  <2>1. m.pc # "stop" /\ m.history = <<>>
    BY DEF Sound
  <2> QED
    BY <2>1, SoundIs
<1>2. /\ l.done[m.node].history \in Seq(Msg) /\ Len(l.done[m.node].history) \in Nat
      /\ Grammar(l.done[m.node].history)
      /\ Begins(plan, m.node, l.done[m.node - 1], l.done[m.node].history, l.done[m.node].end)
  BY <1>1, RecordedIs DEF Story
<1>3. m.node > 1 => Same(l.done[m.node - 1], m.done[m.node - 1])
  <2>1. m.node > 1 => m.node - 1 \in 1 .. m.node - 1
    BY <1>1
  <2> QED
    BY <2>1 DEF Track
<1>4. Here(m)[2] = 0
  BY <1>1 DEF Here
<1>5. \A roles, err : Here(m) \notin At(l, roles, err)
  BY <1>4, AtIs DEF Recorded
<1>6. Here(m) \notin LlmAt(l) /\ Here(m) \notin ToolAt(l)
  BY <1>5, LogDomains DEF LlmAt
<1> QED
  BY <1>1, <1>2, <1>3, <1>6

\* The prompt is the recorded one, masked.
LEMMA TrackBegins ==
  ASSUME NEW l, Recorded(l), NEW m, Sound(plan, m), m.pc = "open",
         NEW full \in BOOLEAN, NEW t \in Tapes, Track(plan, l, full, m, t),
         l.done[m.node].history # <<>>, NEW x \in Texts, x = Mask(l.done[m.node].history[1].text)
  PROVE  Track(plan, l, full, Begun(m, x), t)
<1> DEFINE lh == l.done[m.node].history
           h == <<Says("user", x)>>
           k == Begun(m, x)
<1>1. /\ m.node \in 1 .. Len(plan) /\ m.pc # "stop" /\ m.history = <<>> /\ Len(m.history) = 0
      /\ lh \in Seq(Msg) /\ Len(lh) \in Nat /\ Grammar(lh)
      /\ Here(m) \notin LlmAt(l) /\ Here(m) \notin ToolAt(l)
  BY OpenTrackAt
<1>2. Sound(plan, k) /\ Said(m, k, h, "running")
  BY BegunIs
<1>3. x = Mask(lh[1].text) /\ lh # <<>>
  OBVIOUS
<1> HIDE DEF k, lh
<1>4. 1 \in 1 .. Len(lh) /\ 1 <= Len(lh) /\ lh[1].role = "user"
  BY <1>1, <1>3 DEF Grammar
<1>5. h = Masked(SubSeq(lh, 1, 1))
  <2> DEFINE g == SubSeq(lh, 1, 1)
  <2>1. g \in Seq(Msg) /\ Len(g) = 1 /\ g[1] = lh[1]
    BY <1>1, <1>4, FrontIs
  <2> HIDE DEF g
  <2>2. 1 \in 1 .. Len(g)
    BY <2>1
  <2>3. Masked(g) \in Seq(Msg) /\ Len(Masked(g)) = 1 /\ Masked(g)[1] = Says("user", x)
    BY <1>3, <1>4, <2>1, <2>2, MaskedIs
  <2>4. h \in Seq(Msg) /\ Len(h) = 1 /\ h[1] = Says("user", x)
    BY SaysIs, RolesDiffer
  <2> DEFINE w == Masked(g)
  <2> HIDE DEF h, w
  <2>5. h \in Seq(Msg) /\ w \in Seq(Msg) /\ Len(h) = Len(w) /\ \A i \in 1 .. Len(h) : h[i] = w[i]
    BY <2>3, <2>4 DEF w
  <2>6. h = w
    BY <2>5, SameSeq
  <2> QED
    BY <2>6 DEF g, w
<1>6. Len(h) = 1
  OBVIOUS
<1> HIDE DEF h
<1>7. Len(h) <= Len(lh) /\ h = Masked(SubSeq(lh, 1, Len(h))) /\ Len(h) = Len(m.history) + 1
  <2>1. h = Masked(SubSeq(lh, 1, Len(h)))
    BY ONLY <1>5, <1>6, Zenon
  <2>2. Len(h) = Len(m.history) + 1
    BY <1>1, <1>6
  <2> QED
    BY <1>4, <1>6, <2>1, <2>2
<1>8. Track(plan, l, full, k, t)
  BY <1>1, <1>2, <1>7, TrackGoesOn DEF Recorded, lh
<1> QED
  BY <1>8 DEF k

\* The node is over as it was in the recording.
LEMMA TrackSkips ==
  ASSUME NEW l, Recorded(l), NEW m, Sound(plan, m), m.pc = "open",
         NEW full \in BOOLEAN, NEW t \in Tapes, Track(plan, l, full, m, t),
         NEW end \in {"skipped", "template"}, l.done[m.node].history = <<>>, l.done[m.node].end = end
  PROVE  Track(plan, l, full, Failed(m, end), t)
<1> DEFINE lh == l.done[m.node].history
           k == Failed(m, end)
<1>1. /\ m.node \in 1 .. Len(plan) /\ m.pc # "stop" /\ m.history = <<>> /\ Len(m.history) = 0
      /\ Here(m) \notin LlmAt(l) /\ Here(m) \notin ToolAt(l)
  BY OpenTrackAt
<1>2. end \in Ends /\ end # "ok" /\ end # "running"
  BY EndNames
<1>3. Alike(m, m)
  BY SoundIs
<1>4. Sound(plan, k) /\ Said(m, k, m.history, end)
  BY <1>1, <1>2, <1>3, FailedIs
<1> HIDE DEF k
<1>5. <<>> = Masked(SubSeq(lh, 1, 0)) /\ Len(lh) = 0
  <2>1. lh \in Seq(Msg) /\ Len(lh) \in Nat /\ lh = <<>>
    BY OpenTrackAt
  <2> HIDE DEF lh
  <2> DEFINE g == SubSeq(lh, 1, 0)
  <2>2. g \in Seq(Msg) /\ Len(g) = 0
    BY <2>1, FrontIs
  <2> HIDE DEF g
  <2>3. Masked(g) \in Seq(Msg) /\ Len(Masked(g)) = 0
    BY <2>2, MaskedIs
  <2>4. Masked(g) = <<>>
    BY <2>3
  <2> QED
    BY <2>1, <2>4 DEF g
<1>6. Len(m.history) <= Len(lh) /\ m.history = Masked(SubSeq(lh, 1, Len(m.history))) /\ Len(m.history) = Len(lh)
  BY <1>1, <1>5
<1>7. Track(plan, l, full, k, t)
  BY <1>1, <1>2, <1>4, <1>6, TrackGoesOn DEF Recorded
<1> QED
  BY <1>7 DEF k

\* A node of the replay starts: as recorded, or with a prompt no tape holds.
LEMMA BeginFollows ==
  ASSUME NEW l, Recorded(l), NEW full \in BOOLEAN, NEW m, NEW t, Follows(plan, bearer, l, full, m, t), m.pc = "open",
         NEW x \in Texts,
         Track(plan, l, full, m, t) =>
           \/ l.done[m.node].history # <<>> /\ x = Mask(l.done[m.node].history[1].text)
           \/ ~ Faithful(plan, bearer, l, m.node) /\ x \in {"secret", "scrubbed"}
  PROVE  Follows(plan, bearer, l, full, Begun(m, x), t)
<1> DEFINE h == <<Says("user", x)>>
           k == Begun(m, x)
<1>1. Sound(plan, m) /\ t \in Tapes /\ m.state = "none" /\ m.pc # "stop"
  BY DEF Follows, Echoes
<1>2. Sound(plan, k) /\ Said(m, k, h, "running") /\ k.state = "none"
  BY <1>1, BegunIs
<1>3. Echoed(h)
  <2>1. /\ Len(h) = 1 /\ h[1] = Says("user", x) /\ Says("user", x).role = "user" /\ "user" \notin Replies /\ "user" \notin Effectful
    BY SaysIs, RolesDiffer
  <2> HIDE DEF h
  <2> QED
    BY <2>1 DEF Echoed
<1>4. x \in {"secret", "scrubbed"} => Doomed(k)
  <2>1. k.pc = "llm" /\ k.history = h
    BY <1>1, <1>2, BegunIs DEF Said
  <2>2. Len(h) = 1 /\ h[1].text = x
    BY SaysIs
  <2> HIDE DEF k, h
  <2> QED
    BY <2>1, <2>2 DEF Doomed
<1> HIDE DEF k, h
<1>5. ASSUME Track(plan, l, full, m, t) PROVE Track(plan, l, full, k, t) \/ Off(plan, bearer, l, full, k)
  <2>1. CASE l.done[m.node].history # <<>> /\ x = Mask(l.done[m.node].history[1].text)
    BY <1>1, <1>5, <2>1, TrackBegins DEF k
  <2>2. CASE ~ Faithful(plan, bearer, l, m.node) /\ x \in {"secret", "scrubbed"}
    BY <1>1, <1>2, <1>4, <1>5, <2>2, Leaves
  <2> QED
    BY <1>5, <2>1, <2>2
<1>6. Follows(plan, bearer, l, full, k, t)
  BY <1>2, <1>3, <1>5, OpenFollows
<1> QED
  BY <1>6 DEF k

\* A node of the replay is over before it says a word.
LEMMA SkipFollows ==
  ASSUME NEW l, Recorded(l), NEW full \in BOOLEAN, NEW m, NEW t, Follows(plan, bearer, l, full, m, t), m.pc = "open",
         NEW end \in {"skipped", "template"},
         Track(plan, l, full, m, t) =>
           \/ l.done[m.node].history = <<>> /\ l.done[m.node].end = end
           \/ ~ Faithful(plan, bearer, l, m.node)
  PROVE  Follows(plan, bearer, l, full, Failed(m, end), t)
<1> DEFINE k == Failed(m, end)
<1>1. Sound(plan, m) /\ t \in Tapes /\ m.state = "none" /\ m.pc # "stop" /\ m.history = <<>>
  BY DEF Follows, Echoes, Sound
<1>2. end \in Ends /\ end \notin {"ok", "running", "never"}
  BY EndNames
<1>3. Alike(m, m)
  BY <1>1, SoundIs
<1>4. Sound(plan, k) /\ Said(m, k, m.history, end) /\ k.state = "none" /\ k.done[m.node].state = "none"
  BY <1>1, <1>2, <1>3, FailedIs
<1>5. Echoed(m.history)
  BY <1>1 DEF Echoed
<1> HIDE DEF k
<1>6. ASSUME Track(plan, l, full, m, t) PROVE Track(plan, l, full, k, t) \/ Off(plan, bearer, l, full, k)
  <2>1. CASE l.done[m.node].history = <<>> /\ l.done[m.node].end = end
    BY <1>1, <1>6, <2>1, TrackSkips DEF k
  <2>2. CASE ~ Faithful(plan, bearer, l, m.node)
    BY <1>1, <1>2, <1>4, <1>6, <2>2, Leaves
  <2> QED
    BY <1>6, <2>1, <2>2
<1>7. Follows(plan, bearer, l, full, k, t)
  BY <1>2, <1>4, <1>5, <1>6, OpenFollows
<1> QED
  BY <1>7 DEF k

\* Every kind of prompt, without secrets and without environment.
LEMMA ReopenFollows ==
  ASSUME plan \in Plans, bearer \in BOOLEAN, NEW l, Recorded(l), NEW full \in BOOLEAN,
         NEW m, NEW t, Follows(plan, bearer, l, full, m, t), m.pc = "open"
  PROVE  Follows(plan, bearer, l, full, Opened(m, FALSE), t)
<1> DEFINE kind == plan[m.node].prompt
           lh == l.done[m.node].history
           k == Opened(m, FALSE)
           prev == m.done[m.node - 1]
           was == l.done[m.node - 1]
<1>1. Sound(plan, m) /\ \A n \in 1 .. Len(m.done) : m.done[n].state = "none"
  BY DEF Follows, Echoes
<1>2. /\ kind = "fixed" => k = Begun(m, "plain")
      /\ kind = "literal" => k = Begun(m, "secret")
      /\ kind = "var" => k = Begun(m, Scrubbed("plain"))
      /\ kind = "inputs" => k = Failed(m, "template")
      /\ kind = "output" =>
           /\ m.node - 1 \in 1 .. Len(m.done)
           /\ k = IF prev.end # "ok" THEN Failed(m, "skipped")
                  ELSE IF prev.output = "none" THEN Failed(m, "template") ELSE Begun(m, prev.output)
      /\ kind = "state" =>
           /\ m.node - 1 \in 1 .. Len(m.done)
           /\ k = IF prev.end # "ok" THEN Failed(m, "skipped")
                  ELSE IF prev.state = "none" THEN Failed(m, "template") ELSE Begun(m, prev.state)
      /\ kind \in Prompts
  BY <1>1, OpenedIs
<1>3. /\ "plain" \in Texts /\ "secret" \in Texts /\ "scrubbed" \in Texts
      /\ Mask("plain") = "plain" /\ Mask("secret") = "masked"
  BY DEF Texts, Mask
<1>4. ASSUME Track(plan, l, full, m, t)
      PROVE  /\ m.node \in 1 .. Len(plan) /\ lh \in Seq(Msg)
             /\ Begins(plan, m.node, was, lh, l.done[m.node].end)
             /\ m.node > 1 => Same(was, prev)
  BY <1>1, <1>4, OpenTrackAt
<1> HIDE DEF k, lh, prev, was
<1>5. CASE kind = "fixed"
  <2>1. Track(plan, l, full, m, t) => lh # <<>> /\ "plain" = Mask(lh[1].text)
    BY <1>3, <1>4, <1>5 DEF Begins
  <2>2. Follows(plan, bearer, l, full, Begun(m, "plain"), t)
    BY <1>3, <2>1, BeginFollows DEF lh
  <2> QED
    BY <1>2, <1>5, <2>2 DEF k
<1>6. CASE kind = "literal"
  <2>1. Track(plan, l, full, m, t) => ~ Faithful(plan, bearer, l, m.node)
    <3> SUFFICES ASSUME Track(plan, l, full, m, t) PROVE ~ Faithful(plan, bearer, l, m.node)
      OBVIOUS
    <3>1. lh \in Seq(Msg) /\ lh # <<>> /\ lh[1].text = "secret"
      BY <1>4, <1>6 DEF Begins
    <3>2. 1 \in 1 .. Len(lh)
      BY <3>1
    <3>3. Masked(lh)[1].text = "masked"
      BY <1>3, <3>1, <3>2, MaskedIs
    <3>4. lh # Masked(lh)
      BY <3>1, <3>3
    <3> QED
      BY <3>4 DEF Faithful, lh
  <2>2. Follows(plan, bearer, l, full, Begun(m, "secret"), t)
    BY <1>3, <2>1, BeginFollows
  <2> QED
    BY <1>2, <1>6, <2>2 DEF k
<1>7. CASE kind = "var"
  <2>1. CASE bearer
    <3>1. ~ Faithful(plan, bearer, l, m.node) /\ Scrubbed("plain") = "scrubbed"
      BY <1>7, <2>1 DEF Faithful, Scrubbed
    <3>2. Follows(plan, bearer, l, full, Begun(m, "scrubbed"), t)
      BY <1>3, <3>1, BeginFollows
    <3> QED
      BY <1>2, <1>7, <3>1, <3>2 DEF k
  <2>2. CASE ~ bearer
    <3>1. Track(plan, l, full, m, t) => lh # <<>> /\ "plain" = Mask(lh[1].text)
      BY <1>3, <1>4, <1>7 DEF Begins
    <3>2. Follows(plan, bearer, l, full, Begun(m, "plain"), t)
      BY <1>3, <3>1, BeginFollows DEF lh
    <3>3. Scrubbed("plain") = "plain"
      BY <2>2 DEF Scrubbed
    <3> QED
      BY <1>2, <1>7, <3>2, <3>3 DEF k
  <2> QED
    BY <2>1, <2>2
<1>8. CASE kind = "inputs"
  <2>1. ~ Faithful(plan, bearer, l, m.node)
    BY <1>8 DEF Faithful
  <2>2. Follows(plan, bearer, l, full, Failed(m, "template"), t)
    BY <2>1, SkipFollows
  <2> QED
    BY <1>2, <1>8, <2>2 DEF k
<1>9. CASE kind = "state"
  <2>1. ~ Faithful(plan, bearer, l, m.node)
    BY <1>9 DEF Faithful
  <2>2. Follows(plan, bearer, l, full, Failed(m, "template"), t) /\ Follows(plan, bearer, l, full, Failed(m, "skipped"), t)
    BY <2>1, SkipFollows
  <2>3. prev.state = "none"
    BY <1>1, <1>2, <1>9 DEF prev
  <2> QED
    BY <1>2, <1>9, <2>2, <2>3 DEF k
<1>10. CASE kind = "output"
  <2>1. m.node > 1 /\ prev.output \in Texts
    <3>1. m.node - 1 \in 1 .. Len(m.done) /\ m.node \in Nat
      BY <1>1, <1>2, <1>10, SoundIs
    <3> DEFINE p == m.node - 1
    <3>2. p \in 1 .. Len(m.done)
      BY <3>1
    <3> HIDE DEF p
    <3>3. m.done[p].output \in Texts
      BY <1>1, <3>2, SoundIs
    <3>4. prev.output \in Texts
      BY <3>3 DEF prev, p
    <3>5. 1 .. Len(m.done) = 1 .. p
      BY <1>1, SoundIs DEF p
    <3>6. m.node > 1
      BY <3>1, <3>2, <3>5 DEF p
    <3> QED
      BY <3>4, <3>6
  <2>2. ASSUME Track(plan, l, full, m, t)
        PROVE  /\ prev.end = was.end /\ prev.output = Mask(was.output)
               /\ prev.output = "none" <=> was.output = "none"
               /\ IF was.end # "ok" THEN l.done[m.node].end = "skipped" /\ lh = <<>>
                  ELSE IF was.output = "none" THEN l.done[m.node].end = "template" /\ lh = <<>>
                  ELSE lh # <<>> /\ lh[1].text = was.output
    <3>1. prev.end = was.end /\ prev.output = Mask(was.output)
      BY <1>4, <2>1, <2>2 DEF Same
    <3>2. prev.output = "none" <=> was.output = "none"
      BY <3>1 DEF Mask
    <3> QED
      BY <1>4, <1>10, <2>1, <2>2, <3>1, <3>2 DEF Begins
  <2>3. CASE prev.end # "ok"
    <3>1. Track(plan, l, full, m, t) => lh = <<>> /\ l.done[m.node].end = "skipped"
      BY <2>2, <2>3
    <3>2. Follows(plan, bearer, l, full, Failed(m, "skipped"), t)
      BY <3>1, SkipFollows DEF lh
    <3> QED
      BY <1>2, <1>10, <2>3, <3>2 DEF k
  <2>4. CASE prev.end = "ok" /\ prev.output = "none"
    <3>1. Track(plan, l, full, m, t) => lh = <<>> /\ l.done[m.node].end = "template"
      BY <2>2, <2>4
    <3>2. Follows(plan, bearer, l, full, Failed(m, "template"), t)
      BY <3>1, SkipFollows DEF lh
    <3> QED
      BY <1>2, <1>10, <2>4, <3>2 DEF k
  <2>5. CASE prev.end = "ok" /\ prev.output # "none"
    <3>1. Track(plan, l, full, m, t) => lh # <<>> /\ prev.output = Mask(lh[1].text)
      BY <2>2, <2>5
    <3>2. Follows(plan, bearer, l, full, Begun(m, prev.output), t)
      BY <2>1, <3>1, BeginFollows DEF lh
    <3> QED
      BY <1>2, <1>10, <2>5, <3>2 DEF k
  <2> QED
    BY <2>3, <2>4, <2>5
<1> QED
  BY <1>2, <1>5, <1>6, <1>7, <1>8, <1>9, <1>10 DEF Prompts

-----------------------------------------------------------------------------
(* The invariant: the run that records.                                     *)
LEMMA MachineIs ==
  /\ Machine.node = 1 /\ Machine.pc = "open" /\ Machine.history = <<>> /\ Machine.state = "none"
  /\ Machine.done = <<>> /\ Len(Machine.done) = 0 /\ Len(Machine.history) = 0 /\ 1 .. Len(Machine.done) = {}
  /\ \A n : HistoryOf(Machine, n) = <<>> /\ EndOf(Machine, n) = "running"
  /\ Here(Machine) = Origin
  /\ \A roles, err : At(Machine, roles, err) = {}
<1>1. /\ Machine.node = 1 /\ Machine.pc = "open" /\ Machine.history = <<>> /\ Machine.state = "none"
      /\ Machine.done = <<>>
  BY DEF Machine
<1>2. Len(Machine.done) = 0 /\ Len(Machine.history) = 0
  BY <1>1
<1>3. 1 .. Len(Machine.done) = {}
  BY <1>2
<1>4. \A n : HistoryOf(Machine, n) = <<>> /\ EndOf(Machine, n) = "running"
  BY <1>1, <1>3 DEF HistoryOf, EndOf
<1>5. Here(Machine) = Origin
  BY <1>1, <1>2 DEF Here, Origin
<1>6. ASSUME NEW roles, NEW err PROVE At(Machine, roles, err) = {}
  <2>1. \A n : 1 .. Len(HistoryOf(Machine, n)) = {}
    BY <1>1, <1>2, <1>4
  <2> QED
    BY <2>1 DEF At
<1> QED
  BY <1>1, <1>2, <1>3, <1>4, <1>5, <1>6

\* Nothing is recorded yet.
LEMMA InitKeeps == Init => Inv
<1> SUFFICES ASSUME Init PROVE Inv
  OBVIOUS
<1>1. plan \in Plans /\ bearer \in BOOLEAN /\ phase = "record" /\ cut = FALSE /\ live = Machine /\ replay = Machine
  BY DEF Init
<1>2. Sound(plan, Machine)
  BY <1>1, SoundStart
<1>3. Tale(plan, Machine)
  BY MachineIs DEF Tale
<1>4. tape \in Tapes /\ tape.llm = <<>> /\ tape.tool = <<>>
  BY DEF Init, Tapes
<1>5. DOMAIN LlmLog(Machine) = {} /\ DOMAIN ToolLog(Machine) = {}
  BY MachineIs DEF LlmLog, ToolLog, LlmAt, ToolAt
<1>6. Taped(Machine, tape, TRUE)
  BY <1>4, <1>5, ListsNothing DEF Taped
<1> QED
  BY <1>1, <1>2, <1>3, <1>6 DEF Inv, Live, Phases

\* A step of the recorded run touches nothing else.
LEMMA RecordKeeps ==
  ASSUME Inv, phase = "record", Live(plan, live', tape'), UNCHANGED <<plan, bearer, phase, cut, replay>>
  PROVE  Inv'
<1>1. /\ plan' = plan /\ bearer' = bearer /\ phase' = "record" /\ cut' = cut /\ replay' = replay
      /\ plan \in Plans /\ bearer \in BOOLEAN /\ cut = FALSE /\ replay = Machine
  BY DEF Inv
<1>2. Sound(plan, live') /\ Tale(plan, live') /\ Taped(live', tape', TRUE)
  BY DEF Live
<1> QED
  BY <1>1, <1>2 DEF Inv, Phases

\* A node of the recorded run is opened.
LEMMA OpenRecords == Inv /\ Open => Inv'
<1> SUFFICES ASSUME Inv, Open PROVE Inv'
  OBVIOUS
<1>1. /\ phase = "record" /\ live.pc = "open" /\ UNCHANGED <<plan, bearer, phase, cut, replay>>
      /\ live' = Opened(live, TRUE) /\ tape' = tape
  BY DEF Open, Recording
<1>2. Live(plan, live, tape) /\ plan \in Plans
  BY <1>1 DEF Inv
<1>3. Live(plan, live', tape')
  BY <1>1, <1>2, OpenKeeps
<1> QED
  BY <1>1, <1>3, RecordKeeps

\* The transport answers.
LEMMA CompleteRecords ==
  ASSUME NEW a \in Answers, Inv, Complete(a)
  PROVE  Inv'
<1>1. /\ phase = "record" /\ live.pc = "llm" /\ UNCHANGED <<plan, bearer, phase, cut, replay>>
      /\ live' = Answered(live, a)
      /\ tape' = [tape EXCEPT !.llm = Append(@, [key |-> Masked(live.history), res |-> Says(a.role, Mask(a.text))])]
  BY DEF Complete, Recording, Wrote
<1>2. Live(plan, live, tape)
  BY <1>1 DEF Inv
<1>3. Live(plan, live', tape')
  BY <1>1, <1>2, CompleteKeeps
<1> QED
  BY <1>1, <1>3, RecordKeeps

\* A call in flight that ends without an answer.
LEMMA LastWord ==
  ASSUME Live(plan, live, tape), live.pc \in {"llm", "tool"}
  PROVE  /\ live.pc = "llm" => Closed(live.history, "llm_error") /\ Closed(live.history, "lost")
         /\ live.pc = "tool" => Closed(live.history, "tool_error") /\ Closed(live.history, "lost")
<1>1. /\ live.history # <<>> /\ Len(live.history) \in Nat
      /\ live.pc = "llm" => Last(live.history).role \in Asks /\ Last(live.history).role \notin Tools /\ Len(live.history) <= Limit
      /\ live.pc = "tool" => Last(live.history).role \in Tools /\ Last(live.history).role \notin Asks
  BY AtHand
<1> QED
  BY <1>1, LimitIs DEF Closed

\* The transport fails, which is recorded too.
LEMMA TransportFailsRecords == Inv /\ TransportFails => Inv'
<1> SUFFICES ASSUME Inv, TransportFails PROVE Inv'
  OBVIOUS
<1> DEFINE e == [key |-> Masked(live.history), res |-> Says("error", "none")]
<1>1. /\ phase = "record" /\ live.pc = "llm" /\ UNCHANGED <<plan, bearer, phase, cut, replay>>
      /\ live' = Failed(live, "llm_error")
      /\ tape' = [tape EXCEPT !.llm = Append(@, [key |-> Masked(live.history),
                                                 res |-> Says(Says("error", "none").role, Mask(Says("error", "none").text))])]
  BY DEF TransportFails, Recording, Wrote
<1>2. Says(Says("error", "none").role, Mask(Says("error", "none").text)) = Says("error", "none")
  BY DEF Says, Mask
<1>3. Live(plan, live, tape) /\ tape \in Tapes
  BY <1>1 DEF Inv, Live, Taped
<1>4. tape' = [tape EXCEPT !.llm = Append(@, e)]
  BY <1>1, <1>2
<1> HIDE DEF e
<1>5. tape' = [llm |-> Append(tape.llm, e), tool |-> tape.tool]
  BY <1>3, <1>4, TapeIs
<1>6. tape' = [llm |-> tape'.llm, tool |-> tape'.tool] /\ tape'.llm = Append(tape.llm, e) /\ tape'.tool = tape.tool
  BY <1>5
<1>7. Live(plan, live', tape')
  <2>1. Closed(live.history, "llm_error")
    BY <1>1, <1>3, LastWord
  <2> DEFINE u == tape'
  <2>2. u = [llm |-> u.llm, tool |-> u.tool] /\ u.llm = Append(tape.llm, e) /\ u.tool = tape.tool
    BY <1>6
  <2> HIDE DEF u
  <2>3. Live(plan, Failed(live, "llm_error"), u)
    BY <1>1, <1>3, <2>1, <2>2, FailKeeps DEF e
  <2> QED
    BY <1>1, <2>3 DEF u
<1> QED
  BY <1>1, <1>7, RecordKeeps

\* A call ends without an entry.
LEMMA LostRecords == Inv /\ Lost => Inv'
<1> SUFFICES ASSUME Inv, Lost PROVE Inv'
  OBVIOUS
<1>1. /\ phase = "record" /\ live.pc \in {"llm", "tool"} /\ UNCHANGED <<plan, bearer, phase, cut, replay>>
      /\ live' = Failed(live, "lost") /\ tape' = tape
  BY DEF Lost, Recording
<1>2. Live(plan, live, tape)
  BY <1>1 DEF Inv
<1>3. Closed(live.history, "lost") /\ tape = [llm |-> tape.llm, tool |-> tape.tool]
  BY <1>1, <1>2, LastWord, AtHand
<1>4. Live(plan, Failed(live, "lost"), tape)
  BY <1>1, <1>2, <1>3, FailKeeps
<1> QED
  BY <1>1, <1>4, RecordKeeps

\* The tapes with one more tool entry.
LEMMA NotedIs ==
  ASSUME Live(plan, live, tape), NEW res
  PROVE  /\ Noted(res) = [llm |-> tape.llm, tool |-> Append(tape.tool, [key |-> Last(live.history), res |-> res])]
         /\ Noted(res) = [llm |-> Noted(res).llm, tool |-> Noted(res).tool]
         /\ Noted(res).llm = tape.llm
         /\ Noted(res).tool = Append(tape.tool, [key |-> Last(live.history), res |-> res])
<1> DEFINE s == Append(tape.tool, [key |-> Last(live.history), res |-> res])
<1>1. Noted(res) = [tape EXCEPT !.tool = s]
  BY DEF Noted, Call
<1> HIDE DEF s
<1>2. tape \in Tapes
  BY DEF Live, Taped
<1>3. Noted(res) = [llm |-> tape.llm, tool |-> s]
  BY <1>1, <1>2, TapeIs
<1> QED
  BY <1>3 DEF s

\* A tool fails.
LEMMA ToolFailsRecords == Inv /\ ToolFails => Inv'
<1> SUFFICES ASSUME Inv, ToolFails PROVE Inv'
  OBVIOUS
<1>1. /\ phase = "record" /\ live.pc = "tool" /\ UNCHANGED <<plan, bearer, phase, cut, replay>>
      /\ live' = Failed(live, "tool_error") /\ tape' = Noted("error") /\ Permitted(live)
  BY DEF ToolFails, Recording
<1>2. Live(plan, live, tape)
  BY <1>1 DEF Inv
<1>3. Closed(live.history, "tool_error")
  BY <1>1, <1>2, LastWord
<1> DEFINE u == Noted("error")
<1>5. /\ u = [llm |-> u.llm, tool |-> u.tool] /\ u.llm = tape.llm
      /\ u.tool = Append(tape.tool, [key |-> Last(live.history), res |-> "error"])
  BY <1>2, NotedIs
<1> HIDE DEF u
<1>6. Live(plan, Failed(live, "tool_error"), u)
  BY <1>1, <1>2, <1>3, <1>5, FailKeeps
<1> QED
  BY <1>1, <1>6, RecordKeeps DEF u

\* What the call at hand may be answered.
LEMMA CallAtHand ==
  ASSUME Inv, phase = "record", live.pc = "tool"
  PROVE  /\ Live(plan, live, tape) /\ live.state \in Texts /\ (Plain => live.state # "scrubbed")
         /\ live = [live EXCEPT !.state = live.state]
         /\ tape = [llm |-> tape.llm, tool |-> tape.tool]
         /\ Last(live.history) \in Answers
         /\ Permitted(live) => \A x \in Texts \ (Denials \cup {"secret", "error"}) :
              Fits(plan, live.node, Last(live.history).role, x)
<1>1. Live(plan, live, tape)
  BY DEF Inv
<1>2. /\ Sound(plan, live) /\ (Plain => live.state # "scrubbed") /\ tape = [llm |-> tape.llm, tool |-> tape.tool]
      /\ Last(live.history) \in Answers /\ live.pc # "stop"
  BY <1>1, AtHand
<1>3. live \in Machines /\ live.state \in Texts
  BY <1>2, SoundIs
<1>4. live = [live EXCEPT !.state = live.state]
  BY <1>3 DEF Machines
<1>5. ASSUME Permitted(live), NEW x \in Texts \ (Denials \cup {"secret", "error"})
      PROVE  Fits(plan, live.node, Last(live.history).role, x)
  BY <1>5, DenialIs DEF Permitted, Call, Fits, Repeats
<1> QED
  BY <1>1, <1>2, <1>3, <1>4, <1>5

\* A call is denied, by the policy or for its host, and leaves no entry.
LEMMA DenyRecords == Inv /\ (Deny \/ RefuseHost) => Inv'
<1> SUFFICES ASSUME Inv, Deny \/ RefuseHost PROVE Inv'
  OBVIOUS
<1> DEFINE s == live.state
           role == Last(live.history).role
<1>1. PICK x \in Denials :
        /\ phase = "record" /\ live.pc = "tool" /\ UNCHANGED <<plan, bearer, phase, cut, replay>>
        /\ live' = Resulted(live, x) /\ tape' = tape
        /\ role \in Effectful /\ (x = DenialOnReplay(role) <=> Repeats(plan, live.node, role))
  <2>1. CASE Deny
    <3>1. /\ phase = "record" /\ live.pc = "tool" /\ UNCHANGED <<plan, bearer, phase, cut, replay>>
          /\ live' = Resulted(live, Denial(role, plan[live.node].allow)) /\ tape' = tape
          /\ Denial(role, plan[live.node].allow) # "none"
      BY <2>1 DEF Deny, Recording, Permitted, Call
    <3>2. role \in Effectful /\ Denial(role, plan[live.node].allow) \in Denials
      BY <3>1, DenialIs
    <3> QED
      BY <3>1, <3>2 DEF Repeats
  <2>2. CASE RefuseHost
    <3>1. /\ phase = "record" /\ live.pc = "tool" /\ UNCHANGED <<plan, bearer, phase, cut, replay>>
          /\ live' = Resulted(live, "host_refused") /\ tape' = tape
          /\ Denial(role, plan[live.node].allow) = "none" /\ role \in Networked
      BY <2>2 DEF RefuseHost, Recording, Permitted, Call, HostJudged
    <3>2. role \in Effectful
      BY <3>1 DEF Effectful
    <3>3. "host_refused" \in Denials /\ DenialOnReplay(role) # "host_refused" /\ DenialOnReplay(role) # "none"
      BY <3>2, DenialIs
    <3> QED
      BY <3>1, <3>2, <3>3 DEF Repeats
  <2> QED
    BY <2>1, <2>2
<1>2. /\ Live(plan, live, tape) /\ s \in Texts /\ (Plain => s # "scrubbed")
      /\ live = [live EXCEPT !.state = s] /\ tape = [llm |-> tape.llm, tool |-> tape.tool]
  BY <1>1, CallAtHand
<1>3. x \in Texts /\ Fits(plan, live.node, role, x)
  BY <1>1, DenialIs DEF Fits
<1> HIDE DEF s
<1>4. Live(plan, Resulted([live EXCEPT !.state = s], x), tape)
  BY <1>1, <1>2, <1>3, ResultKeeps
<1>5. Live(plan, live', tape')
  BY <1>1, <1>2, <1>4
<1> QED
  BY <1>1, <1>5, RecordKeeps

\* An error is told to the model and is on the tape as an error.
LEMMA ForgivenRecords == Inv /\ Forgiven => Inv'
<1> SUFFICES ASSUME Inv, Forgiven PROVE Inv'
  OBVIOUS
<1> DEFINE s == live.state
           x == "invalid"
           u == Noted("error")
<1>1. /\ phase = "record" /\ live.pc = "tool" /\ UNCHANGED <<plan, bearer, phase, cut, replay>>
      /\ live' = Resulted(live, x) /\ tape' = u /\ Permitted(live)
  BY DEF Forgiven, Recording
<1>2. /\ Live(plan, live, tape) /\ s \in Texts /\ (Plain => s # "scrubbed")
      /\ live = [live EXCEPT !.state = s]
      /\ \A y \in Texts \ (Denials \cup {"secret", "error"}) :
           Fits(plan, live.node, Last(live.history).role, y)
  BY <1>1, CallAtHand
<1>3. x \in Texts /\ x \notin Denials \cup {"secret", "error"} /\ x = "invalid"
  BY DenialIs DEF Texts
<1>4. Fits(plan, live.node, Last(live.history).role, x)
  BY <1>2, <1>3
<1>5. /\ u = [llm |-> u.llm, tool |-> u.tool] /\ u.llm = tape.llm
      /\ u.tool = Append(tape.tool, [key |-> Last(live.history), res |-> "error"])
  BY <1>2, NotedIs
<1> HIDE DEF s, x, u
<1>6. Live(plan, Resulted([live EXCEPT !.state = s], x), u)
  BY <1>1, <1>2, <1>3, <1>4, <1>5, ResultKeeps
<1>7. Live(plan, live', tape')
  BY <1>1, <1>2, <1>6
<1> QED
  BY <1>1, <1>7, RecordKeeps

\* A tool answers; SetState stores what it echoes.
LEMMA InvokeRecords ==
  ASSUME NEW out \in Outputs, Inv, Invoke(out)
  PROVE  Inv'
<1> DEFINE set == Last(live.history).role = "SetState"
           x == IF set THEN Mask(Last(live.history).text) ELSE Mask(out)
           s == IF set THEN x ELSE live.state
           u == Noted(x)
<1>1. /\ phase = "record" /\ live.pc = "tool" /\ UNCHANGED <<plan, bearer, phase, cut, replay>>
      /\ live' = Resulted(IF set THEN [live EXCEPT !.state = x] ELSE live, x) /\ tape' = u /\ Permitted(live)
  BY DEF Invoke, Recording, Call
<1>2. /\ Live(plan, live, tape) /\ live.state \in Texts /\ (Plain => live.state # "scrubbed")
      /\ live = [live EXCEPT !.state = live.state] /\ Last(live.history) \in Answers
      /\ \A y \in Texts \ (Denials \cup {"secret", "error"}) :
           Fits(plan, live.node, Last(live.history).role, y)
  BY <1>1, CallAtHand
<1>3. x \in Texts /\ x \notin Denials \cup {"secret", "error", "invalid"}
  <2>1. out \in Texts /\ out \notin Denials \cup {"error", "invalid"}
    BY TagsAssumption DEF Texts
  <2>2. /\ Last(live.history).text \in Texts
        /\ set => Last(live.history).text \notin Denials \cup {"error", "invalid"}
    BY <1>2, TagsAssumption DEF Texts
  <2> QED
    BY <2>1, <2>2, DenialIs DEF Mask, Texts
<1>4. s \in Texts /\ (Plain => s # "scrubbed")
  <2>1. Plain => Last(live.history).text # "scrubbed"
    BY <1>2 DEF Plain
  <2>2. Plain /\ set => x # "scrubbed"
    BY <2>1 DEF Mask
  <2> QED
    BY <1>2, <1>3, <2>2
<1>5. live' = Resulted([live EXCEPT !.state = s], x)
  BY <1>1, <1>2
<1>6. Fits(plan, live.node, Last(live.history).role, x)
  BY <1>2, <1>3
<1> HIDE DEF x, s
<1>7. /\ u = [llm |-> u.llm, tool |-> u.tool] /\ u.llm = tape.llm
      /\ u.tool = Append(tape.tool, [key |-> Last(live.history), res |-> x])
  BY <1>2, NotedIs
<1>8. u.tool = IF x \notin Denials
               THEN Append(tape.tool, [key |-> Last(live.history), res |-> IF x # "invalid" THEN x ELSE "error"])
               ELSE tape.tool
  BY <1>2, <1>3, <1>7
<1> HIDE DEF u
<1>9. Live(plan, Resulted([live EXCEPT !.state = s], x), u)
  BY <1>1, <1>2, <1>3, <1>4, <1>6, <1>7, <1>8, ResultKeeps
<1>10. Live(plan, live', tape')
  BY <1>1, <1>5, <1>9
<1> QED
  BY <1>1, <1>10, RecordKeeps

-----------------------------------------------------------------------------
(* The invariant: the bundle.                                               *)
LEMMA WriteKeeps == Inv /\ WriteBundle => Inv'
<1> SUFFICES ASSUME Inv, WriteBundle PROVE Inv'
  OBVIOUS
<1>1. /\ phase = "record" /\ live.pc = "stop" /\ phase' = "written"
      /\ plan' = plan /\ bearer' = bearer /\ live' = live /\ tape' = tape /\ cut' = cut /\ replay' = replay
  BY DEF WriteBundle
<1>2. Taped(live, tape, ~ cut)
  BY <1>1 DEF Inv, Live
<1> QED
  BY <1>1, <1>2 DEF Inv, Phases

\* A bundle that is cut still lists a first part of each log.
LEMMA CutKeeps ==
  ASSUME Inv, NEW k \in 0 .. Len(tape.llm) + Len(tape.tool), Cut(k)
  PROVE  Inv'
<1>1. /\ phase = "written" /\ ~ cut /\ cut' = TRUE /\ phase' = "written" /\ replay' = replay
      /\ plan' = plan /\ bearer' = bearer /\ live' = live
      /\ tape' = IF k <= Len(tape.llm) THEN [llm |-> SubSeq(tape.llm, 1, k), tool |-> <<>>]
                 ELSE [tape EXCEPT !.tool = SubSeq(@, 1, k - Len(tape.llm))]
  BY DEF Cut
<1>2. Taped(live, tape, TRUE) /\ replay = Machine
  <2>1. ~ cut <=> TRUE
    BY <1>1
  <2>2. (~ cut) = TRUE
    BY <2>1 DEF Inv
  <2>3. Taped(live, tape, ~ cut)
    BY <1>1 DEF Inv
  <2> QED
    BY <1>1, <2>2, <2>3 DEF Inv
<1>3. /\ tape \in Tapes /\ tape.llm \in Seq(LlmEntries) /\ tape.tool \in Seq(ToolEntries)
      /\ Lists(tape.llm, LlmLog(live), Origin, TRUE) /\ Lists(tape.tool, ToolLog(live), Origin, TRUE)
  BY <1>2, TapeIs DEF Taped
<1>4. Origin \in Place /\ DOMAIN LlmLog(live) \subseteq Place /\ DOMAIN ToolLog(live) \subseteq Place
  BY PlaceIs, LogDomains DEF Origin
<1>5. Len(tape.llm) \in Nat /\ Len(tape.tool) \in Nat /\ k \in Nat /\ k <= Len(tape.llm) + Len(tape.tool)
  <2>1. Len(tape.llm) \in Nat /\ Len(tape.tool) \in Nat
    BY <1>3
  <2> DEFINE a == Len(tape.llm)
             b == Len(tape.tool)
  <2>2. a \in Nat /\ b \in Nat /\ k \in 0 .. a + b
    BY <2>1
  <2> HIDE DEF a, b
  <2>3. k \in Nat /\ k <= a + b
    BY <2>2
  <2> QED
    BY <2>1, <2>3 DEF a, b
<1>6. Taped(live, tape', FALSE)
  <2>1. CASE k <= Len(tape.llm)
    <3> DEFINE a == SubSeq(tape.llm, 1, k)
               b == SubSeq(tape.tool, 1, 0)
    <3>1. a \in Seq(LlmEntries) /\ b = <<>> /\ b \in Seq(ToolEntries)
      <4>1. a \in Seq(LlmEntries)
        BY <1>3, <1>5, <2>1, FrontIs
      <4>2. b \in Seq(ToolEntries) /\ Len(b) = 0
        BY <1>3, <1>5, FrontIs
      <4> HIDE DEF b
      <4> QED
        BY <4>1, <4>2
    <3>2. Lists(a, LlmLog(live), Origin, FALSE)
      BY <1>3, <1>4, <1>5, <2>1, ListsCut
    <3>3. Lists(b, ToolLog(live), Origin, FALSE)
      <4> DEFINE z == 0
      <4>1. z \in Nat /\ z <= Len(tape.tool)
        BY <1>5
      <4> HIDE DEF z
      <4>2. Lists(SubSeq(tape.tool, 1, z), ToolLog(live), Origin, FALSE)
        BY <1>3, <1>4, <4>1, ListsCut
      <4> QED
        BY <4>2 DEF z
    <3>4. tape' = [llm |-> a, tool |-> b]
      BY <1>1, <2>1, <3>1
    <3> HIDE DEF a, b
    <3>5. tape' \in Tapes /\ tape'.llm = a /\ tape'.tool = b
      BY <3>1, <3>4 DEF Tapes
    <3> QED
      BY <3>2, <3>3, <3>5 DEF Taped
  <2>2. CASE ~ (k <= Len(tape.llm))
    <3> DEFINE n == k - Len(tape.llm)
               b == SubSeq(tape.tool, 1, n)
    <3>1. n \in Nat /\ n <= Len(tape.tool)
      <4> DEFINE a == Len(tape.llm)
                 c == Len(tape.tool)
      <4>1. a \in Nat /\ c \in Nat /\ k \in Nat /\ k <= a + c /\ ~ (k <= a)
        BY <1>5, <2>2
      <4> HIDE DEF a, c
      <4>2. k - a \in Nat /\ k - a <= c
        BY <4>1
      <4> QED
        BY <4>2 DEF a, c
    <3>2. tape' = [tape EXCEPT !.tool = b]
      BY <1>1, <2>2
    <3> HIDE DEF n
    <3>3. b \in Seq(ToolEntries)
      BY <1>3, <3>1, FrontIs
    <3>4. Lists(b, ToolLog(live), Origin, FALSE)
      BY <1>3, <1>4, <3>1, ListsCut
    <3>5. Lists(tape.llm, LlmLog(live), Origin, FALSE)
      <4>1. SubSeq(tape.llm, 1, Len(tape.llm)) = tape.llm
        BY <1>3, <1>5, FrontIs
      <4> DEFINE z == Len(tape.llm)
      <4>2. z \in Nat /\ z <= Len(tape.llm)
        BY <1>5
      <4> HIDE DEF z
      <4>3. Lists(SubSeq(tape.llm, 1, z), LlmLog(live), Origin, FALSE)
        BY <1>3, <1>4, <4>2, ListsCut
      <4> QED
        BY <4>1, <4>3 DEF z
    <3> HIDE DEF b
    <3>6. tape' = [llm |-> tape.llm, tool |-> b]
      BY <1>3, <3>2, TapeIs
    <3>7. tape' \in Tapes /\ tape'.llm = tape.llm /\ tape'.tool = b
      BY <1>3, <3>3, <3>6 DEF Tapes
    <3> QED
      BY <3>4, <3>5, <3>7 DEF Taped
  <2> QED
    BY <2>1, <2>2
<1>7. Taped(live', tape', ~ cut')
  BY <1>1, <1>6
<1> QED
  BY <1>1, <1>2, <1>7 DEF Inv, Phases

\* A refused bundle is not replayed.
LEMMA RefuseKeeps == Inv /\ RefuseBundle => Inv'
<1> SUFFICES ASSUME Inv, RefuseBundle PROVE Inv'
  OBVIOUS
<1>1. /\ phase = "written" /\ phase' = "refused"
      /\ plan' = plan /\ bearer' = bearer /\ live' = live /\ tape' = tape /\ cut' = cut /\ replay' = replay
  BY DEF RefuseBundle
<1> QED
  BY <1>1 DEF Inv, Phases

\* A replay that starts follows what is on the tape.
LEMMA StartFollows ==
  ASSUME plan \in Plans, NEW l, Recorded(l), NEW full, NEW t, Taped(l, t, full)
  PROVE  Follows(plan, bearer, l, full, Machine, t)
<1>1. Sound(plan, Machine)
  BY SoundStart
<1>2. Echoes(Machine)
  <2>1. Echoed(<<>>)
    BY DEF Echoed
  <2> QED
    BY <2>1, MachineIs DEF Echoes
<1>3. /\ t \in Tapes /\ t.llm \in Seq(LlmEntries) /\ t.tool \in Seq(ToolEntries)
      /\ Lists(t.llm, LlmLog(l), Origin, full) /\ Lists(t.tool, ToolLog(l), Origin, full)
  BY TapeIs DEF Taped
<1>4. Track(plan, l, full, Machine, t)
  <2>1. 1 .. Machine.node - 1 = {}
    BY MachineIs
  <2>2. ASSUME Machine.node <= Len(plan)
        PROVE  /\ Len(Machine.history) <= Len(l.done[Machine.node].history)
               /\ Machine.history = Masked(SubSeq(l.done[Machine.node].history, 1, Len(Machine.history)))
    <3>1. Len(plan) \in Nat
      BY <1>1, SoundIs
    <3>2. 1 \in 1 .. Len(plan) /\ Machine.node = 1 /\ Machine.history = <<>> /\ Len(Machine.history) = 0
      BY <2>2, <3>1, MachineIs
    <3> DEFINE lh == l.done[1].history
               g == SubSeq(lh, 1, 0)
    <3>3. lh \in Seq(Msg) /\ Len(lh) \in Nat
      BY <3>2, RecordedIs
    <3> HIDE DEF lh
    <3>4. g \in Seq(Msg) /\ Len(g) = 0 /\ 0 <= Len(lh)
      BY <3>3, FrontIs
    <3> HIDE DEF g
    <3>5. Masked(g) \in Seq(Msg) /\ Len(Masked(g)) = 0
      BY <3>4, MaskedIs
    <3>6. Masked(g) = <<>>
      BY <3>5
    <3> QED
      BY <3>2, <3>4, <3>6 DEF lh, g
  <2> QED
    BY <1>3, <2>1, <2>2, MachineIs DEF Track
<1>5. DOMAIN LlmLog(l) \subseteq Place /\ DOMAIN ToolLog(l) \subseteq Place
  BY LogDomains
<1>6. Paid(l, Machine, t)
  <2>1. Owns(t.llm, LlmLog(l), {})
    BY <1>3, <1>5, ListsOwns
  <2>2. Well(Machine) = {}
    BY MachineIs DEF Well
  <2>3. [x \in {} |-> x] \in [Well(Machine) -> Well(l)]
    BY <2>2
  <2>4. PaidBy(l, Machine, t, {}, [x \in {} |-> x])
    BY <2>1, <2>2, <2>3 DEF PaidBy
  <2> QED
    BY <2>4 DEF Paid
<1>7. ServedAll(l, Machine, t)
  <2>1. Owns(t.tool, ToolLog(l), {})
    BY <1>3, <1>5, ListsOwns
  <2>2. Served(Machine) = {}
    BY MachineIs DEF Served
  <2>3. [x \in {} |-> x] \in [Served(Machine) -> {} \cap ToolAt(l)]
    BY <2>2
  <2>4. ServedBy(l, Machine, t, {}, [x \in {} |-> x])
    BY <2>1, <2>2, <2>3 DEF ServedBy
  <2> QED
    BY <2>4 DEF ServedAll
<1> QED
  BY <1>1, <1>2, <1>3, <1>4, <1>6, <1>7 DEF Follows

\* The replay starts.
LEMMA ReadKeeps == Inv /\ ReadBundle => Inv'
<1> SUFFICES ASSUME Inv, ReadBundle PROVE Inv'
  OBVIOUS
<1>1. /\ phase = "written" /\ phase' = "replay"
      /\ plan' = plan /\ bearer' = bearer /\ live' = live /\ tape' = tape /\ cut' = cut /\ replay' = replay
  BY DEF ReadBundle
<1>2. plan \in Plans /\ Recorded(live) /\ Taped(live, tape, ~ cut) /\ replay = Machine
  BY <1>1 DEF Inv, Recorded
<1>3. Follows(plan, bearer, live, ~ cut, replay, tape)
  BY <1>2, StartFollows
<1> QED
  BY <1>1, <1>3 DEF Inv, Phases

-----------------------------------------------------------------------------
(* The invariant: the replay.                                               *)
LEMMA ReplayKeeps ==
  ASSUME Inv, phase = "replay", Follows(plan, bearer, live, ~ cut, replay', tape'),
         UNCHANGED <<plan, bearer, phase, live, cut>>
  PROVE  Inv'
<1>1. /\ plan' = plan /\ bearer' = bearer /\ phase' = "replay" /\ cut' = cut /\ live' = live
  OBVIOUS
<1> QED
  BY <1>1 DEF Inv, Phases

\* What the replay rests on.
LEMMA ReplayAt ==
  ASSUME Inv, phase = "replay"
  PROVE  /\ plan \in Plans /\ bearer \in BOOLEAN /\ Recorded(live) /\ (~ cut) \in BOOLEAN
         /\ Follows(plan, bearer, live, ~ cut, replay, tape)
BY DEF Inv, Recorded

\* The replay opens a node.
LEMMA ReopenKeeps == Inv /\ Reopen => Inv'
<1> SUFFICES ASSUME Inv, Reopen PROVE Inv'
  OBVIOUS
<1>1. /\ phase = "replay" /\ replay.pc = "open" /\ UNCHANGED <<plan, bearer, phase, live, cut>>
      /\ replay' = Opened(replay, FALSE) /\ tape' = tape
  BY DEF Reopen, Replaying
<1>2. /\ plan \in Plans /\ bearer \in BOOLEAN /\ Recorded(live) /\ (~ cut) \in BOOLEAN
      /\ Follows(plan, bearer, live, ~ cut, replay, tape)
  BY <1>1, ReplayAt
<1> DEFINE full == ~ cut
<1>3. full \in BOOLEAN /\ Follows(plan, bearer, live, full, replay, tape)
  BY <1>2
<1> HIDE DEF full
<1>4. Follows(plan, bearer, live, full, Opened(replay, FALSE), tape)
  BY <1>1, <1>2, <1>3, ReopenFollows
<1> QED
  BY <1>1, <1>4, ReplayKeeps DEF full

\* The replay looks for a request.
LEMMA ReanswerKeeps == Inv /\ Reanswer => Inv'
<1> SUFFICES ASSUME Inv, Reanswer PROVE Inv'
  OBVIOUS
<1> DEFINE f == Found(tape.llm, replay.history)
<1>1. /\ phase = "replay" /\ replay.pc = "llm" /\ UNCHANGED <<plan, bearer, phase, live, cut>>
      /\ \/ f = 0 /\ replay' = Failed(replay, "replay_miss") /\ tape' = tape
         \/ /\ f # 0
            /\ replay' = IF tape.llm[f].res.role = "error" THEN Failed(replay, "llm_error")
                         ELSE Answered(replay, tape.llm[f].res)
            /\ tape' = [tape EXCEPT !.llm = Left(@, f)]
  BY DEF Reanswer, Replaying
<1>2. /\ Recorded(live) /\ (~ cut) \in BOOLEAN
      /\ Follows(plan, bearer, live, ~ cut, replay, tape)
  BY <1>1, ReplayAt
<1> DEFINE full == ~ cut
<1>3. full \in BOOLEAN /\ Follows(plan, bearer, live, full, replay, tape)
  BY <1>2
<1> HIDE DEF full
<1>4. Follows(plan, bearer, live, full, replay', tape')
  <2>1. CASE f = 0
    BY <1>1, <1>2, <1>3, <2>1, ReanswerMisses
  <2>2. CASE f # 0 /\ tape.llm[f].res.role = "error"
    BY <1>1, <1>2, <1>3, <2>2, ReanswerFails
  <2>3. CASE f # 0 /\ tape.llm[f].res.role # "error"
    BY <1>1, <1>2, <1>3, <2>3, ReanswerSpeaks
  <2> QED
    BY <2>1, <2>2, <2>3
<1> QED
  BY <1>1, <1>4, ReplayKeeps DEF full

\* The replay denies a call.
LEMMA RedenyKeeps == Inv /\ Redeny => Inv'
<1> SUFFICES ASSUME Inv, Redeny PROVE Inv'
  OBVIOUS
<1>1. /\ phase = "replay" /\ replay.pc = "tool" /\ UNCHANGED <<plan, bearer, phase, live, cut>>
      /\ replay' = Resulted(replay, DenialOnReplay(Last(replay.history).role)) /\ tape' = tape
      /\ Last(replay.history).role \in Effectful
  BY DenialIs DEF Redeny, Replaying, Call
<1>2. /\ Recorded(live) /\ (~ cut) \in BOOLEAN
      /\ Follows(plan, bearer, live, ~ cut, replay, tape)
  BY <1>1, ReplayAt
<1> DEFINE full == ~ cut
<1>3. full \in BOOLEAN /\ Follows(plan, bearer, live, full, replay, tape)
  BY <1>2
<1> HIDE DEF full
<1>4. Follows(plan, bearer, live, full, Resulted(replay, DenialOnReplay(Last(replay.history).role)), tape)
  BY <1>1, <1>2, <1>3, RedenyFollows
<1> QED
  BY <1>1, <1>4, ReplayKeeps DEF full

\* The replay looks for a call.
LEMMA RetoolKeeps == Inv /\ Retool => Inv'
<1> SUFFICES ASSUME Inv, Retool PROVE Inv'
  OBVIOUS
<1> DEFINE f == Found(tape.tool, Last(replay.history))
<1>1. /\ phase = "replay" /\ replay.pc = "tool" /\ UNCHANGED <<plan, bearer, phase, live, cut>>
      /\ Last(replay.history).role \notin Effectful
      /\ \/ f = 0 /\ replay' = Failed(replay, "tool_error") /\ tape' = tape
         \/ /\ f # 0
            /\ replay' = IF tape.tool[f].res = "error" THEN Failed(replay, "tool_error")
                         ELSE Resulted(replay, tape.tool[f].res)
            /\ tape' = [tape EXCEPT !.tool = Left(@, f)]
  BY DenialIs DEF Retool, Replaying, Call
<1>2. /\ Recorded(live) /\ (~ cut) \in BOOLEAN
      /\ Follows(plan, bearer, live, ~ cut, replay, tape)
  BY <1>1, ReplayAt
<1> DEFINE full == ~ cut
<1>3. full \in BOOLEAN /\ Follows(plan, bearer, live, full, replay, tape)
  BY <1>2
<1> HIDE DEF full
<1>4. Follows(plan, bearer, live, full, replay', tape')
  <2>1. CASE f = 0
    BY <1>1, <1>2, <1>3, <2>1, RetoolMisses
  <2>2. CASE f # 0 /\ tape.tool[f].res = "error"
    BY <1>1, <1>2, <1>3, <2>2, RetoolFails
  <2>3. CASE f # 0 /\ tape.tool[f].res # "error"
    BY <1>1, <1>2, <1>3, <2>3, RetoolSpeaks
  <2> QED
    BY <2>1, <2>2, <2>3
<1> QED
  BY <1>1, <1>4, ReplayKeeps DEF full

\* What is recorded, the bundle and the replay of it, step by step.
LEMMA Invariance == Spec => []Inv
<1>1. Init => Inv
  BY InitKeeps
<1>2. Inv /\ [Next]_vars => Inv'
  <2> SUFFICES ASSUME Inv, [Next]_vars PROVE Inv'
    OBVIOUS
  <2>1. CASE Open
    BY <2>1, OpenRecords
  <2>2. CASE TransportFails
    BY <2>2, TransportFailsRecords
  <2>3. CASE Lost
    BY <2>3, LostRecords
  <2>4. CASE Deny \/ RefuseHost
    BY <2>4, DenyRecords
  <2>5. CASE Forgiven
    BY <2>5, ForgivenRecords
  <2>6. CASE ToolFails
    BY <2>6, ToolFailsRecords
  <2>7. CASE \E a \in Answers : Complete(a)
    BY <2>7, CompleteRecords
  <2>8. CASE \E t \in Outputs : Invoke(t)
    BY <2>8, InvokeRecords
  <2>9. CASE WriteBundle
    BY <2>9, WriteKeeps
  <2>10. CASE RefuseBundle
    BY <2>10, RefuseKeeps
  <2>11. CASE ReadBundle
    BY <2>11, ReadKeeps
  <2>12. CASE \E k \in 0 .. Len(tape.llm) + Len(tape.tool) : Cut(k)
    BY <2>12, CutKeeps
  <2>13. CASE Reopen
    BY <2>13, ReopenKeeps
  <2>14. CASE Reanswer
    BY <2>14, ReanswerKeeps
  <2>15. CASE Redeny
    BY <2>15, RedenyKeeps
  <2>16. CASE Retool
    BY <2>16, RetoolKeeps
  <2>17. CASE UNCHANGED vars
    <3>1. /\ plan' = plan /\ bearer' = bearer /\ phase' = phase /\ live' = live
          /\ tape' = tape /\ cut' = cut /\ replay' = replay
      BY <2>17 DEF vars
    <3> QED
      BY <3>1 DEF Inv
  <2>18. CASE Finished
    BY <2>17, <2>18 DEF Finished
  <2> QED
    BY <2>1, <2>2, <2>3, <2>4, <2>5, <2>6, <2>7, <2>8, <2>9, <2>10, <2>11, <2>12, <2>13, <2>14,
       <2>15, <2>16, <2>17, <2>18 DEF Next
<1> QED
  BY <1>1, <1>2, PTL DEF Spec

\* The replay of an uncut bundle is the recorded run, node by node, up to the
\* first node whose recording replay cannot repeat (read_bundle, ReplayTransport
\* and ReplayToolHandler answer each request with what was recorded of it).
THEOREM RecordingIsFollowed == Spec => []ReplayFollows
<1>1. Inv => ReplayFollows
  <2> SUFFICES ASSUME Inv, phase = "replay", ~ cut, NEW n \in DOMAIN replay.done,
                      \A j \in 1 .. n : Replayable(j)
               PROVE  Reproduced(n)
    BY DEF ReplayFollows
  <2>1. Follows(plan, bearer, live, ~ cut, replay, tape) /\ Sound(plan, replay)
    BY DEF Inv, Follows
  <2>2. DOMAIN replay.done = 1 .. replay.node - 1 /\ replay.node \in Nat \ {0} /\ replay.node <= Len(plan) + 1
    BY <2>1, SoundIs
  <2>3. \A j \in 1 .. n : Faithful(plan, bearer, live, j)
    BY DEF Replayable, Faithful, Repeats
  <2>4. Same(live.done[n], replay.done[n])
    <3>1. CASE Track(plan, live, ~ cut, replay, tape)
      BY <2>2, <3>1 DEF Track
    <3>2. CASE Off(plan, bearer, live, ~ cut, replay)
      <4>1. PICK d \in 1 .. Len(plan) : /\ d <= replay.node /\ ~ Faithful(plan, bearer, live, d)
                                        /\ \A i \in 1 .. d - 1 : Same(live.done[i], replay.done[i])
        BY <3>2 DEF Off, Marked
      <4>2. n \in 1 .. d - 1
        BY <2>2, <2>3, <4>1
      <4> QED
        BY <4>1, <4>2
    <3> QED
      BY <2>1, <3>1, <3>2 DEF Follows
  <2> QED
    BY <2>4 DEF Same, Reproduced
<1> QED
  BY <1>1, Invariance, PTL

-----------------------------------------------------------------------------
(* A replay that ends well: each of its nodes used a recorded node that     *)
(* ended well, each of its calls a recorded call, and none was used twice.  *)
(* So there are as many of them, and all that was recorded ended well.      *)
LEMMA Onto ==
  ASSUME NEW S, IsFiniteSet(S), NEW f \in [S -> S], \A x, y \in S : f[x] = f[y] => x = y
  PROVE  \A y \in S : \E x \in S : f[x] = y
<1>1. f \in Injection(S, S)
  BY DEF Injection, IsInjective
<1>2. f \in Surjection(S, S)
  BY <1>1, FS_Injection
<1> QED
  BY <1>2 DEF Surjection

\* The calls of a recorded run are finitely many.
LEMMA FewCalls ==
  ASSUME NEW l, Sound(plan, l), l.pc = "stop", NEW roles \in SUBSET Tools
  PROVE  IsFiniteSet(At(l, roles, "never"))
<1> DEFINE N == Len(plan)
           M == Limit + 1
<1>1. N \in Nat /\ Len(l.done) = N /\ M \in Nat
  BY AtIs, LimitIs
<1> HIDE DEF M
<1>2. ASSUME NEW x \in At(l, roles, "never") PROVE x \in (1 .. N) \X (1 .. M)
  <2> DEFINE h == l.done[x[1]].history
             i == x[2]
  <2>1. x \in Place /\ x[1] \in 1 .. N /\ i \in 1 .. Len(h) /\ h[i].role \in Tools
    BY AtIs
  <2>2. Grammar(h) /\ h \in Seq(Msg) /\ Len(h) \in Nat
    BY <1>1, <2>1, SoundIs DEF Sound
  <2>3. x = <<x[1], i>>
    BY <2>1, PlaceIs
  <2> HIDE DEF h, i
  <2>4. i # 1
    <3>1. h[i].role # "user"
      BY <2>1, RolesDiffer
    <3> QED
      BY <2>1, <2>2, <3>1 DEF Grammar
  <2> DEFINE j == i - 1
  <2>5. j \in 1 .. Len(h) /\ i \in Nat /\ j < Len(h) /\ j + 1 = i
    BY <2>1, <2>2, <2>4
  <2> HIDE DEF j
  <2>6. h[j].role \in Asks
    <3>1. h[j] \in Msg
      BY <2>2, <2>5
    <3>2. h[j].role \in Asks \/ h[j].role \in Tools \/ h[j].role = "final"
      BY <3>1, MsgIs, RolesDiffer
    <3>3. h[j].role # "final"
      BY <2>2, <2>5 DEF Grammar
    <3>4. h[j].role \notin Tools
      <4>1. h[j].role \in Tools => h[i].role = "result"
        BY <2>2, <2>5 DEF Grammar
      <4> QED
        BY <2>1, <4>1, RolesDiffer
    <3> QED
      BY <3>2, <3>3, <3>4
  <2>7. j <= Limit
    BY <2>2, <2>5, <2>6 DEF Grammar
  <2>8. i \in 1 .. M
    BY <2>1, <2>5, <2>7, LimitIs DEF M
  <2> QED
    BY <2>1, <2>3, <2>8
<1>3. IsFiniteSet((1 .. N) \X (1 .. M))
  <2>1. N \in Int /\ M \in Int /\ 1 \in Int
    BY <1>1
  <2> HIDE DEF N
  <2>2. IsFiniteSet(1 .. N) /\ IsFiniteSet(1 .. M)
    BY <2>1, FS_Interval
  <2> QED
    BY <2>2, FS_Product
<1> QED
  BY <1>2, <1>3, FS_Subset

\* A run of which every node ended well.
Fine(m) == \A n \in 1 .. Len(plan) : m.done[n].end = "ok"

\* In a run that ended well every call was answered.
LEMMA AnsweredCalls ==
  ASSUME NEW l, Sound(plan, l), l.pc = "stop", Fine(l), NEW roles \in SUBSET Tools, NEW err
  PROVE  \A x : x \in At(l, roles, err) =>
           /\ x[2] < Len(l.done[x[1]].history) /\ x[2] + 1 \in 1 .. Len(l.done[x[1]].history)
           /\ x \in At(l, roles, "never")
<1> SUFFICES ASSUME NEW x \in At(l, roles, err)
             PROVE  /\ x[2] < Len(l.done[x[1]].history) /\ x[2] + 1 \in 1 .. Len(l.done[x[1]].history)
                    /\ x \in At(l, roles, "never")
  OBVIOUS
<1> DEFINE h == l.done[x[1]].history
           i == x[2]
<1>1. x \in Place /\ x[1] \in 1 .. Len(plan) /\ i \in 1 .. Len(h) /\ h[i].role \in roles
  BY AtIs
<1>2. x[1] \in 1 .. Len(l.done) /\ l.done[x[1]].end = "ok"
  BY <1>1, AtIs DEF Fine
<1>3. Over(l.done[x[1]]) /\ h \in Seq(Msg) /\ Len(h) \in Nat
  BY <1>2, SoundIs DEF Sound
<1>4. h # <<>> /\ Last(h).role = "final"
  BY <1>2, <1>3 DEF Over
<1> HIDE DEF h, i
<1>5. i < Len(h)
  <2>1. h[i].role # "final"
    BY <1>1, RolesDiffer
  <2>2. i # Len(h)
    BY <1>4, <2>1 DEF Last
  <2> QED
    BY <1>1, <1>3, <2>2
<1>6. i + 1 \in 1 .. Len(h)
  BY <1>1, <1>3, <1>5
<1>7. x \in At(l, roles, "never")
  BY <1>1, <1>5, AtIs DEF h, i
<1> QED
  BY <1>5, <1>6, <1>7 DEF h, i

\* A call of such a run is at its place.
LEMMA SomeCall ==
  ASSUME NEW l, Sound(plan, l), l.pc = "stop", Fine(l), NEW roles \in SUBSET Tools,
         NEW n \in 1 .. Len(plan), NEW i \in 1 .. Len(l.done[n].history), l.done[n].history[i].role \in roles
  PROVE  <<n, i>> \in At(l, roles, "never")
<1> DEFINE x == <<n, i>>
<1>1. n \in Nat /\ i \in Nat
  BY AtIs
<1>2. x \in Place /\ x[1] = n /\ x[2] = i
  BY <1>1, PlaceIs
<1>3. n \in 1 .. Len(l.done) /\ l.done[n].end = "ok"
  BY AtIs DEF Fine
<1>4. Over(l.done[n]) /\ Len(l.done[n].history) \in Nat
  BY <1>3, SoundIs DEF Sound
<1>5. i # Len(l.done[n].history)
  <2>1. Last(l.done[n].history).role = "final"
    BY <1>3, <1>4 DEF Over
  <2>2. l.done[n].history[i].role # "final"
    BY RolesDiffer
  <2> QED
    BY <2>1, <2>2 DEF Last
<1>6. i < Len(l.done[n].history)
  BY <1>1, <1>4, <1>5
<1> HIDE DEF x
<1>7. x \in At(l, roles, "never")
  BY <1>2, <1>6, AtIs
<1> QED
  BY <1>7 DEF x

\* Every recorded node was used.
LEMMA AllPaid ==
  ASSUME NEW l, Recorded(l), NEW m, Sound(plan, m), m.pc = "stop", Fine(m), NEW t, Paid(l, m, t)
  PROVE  /\ Fine(l)
         /\ \E to \in [1 .. Len(plan) -> 1 .. Len(plan)] :
              /\ \A i, j \in 1 .. Len(plan) : to[i] = to[j] => i = j
              /\ \A n \in 1 .. Len(plan) : m.done[to[n]].history = Masked(l.done[n].history)
<1> DEFINE S == 1 .. Len(plan)
<1>1. Len(plan) \in Nat /\ Len(l.done) = Len(plan) /\ Len(m.done) = Len(plan)
  BY AtIs DEF Recorded
<1>2. PICK used, from : PaidBy(l, m, t, used, from)
  BY DEF Paid
<1>3. Well(m) = S /\ Well(l) \subseteq S
  BY <1>1 DEF Well, Fine
<1>4. /\ from \in [S -> S] /\ \A i \in S : from[i] \in Well(l)
      /\ \A i, j \in S : from[i] = from[j] => i = j
      /\ \A i \in S : m.done[i].history = Masked(l.done[from[i]].history)
  BY <1>2, <1>3 DEF PaidBy
<1>5. IsFiniteSet(S)
  BY <1>1, FS_Interval
<1> HIDE DEF S
<1>6. \A n \in S : \E i \in S : from[i] = n
  BY <1>4, <1>5, Onto
<1> DEFINE to == [n \in S |-> CHOOSE i \in S : from[i] = n]
<1>7. \A n \in S : to[n] \in S /\ from[to[n]] = n
  BY <1>6
<1>8. to \in [S -> S]
  BY <1>7
<1> HIDE DEF to
<1>9. \A i, j \in S : to[i] = to[j] => i = j
  BY <1>7
<1>10. \A n \in S : m.done[to[n]].history = Masked(l.done[n].history)
  BY <1>4, <1>7
<1>11. \A n \in S : n \in Well(l)
  BY <1>4, <1>6
<1>12. Fine(l)
  BY <1>11 DEF Fine, Well, S
<1> QED
  BY <1>8, <1>9, <1>10, <1>12 DEF S

\* Every recorded call that was not denied was used, and none held a secret.
LEMMA AllServed ==
  ASSUME NEW l, Recorded(l), Fine(l), NEW m, Sound(plan, m), m.pc = "stop", Fine(m), Echoes(m),
         NEW t, ServedAll(l, m, t),
         NEW to \in [1 .. Len(plan) -> 1 .. Len(plan)],
         \A i, j \in 1 .. Len(plan) : to[i] = to[j] => i = j,
         \A n \in 1 .. Len(plan) : m.done[to[n]].history = Masked(l.done[n].history)
  PROVE  \A x \in Served(l) : l.done[x[1]].history[x[2]].text # "secret"
<1> DEFINE roles == Tools \ Effectful
           There(x) == <<to[x[1]], x[2]>>
<1>1. Sound(plan, l) /\ l.pc = "stop" /\ roles \in SUBSET Tools
  BY DEF Recorded
<1>2. PICK used, org : ServedBy(l, m, t, used, org)
  BY DEF ServedAll
<1>3. ASSUME NEW x \in Served(l)
      PROVE  /\ There(x) \in Served(m) /\ There(x)[1] = to[x[1]] /\ There(x)[2] = x[2]
             /\ x = <<x[1], x[2]>> /\ x[1] \in 1 .. Len(plan)
  <2> DEFINE n == x[1]
             i == x[2]
             h == l.done[n].history
             g == m.done[to[n]].history
  <2>1. x \in Place /\ n \in 1 .. Len(plan) /\ i \in 1 .. Len(h) /\ h[i].role \in roles
    BY <1>1, <1>3, AtIs DEF Served
  <2>2. h \in Seq(Msg) /\ g = Masked(h) /\ to[n] \in 1 .. Len(plan)
    BY <2>1, RecordedIs
  <2> HIDE DEF h, roles
  <2>3. i \in 1 .. Len(g) /\ g[i].role \in roles
    BY <2>1, <2>2, MaskedIs
  <2>4. <<to[n], i>> \in At(m, roles, "never")
    <3> DEFINE d == to[n]
    <3>1. d \in 1 .. Len(plan) /\ i \in 1 .. Len(m.done[d].history) /\ m.done[d].history[i].role \in roles
      BY <2>2, <2>3
    <3> HIDE DEF d, n, i
    <3>2. <<d, i>> \in At(m, roles, "never")
      BY <1>1, <3>1, SomeCall
    <3> QED
      BY <3>2 DEF d
  <2>5. x = <<x[1], x[2]>>
    BY <2>1, PlaceIs
  <2> QED
    BY <2>1, <2>4, <2>5 DEF Served, roles
<1>4. ASSUME NEW y \in Served(m)
      PROVE  /\ org[y] \in Served(l)
             /\ l.done[org[y][1]].history[org[y][2]] = m.done[y[1]].history[y[2]]
             /\ m.done[y[1]].history[y[2]].text # "secret"
  <2> DEFINE x == org[y]
             d == y[1]
             i == y[2]
             h == m.done[d].history
  <2>1. x \in ToolAt(l) /\ HistoryOf(l, x[1])[x[2]] = HistoryOf(m, d)[i]
    BY <1>2, <1>4 DEF ServedBy
  <2>2. d \in 1 .. Len(plan) /\ i \in 1 .. Len(h) /\ h[i].role \in roles
    BY <1>1, <1>4, AtIs DEF Served
  <2>3. HistoryOf(m, d) = h
    BY <2>2, AtIs
  <2>4. x \in At(l, Tools, "tool_error")
    BY <2>1, LogDomains
  <2>5. /\ x \in Place /\ x[1] \in 1 .. Len(plan) /\ x[2] \in 1 .. Len(l.done[x[1]].history)
        /\ HistoryOf(l, x[1]) = l.done[x[1]].history
    BY <1>1, <2>4, AtIs
  <2>6. l.done[x[1]].history[x[2]] = h[i]
    BY <2>1, <2>3, <2>5
  <2>7. x[2] < Len(l.done[x[1]].history)
    BY <1>1, <2>4, AnsweredCalls
  <2> HIDE DEF x
  <2>8. x \in At(l, roles, "never")
    BY <1>1, <2>2, <2>5, <2>6, <2>7, AtIs
  <2>9. h[i].text # "secret"
    <3>1. d \in 1 .. m.node
      <4>1. Len(m.done) = Len(plan) /\ Len(plan) \in Nat
        BY AtIs
      <4>2. m.node = Len(plan) + 1
        BY SoundIs, <4>1
      <4> QED
        BY <2>2, <4>1, <4>2
    <3>2. Echoed(h)
      BY <2>3, <3>1 DEF Echoes
    <3> HIDE DEF h, d, i
    <3> QED
      BY <2>2, <3>2, RolesDiffer DEF Echoed
  <2> QED
    BY <2>6, <2>8, <2>9 DEF Served, x
<1> DEFINE f == [x \in Served(l) |-> org[There(x)]]
<1>5. f \in [Served(l) -> Served(l)]
  BY <1>3, <1>4
<1>6. ASSUME NEW x \in Served(l), NEW y \in Served(l), f[x] = f[y] PROVE x = y
  <2>1. org[There(x)] = org[There(y)] /\ There(x) \in Served(m) /\ There(y) \in Served(m)
    BY <1>3, <1>6
  <2>2. There(x) = There(y)
    BY <1>2, <2>1 DEF ServedBy
  <2>3. to[x[1]] = to[y[1]] /\ x[2] = y[2]
    BY <1>3, <2>2
  <2>4. x[1] = y[1]
    BY <1>3, <2>3
  <2>5. x = <<x[1], x[2]>> /\ y = <<y[1], y[2]>>
    BY <1>3
  <2> HIDE DEF f, There
  <2> QED
    BY ONLY <2>3, <2>4, <2>5, Zenon
<1>7. IsFiniteSet(Served(l))
  BY <1>1, FewCalls DEF Served
<1> HIDE DEF f
<1>8. \A y \in Served(l) : \E x \in Served(l) : f[x] = y
  BY <1>5, <1>6, <1>7, Onto
<1> SUFFICES ASSUME NEW y \in Served(l) PROVE l.done[y[1]].history[y[2]].text # "secret"
  OBVIOUS
<1>9. PICK x \in Served(l) : f[x] = y
  BY <1>8
<1>10. y = org[There(x)] /\ There(x) \in Served(m)
  BY <1>3, <1>9 DEF f
<1> HIDE DEF There
<1> QED
  BY <1>4, <1>10

\* So a replay that ends well is on its track, and at its end.
LEMMA EndsOnTrack ==
  ASSUME NEW l, Recorded(l), NEW full, NEW m, NEW t, Follows(plan, bearer, l, full, m, t),
         m.pc = "stop", Fine(m), Plain
  PROVE  Track(plan, l, full, m, t)
<1>1. Sound(plan, l) /\ l.pc = "stop" /\ Sound(plan, m) /\ Echoes(m) /\ Paid(l, m, t) /\ ServedAll(l, m, t)
  BY DEF Recorded, Follows
<1>2. /\ Len(plan) \in Nat /\ Len(l.done) = Len(plan) /\ Len(m.done) = Len(plan) /\ m.node = Len(plan) + 1
  BY <1>1, AtIs, SoundIs
<1>3. /\ Fine(l)
      /\ \E to \in [1 .. Len(plan) -> 1 .. Len(plan)] :
           /\ \A i, j \in 1 .. Len(plan) : to[i] = to[j] => i = j
           /\ \A n \in 1 .. Len(plan) : m.done[to[n]].history = Masked(l.done[n].history)
  BY <1>1, AllPaid
<1>4. PICK to \in [1 .. Len(plan) -> 1 .. Len(plan)] :
        /\ \A i, j \in 1 .. Len(plan) : to[i] = to[j] => i = j
        /\ \A n \in 1 .. Len(plan) : m.done[to[n]].history = Masked(l.done[n].history)
  BY <1>3
<1>5. \A x \in Served(l) : l.done[x[1]].history[x[2]].text # "secret"
  BY <1>1, <1>3, <1>4, AllServed
<1>6. ASSUME NEW n \in 1 .. Len(plan), NEW i \in 1 .. Len(l.done[n].history)
      PROVE  /\ l.done[n].history[i].role \in Effectful /\ i < Len(l.done[n].history) =>
                  l.done[n].history[i + 1].text = DenialOnReplay(l.done[n].history[i].role)
             /\ l.done[n].history[i].role \in Tools \ Effectful => l.done[n].history[i].text # "secret"
  <2> DEFINE h == l.done[n].history
  <2>1. h \in Seq(Msg) /\ Len(h) \in Nat
    BY RecordedIs
  <2>2. ASSUME h[i].role \in Effectful, i < Len(h) PROVE h[i + 1].text = DenialOnReplay(h[i].role)
    <3> DEFINE d == to[n]
               g == m.done[d].history
               j == i + 1
    <3>1. d \in 1 .. Len(plan) /\ g = Masked(h)
      BY <1>4
    <3>2. Echoed(g)
      <4>1. d \in 1 .. m.node /\ HistoryOf(m, d) = g
        BY <1>1, <1>2, <3>1, AtIs, SMTT(60)
      <4> QED
        BY <1>1, <4>1 DEF Echoes
    <3>3. i \in 1 .. Len(h) /\ j \in 1 .. Len(h)
      BY <2>1, <2>2
    <3> HIDE DEF h, d, g, j
    <3>4. /\ Len(g) = Len(h) /\ g[i].role = h[i].role /\ g[j].text = Mask(h[j].text)
      BY <2>1, <3>1, <3>3, MaskedIs
    <3>5. g[j].text = DenialOnReplay(h[i].role)
      BY <2>2, <3>2, <3>3, <3>4 DEF Echoed, j
    <3>6. h[j].text = DenialOnReplay(h[i].role)
      BY <2>2, <3>4, <3>5, DenialIs DEF Mask
    <3> QED
      BY <3>6 DEF j
  <2>3. ASSUME h[i].role \in Tools \ Effectful PROVE h[i].text # "secret"
    <3>1. Tools \ Effectful \in SUBSET Tools
      OBVIOUS
    <3>2. <<n, i>> \in Served(l)
      BY <1>1, <1>3, <2>3, <3>1, SomeCall DEF Served
    <3> QED
      BY <1>5, <3>2
  <2> QED
    BY <2>2, <2>3
<1>7. Clean(l)
  BY <1>2, <1>3, <1>6 DEF Clean, Fine
<1>8. ~ Doomed(m) /\ ~ FailedSome(m)
  BY <1>2 DEF Doomed, FailedSome, Fine
<1> QED
  BY <1>7, <1>8 DEF Follows, Off

\* After the last node nothing is left on a tape.
LEMMA NothingLeft ==
  ASSUME NEW l, Sound(plan, l), l.pc = "stop", NEW m, m.node = Len(plan) + 1,
         NEW S, NEW s \in Seq(S), NEW f, NEW full, Lists(s, f, Here(m), full),
         NEW roles, NEW err, DOMAIN f \subseteq At(l, roles, err)
  PROVE  s = <<>>
<1>1. PICK at : ListsBy(at, s, f, Here(m), full)
  BY DEF Lists
<1>2. Len(plan) \in Nat /\ \A x \in DOMAIN f : x[1] \in 1 .. Len(plan)
  BY AtIs
<1>3. \A x \in DOMAIN f : Before(x, Here(m))
  <2>1. Here(m)[1] = Len(plan) + 1
    BY DEF Here
  <2> QED
    BY <1>2, <2>1 DEF Before
<1>4. 1 .. Len(s) = {}
  BY <1>1, <1>3 DEF ListsBy
<1>5. Len(s) = 0
  <2>1. Len(s) \in Nat
    OBVIOUS
  <2>2. ~ (1 <= Len(s))
    BY <1>4, <2>1
  <2> QED
    BY <2>1, <2>2
<1> QED
  BY <1>5

\* A replay whose every node ends well had, node by node, the recorded
\* conversations, and left nothing of the bundle (ReplayTransport::complete and
\* ReplayToolHandler::invoke take each entry once): no identical requests, no
\* denials, lost entries or missing lines make it take one node's answers for
\* another's.  Plain is needed: a model that answers with the very placeholder
\* of scrub_pipeline_secrets can make two nodes swap their answers.
THEOREM ReplayIsFaithful ==
  ASSUME Plain
  PROVE  Spec => []SameOrFails
<1>1. Inv => SameOrFails
  <2> SUFFICES ASSUME Inv, AllOk(replay)
               PROVE  tape = [llm |-> <<>>, tool |-> <<>>] /\ \A n \in DOMAIN plan : Reproduced(n)
    BY DEF SameOrFails
  <2>1. phase = "replay"
    <3>1. phase # "replay" => replay.pc = "open"
      BY MachineIs DEF Inv
    <3> QED
      BY <3>1 DEF AllOk
  <2>2. Recorded(live) /\ Follows(plan, bearer, live, ~ cut, replay, tape)
    BY <2>1, ReplayAt
  <2>3. Sound(plan, live) /\ live.pc = "stop" /\ Sound(plan, replay) /\ replay.pc = "stop" /\ tape \in Tapes
    BY <2>2 DEF Recorded, Follows, AllOk
  <2>4. Len(plan) \in Nat /\ Len(replay.done) = Len(plan) /\ replay.node = Len(plan) + 1
    BY <2>3, AtIs, SoundIs
  <2>5. DOMAIN plan = 1 .. Len(plan) /\ DOMAIN replay.done = 1 .. Len(plan)
    <3>1. DOMAIN replay.done = 1 .. replay.node - 1
      BY <2>3, SoundIs
    <3>2. plan \in Seq(Agent)
      BY <2>3 DEF Sound
    <3> QED
      BY <2>4, <3>1, <3>2
  <2>6. Fine(replay)
    BY <2>5 DEF AllOk, Fine
  <2>7. Track(plan, live, ~ cut, replay, tape)
    BY <2>2, <2>3, <2>6, EndsOnTrack
  <2>8. \A n \in DOMAIN plan : Reproduced(n)
    BY <2>4, <2>5, <2>7 DEF Track, Same, Reproduced
  <2>9. tape.llm = <<>> /\ tape.tool = <<>>
    <3>1. /\ Lists(tape.llm, LlmLog(live), Here(replay), ~ cut)
          /\ Lists(tape.tool, ToolLog(live), Here(replay), ~ cut)
          /\ tape.llm \in Seq(LlmEntries) /\ tape.tool \in Seq(ToolEntries)
      BY <2>3, <2>7, TapeIs DEF Track
    <3>2. /\ DOMAIN LlmLog(live) \subseteq At(live, Asks, "llm_error")
          /\ DOMAIN ToolLog(live) \subseteq At(live, Tools, "tool_error")
      BY LogDomains DEF LlmAt
    <3> QED
      BY <2>3, <2>4, <3>1, <3>2, NothingLeft
  <2>10. tape = [llm |-> <<>>, tool |-> <<>>]
    BY <2>3, <2>9, TapeIs
  <2> QED
    BY <2>8, <2>10
<1> QED
  BY <1>1, Invariance, PTL
=============================================================================
