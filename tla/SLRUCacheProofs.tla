-------------------------- MODULE SLRUCacheProofs ---------------------------
(***************************************************************************)
(* Segmented LRU, for any keys, sizes and capacity and for two, three or   *)
(* four lists: the tags, the map and the counters agree after every        *)
(* promotion, demotion, eviction and insertion, the lists keep to their    *)
(* shares, and an object climbs no higher than its hits.                   *)
(* Loaded and saved day after day, the segmented checkpoint keeps the      *)
(* nodes in place and byte counts exact; cache_size_ lags by the load, and *)
(* what a day that loaded nothing has saved is read back as it was.        *)
(***************************************************************************)
EXTENDS SLRUCheckpoint, CacheBaseProofs

\* The lists of a cache configured with n of them.
ListsOf(n) == 0 .. n - 1

\* The shape of the state.
TypeOK ==
    /\ \E n \in SegmentCounts :
         /\ lists \in [ListsOf(n) -> Seq(Node)]
         /\ sizes \in [ListsOf(n) -> Nat]
         /\ level \in ListsOf(n)
    /\ cache_map \subseteq Key
    /\ cache_size \in Nat
    /\ cache_capacity \in Capacities
    /\ request \in Request \union {NoRequest}
    /\ hits \in [Key -> Segment]

\* While get() demotes, the lists above the one it is at are within their share.
CutFromTheTop == \A g \in Segments : g > level => sizes[g] <= avg_capacity

\* insert() runs after get() has returned, for a key that is not stored.
OneCall == request # NoRequest => level = 0 /\ request.key \notin cache_map

\* The inductive invariant.
IInv ==
    /\ TypeOK /\ NodesWellPlaced /\ SizesExact /\ CutFromTheTop /\ OneCall
    /\ EarnedPlace

-----------------------------------------------------------------------------
\* What list g adds to the sum of z over the lists in s, of at most four.
Share(z, s, g) == IF g \in s THEN z[g] ELSE 0
SumOver(z, s) == Share(z, s, 0) + Share(z, s, 1) + Share(z, s, 2) + Share(z, s, 3)

\* The fold is the sum of the counters, in whatever order it takes them.
LEMMA SumOfSizes ==
    ASSUME NEW n \in {2, 3, 4}, NEW z \in [0 .. n - 1 -> Nat]
    PROVE  Total(z) = SumOver(z, 0 .. n - 1)
<1> DEFINE S == 0 .. n - 1
           f == CHOOSE f : f = SumStep(z, S, f)
<1>1. Total(z) = f[S]
  <2>1. DOMAIN z = S
    OBVIOUS
  <2> QED
    BY <2>1, Zenon DEF Total, FoldFunction, FoldFunctionOnSet, MapThenFoldSet, SumStep
<1>2. \A s \in SUBSET S : SumOver(z, s) \in Nat /\ \A x \in s : SumOver(z, s) = z[x] + SumOver(z, s \ {x})
  <2> SUFFICES ASSUME NEW s \in SUBSET S PROVE SumOver(z, s) \in Nat /\ \A x \in s : SumOver(z, s) = z[x] + SumOver(z, s \ {x})
    OBVIOUS
  <2>1. \A g \in 0 .. 3 : Share(z, s, g) \in Nat /\ (g \in s => z[g] \in Nat)
    BY DEF Share
  <2>2. ASSUME NEW x \in s
        PROVE  SumOver(z, s) = z[x] + SumOver(z, s \ {x})
    <3>1. x \in {0, 1, 2, 3} /\ Share(z, s, x) = z[x] /\ Share(z, s \ {x}, x) = 0
      BY DEF Share
    <3>2. \A g : g # x => Share(z, s \ {x}, g) = Share(z, s, g)
      BY DEF Share
    <3>3. \A g \in 0 .. 3 : Share(z, s \ {x}, g) = IF g = x THEN 0 ELSE Share(z, s, g)
      BY <3>1, <3>2
    <3>4. z[x] = Share(z, s, x)
      BY <3>1
    <3>5. /\ Share(z, s, 0) \in Nat /\ Share(z, s, 1) \in Nat
          /\ Share(z, s, 2) \in Nat /\ Share(z, s, 3) \in Nat
      BY <2>1
    <3>6. CASE x = 0
      BY <3>3, <3>4, <3>5, <3>6 DEF SumOver
    <3>7. CASE x = 1
      BY <3>3, <3>4, <3>5, <3>7 DEF SumOver
    <3>8. CASE x = 2
      BY <3>3, <3>4, <3>5, <3>8 DEF SumOver
    <3>9. CASE x = 3
      BY <3>3, <3>4, <3>5, <3>9 DEF SumOver
    <3> QED
      BY <3>1, <3>6, <3>7, <3>8, <3>9
  <2> QED
    BY <2>1, <2>2 DEF SumOver
<1>3. f = SumStep(z, S, f)
  <2>1. [s \in SUBSET S |-> SumOver(z, s)] = SumStep(z, S, [s \in SUBSET S |-> SumOver(z, s)])
    <3> DEFINE h == [s \in SUBSET S |-> SumOver(z, s)]
    <3>0. SumOver(z, {}) = 0
      BY DEF SumOver, Share
    <3>1. ASSUME NEW s \in SUBSET S
          PROVE h[s] = IF s = {} THEN 0
                        ELSE z[CHOOSE x \in s : TRUE] + h[s \ {CHOOSE x \in s : TRUE}]
      BY <1>2, <3>0
    <3> QED
      BY <3>1 DEF SumStep
  <2> QED
    BY <2>1
<1> DEFINE Upto(k) == \A s \in SUBSET S : Cardinality(s) <= k => f[s] = SumOver(z, s)
<1> HIDE DEF f
<1>4. IsFiniteSet(S) /\ Cardinality(S) = n
  <2>1. 0 \in Int /\ n - 1 \in Int /\ ~(0 > n - 1) /\ (n - 1) - 0 + 1 = n
    OBVIOUS
  <2> QED
    BY <2>1, FS_Interval
<1>4a. ASSUME NEW s \in SUBSET S PROVE IsFiniteSet(s) /\ Cardinality(s) \in Nat
  <2> HIDE DEF S
  <2> QED
    BY <1>4, FS_Subset, FS_CardinalityType
<1>5. f[{}] = 0 /\ SumOver(z, {}) = 0
  BY <1>3 DEF SumStep, SumOver, Share
<1>6. Upto(0)
  <2> SUFFICES ASSUME NEW s \in SUBSET S, Cardinality(s) <= 0
               PROVE  f[s] = SumOver(z, s)
    OBVIOUS
  <2>1. Cardinality(s) = 0
    BY <1>4a
  <2>2. s = {}
    BY <2>1, <1>4a, FS_EmptySet
  <2> QED
    BY <2>2, <1>5
<1>7. ASSUME NEW k \in Nat, Upto(k)
      PROVE  Upto(k + 1)
  <2> SUFFICES ASSUME NEW s \in SUBSET S, Cardinality(s) <= k + 1
               PROVE  f[s] = SumOver(z, s)
    OBVIOUS
  <2>1. CASE s = {}
    BY <2>1, <1>5
  <2>2. CASE s # {}
    <3> DEFINE x == CHOOSE x \in s : TRUE
    <3>1. x \in s
      BY <2>2
    <3>2. f[s] = z[x] + f[s \ {x}]
      BY <1>3, <2>2 DEF SumStep
    <3> HIDE DEF x
    <3>3. Cardinality(s \ {x}) <= k
      <4>1. Cardinality(s \ {x}) = Cardinality(s) - 1 /\ Cardinality(s) \in Nat
        BY <1>4a, <3>1, FS_RemoveElement
      <4> QED
        BY <4>1
    <3>4. f[s \ {x}] = SumOver(z, s \ {x})
      BY <1>7, <3>3
    <3> QED
      BY <1>2, <3>1, <3>2, <3>4
  <2> QED
    BY <2>1, <2>2
<1>8. Cardinality(S) <= 4
  BY <1>4
<1>9. Upto(4)
  <2>1. Upto(1)
    BY <1>6, <1>7, 0 + 1 = 1
  <2>2. Upto(2)
    BY <2>1, <1>7, 1 + 1 = 2
  <2>3. Upto(3)
    BY <2>2, <1>7, 2 + 1 = 3
  <2> QED
    BY <2>3, <1>7, 3 + 1 = 4
<1>10. f[S] = SumOver(z, S)
  BY <1>8, <1>9
<1> QED
  BY <1>1, <1>10 DEF f

\* M is L with v at g.
IsChanged(D, L, g, v, M) ==
    DOMAIN M = D /\ M[g] = v /\ \A h \in D \ {g} : M[h] = L[h]

\* The sets of lists a cache can have, and the counters over one.
ListSets == { ListsOf(n) : n \in {2, 3, 4} }
Counters(S) == [S -> Nat]

\* How the sum changes when counter g of z is changed to v.
SumChanged(S, z, g, v, y) ==
    /\ SumOver(z, S) \in Nat /\ z[g] \in Nat /\ z[g] <= SumOver(z, S)
    /\ SumOver(y, S) = (SumOver(z, S) - z[g]) + v

\* Changing one counter changes the sum by as much.
LEMMA SumWithout ==
    ASSUME NEW S \in ListSets, NEW z \in Counters(S), NEW g \in S,
           NEW v \in Nat, NEW y, IsChanged(S, z, g, v, y)
    PROVE  SumChanged(S, z, g, v, y)
<1>0. S \subseteq 0 .. 3 /\ z \in [S -> Nat]
  BY DEF ListSets, ListsOf, Counters
<1>1. \A h \in 0 .. 3 : Share(z, S, h) \in Nat
  BY <1>0 DEF Share
<1>2. \A h \in 0 .. 3 : Share(y, S, h) = IF h = g THEN v ELSE Share(z, S, h)
  BY <1>0 DEF Share, IsChanged
<1>3. Share(z, S, g) = z[g] /\ z[g] \in Nat /\ g \in {0, 1, 2, 3}
  BY <1>0 DEF Share
<1>4. /\ Share(z, S, 0) \in Nat /\ Share(z, S, 1) \in Nat
      /\ Share(z, S, 2) \in Nat /\ Share(z, S, 3) \in Nat
  BY <1>1
<1>5. /\ SumOver(z, S) \in Nat /\ z[g] <= SumOver(z, S)
      /\ SumOver(y, S) = (SumOver(z, S) - z[g]) + v
  <2>1. CASE g = 0
    BY <1>2, <1>3, <1>4, <2>1 DEF SumOver
  <2>2. CASE g = 1
    BY <1>2, <1>3, <1>4, <2>2 DEF SumOver
  <2>3. CASE g = 2
    BY <1>2, <1>3, <1>4, <2>3 DEF SumOver
  <2>4. CASE g = 3
    BY <1>2, <1>3, <1>4, <2>4 DEF SumOver
  <2> QED
    BY <1>3, <2>1, <2>2, <2>3, <2>4
<1> QED
  BY <1>3, <1>5 DEF SumChanged

-----------------------------------------------------------------------------
\* NodesWellPlaced, of any lists L.
AllKeys(L) == UNION { KeysOf(L[g]) : g \in DOMAIN L }

WellPlaced(L) ==
    /\ \A g \in DOMAIN L : KeysDistinct(L[g])
    /\ \A g \in DOMAIN L : \A i \in DOMAIN L[g] : L[g][i].seg = g
    /\ \A g, h \in DOMAIN L : g # h => KeysOf(L[g]) \cap KeysOf(L[h]) = {}

\* Every node of M is a node of the same list of L, or it is m in list g.
NoNewNode(L, M) ==
    \A h \in DOMAIN M : \A j \in DOMAIN M[h] : \E x \in DOMAIN L[h] : M[h][j] = L[h][x]

OneNewNode(L, M, g, m) ==
    \A h \in DOMAIN M : \A j \in DOMAIN M[h] :
        (h = g /\ M[h][j] = m) \/ \E x \in DOMAIN L[h] : M[h][j] = L[h][x]

\* The lists over a set of segments.
Lists(D) == [D -> Seq(Node)]

\* M is L without the node of list g, and with a node more in it.
TakenOut(L, g, node, M) ==
    /\ WellPlaced(M) /\ NoNewNode(L, M)
    /\ node.key \in AllKeys(L) /\ AllKeys(M) = AllKeys(L) \ {node.key}
    /\ Bytes(L[g]) = Bytes(M[g]) + ChunkSize(node.size)

PutAt(L, g, node, M) ==
    /\ WellPlaced(M) /\ OneNewNode(L, M, g, node)
    /\ AllKeys(M) = AllKeys(L) \union {node.key}
    /\ Bytes(M[g]) = Bytes(L[g]) + ChunkSize(node.size)

\* A node taken out of one of the lists.
LEMMA TakeOut ==
    ASSUME NEW D, NEW L \in Lists(D), WellPlaced(L), NEW g \in D,
           NEW i \in 1 .. Len(L[g]), NEW r, IsWithout(Node, L[g], i, r),
           NEW M \in Lists(D), IsChanged(D, L, g, r, M)
    PROVE  TakenOut(L, g, L[g][i], M)
<1> DEFINE k == L[g][i].key
<1>0. L \in [D -> Seq(Node)] /\ M \in [D -> Seq(Node)]
  BY DEF Lists
<1>1. /\ L[g] \in Seq(Node) /\ KeysDistinct(L[g]) /\ DOMAIN L = D
  BY <1>0 DEF WellPlaced
<1>2. /\ r \in Seq(Node) /\ KeysDistinct(r)
      /\ KeysOf(r) = KeysOf(L[g]) \ {k} /\ k \in KeysOf(L[g])
      /\ Bytes(L[g]) = Bytes(r) + ChunkSize(L[g][i].size)
      /\ \A j \in DOMAIN r : \E x \in DOMAIN L[g] : r[j] = L[g][x]
  BY <1>1, WithoutNode
<1>3. DOMAIN M = D /\ M[g] = r /\ \A h \in D : h # g => M[h] = L[h]
  BY DEF IsChanged
<1>4. \A h \in D : \A j \in DOMAIN M[h] : \E x \in DOMAIN L[h] : M[h][j] = L[h][x]
  <2> SUFFICES ASSUME NEW h \in D, NEW j \in DOMAIN M[h]
               PROVE  \E x \in DOMAIN L[h] : M[h][j] = L[h][x]
    OBVIOUS
  <2>1. CASE h = g
    BY <2>1, <1>2, <1>3
  <2>2. CASE h # g
    BY <2>2, <1>3
  <2> QED
    BY <2>1, <2>2
<1>5. \A h \in D : KeysOf(M[h]) \subseteq KeysOf(L[h]) /\ (h # g => k \notin KeysOf(L[h]))
  BY <1>1, <1>2, <1>3 DEF WellPlaced
<1>6. WellPlaced(M)
  <2>1. DOMAIN M = D
    BY <1>3
  <2>2. \A h \in D : KeysDistinct(M[h])
    BY <1>1, <1>2, <1>3 DEF WellPlaced
  <2>3. \A h \in D : \A j \in DOMAIN M[h] : M[h][j].seg = h
    BY <1>1, <1>4 DEF WellPlaced
  <2>4. \A a, b \in D : a # b => KeysOf(M[a]) \cap KeysOf(M[b]) = {}
    BY <1>1, <1>5 DEF WellPlaced
  <2> QED
    BY <2>1, <2>2, <2>3, <2>4 DEF WellPlaced
<1>7. AllKeys(M) = AllKeys(L) \ {k} /\ k \in AllKeys(L)
  <2>1. DOMAIN M = D
    BY <1>3
  <2>2. \A h \in D : KeysOf(M[h]) = KeysOf(L[h]) \ {k}
    BY <1>2, <1>3, <1>5
  <2> QED
    BY <2>1, <2>2, <1>1, <1>2 DEF AllKeys
<1> QED
  BY <1>2, <1>3, <1>4, <1>6, <1>7 DEF NoNewNode, TakenOut

\* t is s with a node more, wherever it went.
IsWith(s, m, t) ==
    /\ t \in Seq(Node) /\ KeysDistinct(t)
    /\ KeysOf(t) = KeysOf(s) \union {m.key}
    /\ Bytes(t) = Bytes(s) + ChunkSize(m.size)
    /\ \A j \in DOMAIN t : t[j] = m \/ \E x \in DOMAIN s : t[j] = s[x]

\* A node put at the front, and at the back.
LEMMA ConsIsWith ==
    ASSUME NEW s \in Seq(Node), KeysDistinct(s), NEW m \in Node, m.key \notin KeysOf(s)
    PROVE  IsWith(s, m, <<m>> \o s)
<1> DEFINE t == <<m>> \o s
<1>1. /\ t \in Seq(Node) /\ KeysDistinct(t)
      /\ Len(t) = Len(s) + 1
      /\ t[1] = m /\ \A i \in 1 .. Len(s) : t[i + 1] = s[i]
      /\ KeysOf(t) = KeysOf(s) \union {m.key}
      /\ Bytes(t) = Bytes(s) + ChunkSize(m.size)
  BY ConsNode
<1> HIDE DEF t
<1>2. \A j \in DOMAIN t : t[j] = m \/ \E x \in DOMAIN s : t[j] = s[x]
  <2> SUFFICES ASSUME NEW j \in DOMAIN t, j # 1
               PROVE  \E x \in DOMAIN s : t[j] = s[x]
    BY <1>1
  <2>1. j - 1 \in 1 .. Len(s) /\ (j - 1) + 1 = j /\ DOMAIN s = 1 .. Len(s)
    BY <1>1
  <2> QED
    BY <2>1, <1>1
<1> QED
  BY <1>1, <1>2 DEF IsWith, t

LEMMA AppendIsWith ==
    ASSUME NEW s \in Seq(Node), KeysDistinct(s), NEW m \in Node, m.key \notin KeysOf(s)
    PROVE  IsWith(s, m, Append(s, m))
<1> DEFINE t == Append(s, m)
<1>1. /\ t \in Seq(Node) /\ KeysDistinct(t)
      /\ Len(t) = Len(s) + 1
      /\ t[Len(s) + 1] = m /\ \A i \in 1 .. Len(s) : t[i] = s[i]
      /\ KeysOf(t) = KeysOf(s) \union {m.key}
      /\ Bytes(t) = Bytes(s) + ChunkSize(m.size)
  BY AppendNode
<1> HIDE DEF t
<1>2. \A j \in DOMAIN t : j = Len(s) + 1 \/ j \in DOMAIN s
  BY <1>1
<1> QED
  BY <1>1, <1>2 DEF IsWith, t

\* A node put into one of the lists.
LEMMA PutIn ==
    ASSUME NEW D, NEW L \in Lists(D), WellPlaced(L), NEW g \in D,
           NEW m \in Node, m.seg = g, m.key \notin AllKeys(L),
           NEW t, IsWith(L[g], m, t), NEW M \in Lists(D), IsChanged(D, L, g, t, M)
    PROVE  PutAt(L, g, m, M)
<1>0. L \in [D -> Seq(Node)] /\ M \in [D -> Seq(Node)]
  BY DEF Lists
<1>1. /\ L[g] \in Seq(Node) /\ KeysDistinct(L[g]) /\ DOMAIN L = D
      /\ m.key \notin KeysOf(L[g])
  BY <1>0 DEF WellPlaced, AllKeys
<1>2. /\ t \in Seq(Node) /\ KeysDistinct(t)
      /\ KeysOf(t) = KeysOf(L[g]) \union {m.key}
      /\ Bytes(t) = Bytes(L[g]) + ChunkSize(m.size)
      /\ \A j \in DOMAIN t : t[j] = m \/ \E x \in DOMAIN L[g] : t[j] = L[g][x]
  BY DEF IsWith
<1>3. DOMAIN M = D /\ M[g] = t /\ \A h \in D : h # g => M[h] = L[h]
  BY DEF IsChanged
<1>4. \A j \in DOMAIN t : t[j] = m \/ \E x \in DOMAIN L[g] : t[j] = L[g][x]
  BY <1>2
<1>5. \A h \in D : \A j \in DOMAIN M[h] :
         (h = g /\ M[h][j] = m) \/ \E x \in DOMAIN L[h] : M[h][j] = L[h][x]
  BY <1>3, <1>4
<1>6. WellPlaced(M)
  <2>1. DOMAIN M = D
    BY <1>3
  <2>2. \A h \in D : KeysDistinct(M[h])
    BY <1>1, <1>2, <1>3 DEF WellPlaced
  <2>3. \A h \in D : \A j \in DOMAIN M[h] : M[h][j].seg = h
    <3> SUFFICES ASSUME NEW h \in D, NEW j \in DOMAIN M[h]
                 PROVE  M[h][j].seg = h
      OBVIOUS
    <3>1. CASE h = g /\ M[h][j] = m
      BY <3>1
    <3>2. CASE \E x \in DOMAIN L[h] : M[h][j] = L[h][x]
      BY <3>2, <1>1 DEF WellPlaced
    <3> QED
      BY <3>1, <3>2, <1>5
  <2>4. \A h \in D : m.key \notin KeysOf(L[h])
    BY <1>1 DEF AllKeys
  <2>5. \A a, b \in D : a # b => KeysOf(M[a]) \cap KeysOf(M[b]) = {}
    <3>1. \A a \in D : KeysOf(M[a]) \subseteq KeysOf(L[a]) \union {m.key}
      BY <1>2, <1>3
    <3>2. \A a \in D : a # g => KeysOf(M[a]) = KeysOf(L[a])
      BY <1>3
    <3>3. \A a, b \in D : a # b => KeysOf(L[a]) \cap KeysOf(L[b]) = {}
      BY <1>1 DEF WellPlaced
    <3> SUFFICES ASSUME NEW a \in D, NEW b \in D, a # b
                 PROVE  KeysOf(M[a]) \cap KeysOf(M[b]) = {}
      OBVIOUS
    <3>4. m.key \notin KeysOf(L[a]) /\ m.key \notin KeysOf(L[b])
      BY <2>4
    <3>5. KeysOf(L[a]) \cap KeysOf(L[b]) = {}
      BY <3>3
    <3>6. CASE a # g
      BY <3>1, <3>2, <3>4, <3>5, <3>6
    <3>7. CASE b # g
      BY <3>1, <3>2, <3>4, <3>5, <3>7
    <3> QED
      BY <3>6, <3>7
  <2> QED
    BY <2>1, <2>2, <2>3, <2>5 DEF WellPlaced
<1>7. AllKeys(M) = AllKeys(L) \union {m.key}
  <2>1. DOMAIN M = D /\ DOMAIN L = D
    BY <1>1, <1>3
  <2>2. \A h \in D : KeysOf(M[h]) = KeysOf(L[h]) \union (IF h = g THEN {m.key} ELSE {})
    BY <1>2, <1>3
  <2>3. AllKeys(M) \subseteq AllKeys(L) \union {m.key}
    BY <2>1, <2>2 DEF AllKeys
  <2>4. AllKeys(L) \union {m.key} \subseteq AllKeys(M)
    BY <2>1, <2>2 DEF AllKeys
  <2> QED
    BY <2>3, <2>4
<1> QED
  BY <1>2, <1>3, <1>5, <1>6, <1>7 DEF OneNewNode, PutAt

-----------------------------------------------------------------------------
\* The lists of this cache, and the levels get() computes from them.
LEMMA SegmentFacts ==
    ASSUME TypeOK
    PROVE  /\ \E n \in {2, 3, 4} : Segments = ListsOf(n) /\ HighestLevel = n - 1
           /\ Segments \subseteq Segment /\ FIRST \in Segments /\ HighestLevel \in Segments
           /\ level \in Segments /\ \A g \in Segments : g \in Nat /\ g <= HighestLevel
           /\ \A g \in Segments : HighLevel(g) \in Segments /\ HighLevel(g) <= g + 1
           /\ \A g \in Segments : g > 0 => LowLevel(g) = g - 1 /\ LowLevel(g) \in Segments
           /\ lists \in Lists(Segments) /\ sizes \in Counters(Segments)
           /\ Segments \in ListSets
<1>1. PICK n \in {2, 3, 4} : /\ lists \in [ListsOf(n) -> Seq(Node)]
                             /\ sizes \in [ListsOf(n) -> Nat] /\ level \in ListsOf(n)
  BY SegmentAssumption DEF TypeOK, SegmentAssumption
<1>2. Segments = ListsOf(n)
  BY <1>1 DEF Segments
<1>3. Count = n
  <2>1. 0 \in Int /\ n - 1 \in Int /\ ~(0 > n - 1) /\ (n - 1) - 0 + 1 = n
    OBVIOUS
  <2> QED
    BY <2>1, <1>2, FS_Interval DEF Count, ListsOf
<1>4. HighestLevel = n - 1
  BY <1>3 DEF HighestLevel, Lesser, FOURTH
<1>5. \A g \in 0 .. n - 1 : HighLevel(g) \in 0 .. n - 1 /\ HighLevel(g) <= g + 1
  BY <1>3 DEF HighLevel, Lesser, FOURTH
<1>6. \A g \in 0 .. n - 1 : g > 0 => LowLevel(g) = g - 1 /\ LowLevel(g) \in 0 .. n - 1
  BY DEF LowLevel, FIRST
<1>7. /\ 0 .. n - 1 \subseteq 0 .. 3 /\ 0 \in 0 .. n - 1 /\ n - 1 \in 0 .. n - 1
      /\ \A g \in 0 .. n - 1 : g \in Nat /\ g <= n - 1
  OBVIOUS
<1>8. Segments = 0 .. n - 1 /\ \E m \in {2, 3, 4} : Segments = ListsOf(m) /\ HighestLevel = m - 1
  BY <1>2, <1>4 DEF ListsOf
<1>9. /\ level \in Segments /\ lists \in Lists(Segments)
      /\ sizes \in Counters(Segments) /\ Segments \in ListSets
  BY <1>1, <1>2 DEF Lists, Counters, ListSets
<1> QED
  BY <1>4, <1>5, <1>6, <1>7, <1>8, <1>9 DEF Segment, FIRST, FOURTH

\* The share of a list.
LEMMA ShareType ==
    ASSUME TypeOK
    PROVE  avg_capacity \in Nat
<1>1. PICK n \in {2, 3, 4} : Segments = ListsOf(n)
  BY SegmentFacts
<1>2. Count = n
  <2>1. 0 \in Int /\ n - 1 \in Int /\ ~(0 > n - 1) /\ (n - 1) - 0 + 1 = n
    OBVIOUS
  <2> QED
    BY <2>1, <1>1, FS_Interval DEF Count, ListsOf
<1>3. cache_capacity \in Nat
  BY BaseAssumption DEF TypeOK, BaseAssumption
<1> QED
  BY <1>2, <1>3 DEF avg_capacity

\* The sum of the counters, once they are changed to z.
LEMMA SumAfter ==
    ASSUME TypeOK, NEW z \in Counters(Segments)
    PROVE  Total(z) = SumOver(z, Segments)
<1>1. PICK n \in {2, 3, 4} : Segments = ListsOf(n)
  BY SegmentFacts
<1>2. z \in [0 .. n - 1 -> Nat]
  BY <1>1 DEF ListsOf, Counters
<1>3. Total(z) = SumOver(z, 0 .. n - 1)
  BY <1>2, SumOfSizes
<1> QED
  BY <1>1, <1>3 DEF ListsOf

\* The counters of the lists are exact, whatever cache_size_ says, and their sum
\* leaves room for a chunk in the word.
Counted == \A g \in Segments : sizes[g] = Bytes(lists[g])
Roomy == SumOver(sizes, Segments) + BIG < WORD

\* No counter is more than the sum.
LEMMA CounterFacts ==
    ASSUME TypeOK
    PROVE  /\ SumOver(sizes, Segments) \in Nat
           /\ \A g \in Segments : sizes[g] \in Nat /\ sizes[g] <= SumOver(sizes, Segments)
<1>1. sizes \in Counters(Segments) /\ Segments \in ListSets /\ FIRST \in Segments
  BY SegmentFacts
<1>2. ASSUME NEW g \in Segments
      PROVE  /\ sizes[g] \in Nat /\ SumOver(sizes, Segments) \in Nat
             /\ sizes[g] <= SumOver(sizes, Segments)
  <2>1. sizes[g] \in Nat /\ IsChanged(Segments, sizes, g, sizes[g], sizes)
    BY <1>1 DEF IsChanged, Counters
  <2>2. SumChanged(Segments, sizes, g, sizes[g], sizes)
    BY <2>1, <1>1, SumWithout
  <2> QED
    BY <2>2 DEF SumChanged
<1> QED
  BY <1>1, <1>2

\* Within the capacity the sum is cache_size_, and far from the word's end.
LEMMA ExactFacts ==
    ASSUME TypeOK, SizesExact
    PROVE  /\ Counted /\ Roomy /\ cache_size = SumOver(sizes, Segments)
           /\ cache_capacity \in Nat /\ cache_size <= cache_capacity
<1>1. cache_size = SumOver(sizes, Segments)
  <2>1. Total(sizes) = SumOver(sizes, Segments)
    BY SegmentFacts, SumAfter
  <2> QED
    BY <2>1 DEF SizesExact
<1>2. cache_capacity \in Nat /\ cache_size \in Nat /\ cache_size + BIG < WORD
  <2>1. cache_capacity \in Capacities /\ cache_size \in Nat
    BY DEF TypeOK
  <2>2. cache_size <= cache_capacity
    BY DEF SizesExact
  <2>3. cache_capacity \in Nat /\ cache_capacity + BIG < WORD
    BY <2>1, BaseAssumption DEF BaseAssumption
  <2> QED
    BY <2>1, <2>2, <2>3, ChunkFacts
<1> QED
  BY <1>1, <1>2 DEF SizesExact, Counted, Roomy

\* After a step: the counters, their sum and cache_size_.
LEMMA ExactAfter ==
    ASSUME TypeOK, sizes' \in Counters(Segments), Segments' = Segments, Counted',
           cache_size' = SumOver(sizes', Segments), cache_size' <= cache_capacity'
    PROVE  SizesExact'
<1>1. Total(sizes') = SumOver(sizes', Segments)
  BY SumAfter
<1> QED
  BY <1>1 DEF SizesExact, Counted

\* A chunk is at most a big one.
LEMMA ChunkBound == \A s : ChunkSize(s) \in Nat /\ ChunkSize(s) > 0 /\ ChunkSize(s) <= BIG
  BY ChunkFacts

-----------------------------------------------------------------------------
\* Move() keeps tags, map and counters in agreement, and only the list a node
\* goes to grows.
LEMMA MoveCounts ==
    ASSUME TypeOK, NodesWellPlaced, Counted, Roomy,
           NEW from \in Segments, NEW to \in Segments, NEW i \in 1 .. Len(lists[from]),
           Move(from, to, i), cache_map' = cache_map
    PROVE  /\ lists' \in Lists(Segments) /\ sizes' \in Counters(Segments)
           /\ NodesWellPlaced' /\ Counted' /\ Segments' = Segments
           /\ SumOver(sizes', Segments) = SumOver(sizes, Segments)
           /\ \A g \in Segments : g # to => sizes'[g] <= sizes[g]
           /\ OneNewNode(lists, lists', to, Retagged(lists[from][i], to))
           /\ lists[from][i].key \in cache_map
<1> DEFINE node == lists[from][i]
           m == Retagged(node, to)
           r == RemoveAt(lists[from], i)
           M == [lists EXCEPT ![from] = r]
           L == [M EXCEPT ![to] = <<m>> \o @]
           c == ChunkSize(node.size)
           A == [sizes EXCEPT ![to] = Plus(@, c)]
<1>1. /\ lists \in [Segments -> Seq(Node)] /\ sizes \in [Segments -> Nat]
      /\ WellPlaced(lists) /\ cache_map = AllKeys(lists)
  BY SegmentFacts DEF NodesWellPlaced, WellPlaced, AllKeys, Segments, Lists, Counters
<1>2. lists' = L /\ sizes' = [A EXCEPT ![from] = Minus(@, c)]
  BY DEF Move, SizesMoved
<1>3. node \in Node /\ m \in Node /\ m.key = node.key /\ m.size = node.size /\ m.seg = to
  <2>1. node \in Node /\ to \in Segment
    BY <1>1, SegmentFacts
  <2> HIDE DEF node
  <2> QED
    BY <2>1 DEF Node, Retagged
<1>4. IsWithout(Node, lists[from], i, r) /\ r \in Seq(Node)
  <2>1. lists[from] \in Seq(Node)
    BY <1>1
  <2>2. IsWithout(Node, lists[from], i, r)
    BY <2>1, RemoveAtFacts
  <2> HIDE DEF r
  <2> QED
    BY <2>2 DEF IsWithout
<1> HIDE DEF r, m, node
<1>5. M \in [Segments -> Seq(Node)] /\ IsChanged(Segments, lists, from, r, M)
  BY <1>1, <1>4 DEF IsChanged
<1> HIDE DEF M
<1>6. /\ WellPlaced(M) /\ NoNewNode(lists, M)
      /\ node.key \in AllKeys(lists) /\ AllKeys(M) = AllKeys(lists) \ {node.key}
      /\ Bytes(lists[from]) = Bytes(M[from]) + c
  <2>1. lists \in Lists(Segments) /\ M \in Lists(Segments)
    BY <1>1, <1>5 DEF Lists
  <2>2. TakenOut(lists, from, lists[from][i], M)
    BY <2>1, <1>1, <1>4, <1>5, TakeOut
  <2>3. TakenOut(lists, from, node, M)
    BY <2>2 DEF node
  <2> QED
    BY <2>3 DEF TakenOut
<1>6a. L \in [Segments -> Seq(Node)] /\ IsChanged(Segments, M, to, <<m>> \o M[to], L)
  <2>1. <<m>> \o M[to] \in Seq(Node)
    BY <1>3, <1>5
  <2> QED
    BY <2>1, <1>5 DEF IsChanged
<1> HIDE DEF L, c
<1>6b. /\ WellPlaced(L) /\ OneNewNode(M, L, to, m)
       /\ AllKeys(L) = AllKeys(M) \union {m.key}
       /\ Bytes(L[to]) = Bytes(M[to]) + ChunkSize(m.size)
  <2>1. m.key \notin AllKeys(M)
    BY <1>3, <1>6
  <2>2. L \in Lists(Segments) /\ M \in Lists(Segments)
    BY <1>5, <1>6a DEF Lists
  <2>2a. IsWith(M[to], m, <<m>> \o M[to])
    <3>1. M[to] \in Seq(Node) /\ KeysDistinct(M[to]) /\ m.key \notin KeysOf(M[to])
      BY <2>1, <1>5, <1>6 DEF WellPlaced, AllKeys
    <3> QED
      BY <3>1, <1>3, ConsIsWith
  <2>3. PutAt(M, to, m, L)
    BY <2>1, <2>2, <2>2a, <1>3, <1>6, <1>6a, PutIn
  <2> QED
    BY <2>3 DEF PutAt
<1>7. /\ NodesWellPlaced' /\ OneNewNode(lists, lists', to, m)
      /\ lists' \in [Segments -> Seq(Node)] /\ Segments' = Segments
  <2>1. lists' \in [Segments -> Seq(Node)] /\ Segments' = Segments
    BY <1>1, <1>2, <1>6a DEF Segments
  <2>2. cache_map' = AllKeys(L)
    BY <1>1, <1>3, <1>6, <1>6b
  <2>3. NodesWellPlaced'
    <3>1. Segments' = DOMAIN L /\ lists' = L
      BY <1>2 DEF Segments
    <3>2. cache_map' = UNION { KeysOf(L[g]) : g \in DOMAIN L }
      BY <2>2 DEF AllKeys
    <3> QED
      BY <3>1, <3>2, <1>6b DEF NodesWellPlaced, WellPlaced
  <2>4. OneNewNode(lists, L, to, m)
    <3> SUFFICES ASSUME NEW h \in DOMAIN L, NEW j \in DOMAIN L[h], ~(h = to /\ L[h][j] = m)
                 PROVE  \E x \in DOMAIN lists[h] : L[h][j] = lists[h][x]
      BY DEF OneNewNode
    <3>1. PICK x \in DOMAIN M[h] : L[h][j] = M[h][x]
      BY <1>6b DEF OneNewNode
    <3>2. h \in DOMAIN M
      BY <1>5, <1>6a
    <3> QED
      BY <3>1, <3>2, <1>6 DEF NoNewNode
  <2> QED
    BY <2>1, <2>3, <2>4, <1>2
<1>8. /\ \A g \in Segments : sizes[g] = Bytes(lists[g]) /\ sizes[g] \in Nat
      /\ \A g \in Segments : sizes[g] + c < WORD /\ Bytes(M[g]) \in Nat
      /\ c \in Nat /\ WORD \in Nat /\ c = ChunkSize(m.size) /\ sizes[from] >= c
  <2>1. c \in Nat /\ c <= BIG /\ BIG \in Nat /\ WORD \in Nat /\ c = ChunkSize(m.size)
    BY <1>3, ChunkBound, ChunkFacts DEF c
  <2>2. \A g \in Segments : sizes[g] = Bytes(lists[g])
    BY DEF Counted
  <2>3. \A g \in Segments : Bytes(M[g]) \in Nat
    BY <1>5, BytesType
  <2>4. /\ \A g \in Segments : sizes[g] \in Nat /\ sizes[g] <= SumOver(sizes, Segments)
        /\ SumOver(sizes, Segments) \in Nat /\ SumOver(sizes, Segments) + BIG < WORD
    BY CounterFacts DEF Roomy
  <2>5. sizes[from] >= c
    BY <2>1, <2>2, <2>3, <1>6
  <2> QED
    BY <2>1, <2>2, <2>3, <2>4, <2>5
<1>9. A \in [Segments -> Nat] /\ A[to] = sizes[to] + c /\ A[from] >= c
      /\ \A g \in Segments : g # to => A[g] = sizes[g]
  BY <1>1, <1>8 DEF Plus
<1>9a. IsChanged(Segments, sizes, to, A[to], A)
  BY <1>1, <1>9 DEF IsChanged
<1>10. /\ sizes' = [A EXCEPT ![from] = A[from] - c] /\ A[from] - c \in Nat
  <2>1. A[from] \in Nat /\ c \in Nat
    BY <1>8, <1>9
  <2> HIDE DEF A
  <2> QED
    BY <2>1, <1>2, <1>9 DEF Minus
<1> HIDE DEF A
<1>10a. /\ sizes' \in [Segments -> Nat] /\ sizes'[from] = A[from] - c
        /\ \A g \in Segments : g # from => sizes'[g] = A[g]
        /\ IsChanged(Segments, A, from, A[from] - c, sizes')
  BY <1>9, <1>10 DEF IsChanged
<1>11. \A g \in Segments : g # to => sizes'[g] <= sizes[g]
  BY <1>8, <1>9, <1>10, <1>10a
<1>11a. /\ Bytes(M[from]) = sizes[from] - c /\ \A g \in Segments \ {from} : M[g] = lists[g]
        /\ Bytes(L[to]) = Bytes(M[to]) + c /\ \A g \in Segments \ {to} : L[g] = M[g]
  BY <1>5, <1>6, <1>6a, <1>6b, <1>8 DEF IsChanged
<1>12. \A g \in Segments : sizes'[g] = Bytes(lists'[g])
  <2> SUFFICES ASSUME NEW g \in Segments
               PROVE  sizes'[g] = Bytes(L[g])
    BY <1>2
  <2>1. CASE g = from /\ g = to
    BY <2>1, <1>11a, <1>8, <1>9, <1>10, <1>10a
  <2>2. CASE g = from /\ g # to
    BY <2>2, <1>11a, <1>8, <1>9, <1>10, <1>10a
  <2>3. CASE g # from /\ g = to
    BY <2>3, <1>11a, <1>8, <1>9, <1>10, <1>10a
  <2>4. CASE g # from /\ g # to
    BY <2>4, <1>11a, <1>8, <1>9, <1>10, <1>10a
  <2> QED
    BY <2>1, <2>2, <2>3, <2>4
<1>13. SumOver(sizes', Segments) = SumOver(sizes, Segments)
  <2>1. /\ Segments \in ListSets /\ sizes \in Counters(Segments) /\ A \in Counters(Segments)
        /\ A[to] \in Nat /\ A[from] - c \in Nat
    BY <1>1, <1>9, <1>10, SegmentFacts DEF Counters
  <2>2. SumChanged(Segments, sizes, to, A[to], A)
    BY <2>1, <1>9a, SumWithout
  <2>3. SumChanged(Segments, A, from, A[from] - c, sizes')
    BY <2>1, <1>10a, SumWithout
  <2> DEFINE x == SumOver(sizes, Segments)
             y == SumOver(A, Segments)
             v == SumOver(sizes', Segments)
  <2>4. /\ x \in Nat /\ y \in Nat /\ sizes[to] \in Nat /\ A[from] \in Nat /\ c \in Nat
        /\ y = (x - sizes[to]) + A[to] /\ v = (y - A[from]) + (A[from] - c)
        /\ A[to] = sizes[to] + c
    BY <2>2, <2>3, <1>8, <1>9 DEF SumChanged
  <2> HIDE DEF x, y, v
  <2>5. v = x
    BY <2>4
  <2> QED
    BY <2>5 DEF x, v
<1> QED
  <2>1. node.key \in cache_map
    BY <1>1, <1>6
  <2>2. Counted'
    BY <1>7, <1>12 DEF Counted
  <2> QED
    BY <2>1, <2>2, <1>7, <1>10a, <1>11, <1>13 DEF m, node, Lists, Counters

\* Within the capacity, cache_size_ stays the sum.
LEMMA MoveKeeps ==
    ASSUME TypeOK, NodesWellPlaced, SizesExact,
           NEW from \in Segments, NEW to \in Segments, NEW i \in 1 .. Len(lists[from]),
           Move(from, to, i), UNCHANGED <<cache_map, cache_size, cache_capacity>>
    PROVE  /\ lists' \in Lists(Segments) /\ sizes' \in Counters(Segments)
           /\ NodesWellPlaced' /\ SizesExact'
           /\ \A g \in Segments : g # to => sizes'[g] <= sizes[g]
           /\ OneNewNode(lists, lists', to, Retagged(lists[from][i], to))
           /\ lists[from][i].key \in cache_map
<1>1. /\ Counted /\ Roomy /\ cache_size = SumOver(sizes, Segments)
      /\ cache_size <= cache_capacity
  BY ExactFacts
<1>2. /\ lists' \in Lists(Segments) /\ sizes' \in Counters(Segments)
      /\ NodesWellPlaced' /\ Counted' /\ Segments' = Segments
      /\ SumOver(sizes', Segments) = SumOver(sizes, Segments)
      /\ \A g \in Segments : g # to => sizes'[g] <= sizes[g]
      /\ OneNewNode(lists, lists', to, Retagged(lists[from][i], to))
      /\ lists[from][i].key \in cache_map
  BY <1>1, MoveCounts
<1>3. SizesExact'
  <2>1. cache_size' = SumOver(sizes', Segments) /\ cache_size' <= cache_capacity'
    BY <1>1, <1>2
  <2> QED
    BY <2>1, <1>2, ExactAfter
<1> QED
  BY <1>2, <1>3

\* A step that takes node i out of list g, which becomes r, with its bytes and
\* its key.
TakesOut(g, i, r) ==
    /\ lists' = [lists EXCEPT ![g] = r]
    /\ sizes' = [sizes EXCEPT ![g] = Minus(@, ChunkSize(lists[g][i].size))]
    /\ cache_map' = cache_map \ {lists[g][i].key}

LEMMA TakeCounts ==
    ASSUME TypeOK, NodesWellPlaced, Counted,
           NEW g \in Segments, NEW i \in 1 .. Len(lists[g]),
           NEW r, IsWithout(Node, lists[g], i, r), TakesOut(g, i, r)
    PROVE  /\ lists' \in Lists(Segments) /\ sizes' \in Counters(Segments)
           /\ NodesWellPlaced' /\ Counted' /\ Segments' = Segments
           /\ TakenOut(lists, g, lists[g][i], lists')
           /\ lists[g][i] \in Node /\ lists[g][i].key \in Key
           /\ ChunkSize(lists[g][i].size) <= SumOver(sizes, Segments)
           /\ SumOver(sizes', Segments) = SumOver(sizes, Segments) - ChunkSize(lists[g][i].size)
           /\ \A h \in Segments : sizes'[h] <= sizes[h]
<1> DEFINE node == lists[g][i]
           c == ChunkSize(node.size)
           M == [lists EXCEPT ![g] = r]
           z == [sizes EXCEPT ![g] = sizes[g] - c]
<1>1. /\ lists \in Lists(Segments) /\ sizes \in Counters(Segments) /\ WellPlaced(lists)
      /\ cache_map = AllKeys(lists) /\ lists[g] \in Seq(Node)
  BY SegmentFacts DEF NodesWellPlaced, WellPlaced, AllKeys, Segments, Lists
<1>2. node \in Node /\ node.key \in Key
  <2>1. node \in Node
    BY <1>1
  <2> HIDE DEF node
  <2> QED
    BY <2>1 DEF Node
<1>3. r \in Seq(Node)
  BY DEF IsWithout
<1>4. M \in Lists(Segments) /\ IsChanged(Segments, lists, g, r, M)
  BY <1>1, <1>3 DEF Lists, IsChanged
<1>5. lists' = M
  BY DEF TakesOut
<1> HIDE DEF M
<1>6. TakenOut(lists, g, node, M)
  BY <1>1, <1>4, TakeOut
<1>7. sizes' = [sizes EXCEPT ![g] = Minus(@, c)] /\ cache_map' = cache_map \ {node.key}
  BY DEF TakesOut
<1> HIDE DEF node
<1>8. /\ c \in Nat /\ c > 0 /\ sizes[g] \in Nat /\ sizes[g] <= SumOver(sizes, Segments)
      /\ SumOver(sizes, Segments) \in Nat
      /\ sizes[g] = Bytes(M[g]) + c /\ Bytes(M[g]) \in Nat
  <2>1. Bytes(lists[g]) = Bytes(M[g]) + c
    BY <1>6 DEF TakenOut
  <2>2. Bytes(M[g]) \in Nat
    <3>1. M[g] \in Seq(Node)
      BY <1>4 DEF Lists
    <3> QED
      BY <3>1, BytesType
  <2>3. sizes[g] = Bytes(lists[g])
    BY DEF Counted
  <2> QED
    BY <2>1, <2>2, <2>3, ChunkBound, CounterFacts
<1> HIDE DEF c
<1>9. sizes' = z /\ sizes[g] - c \in Nat /\ sizes[g] - c = Bytes(M[g])
  <2>1. Minus(sizes[g], c) = sizes[g] - c
    BY <1>8 DEF Minus
  <2>2. sizes' = [sizes EXCEPT ![g] = Minus(sizes[g], c)]
    BY <1>7
  <2> QED
    BY <2>1, <2>2, <1>8
<1>10. z \in Counters(Segments) /\ IsChanged(Segments, sizes, g, sizes[g] - c, z)
  BY <1>1, <1>9 DEF Counters, IsChanged
<1> HIDE DEF z
<1>11. Segments' = Segments /\ lists' \in Lists(Segments)
  BY <1>4, <1>5 DEF Lists, Segments
<1>12. NodesWellPlaced'
  <2>1. Segments' = DOMAIN M /\ lists' = M
    BY <1>5 DEF Segments
  <2>2. cache_map' = UNION { KeysOf(M[h]) : h \in DOMAIN M } /\ WellPlaced(M)
    BY <1>1, <1>6, <1>7 DEF TakenOut, AllKeys
  <2> QED
    BY <2>1, <2>2 DEF NodesWellPlaced, WellPlaced
<1>13. Counted'
  <2>1. \A h \in Segments : h # g => sizes'[h] = sizes[h] /\ lists'[h] = lists[h]
    BY <1>4, <1>5, <1>9, <1>10 DEF IsChanged
  <2>2. sizes'[g] = Bytes(lists'[g])
    BY <1>5, <1>9, <1>10 DEF IsChanged
  <2> QED
    BY <2>1, <2>2, <1>11 DEF Counted
<1>14. SumChanged(Segments, sizes, g, sizes[g] - c, sizes')
  BY <1>1, <1>9, <1>10, SegmentFacts, SumWithout
<1>15. c <= SumOver(sizes, Segments) /\ SumOver(sizes', Segments) = SumOver(sizes, Segments) - c
  BY <1>8, <1>14 DEF SumChanged
<1>16. \A h \in Segments : sizes'[h] <= sizes[h]
  <2>1. sizes'[g] = sizes[g] - c /\ \A h \in Segments : h # g => sizes'[h] = sizes[h]
    BY <1>9, <1>10 DEF IsChanged
  <2>2. \A h \in Segments : sizes[h] \in Nat
    BY CounterFacts
  <2> QED
    BY <2>1, <2>2, <1>8
<1>17. lists[g][i] = node /\ ChunkSize(lists[g][i].size) = c
  BY DEF node, c
<1> QED
  BY <1>2, <1>5, <1>6, <1>9, <1>10, <1>11, <1>12, <1>13, <1>15, <1>16, <1>17

\* Putting a node into a list, with its bytes and its key.
LEMMA PutCounts ==
    ASSUME TypeOK, NodesWellPlaced, Counted, Roomy,
           NEW g \in Segments, NEW m \in Node, m.seg = g, m.key \notin cache_map,
           NEW t, IsWith(lists[g], m, t),
           lists' = [lists EXCEPT ![g] = t],
           sizes' = [sizes EXCEPT ![g] = Plus(@, ChunkSize(m.size))],
           cache_map' = cache_map \union {m.key}
    PROVE  /\ lists' \in Lists(Segments) /\ sizes' \in Counters(Segments)
           /\ NodesWellPlaced' /\ Counted' /\ Segments' = Segments
           /\ PutAt(lists, g, m, lists')
           /\ SumOver(sizes', Segments) = SumOver(sizes, Segments) + ChunkSize(m.size)
           /\ \A h \in Segments : h # g => sizes'[h] = sizes[h]
<1> DEFINE c == ChunkSize(m.size)
           M == [lists EXCEPT ![g] = t]
           z == [sizes EXCEPT ![g] = sizes[g] + c]
<1>1. /\ lists \in Lists(Segments) /\ sizes \in Counters(Segments) /\ WellPlaced(lists)
      /\ cache_map = AllKeys(lists)
  BY SegmentFacts DEF NodesWellPlaced, WellPlaced, AllKeys, Segments
<1>2. M \in Lists(Segments) /\ IsChanged(Segments, lists, g, t, M) /\ lists' = M
  <2>1. t \in Seq(Node)
    BY DEF IsWith
  <2> QED
    BY <2>1, <1>1 DEF Lists, IsChanged
<1> HIDE DEF M
<1>3. PutAt(lists, g, m, M)
  BY <1>1, <1>2, PutIn
<1>4. /\ c \in Nat /\ c <= BIG /\ BIG \in Nat /\ WORD \in Nat /\ sizes[g] \in Nat
      /\ sizes[g] <= SumOver(sizes, Segments) /\ SumOver(sizes, Segments) \in Nat
      /\ SumOver(sizes, Segments) + BIG < WORD
  BY ChunkBound, ChunkFacts, CounterFacts DEF Roomy
<1>5. Bytes(M[g]) = sizes[g] + c
  BY <1>3 DEF PutAt, Counted
<1>6. sizes' = z /\ sizes[g] + c \in Nat
  <2>1. sizes' = [sizes EXCEPT ![g] = Plus(sizes[g], c)]
    OBVIOUS
  <2>2. Plus(sizes[g], c) = sizes[g] + c
    BY <1>4 DEF Plus
  <2> QED
    BY <2>1, <2>2, <1>4
<1> HIDE DEF c
<1>7. z \in Counters(Segments) /\ IsChanged(Segments, sizes, g, sizes[g] + c, z)
  BY <1>1, <1>6 DEF Counters, IsChanged
<1> HIDE DEF z
<1>8. Segments' = Segments /\ lists' \in Lists(Segments)
  BY <1>2 DEF Lists, Segments
<1>9. NodesWellPlaced'
  <2>1. Segments' = DOMAIN M /\ lists' = M
    BY <1>2 DEF Segments
  <2>2. cache_map' = UNION { KeysOf(M[h]) : h \in DOMAIN M } /\ WellPlaced(M)
    BY <1>1, <1>3 DEF PutAt, AllKeys
  <2> QED
    BY <2>1, <2>2 DEF NodesWellPlaced, WellPlaced
<1>10. \A h \in Segments : h # g => sizes'[h] = sizes[h] /\ lists'[h] = lists[h]
  BY <1>2, <1>6, <1>7 DEF IsChanged
<1>11. Counted'
  <2>1. sizes'[g] = Bytes(lists'[g])
    BY <1>2, <1>5, <1>6, <1>7 DEF IsChanged
  <2> QED
    BY <2>1, <1>8, <1>10 DEF Counted
<1>12. SumChanged(Segments, sizes, g, sizes[g] + c, sizes')
  BY <1>1, <1>6, <1>7, SegmentFacts, SumWithout
<1>13. SumOver(sizes', Segments) = SumOver(sizes, Segments) + c
  BY <1>4, <1>12 DEF SumChanged
<1> QED
  BY <1>2, <1>3, <1>6, <1>7, <1>8, <1>9, <1>10, <1>11, <1>13 DEF c

\* The node an iterator names is in the list its tag says.
LEMMA Found ==
    ASSUME TypeOK, NodesWellPlaced, NEW k \in cache_map
    PROVE  /\ SegmentOf(k) \in Segments
           /\ PositionOf(k) \in 1 .. Len(lists[SegmentOf(k)])
           /\ lists[SegmentOf(k)][PositionOf(k)].key = k
           /\ lists[SegmentOf(k)][PositionOf(k)].seg = SegmentOf(k)
<1>1. \E g \in Segments : k \in KeysOf(lists[g])
  BY DEF NodesWellPlaced
<1>2. SegmentOf(k) \in Segments /\ k \in KeysOf(lists[SegmentOf(k)])
  BY <1>1 DEF SegmentOf
<1>3. \E i \in DOMAIN lists[SegmentOf(k)] : lists[SegmentOf(k)][i].key = k
  BY <1>2 DEF KeysOf
<1>4. /\ PositionOf(k) \in DOMAIN lists[SegmentOf(k)]
      /\ lists[SegmentOf(k)][PositionOf(k)].key = k
  BY <1>3, Zenon DEF PositionOf
<1>5. DOMAIN lists[SegmentOf(k)] = 1 .. Len(lists[SegmentOf(k)])
  <2>1. lists[SegmentOf(k)] \in Seq(Node)
    BY <1>2, SegmentFacts DEF Lists
  <2> QED
    BY <2>1
<1> QED
  BY <1>2, <1>4, <1>5 DEF NodesWellPlaced

\* What a step that keeps the lists in place must show for TypeOK.
LEMMA TypeAfter ==
    ASSUME TypeOK,
           lists' \in Lists(Segments), sizes' \in Counters(Segments), level' \in Segments,
           cache_map' \subseteq Key, cache_size' \in Nat, cache_capacity' = cache_capacity,
           request' \in Request \union {NoRequest}, hits' \in [Key -> Segment]
    PROVE  TypeOK' /\ Segments' = Segments /\ avg_capacity' = avg_capacity
<1>1. PICK n \in SegmentCounts : lists \in [ListsOf(n) -> Seq(Node)]
  BY DEF TypeOK
<1>2. Segments = ListsOf(n)
  BY <1>1 DEF Segments
<1>3. /\ lists' \in [ListsOf(n) -> Seq(Node)] /\ sizes' \in [ListsOf(n) -> Nat]
      /\ level' \in ListsOf(n)
  BY <1>2 DEF Lists, Counters
<1>4. TypeOK'
  BY <1>3 DEF TypeOK
<1>5. Segments' = Segments
  BY <1>2, <1>3 DEF Segments
<1> QED
  BY <1>4, <1>5 DEF avg_capacity, Count

\* A node that moves no higher than its hits, or whose hits only grow, earned
\* its place.
LEMMA EarnedAfter ==
    ASSUME TypeOK, EarnedPlace, Segments' = Segments, lists' \in Lists(Segments),
           hits' \in [Key -> Segment], \A k \in Key : hits[k] <= hits'[k],
           NEW to \in Segments, NEW m \in Node, OneNewNode(lists, lists', to, m),
           to <= hits'[m.key]
    PROVE  EarnedPlace'
<1> SUFFICES ASSUME NEW h \in Segments, NEW j \in DOMAIN lists'[h]
             PROVE  h <= hits'[lists'[h][j].key]
  BY DEF EarnedPlace
<1>1. h \in DOMAIN lists'
  BY DEF Lists
<1>2. CASE h = to /\ lists'[h][j] = m
  BY <1>2
<1>3. CASE \E x \in DOMAIN lists[h] : lists'[h][j] = lists[h][x]
  <2>1. PICK x \in DOMAIN lists[h] : lists'[h][j] = lists[h][x]
    BY <1>3
  <2>2. lists[h][x].key \in Key
    <3>1. lists[h] \in Seq(Node)
      BY SegmentFacts DEF Lists
    <3>2. lists[h][x] \in Node
      BY <3>1
    <3> QED
      BY <3>2 DEF Node
  <2>3. h <= hits[lists[h][x].key]
    BY DEF EarnedPlace
  <2>4. /\ hits[lists[h][x].key] \in Nat /\ hits'[lists[h][x].key] \in Nat /\ h \in Nat
        /\ hits[lists[h][x].key] <= hits'[lists[h][x].key]
    <3>0. Segment \subseteq Nat /\ hits \in [Key -> Segment]
      BY DEF TypeOK, Segment, FIRST, FOURTH
    <3>1. \A k \in Key : hits[k] \in Nat /\ hits'[k] \in Nat
      BY <3>0
    <3>2. h \in Nat
      BY SegmentFacts
    <3> QED
      BY <2>2, <3>1, <3>2
  <2> QED
    BY <2>1, <2>3, <2>4
<1> QED
  BY <1>1, <1>2, <1>3 DEF OneNewNode

-----------------------------------------------------------------------------
\* The lists start empty.
LEMMA InitIInv == Init => IInv
<1> SUFFICES ASSUME Init PROVE IInv
  OBVIOUS
<1>1. PICK n \in SegmentCounts : /\ lists = [g \in 0 .. n - 1 |-> << >>]
                                 /\ sizes = [g \in 0 .. n - 1 |-> 0]
  BY DEF Init
<1>2. n \in {2, 3, 4} /\ Segments = ListsOf(n)
  BY <1>1, SegmentAssumption DEF SegmentAssumption, Segments, ListsOf
<1>3. TypeOK
  <2>1. 0 \in ListsOf(n) /\ lists \in [ListsOf(n) -> Seq(Node)] /\ sizes \in [ListsOf(n) -> Nat]
    BY <1>1, <1>2 DEF ListsOf
  <2>2. \A k \in Key : 0 \in Segment
    BY DEF Segment, FIRST, FOURTH
  <2>3. hits \in [Key -> Segment]
    BY <2>2 DEF Init
  <2> QED
    BY <2>1, <2>3 DEF Init, TypeOK
<1>4. \A g \in Segments : lists[g] = << >> /\ sizes[g] = 0
  BY <1>1, <1>2 DEF ListsOf
<1>5. \A g \in Segments : DOMAIN lists[g] = {} /\ KeysOf(lists[g]) = {}
  BY <1>4 DEF KeysOf
<1>6. NodesWellPlaced
  <2>1. cache_map = UNION { KeysOf(lists[g]) : g \in Segments }
    BY <1>5 DEF Init
  <2> QED
    BY <2>1, <1>5 DEF NodesWellPlaced, KeysDistinct
<1>7. SizesExact
  <2>1. Total(sizes) = SumOver(sizes, Segments)
    BY <1>3, SegmentFacts, SumAfter
  <2>2. SumOver(sizes, Segments) = 0
    BY <1>4 DEF SumOver, Share
  <2>3. cache_size = 0 /\ cache_capacity \in Nat
    BY BaseAssumption DEF Init, BaseAssumption
  <2> QED
    BY <1>4, <2>1, <2>2, <2>3, BytesEmpty DEF SizesExact
<1>8. CutFromTheTop
  <2>1. avg_capacity \in Nat
    BY <1>3, ShareType
  <2> QED
    BY <2>1, <1>4 DEF CutFromTheTop
<1>9. OneCall /\ EarnedPlace
  BY <1>5 DEF OneCall, EarnedPlace, Init
<1> QED
  BY <1>3, <1>6, <1>7, <1>8, <1>9 DEF IInv

\* A hit.
LEMMA HitKeeps ==
    ASSUME IInv, NEW k \in Key, GetHit(k)
    PROVE  IInv'
<1> DEFINE from == SegmentOf(k)
           i == PositionOf(k)
           to == HighLevel(from)
           m == Retagged(lists[from][i], to)
<1>1. TypeOK /\ NodesWellPlaced /\ SizesExact /\ EarnedPlace /\ k \in cache_map
  BY DEF IInv, GetHit
<1>2. /\ from \in Segments /\ i \in 1 .. Len(lists[from])
      /\ lists[from][i].key = k /\ lists[from][i].seg = from
  BY <1>1, Found
<1>3. to \in Segments /\ to <= from + 1 /\ to \in Segment /\ from \in Nat
  BY <1>1, <1>2, SegmentFacts
<1>4. Move(from, to, i) /\ UNCHANGED <<cache_map, cache_size, cache_capacity>>
  BY <1>2 DEF GetHit
<1> HIDE DEF from, i, to
<1>5. /\ lists' \in Lists(Segments) /\ sizes' \in Counters(Segments)
      /\ NodesWellPlaced' /\ SizesExact' /\ OneNewNode(lists, lists', to, m)
  BY <1>1, <1>2, <1>3, <1>4, MoveKeeps
<1>6. lists[from][i] \in Node
  <2>1. lists[from] \in Seq(Node)
    BY <1>1, <1>2, SegmentFacts DEF Lists
  <2> QED
    BY <2>1, <1>2
<1>7. m \in Node /\ m.key = k
  BY <1>2, <1>3, <1>6 DEF Node, Retagged
<1>8. hits' \in [Key -> Segment] /\ hits'[k] = Lesser(FOURTH, hits[k] + 1) /\ hits[k] \in Segment
  <2>1. hits \in [Key -> Segment]
    BY <1>1 DEF TypeOK
  <2>2. hits' = [hits EXCEPT ![k] = Lesser(FOURTH, hits[k] + 1)]
    BY DEF GetHit
  <2>3. hits[k] \in 0 .. 3 /\ Lesser(FOURTH, hits[k] + 1) \in 0 .. 3
    BY <2>1 DEF Segment, FIRST, FOURTH, Lesser
  <2> QED
    BY <2>1, <2>2, <2>3 DEF Segment, FIRST, FOURTH
<1>9. \A x \in Key : hits[x] <= hits'[x]
  <2>1. \A x \in Key : x # k => hits'[x] = hits[x]
    BY <1>1 DEF GetHit, TypeOK
  <2>2. \A x \in Key : hits[x] \in Nat
    BY <1>1 DEF TypeOK, Segment, FIRST, FOURTH
  <2>3. hits[k] <= hits'[k]
    BY <1>8 DEF Lesser, Segment, FIRST, FOURTH
  <2> QED
    BY <2>1, <2>2, <2>3
<1>10. to <= hits'[m.key]
  <2>1. from <= hits[k]
    BY <1>1, <1>2 DEF EarnedPlace
  <2>2. hits[k] \in 0 .. 3 /\ to \in 0 .. 3
    BY <1>3, <1>8 DEF Segment, FIRST, FOURTH
  <2> QED
    BY <2>1, <2>2, <1>3, <1>7, <1>8 DEF Lesser, FOURTH
<1>11. TypeOK' /\ Segments' = Segments
  <2>1. level' \in Segments /\ request' = request
    BY <1>1, SegmentFacts DEF GetHit
  <2> QED
    BY <2>1, <1>1, <1>4, <1>5, <1>8, TypeAfter DEF TypeOK
<1> HIDE DEF m
<1>12. EarnedPlace'
  BY <1>1, <1>3, <1>5, <1>7, <1>8, <1>9, <1>10, <1>11, EarnedAfter
<1>13. CutFromTheTop'
  <2>1. level' = HighestLevel /\ \A g \in Segments : g \in Nat /\ g <= HighestLevel
    BY <1>1, SegmentFacts DEF GetHit
  <2>2. HighestLevel \in Nat
    BY <1>1, SegmentFacts
  <2> QED
    BY <2>1, <2>2, <1>11 DEF CutFromTheTop
<1>14. OneCall'
  BY DEF GetHit, Idle, OneCall
<1> QED
  BY <1>5, <1>11, <1>12, <1>13, <1>14 DEF IInv
\* A miss leaves the cache alone and calls insert() for a key it does not store.
LEMMA MissKeeps ==
    ASSUME IInv, NEW k \in Key, NEW s \in Size, GetMiss(k, s)
    PROVE  IInv'
<1>1. /\ UNCHANGED <<lists, sizes, cache_map, cache_size, cache_capacity, level, hits>>
      /\ request' = [key |-> k, size |-> s] /\ k \notin cache_map /\ level = 0
  BY DEF GetMiss, Idle
<1>2. request' \in Request /\ request'.key = k
  BY <1>1 DEF Request
<1>3. TypeOK'
  BY <1>1, <1>2 DEF IInv, TypeOK
<1>4. Segments' = Segments /\ avg_capacity' = avg_capacity
  BY <1>1 DEF Segments, avg_capacity, Count
<1>5. NodesWellPlaced' /\ SizesExact'
  BY <1>1, <1>4 DEF IInv, NodesWellPlaced, SizesExact
<1>6. CutFromTheTop' /\ EarnedPlace'
  BY <1>1, <1>4 DEF IInv, CutFromTheTop, EarnedPlace
<1>7. OneCall'
  BY <1>1, <1>2 DEF OneCall
<1> QED
  BY <1>3, <1>5, <1>6, <1>7 DEF IInv

\* A demotion from the list get() is cutting back.
LEMMA DemoteKeeps ==
    ASSUME IInv, Demote
    PROVE  IInv'
<1> DEFINE i == Len(lists[level])
           to == LowLevel(level)
           m == Retagged(lists[level][i], to)
<1>1. TypeOK /\ NodesWellPlaced /\ SizesExact /\ EarnedPlace
  BY DEF IInv
<1>2. /\ level \in Segments /\ level > 0 /\ lists[level] \in Seq(Node) /\ i \in 1 .. Len(lists[level])
      /\ lists[level][i] \in Node
  <2>1. level \in Segments /\ level > 0 /\ lists[level] \in Seq(Node) /\ lists[level] # << >>
    BY <1>1, SegmentFacts DEF Demote, Lists
  <2> QED
    BY <2>1
<1>3. to \in Segments /\ to = level - 1 /\ level \in Nat /\ to \in Segment
  BY <1>1, <1>2, SegmentFacts
<1>4. Move(level, to, i) /\ UNCHANGED <<cache_map, cache_size, cache_capacity>>
  BY DEF Demote
<1> HIDE DEF i, to
<1>5. /\ lists' \in Lists(Segments) /\ sizes' \in Counters(Segments)
      /\ NodesWellPlaced' /\ SizesExact' /\ OneNewNode(lists, lists', to, m)
      /\ \A g \in Segments : g # to => sizes'[g] <= sizes[g]
      /\ lists[level][i].key \in cache_map
  BY <1>1, <1>2, <1>3, <1>4, MoveKeeps
<1>6. m \in Node /\ m.key = lists[level][i].key /\ m.key \in Key
  BY <1>2, <1>3 DEF Node, Retagged
<1> HIDE DEF m
<1>7. UNCHANGED <<level, request, hits>>
  BY DEF Demote
<1>8. TypeOK' /\ Segments' = Segments /\ avg_capacity' = avg_capacity
  BY <1>1, <1>2, <1>4, <1>5, <1>7, TypeAfter DEF TypeOK
<1>9. EarnedPlace'
  <2>1. level <= hits[m.key]
    BY <1>1, <1>2, <1>6 DEF EarnedPlace
  <2>2. \A x \in Key : hits[x] \in Nat /\ hits'[x] = hits[x]
    BY <1>1, <1>7 DEF TypeOK, Segment, FIRST, FOURTH
  <2>3. hits' \in [Key -> Segment] /\ \A x \in Key : hits[x] <= hits'[x]
    BY <2>2, <1>1, <1>7 DEF TypeOK
  <2>4. to <= hits'[m.key]
    BY <2>1, <2>2, <1>3, <1>6
  <2> QED
    BY <2>3, <2>4, <1>1, <1>3, <1>5, <1>6, <1>8, EarnedAfter
<1>10. CutFromTheTop'
  <2> SUFFICES ASSUME NEW g \in Segments, g > level
               PROVE  sizes'[g] <= avg_capacity
    BY <1>7, <1>8 DEF CutFromTheTop
  <2>1. g # to /\ sizes[g] <= avg_capacity
    <3>1. g \in Nat
      BY <1>1, SegmentFacts
    <3> QED
      BY <3>1, <1>3 DEF IInv, CutFromTheTop
  <2>2. sizes'[g] <= sizes[g]
    BY <2>1, <1>5
  <2>3. sizes'[g] \in Nat /\ sizes[g] \in Nat
    BY <1>1, <1>5, SegmentFacts DEF Counters
  <2>4. avg_capacity \in Nat
    BY <1>1, ShareType
  <2> QED
    BY <2>1, <2>2, <2>3, <2>4
<1>11. OneCall'
  BY <1>4, <1>7 DEF IInv, OneCall
<1> QED
  BY <1>5, <1>8, <1>9, <1>10, <1>11 DEF IInv

\* The list get() is at is within its share: the loop goes on to the next.
LEMMA NextLevelKeeps ==
    ASSUME IInv, NextLevel
    PROVE  IInv'
<1>1. TypeOK /\ NodesWellPlaced /\ SizesExact /\ EarnedPlace /\ CutFromTheTop /\ OneCall
  BY DEF IInv
<1>2. /\ UNCHANGED <<lists, sizes, cache_map, cache_size, cache_capacity, request, hits>>
      /\ level > 0 /\ sizes[level] <= avg_capacity /\ level' = level - 1
  BY DEF NextLevel, NextDown
<1>3. level \in Segments /\ level - 1 \in Segments
  BY <1>1, <1>2, SegmentFacts
<1>4. TypeOK' /\ Segments' = Segments /\ avg_capacity' = avg_capacity
  <2>1. lists' \in Lists(Segments) /\ sizes' \in Counters(Segments)
    BY <1>1, <1>2, SegmentFacts
  <2> QED
    BY <2>1, <1>1, <1>2, <1>3, TypeAfter DEF TypeOK
<1>5. NodesWellPlaced' /\ SizesExact' /\ EarnedPlace'
  BY <1>1, <1>2, <1>4 DEF NodesWellPlaced, SizesExact, EarnedPlace
<1>6. CutFromTheTop'
  <2> SUFFICES ASSUME NEW g \in Segments, g > level - 1
               PROVE  sizes[g] <= avg_capacity
    BY <1>2, <1>4 DEF CutFromTheTop
  <2>1. g \in Nat /\ level \in Nat
    BY <1>1, <1>3, SegmentFacts
  <2>2. g = level \/ g > level
    BY <2>1
  <2> QED
    BY <2>2, <1>1, <1>2 DEF CutFromTheTop
<1>7. OneCall'
  BY <1>1, <1>2 DEF OneCall
<1> QED
  BY <1>4, <1>5, <1>6, <1>7 DEF IInv
-----------------------------------------------------------------------------
\* A list whose counter is not zero has a tail.
LEMMA VictimFacts ==
    ASSUME TypeOK, Counted, \E g \in Segments : sizes[g] > 0
    PROVE  /\ VictimSegment \in Segments /\ lists[VictimSegment] # << >>
           /\ lists[VictimSegment] \in Seq(Node)
           /\ \A h \in Segments : h < VictimSegment => sizes[h] = 0
<1>1. PICK n \in {2, 3, 4} : Segments = ListsOf(n)
  BY SegmentFacts
<1>2. \A g \in Segments : sizes[g] \in Nat
  BY SegmentFacts DEF Counters
<1>3. \E g \in Segments : sizes[g] > 0 /\ \A h \in Segments : h < g => sizes[h] = 0
  <2>1. Segments \subseteq 0 .. 3
    BY <1>1 DEF ListsOf
  <2>2. \A h \in Segments : sizes[h] = 0 \/ sizes[h] > 0
    BY <1>2
  <2>3. CASE 0 \in Segments /\ sizes[0] > 0
    BY <2>1, <2>3
  <2>4. CASE ~(0 \in Segments /\ sizes[0] > 0) /\ 1 \in Segments /\ sizes[1] > 0
    BY <2>1, <2>2, <2>4
  <2>5. CASE /\ ~(0 \in Segments /\ sizes[0] > 0) /\ ~(1 \in Segments /\ sizes[1] > 0)
             /\ 2 \in Segments /\ sizes[2] > 0
    BY <2>1, <2>2, <2>5
  <2>6. CASE /\ ~(0 \in Segments /\ sizes[0] > 0) /\ ~(1 \in Segments /\ sizes[1] > 0)
             /\ ~(2 \in Segments /\ sizes[2] > 0) /\ 3 \in Segments /\ sizes[3] > 0
    BY <2>1, <2>2, <2>6
  <2> QED
    BY <2>1, <2>3, <2>4, <2>5, <2>6
<1>4. /\ VictimSegment \in Segments /\ sizes[VictimSegment] > 0
      /\ \A h \in Segments : h < VictimSegment => sizes[h] = 0
  BY <1>3, Zenon DEF VictimSegment
<1> DEFINE g == VictimSegment
<1> HIDE DEF g
<1>5. g \in Segments /\ sizes[g] > 0
  BY <1>4 DEF g
<1>6. lists[g] \in Seq(Node)
  BY <1>5, SegmentFacts DEF Lists
<1>7. lists[g] # << >>
  <2> SUFFICES ASSUME lists[g] = << >> PROVE FALSE
    OBVIOUS
  <2>1. sizes[g] = 0
    BY <1>5, BytesEmpty DEF Counted
  <2> QED
    BY <2>1, <1>5
<1> QED
  BY <1>4, <1>5, <1>6, <1>7 DEF g

\* A list whose counter is zero is empty.
LEMMA CountedEmpty ==
    ASSUME TypeOK, NodesWellPlaced, Counted, NEW g \in Segments
    PROVE  /\ lists[g] \in Seq(Node)
           /\ sizes[g] = 0 <=> lists[g] = << >>
<1>1. lists[g] \in Seq(Node) /\ KeysDistinct(lists[g]) /\ sizes[g] = Bytes(lists[g])
  BY SegmentFacts DEF Lists, NodesWellPlaced, Counted
<1>2. ASSUME lists[g] # << >> PROVE Bytes(lists[g]) # 0
  <2>1. /\ Bytes(lists[g]) = Bytes(Tail(lists[g])) + ChunkSize(Head(lists[g]).size)
        /\ Tail(lists[g]) \in Seq(Node)
    BY <1>1, <1>2, TailNode
  <2>2. Bytes(Tail(lists[g])) \in Nat
    BY <2>1, BytesType
  <2> QED
    BY <2>1, <2>2, ChunkBound
<1> QED
  BY <1>1, <1>2, BytesEmpty

\* Front is the list without its last node.
LEMMA FrontIsWithout ==
    ASSUME NEW N, NEW s \in Seq(N), s # << >>
    PROVE  IsWithout(N, s, Len(s), Front(s)) /\ Front(s) \in Seq(N) /\ Len(s) \in 1 .. Len(s)
<1> DEFINE n == Len(s)
<1>1. n \in Nat /\ n >= 1 /\ n - 1 \in Nat /\ \A j \in 1 .. n - 1 : s[j] \in N
  OBVIOUS
<1>2. Front(s) = [j \in 1 .. n - 1 |-> s[j]]
  BY <1>1 DEF Front
<1> HIDE DEF n
<1>3. /\ Front(s) \in Seq(N) /\ Len(Front(s)) = n - 1
      /\ \A j \in 1 .. n - 1 : Front(s)[j] = s[j] /\ j < n
  BY <1>1, <1>2
<1>4. n \in 1 .. n
  BY <1>1
<1> QED
  BY <1>3, <1>4 DEF IsWithout, n

\* What Evict() does to the lists and their counters.
LEMMA EvictCounts ==
    ASSUME TypeOK, NodesWellPlaced, Counted, Evict
    PROVE  \E g \in Segments, node \in Node :
              /\ node.key \in Key /\ node = Last(lists[g]) /\ g = VictimSegment
              /\ lists' \in Lists(Segments) /\ sizes' \in Counters(Segments)
              /\ NodesWellPlaced' /\ Counted' /\ Segments' = Segments
              /\ TakenOut(lists, g, node, lists')
              /\ ChunkSize(node.size) <= SumOver(sizes, Segments)
              /\ SumOver(sizes', Segments) = SumOver(sizes, Segments) - ChunkSize(node.size)
              /\ \A h \in Segments : sizes'[h] <= sizes[h]
              /\ cache_size' = Minus(cache_size, ChunkSize(node.size))
              /\ cache_map' = cache_map \ {node.key}
              /\ hits' = [hits EXCEPT ![node.key] = 0]
<1> DEFINE g == VictimSegment
           i == Len(lists[g])
           r == Front(lists[g])
<1>1. g \in Segments /\ lists[g] # << >> /\ lists[g] \in Seq(Node)
  BY VictimFacts DEF Evict
<1>2. IsWithout(Node, lists[g], i, r) /\ r \in Seq(Node) /\ i \in 1 .. Len(lists[g])
  BY <1>1, FrontIsWithout
<1>3. /\ TakesOut(g, i, r) /\ lists[g][i] = Last(lists[g])
      /\ cache_size' = Minus(cache_size, ChunkSize(lists[g][i].size))
      /\ cache_map' = cache_map \ {lists[g][i].key}
      /\ hits' = [hits EXCEPT ![lists[g][i].key] = 0]
  BY DEF Evict, Last, TakesOut
<1> HIDE DEF g, i, r
<1>4. /\ lists' \in Lists(Segments) /\ sizes' \in Counters(Segments)
      /\ NodesWellPlaced' /\ Counted' /\ Segments' = Segments
      /\ TakenOut(lists, g, lists[g][i], lists')
      /\ lists[g][i] \in Node /\ lists[g][i].key \in Key
      /\ ChunkSize(lists[g][i].size) <= SumOver(sizes, Segments)
      /\ SumOver(sizes', Segments) = SumOver(sizes, Segments) - ChunkSize(lists[g][i].size)
      /\ \A h \in Segments : sizes'[h] <= sizes[h]
  BY <1>1, <1>2, <1>3, TakeCounts
<1> QED
  BY <1>1, <1>3, <1>4 DEF g

\* An eviction.
LEMMA EvictKeeps ==
    ASSUME IInv, Evict
    PROVE  IInv'
<1>1. TypeOK /\ NodesWellPlaced /\ SizesExact /\ EarnedPlace /\ CutFromTheTop /\ OneCall
  BY DEF IInv
<1>2. /\ Counted /\ cache_size = SumOver(sizes, Segments)
      /\ cache_capacity \in Nat /\ cache_size <= cache_capacity
  BY <1>1, ExactFacts
<1>3. PICK g \in Segments, node \in Node :
         /\ node.key \in Key
         /\ lists' \in Lists(Segments) /\ sizes' \in Counters(Segments)
         /\ NodesWellPlaced' /\ Counted' /\ Segments' = Segments
         /\ TakenOut(lists, g, node, lists')
         /\ ChunkSize(node.size) <= SumOver(sizes, Segments)
         /\ SumOver(sizes', Segments) = SumOver(sizes, Segments) - ChunkSize(node.size)
         /\ \A h \in Segments : sizes'[h] <= sizes[h]
         /\ cache_size' = Minus(cache_size, ChunkSize(node.size))
         /\ cache_map' = cache_map \ {node.key}
         /\ hits' = [hits EXCEPT ![node.key] = 0]
  BY <1>1, <1>2, EvictCounts
<1>4. UNCHANGED <<cache_capacity, level, request>>
  BY DEF Evict
<1>5. /\ cache_size' = SumOver(sizes', Segments) /\ cache_size' \in Nat
      /\ cache_size' <= cache_capacity'
  <2>1. ChunkSize(node.size) \in Nat /\ cache_size \in Nat
    BY <1>1, ChunkBound DEF TypeOK
  <2>2. cache_size' = cache_size - ChunkSize(node.size) /\ ChunkSize(node.size) <= cache_size
    BY <2>1, <1>2, <1>3 DEF Minus
  <2> QED
    BY <2>1, <2>2, <1>2, <1>3, <1>4
<1>6. TypeOK' /\ avg_capacity' = avg_capacity
  <2>1. hits \in [Key -> Segment] /\ 0 \in Segment
    BY <1>1 DEF TypeOK, Segment, FIRST, FOURTH
  <2>2. hits' \in [Key -> Segment]
    BY <2>1, <1>3
  <2>3. cache_map' \subseteq Key /\ level' \in Segments
    BY <1>1, <1>3, <1>4, SegmentFacts DEF TypeOK
  <2>4. request' \in Request \union {NoRequest}
    BY <1>1, <1>4 DEF TypeOK
  <2> QED
    BY <2>2, <2>3, <2>4, <1>1, <1>3, <1>4, <1>5, TypeAfter
<1>7. SizesExact'
  BY <1>1, <1>3, <1>5, ExactAfter
<1>8. CutFromTheTop'
  <2>1. \A h \in Segments : sizes[h] \in Nat /\ sizes'[h] \in Nat
    BY <1>1, <1>3, CounterFacts DEF Counters
  <2>2. avg_capacity \in Nat
    BY <1>1, ShareType
  <2>3. \A h \in Segments : h > level => sizes[h] <= avg_capacity
    BY <1>1 DEF CutFromTheTop
  <2>4. \A h \in Segments : h > level => sizes'[h] <= avg_capacity
    BY <2>1, <2>2, <2>3, <1>3
  <2> QED
    BY <2>4, <1>3, <1>4, <1>6 DEF CutFromTheTop
<1>9. OneCall'
  BY <1>1, <1>3, <1>4 DEF OneCall
<1>10. EarnedPlace'
  <2> SUFFICES ASSUME NEW h \in Segments, NEW j \in DOMAIN lists'[h]
               PROVE  h <= hits'[lists'[h][j].key]
    BY <1>3 DEF EarnedPlace
  <2>1. h \in DOMAIN lists'
    BY <1>3 DEF Lists
  <2>2. PICK x \in DOMAIN lists[h] : lists'[h][j] = lists[h][x]
    BY <2>1, <1>3 DEF TakenOut, NoNewNode
  <2>3. lists'[h][j].key # node.key
    <3>1. lists'[h][j].key \in AllKeys(lists')
      BY <2>1 DEF AllKeys, KeysOf
    <3> QED
      BY <3>1, <1>3 DEF TakenOut
  <2>4. hits'[lists'[h][j].key] = hits[lists'[h][j].key]
    BY <2>3, <1>3
  <2> QED
    BY <2>2, <2>4, <1>1 DEF EarnedPlace
<1> QED
  BY <1>3, <1>6, <1>7, <1>8, <1>9, <1>10 DEF IInv

\* The node insert() makes, and what it does to the lists and their counters.
NewNode == [key |-> request.key, size |-> request.size, seg |-> FIRST]

LEMMA InsertCounts ==
    ASSUME TypeOK, NodesWellPlaced, Counted, Roomy, OneCall, InsertNode
    PROVE  /\ request \in Request /\ NewNode \in Node
           /\ NewNode.key = request.key /\ level = 0
           /\ lists' \in Lists(Segments) /\ sizes' \in Counters(Segments)
           /\ NodesWellPlaced' /\ Counted' /\ Segments' = Segments
           /\ PutAt(lists, FIRST, NewNode, lists')
           /\ SumOver(sizes', Segments) = SumOver(sizes, Segments) + ChunkSize(request.size)
           /\ \A h \in Segments : h # FIRST => sizes'[h] = sizes[h]
<1> DEFINE t == <<NewNode>> \o lists[FIRST]
<1>1. request \in Request /\ request.key \notin cache_map /\ level = 0
  BY DEF InsertNode, TypeOK, OneCall
<1>2. /\ NewNode \in Node /\ NewNode.key = request.key /\ NewNode.size = request.size
      /\ NewNode.seg = FIRST
  BY <1>1 DEF NewNode, Request, Node, Segment, FIRST, FOURTH
<1>3. FIRST \in Segments /\ lists[FIRST] \in Seq(Node) /\ KeysDistinct(lists[FIRST])
  BY SegmentFacts DEF Lists, NodesWellPlaced
<1>4. NewNode.key \notin KeysOf(lists[FIRST])
  BY <1>1, <1>2, <1>3 DEF NodesWellPlaced
<1>5. IsWith(lists[FIRST], NewNode, t)
  BY <1>2, <1>3, <1>4, ConsIsWith
<1>6. /\ lists' = [lists EXCEPT ![FIRST] = t]
      /\ sizes' = [sizes EXCEPT ![FIRST] = Plus(@, ChunkSize(NewNode.size))]
      /\ cache_map' = cache_map \union {NewNode.key}
  BY <1>2 DEF InsertNode, SizesInserted, NewNode
<1> HIDE DEF t
<1>7. /\ lists' \in Lists(Segments) /\ sizes' \in Counters(Segments)
      /\ NodesWellPlaced' /\ Counted' /\ Segments' = Segments
      /\ PutAt(lists, FIRST, NewNode, lists')
      /\ SumOver(sizes', Segments) = SumOver(sizes, Segments) + ChunkSize(NewNode.size)
      /\ \A h \in Segments : h # FIRST => sizes'[h] = sizes[h]
  BY <1>1, <1>2, <1>3, <1>5, <1>6, PutCounts
<1> QED
  BY <1>1, <1>2, <1>7

\* insert() puts the new node at the front of the lowest list.
LEMMA InsertKeeps ==
    ASSUME IInv, InsertNode
    PROVE  IInv'
<1> DEFINE m == NewNode
           c == ChunkSize(request.size)
<1>1. TypeOK /\ NodesWellPlaced /\ SizesExact /\ EarnedPlace /\ CutFromTheTop /\ OneCall
  BY DEF IInv
<1>2. /\ Counted /\ Roomy /\ cache_size = SumOver(sizes, Segments)
      /\ cache_capacity \in Nat /\ cache_size <= cache_capacity
  BY <1>1, ExactFacts
<1>3. /\ request \in Request /\ m \in Node /\ m.key = request.key /\ level = 0
      /\ lists' \in Lists(Segments) /\ sizes' \in Counters(Segments)
      /\ NodesWellPlaced' /\ Counted' /\ Segments' = Segments
      /\ PutAt(lists, FIRST, m, lists')
      /\ SumOver(sizes', Segments) = SumOver(sizes, Segments) + c
      /\ \A h \in Segments : h # FIRST => sizes'[h] = sizes[h]
  BY <1>1, <1>2, InsertCounts
<1>4. /\ ~Full /\ cache_map' = cache_map \union {request.key} /\ cache_size' = Plus(cache_size, c)
      /\ request' = NoRequest /\ UNCHANGED <<cache_capacity, level, hits>>
  BY DEF InsertNode
<1> HIDE DEF m
<1>5. /\ cache_size' = SumOver(sizes', Segments) /\ cache_size' \in Nat
      /\ cache_size' <= cache_capacity'
  <2>1. /\ c \in Nat /\ c <= BIG /\ BIG \in Nat /\ WORD \in Nat /\ cache_size \in Nat
        /\ cache_size + BIG < WORD
    BY <1>1, <1>2, ChunkBound, ChunkFacts DEF TypeOK, Roomy
  <2>2. Plus(cache_size, c) = cache_size + c
    BY <2>1 DEF Plus
  <2>3. ~(Plus(cache_size, c) > cache_capacity)
    BY <1>4 DEF Full, IsFullAt
  <2> QED
    BY <2>1, <2>2, <2>3, <1>2, <1>3, <1>4
<1>6. TypeOK' /\ avg_capacity' = avg_capacity
  <2>1. request.key \in Key
    BY <1>3 DEF Request
  <2>2. cache_map' \subseteq Key
    BY <2>1, <1>1, <1>4 DEF TypeOK
  <2>3. level' \in Segments
    BY <1>1, <1>4, SegmentFacts
  <2>4. request' \in Request \union {NoRequest} /\ hits' \in [Key -> Segment]
    BY <1>1, <1>4 DEF TypeOK
  <2> QED
    BY <2>2, <2>3, <2>4, <1>1, <1>3, <1>4, <1>5, TypeAfter
<1>7. SizesExact'
  BY <1>1, <1>3, <1>5, ExactAfter
<1>8. CutFromTheTop'
  <2>1. \A h \in Segments : h > 0 => sizes'[h] = sizes[h]
    BY <1>3 DEF FIRST
  <2> QED
    BY <2>1, <1>1, <1>3, <1>4, <1>6 DEF CutFromTheTop
<1>9. OneCall'
  BY <1>4 DEF OneCall
<1>10. EarnedPlace'
  <2>1. \A x \in Key : hits[x] \in Nat /\ hits'[x] = hits[x]
    <3>1. Segment \subseteq Nat /\ hits \in [Key -> Segment]
      BY <1>1 DEF TypeOK, Segment, FIRST, FOURTH
    <3> QED
      BY <3>1, <1>4
  <2>2. hits' \in [Key -> Segment] /\ \A x \in Key : hits[x] <= hits'[x]
    BY <2>1, <1>1, <1>4 DEF TypeOK
  <2>3. FIRST <= hits'[m.key]
    <3>1. m.key \in Key
      BY <1>3 DEF Node
    <3> QED
      BY <3>1, <2>1 DEF FIRST
  <2>4. OneNewNode(lists, lists', FIRST, m) /\ FIRST \in Segments
    BY <1>1, <1>3, SegmentFacts DEF PutAt
  <2> QED
    BY <2>2, <2>3, <2>4, <1>1, <1>3, EarnedAfter
<1> QED
  BY <1>3, <1>6, <1>7, <1>8, <1>9, <1>10 DEF IInv

-----------------------------------------------------------------------------
\* Every step keeps the inductive invariant.
LEMMA StepKeeps == IInv /\ [Next]_vars => IInv'
<1> SUFFICES ASSUME IInv, [Next]_vars PROVE IInv'
  OBVIOUS
<1>1. CASE Get
  BY <1>1, HitKeeps, MissKeeps DEF Get
<1>2. CASE Proceed
  BY <1>2, DemoteKeeps, NextLevelKeeps, EvictKeeps, InsertKeeps DEF Proceed
<1>3. CASE UNCHANGED vars
  <2>1. TypeOK'
    BY <1>3 DEF IInv, TypeOK, vars
  <2>2. Segments' = Segments /\ avg_capacity' = avg_capacity
    BY <1>3 DEF vars, Segments, avg_capacity, Count
  <2>3. NodesWellPlaced' /\ SizesExact'
    BY <1>3, <2>2 DEF IInv, NodesWellPlaced, SizesExact, vars
  <2>4. CutFromTheTop' /\ OneCall' /\ EarnedPlace'
    BY <1>3, <2>2 DEF IInv, CutFromTheTop, OneCall, EarnedPlace, vars
  <2> QED
    BY <2>1, <2>3, <2>4 DEF IInv
<1> QED
  BY <1>1, <1>2, <1>3 DEF Next

\* A segmented cache never leaves the inductive invariant.
THEOREM SegmentsInvariant == Spec => []IInv
<1> QED
  BY InitIInv, StepKeeps, PTL DEF Spec

\* The tag of a stored node names its list, the map holds exactly the stored
\* keys, the counters are exact whatever cascade of demotions they went through,
\* and between calls every list above the lowest is within its share.
THEOREM BooksAlwaysBalance == Spec => []BooksBalance
<1>1. IInv => BooksBalance
  <2> SUFFICES ASSUME IInv PROVE BooksBalance
    OBVIOUS
  <2>1. SharesRespected
    <3> SUFFICES ASSUME Idle, NEW g \in Segments \ {FIRST}
                 PROVE  sizes[g] <= avg_capacity
      BY DEF SharesRespected
    <3>1. level = 0 /\ g \in Nat /\ g # 0
      BY SegmentFacts DEF IInv, Idle, FIRST
    <3> QED
      BY <3>1 DEF IInv, CutFromTheTop
  <2> QED
    BY <2>1 DEF IInv, BooksBalance
<1> QED
  BY <1>1, SegmentsInvariant, PTL

\* A node of list g was hit at least g times since it was inserted, so one that
\* is never hit never leaves the lowest list.
THEOREM PlacesAreEarned == Spec => []EarnedPlace
<1>1. IInv => EarnedPlace
  BY DEF IInv
<1> QED
  BY <1>1, SegmentsInvariant, PTL

\* The list the byte counts name is the lowest that holds a node, and its tail is
\* what the map gives up with it.
LEMMA LowestGoes ==
    ASSUME IInv, Evict, NEW k \in cache_map \ cache_map'
    PROVE  /\ Last(lists[SegmentOf(k)]).key = k
           /\ \A g \in Segments : g < SegmentOf(k) => lists[g] = << >>
<1>1. TypeOK /\ NodesWellPlaced /\ Counted
  BY ExactFacts DEF IInv
<1> DEFINE v == VictimSegment
<1>2. /\ v \in Segments /\ lists[v] # << >> /\ lists[v] \in Seq(Node)
      /\ \A h \in Segments : h < v => sizes[h] = 0
  BY <1>1, VictimFacts DEF Evict
<1>3. k = Last(lists[v]).key
  BY DEF Evict
<1> HIDE DEF v
<1>4. k \in KeysOf(lists[v])
  <2>1. Len(lists[v]) \in DOMAIN lists[v] /\ Last(lists[v]) = lists[v][Len(lists[v])]
    BY <1>2 DEF Last
  <2> QED
    BY <2>1, <1>3 DEF KeysOf
<1>5. SegmentOf(k) = v
  <2>1. SegmentOf(k) \in Segments /\ k \in KeysOf(lists[SegmentOf(k)])
    BY <1>2, <1>4 DEF SegmentOf
  <2> QED
    BY <2>1, <1>1, <1>2, <1>4 DEF NodesWellPlaced
<1> QED
  BY <1>1, <1>2, <1>3, <1>5, CountedEmpty

\* Evict() takes the last node of the lowest list that holds any, and nothing but
\* Evict() makes the map forget a key.
THEOREM LowestAlwaysGoesFirst == Spec => LowestGoesFirst
<1> DEFINE Kept(k) ==
        /\ Last(lists[SegmentOf(k)]).key = k
        /\ \A g \in Segments : g < SegmentOf(k) => lists[g] = << >>
<1>1. IInv /\ [Next]_vars => [\A k \in cache_map \ cache_map' : Kept(k)]_vars
  <2> SUFFICES ASSUME IInv, Next, NEW k \in cache_map \ cache_map'
               PROVE  Kept(k)
    OBVIOUS
  <2>1. Get => cache_map' = cache_map
    BY DEF Get, GetHit, GetMiss
  <2>2. Demote \/ NextLevel => cache_map' = cache_map
    BY DEF Demote, NextLevel
  <2>3. InsertNode => cache_map \subseteq cache_map'
    BY DEF InsertNode
  <2>4. Evict
    BY <2>1, <2>2, <2>3 DEF Next, Proceed
  <2> QED
    BY <2>4, LowestGoes
<1> QED
  BY <1>1, SegmentsInvariant, PTL DEF Spec, LowestGoesFirst

\* Hits decide: they bound from above the list a node is in, and the node given up
\* is the last of the lowest list that holds any.
THEOREM HitsAlwaysDecide == Spec => HitsDecide
  BY PlacesAreEarned, LowestAlwaysGoesFirst, PTL DEF HitsDecide
-----------------------------------------------------------------------------
\* The abstract cache some lists stand for: each stored key and its chunk size.
ListWith(L, k) == CHOOSE g \in DOMAIN L : k \in KeysOf(L[g])
NodeWith(L, k) ==
    L[ListWith(L, k)][CHOOSE i \in DOMAIN L[ListWith(L, k)] : L[ListWith(L, k)][i].key = k]
Held(L) == [k \in AllKeys(L) |-> ChunkSize(NodeWith(L, k).size)]

\* Each node is the one its key finds.
LEMMA HeldFacts ==
    ASSUME NEW D, NEW L \in Lists(D), WellPlaced(L), NEW g \in D, NEW i \in DOMAIN L[g]
    PROVE  L[g][i].key \in AllKeys(L) /\ Held(L)[L[g][i].key] = ChunkSize(L[g][i].size)
<1> DEFINE k == L[g][i].key
           h == ListWith(L, k)
           j == CHOOSE x \in DOMAIN L[h] : L[h][x].key = k
<1>1. DOMAIN L = D
  BY DEF Lists
<1>2. k \in KeysOf(L[g])
  BY DEF KeysOf
<1>3. k \in AllKeys(L)
  BY <1>1, <1>2 DEF AllKeys
<1>4. h = g
  <2>1. h \in D /\ k \in KeysOf(L[h])
    BY <1>1, <1>2 DEF ListWith
  <2>2. h # g => KeysOf(L[h]) \cap KeysOf(L[g]) = {}
    BY <1>1, <2>1 DEF WellPlaced
  <2> QED
    BY <1>2, <2>1, <2>2
<1>5. j = i
  <2>1. j \in DOMAIN L[g] /\ L[g][j].key = k
    BY <1>4
  <2>2. KeysDistinct(L[g])
    BY <1>1 DEF WellPlaced
  <2> QED
    BY <2>1, <2>2 DEF KeysDistinct
<1>6. NodeWith(L, k) = L[h][j]
  BY DEF NodeWith
<1>7. NodeWith(L, k) = L[g][i]
  BY <1>4, <1>5, <1>6
<1> QED
  BY <1>3, <1>7 DEF Held

\* A key whose node was there before is held as before.
LEMMA HeldKept ==
    ASSUME NEW D, NEW L \in Lists(D), WellPlaced(L), NEW M \in Lists(D), WellPlaced(M),
           NEW k \in AllKeys(M),
           \A h \in D : \A j \in DOMAIN M[h] : M[h][j].key = k =>
               \E g \in D : \E i \in DOMAIN L[g] :
                   L[g][i].key = k /\ L[g][i].size = M[h][j].size
    PROVE  k \in AllKeys(L) /\ Held(M)[k] = Held(L)[k]
<1>1. PICK h \in D : k \in KeysOf(M[h])
  BY DEF AllKeys, Lists
<1>2. PICK j \in DOMAIN M[h] : M[h][j].key = k
  BY <1>1 DEF KeysOf
<1>3a. PICK g \in D : \E i \in DOMAIN L[g] : L[g][i].key = k /\ L[g][i].size = M[h][j].size
  BY <1>2
<1>3. PICK i \in DOMAIN L[g] : L[g][i].key = k /\ L[g][i].size = M[h][j].size
  BY <1>3a
<1>4. Held(M)[k] = ChunkSize(M[h][j].size)
  BY <1>2, HeldFacts
<1>5. Held(L)[k] = ChunkSize(L[g][i].size) /\ k \in AllKeys(L)
  BY <1>3, HeldFacts
<1> QED
  BY <1>3, <1>4, <1>5

\* The keys charged as chunk c in list g, none if there is no such list.
ChunkKeys(L, c, g) == IF g \in DOMAIN L THEN KeysOfChunk(L[g], c) ELSE {}

\* The keys held at chunk c are counted list by list.
LEMMA HeldByChunk ==
    ASSUME NEW D \in ListSets, NEW L \in Lists(D), WellPlaced(L), NEW c
    PROVE  /\ Cardinality(ChunkKeys(L, c, 0)) \in Nat /\ Cardinality(ChunkKeys(L, c, 1)) \in Nat
           /\ Cardinality(ChunkKeys(L, c, 2)) \in Nat /\ Cardinality(ChunkKeys(L, c, 3)) \in Nat
           /\ Cardinality({ k \in AllKeys(L) : Held(L)[k] = c })
                = ((Cardinality(ChunkKeys(L, c, 0)) + Cardinality(ChunkKeys(L, c, 1)))
                    + Cardinality(ChunkKeys(L, c, 2))) + Cardinality(ChunkKeys(L, c, 3))
<1> DEFINE K(g) == ChunkKeys(L, c, g)
           H == { k \in AllKeys(L) : Held(L)[k] = c }
<1>1. DOMAIN L = D /\ D \subseteq 0 .. 3 /\ \A g \in D : L[g] \in Seq(Node)
  BY DEF Lists, ListSets, ListsOf
<1>2. \A g \in 0 .. 3 : IsFiniteSet(K(g))
  <2>1. \A g \in D : IsFiniteSet(KeysOfChunk(L[g], c))
    BY <1>1, ChunkKeysFinite
  <2>2. IsFiniteSet({})
    BY FS_EmptySet
  <2> QED
    BY <1>1, <2>1, <2>2 DEF ChunkKeys
<1>3. \A g, h \in 0 .. 3 : g # h => K(g) \cap K(h) = {}
  <2>1. \A g \in D : KeysOfChunk(L[g], c) \subseteq KeysOf(L[g])
    BY DEF KeysOfChunk, KeysOf
  <2>2. \A g, h \in D : g # h => KeysOf(L[g]) \cap KeysOf(L[h]) = {}
    BY <1>1 DEF WellPlaced
  <2>3. \A g, h \in D : g # h => KeysOfChunk(L[g], c) \cap KeysOfChunk(L[h], c) = {}
    BY <2>1, <2>2
  <2> QED
    BY <1>1, <2>3 DEF ChunkKeys
<1>4. H = UNION { K(g) : g \in 0 .. 3 }
  <2>1. ASSUME NEW k \in H
        PROVE  \E g \in 0 .. 3 : k \in K(g)
    <3>1. PICK g \in D : k \in KeysOf(L[g])
      BY <1>1 DEF AllKeys
    <3>2. PICK i \in DOMAIN L[g] : L[g][i].key = k
      BY <3>1 DEF KeysOf
    <3>3. ChunkSize(L[g][i].size) = c
      BY <3>2, HeldFacts
    <3>4. k \in KeysOfChunk(L[g], c)
      BY <3>2, <3>3 DEF KeysOfChunk
    <3> QED
      BY <1>1, <3>4 DEF ChunkKeys
  <2>2. ASSUME NEW g \in 0 .. 3, NEW k \in K(g)
        PROVE  k \in H
    <3>1. g \in D /\ k \in KeysOfChunk(L[g], c)
      BY <1>1, <2>2 DEF ChunkKeys
    <3>2. PICK i \in DOMAIN L[g] : ChunkSize(L[g][i].size) = c /\ L[g][i].key = k
      BY <3>1 DEF KeysOfChunk
    <3>3. k \in AllKeys(L) /\ Held(L)[k] = c
      BY <3>1, <3>2, HeldFacts
    <3> QED
      BY <3>3
  <2> HIDE DEF H, K
  <2> QED
    BY <2>1, <2>2
<1> HIDE DEF K
<1>5. H = K(0) \cup K(1) \cup K(2) \cup K(3)
  BY <1>4
<1>6. /\ K(0) \cap K(1) = {} /\ (K(0) \cup K(1)) \cap K(2) = {}
      /\ (K(0) \cup K(1) \cup K(2)) \cap K(3) = {}
  <2>1. /\ K(0) \cap K(1) = {} /\ K(0) \cap K(2) = {} /\ K(1) \cap K(2) = {}
        /\ K(0) \cap K(3) = {} /\ K(1) \cap K(3) = {} /\ K(2) \cap K(3) = {}
    BY <1>3
  <2> QED
    BY <2>1
<1>7. IsFiniteSet(K(0)) /\ IsFiniteSet(K(1)) /\ IsFiniteSet(K(2)) /\ IsFiniteSet(K(3))
  BY <1>2
<1> DEFINE k0 == K(0)
           k1 == K(1)
           k2 == K(2)
           k3 == K(3)
<1>8. /\ IsFiniteSet(k0) /\ IsFiniteSet(k1) /\ IsFiniteSet(k2) /\ IsFiniteSet(k3)
      /\ k0 \cap k1 = {} /\ (k0 \cup k1) \cap k2 = {} /\ (k0 \cup k1 \cup k2) \cap k3 = {}
      /\ H = k0 \cup k1 \cup k2 \cup k3
  BY <1>5, <1>6, <1>7
<1> HIDE DEF k0, k1, k2, k3, H
<1>9. AddUp(k0, k1, k2, k3)
  BY <1>8, FourDisjoint, Zenon
<1> QED
  BY <1>8, <1>9, Zenon DEF AddUp, K, k0, k1, k2, k3, H
\* Four lists' bytes added up.
BytesAddUp(b0, b1, b2, b3, t0, t1, t2, t3) ==
    BIG * (((b0 + b1) + b2) + b3) + TINY * (((t0 + t1) + t2) + t3)
      = (BIG * b0 + TINY * t0) + (BIG * b1 + TINY * t1)
          + (BIG * b2 + TINY * t2) + (BIG * b3 + TINY * t3)

\* They do.
LEMMA FourSums ==
    ASSUME NEW b0 \in Nat, NEW b1 \in Nat, NEW b2 \in Nat, NEW b3 \in Nat,
           NEW t0 \in Nat, NEW t1 \in Nat, NEW t2 \in Nat, NEW t3 \in Nat
    PROVE  BytesAddUp(b0, b1, b2, b3, t0, t1, t2, t3)
<1>0. BIG \in Nat /\ TINY \in Nat
  BY ChunkFacts
<1>1. \A x, y, m \in Nat : m * (x + y) = m * x + m * y /\ m * x \in Nat
  OBVIOUS
<1>2. /\ BIG * (((b0 + b1) + b2) + b3) = ((BIG * b0 + BIG * b1) + BIG * b2) + BIG * b3
      /\ TINY * (((t0 + t1) + t2) + t3) = ((TINY * t0 + TINY * t1) + TINY * t2) + TINY * t3
  BY <1>0, <1>1
<1>3. /\ BIG * b0 \in Nat /\ BIG * b1 \in Nat /\ BIG * b2 \in Nat /\ BIG * b3 \in Nat
      /\ TINY * t0 \in Nat /\ TINY * t1 \in Nat /\ TINY * t2 \in Nat /\ TINY * t3 \in Nat
  BY <1>0, <1>1
<1> QED
  BY <1>2, <1>3 DEF BytesAddUp

\* What the abstract cache holds is what the counters say.
LEMMA HeldLoad ==
    ASSUME NEW D \in ListSets, NEW L \in Lists(D), WellPlaced(L), NEW z,
           \A g \in D : z[g] = Bytes(L[g])
    PROVE  BIG * Cardinality({ k \in AllKeys(L) : Held(L)[k] = BIG })
             + TINY * Cardinality({ k \in AllKeys(L) : Held(L)[k] = TINY }) = SumOver(z, D)
<1> DEFINE b(g) == Cardinality(ChunkKeys(L, BIG, g))
           t(g) == Cardinality(ChunkKeys(L, TINY, g))
           hb == Cardinality({ k \in AllKeys(L) : Held(L)[k] = BIG })
           ht == Cardinality({ k \in AllKeys(L) : Held(L)[k] = TINY })
<1>1. /\ b(0) \in Nat /\ b(1) \in Nat /\ b(2) \in Nat /\ b(3) \in Nat
      /\ hb = ((b(0) + b(1)) + b(2)) + b(3)
  BY HeldByChunk, Zenon
<1>2. /\ t(0) \in Nat /\ t(1) \in Nat /\ t(2) \in Nat /\ t(3) \in Nat
      /\ ht = ((t(0) + t(1)) + t(2)) + t(3)
  BY HeldByChunk, Zenon
<1>3. ASSUME NEW g \in 0 .. 3
      PROVE  Share(z, D, g) = BIG * b(g) + TINY * t(g)
  <2>1. DOMAIN L = D
    BY DEF Lists
  <2>2. CASE g \in D
    BY <2>1, <2>2 DEF Share, Bytes, ChunkKeys
  <2>3. CASE g \notin D
    <3>1. b(g) = 0 /\ t(g) = 0
      BY <2>1, <2>3, FS_EmptySet, Zenon DEF ChunkKeys
    <3>2. BIG * 0 + TINY * 0 = 0
      BY ChunkFacts
    <3> QED
      BY <2>3, <3>1, <3>2, Zenon DEF Share
  <2> QED
    BY <2>2, <2>3
<1> HIDE DEF b, t, hb, ht
<1>4. /\ Share(z, D, 0) = BIG * b(0) + TINY * t(0) /\ Share(z, D, 1) = BIG * b(1) + TINY * t(1)
      /\ Share(z, D, 2) = BIG * b(2) + TINY * t(2) /\ Share(z, D, 3) = BIG * b(3) + TINY * t(3)
  BY <1>3
<1>5. BIG * hb + TINY * ht
        = (BIG * b(0) + TINY * t(0)) + (BIG * b(1) + TINY * t(1))
            + (BIG * b(2) + TINY * t(2)) + (BIG * b(3) + TINY * t(3))
  <2>1. BytesAddUp(b(0), b(1), b(2), b(3), t(0), t(1), t(2), t(3))
    BY <1>1, <1>2, FourSums, Zenon
  <2> QED
    BY <2>1, <1>1, <1>2, Zenon DEF BytesAddUp
<1>6. BIG * hb + TINY * ht = SumOver(z, D)
  BY <1>4, <1>5, Zenon DEF SumOver
<1> QED
  BY <1>6 DEF hb, ht

-----------------------------------------------------------------------------
\* resident of the refinement mapping.
Residents ==
    [k \in UNION { KeysOf(lists[g]) : g \in Segments } |->
        ChunkSize(lists[SegmentOf(k)][PositionOf(k)].size)]

\* It is what the lists hold, before a step and after it.
LEMMA ResidentIsHeld == Residents = Held(lists) /\ Residents' = Held(lists')
<1>1. Residents = Held(lists)
  BY Zenon DEF Residents, Held, AllKeys, NodeWith, ListWith, SegmentOf, PositionOf, Segments
<1>2. Residents' = Held(lists')
  BY Zenon DEF Residents, Held, AllKeys, NodeWith, ListWith, SegmentOf, PositionOf, Segments
<1> QED
  BY <1>1, <1>2

\* The abstract cache's record of a request.
LEMMA WantedIsNotNone ==
    ASSUME request \in Request
    PROVE  LET W == [key |-> request.key, chunk |-> ChunkSize(request.size)]
           IN  W # NoRequest /\ W.key = request.key /\ W.chunk = ChunkSize(request.size)
  BY NoRequestAssumption, ChunkFacts DEF NoRequestAssumption, Request

\* What the inductive invariant says of the lists as a function.
LEMMA Placed ==
    ASSUME IInv
    PROVE  /\ Segments \in ListSets /\ lists \in Lists(Segments) /\ WellPlaced(lists)
           /\ cache_map = AllKeys(lists) /\ DOMAIN lists = Segments
  BY SegmentFacts DEF IInv, NodesWellPlaced, WellPlaced, AllKeys, Segments

\* And after a step.
LEMMA PlacedNext ==
    ASSUME IInv'
    PROVE  lists' \in Lists(Segments') /\ WellPlaced(lists') /\ cache_map' = AllKeys(lists')
<1>1. NodesWellPlaced' /\ TypeOK'
  BY DEF IInv
<1>2. lists' \in Lists(Segments')
  BY <1>1 DEF TypeOK, Lists, Segments
<1>3. WellPlaced(lists') /\ cache_map' = AllKeys(lists')
  BY <1>1 DEF NodesWellPlaced, WellPlaced, AllKeys, Segments
<1> QED
  BY <1>2, <1>3

\* The abstract load is cache_size_, so what fits there is what is not full here.
LEMMA FitsIffNotFull ==
    ASSUME IInv, request # NoRequest
    PROVE  Abstract!Fits <=> ~Full
<1>0. TypeOK /\ SizesExact
  BY DEF IInv
<1>1. \A c : Abstract!Holding(c) = { k \in AllKeys(lists) : Held(lists)[k] = c }
  BY ResidentIsHeld, Zenon DEF Abstract!Holding, Held, Residents
<1>2. Abstract!Load = BIG * Cardinality({ k \in AllKeys(lists) : Held(lists)[k] = BIG })
                        + TINY * Cardinality({ k \in AllKeys(lists) : Held(lists)[k] = TINY })
  <2>1. Abstract!Load = BIG * Cardinality(Abstract!Holding(BIG))
                          + TINY * Cardinality(Abstract!Holding(TINY))
    BY Zenon DEF Abstract!Load, Abstract!Cardinality, Cardinality
  <2> QED
    BY <1>1, <2>1, Zenon
<1>3. Abstract!Load = SumOver(sizes, Segments)
  <2>1. \A g \in Segments : sizes[g] = Bytes(lists[g])
    BY <1>0 DEF SizesExact
  <2> QED
    BY <2>1, <1>2, Placed, HeldLoad, Zenon
<1>4. /\ Abstract!Load = cache_size /\ cache_size \in Nat /\ cache_size + BIG < WORD
      /\ cache_capacity \in Nat
  BY <1>0, <1>3, ExactFacts DEF Roomy, TypeOK
<1> DEFINE c == ChunkSize(request.size)
<1>5. c \in Nat /\ c <= BIG /\ BIG \in Nat /\ WORD \in Nat
  BY ChunkBound, ChunkFacts
<1>6. Abstract!Fits <=> cache_size + c <= cache_capacity
  BY <1>4 DEF Abstract!Fits
<1> HIDE DEF c
<1>7. Plus(cache_size, c) = cache_size + c
  BY <1>4, <1>5 DEF Plus
<1>8. Full <=> cache_size + c > cache_capacity
  BY <1>7 DEF Full, IsFullAt, c
<1> QED
  BY <1>4, <1>5, <1>6, <1>8
\* A promotion, a demotion: the abstract cache does not notice.
LEMMA MovingStutters ==
    ASSUME IInv, IInv', UNCHANGED <<cache_map, cache_capacity, request>>, Segments' = Segments,
           \A h \in Segments : \A j \in DOMAIN lists'[h] :
               \E g \in Segments : \E i \in DOMAIN lists[g] :
                   /\ lists[g][i].key = lists'[h][j].key
                   /\ lists[g][i].size = lists'[h][j].size
    PROVE  UNCHANGED Abstract!vars
<1>1. /\ lists \in Lists(Segments) /\ WellPlaced(lists) /\ cache_map = AllKeys(lists)
      /\ lists' \in Lists(Segments) /\ WellPlaced(lists') /\ AllKeys(lists') = AllKeys(lists)
  BY Placed, PlacedNext
<1>2. ASSUME NEW k \in AllKeys(lists')
      PROVE  Held(lists')[k] = Held(lists)[k]
  <2>1. \A h \in Segments : \A j \in DOMAIN lists'[h] : lists'[h][j].key = k =>
            \E g \in Segments : \E i \in DOMAIN lists[g] :
                lists[g][i].key = k /\ lists[g][i].size = lists'[h][j].size
    OBVIOUS
  <2> QED
    BY <1>1, <2>1, HeldKept
<1>3. Held(lists') = Held(lists)
  BY <1>1, <1>2 DEF Held
<1> QED
  BY <1>3, ResidentIsHeld DEF Abstract!vars, Residents

\* A promotion's and a demotion's nodes are the nodes there were.
LEMMA MovedNodes ==
    ASSUME IInv, NEW from \in Segments, NEW to \in Segments, NEW i \in 1 .. Len(lists[from]),
           Move(from, to, i), UNCHANGED <<cache_map, cache_size, cache_capacity>>
    PROVE  /\ Segments' = Segments
           /\ \A h \in Segments : \A j \in DOMAIN lists'[h] :
               \E g \in Segments : \E x \in DOMAIN lists[g] :
                   /\ lists[g][x].key = lists'[h][j].key
                   /\ lists[g][x].size = lists'[h][j].size
<1> DEFINE m == Retagged(lists[from][i], to)
<1>1. lists' \in Lists(Segments) /\ OneNewNode(lists, lists', to, m)
  BY MoveKeeps DEF IInv
<1>2. Segments' = Segments /\ DOMAIN lists' = Segments
  BY <1>1 DEF Segments, Lists
<1>3. lists[from] \in Seq(Node)
  BY Placed DEF Lists
<1>4. i \in DOMAIN lists[from] /\ m.key = lists[from][i].key /\ m.size = lists[from][i].size
  <2>1. i \in DOMAIN lists[from] /\ lists[from][i] \in Node
    BY <1>3
  <2> QED
    BY <2>1 DEF Node, Retagged
<1> HIDE DEF m
<1>5. ASSUME NEW h \in Segments, NEW j \in DOMAIN lists'[h]
      PROVE  \E g \in Segments : \E x \in DOMAIN lists[g] :
               lists[g][x].key = lists'[h][j].key /\ lists[g][x].size = lists'[h][j].size
  <2>1. CASE lists'[h][j] = m
    BY <2>1, <1>4
  <2>2. CASE \E x \in DOMAIN lists[h] : lists'[h][j] = lists[h][x]
    BY <2>2
  <2> QED
    BY <1>1, <1>2, <2>1, <2>2 DEF OneNewNode
<1> QED
  BY <1>2, <1>5

\* An eviction is one of the abstract cache's.
LEMMA EvictEvicts ==
    ASSUME IInv, IInv', Evict
    PROVE  Abstract!Evict
<1> DEFINE g == VictimSegment
           v == Last(lists[g]).key
<1>1. /\ lists \in Lists(Segments) /\ WellPlaced(lists) /\ cache_map = AllKeys(lists)
      /\ lists' \in Lists(Segments') /\ WellPlaced(lists') /\ cache_map' = AllKeys(lists')
  BY Placed, PlacedNext
<1>2. g \in Segments /\ lists[g] # << >> /\ lists[g] \in Seq(Node)
  BY VictimFacts, ExactFacts DEF Evict, IInv
<1>3. /\ lists' = [lists EXCEPT ![g] = Front(lists[g])] /\ cache_map' = cache_map \ {v}
      /\ request # NoRequest /\ Full /\ UNCHANGED <<cache_capacity, request>>
  BY DEF Evict
<1>4. Segments' = Segments
  BY <1>1, <1>3 DEF Segments, Lists
<1>5. KeysDistinct(lists[g])
  BY <1>1, <1>2 DEF WellPlaced, Lists
<1>6. /\ Len(lists[g]) \in Nat /\ 0 < Len(lists[g]) /\ Last(lists[g]) = lists[g][Len(lists[g])]
      /\ Front(lists[g]) \in Seq(Node) /\ Len(Front(lists[g])) = Len(lists[g]) - 1
      /\ \A i \in 1 .. Len(lists[g]) - 1 : Front(lists[g])[i] = lists[g][i]
  BY <1>2, <1>5, FrontNode
<1>7. v \in AllKeys(lists)
  <2>1. Len(lists[g]) \in DOMAIN lists[g]
    BY <1>2, <1>6
  <2>2. lists[g][Len(lists[g])].key \in AllKeys(lists)
    BY <2>1, <1>1, <1>2, HeldFacts
  <2> QED
    BY <2>2, <1>6
<1>8. \A h \in Segments : \A j \in DOMAIN lists'[h] :
        j \in DOMAIN lists[h] /\ lists'[h][j] = lists[h][j]
  <2> SUFFICES ASSUME NEW h \in Segments, NEW j \in DOMAIN lists'[h]
               PROVE  j \in DOMAIN lists[h] /\ lists'[h][j] = lists[h][j]
    OBVIOUS
  <2>1. CASE h = g
    <3>1. lists'[g] = Front(lists[g])
      BY <1>1, <1>2, <1>3 DEF Lists
    <3>2. DOMAIN Front(lists[g]) = 1 .. Len(lists[g]) - 1 /\ DOMAIN lists[g] = 1 .. Len(lists[g])
      BY <1>2, <1>6
    <3>3. j \in 1 .. Len(lists[g]) - 1 /\ j \in 1 .. Len(lists[g])
      BY <2>1, <3>1, <3>2, <1>6
    <3> QED
      BY <2>1, <3>1, <3>2, <3>3, <1>6
  <2>2. CASE h # g
    BY <2>2, <1>1, <1>3 DEF Lists
  <2> QED
    BY <2>1, <2>2
<1> HIDE DEF v, g
<1>9. AllKeys(lists') = AllKeys(lists) \ {v}
  BY <1>1, <1>3
<1>10. ASSUME NEW k \in AllKeys(lists')
       PROVE  Held(lists')[k] = Held(lists)[k]
  <2>1. \A h \in Segments : \A j \in DOMAIN lists'[h] : lists'[h][j].key = k =>
            \E x \in Segments : \E i \in DOMAIN lists[x] :
                lists[x][i].key = k /\ lists[x][i].size = lists'[h][j].size
    BY <1>8
  <2> QED
    BY <1>1, <1>4, <2>1, HeldKept
<1>11. \E victim \in DOMAIN Held(lists) :
         Held(lists') = [k \in DOMAIN Held(lists) \ {victim} |-> Held(lists)[k]]
  <2>1. DOMAIN Held(lists) = AllKeys(lists)
    BY DEF Held
  <2>2. Held(lists') = [k \in AllKeys(lists') |-> Held(lists')[k]]
    BY DEF Held
  <2> QED
    BY <2>1, <2>2, <1>7, <1>9, <1>10
<1>12. ~Abstract!Fits
  BY <1>3, FitsIffNotFull
<1>13. request \in Request
  BY <1>3 DEF IInv, TypeOK
<1>14. (IF request = NoRequest THEN NoRequest
        ELSE [key |-> request.key, chunk |-> ChunkSize(request.size)]) # NoRequest
  BY <1>3, <1>13, WantedIsNotNone
<1>15. \E victim \in DOMAIN Residents :
         Residents' = [k \in DOMAIN Residents \ {victim} |-> Residents[k]]
  BY <1>11, ResidentIsHeld, Zenon
<1>16. (IF request' = NoRequest THEN NoRequest
        ELSE [key |-> request'.key, chunk |-> ChunkSize(request'.size)])
       = (IF request = NoRequest THEN NoRequest
          ELSE [key |-> request.key, chunk |-> ChunkSize(request.size)])
  BY <1>3, Zenon
<1> QED
  BY <1>3, <1>12, <1>14, <1>15, <1>16, Zenon DEF Abstract!Evict, Residents

\* An insertion fills the abstract cache's miss.
LEMMA InsertFills ==
    ASSUME IInv, IInv', InsertNode
    PROVE  Abstract!Fill
<1> DEFINE m == [key |-> request.key, size |-> request.size, seg |-> FIRST]
           r == request.key
<1>1. /\ lists \in Lists(Segments) /\ WellPlaced(lists) /\ cache_map = AllKeys(lists)
      /\ lists' \in Lists(Segments') /\ WellPlaced(lists') /\ cache_map' = AllKeys(lists')
  BY Placed, PlacedNext
<1>2. /\ lists' = [lists EXCEPT ![FIRST] = <<m>> \o lists[FIRST]]
      /\ cache_map' = cache_map \union {r} /\ request' = NoRequest
      /\ request # NoRequest /\ ~Full /\ UNCHANGED cache_capacity
  BY DEF InsertNode
<1>3. request \in Request /\ r \notin AllKeys(lists)
  BY <1>1, <1>2 DEF IInv, TypeOK, OneCall
<1>4. m \in Node /\ m.key = r /\ m.size = request.size
  BY <1>3 DEF Request, Node, Segment, FIRST, FOURTH
<1> HIDE DEF m, r
<1>5. Segments' = Segments /\ FIRST \in Segments /\ lists[FIRST] \in Seq(Node)
  <2>1. FIRST \in Segments
    BY SegmentFacts DEF IInv
  <2> QED
    BY <2>1, <1>1, <1>2 DEF Segments, Lists
<1>6. /\ lists'[FIRST] = <<m>> \o lists[FIRST]
      /\ \A h \in Segments : h # FIRST => lists'[h] = lists[h]
  BY <1>1, <1>2, <1>5 DEF Lists
<1>7. /\ lists'[FIRST] \in Seq(Node) /\ Len(lists'[FIRST]) = Len(lists[FIRST]) + 1
      /\ lists'[FIRST][1] = m
      /\ \A i \in 1 .. Len(lists[FIRST]) : lists'[FIRST][i + 1] = lists[FIRST][i]
  BY <1>4, <1>5, <1>6
<1>8. Held(lists')[r] = ChunkSize(request.size)
  <2>1. 1 \in DOMAIN lists'[FIRST]
    BY <1>5, <1>7
  <2>2. Held(lists')[lists'[FIRST][1].key] = ChunkSize(lists'[FIRST][1].size)
    BY <2>1, <1>1, <1>5, HeldFacts
  <2> QED
    BY <2>2, <1>4, <1>7
<1>9. \A h \in Segments : \A j \in DOMAIN lists'[h] :
        lists'[h][j] = m \/ \E i \in DOMAIN lists[h] : lists'[h][j] = lists[h][i]
  <2> SUFFICES ASSUME NEW h \in Segments, NEW j \in DOMAIN lists'[h], lists'[h][j] # m
               PROVE  \E i \in DOMAIN lists[h] : lists'[h][j] = lists[h][i]
    OBVIOUS
  <2>1. CASE h = FIRST
    <3>1. j \in 1 .. Len(lists[FIRST]) + 1 /\ j # 1 /\ DOMAIN lists[FIRST] = 1 .. Len(lists[FIRST])
      BY <2>1, <1>5, <1>7
    <3>2. j - 1 \in 1 .. Len(lists[FIRST]) /\ (j - 1) + 1 = j
      BY <3>1, <1>5
    <3> QED
      BY <2>1, <3>1, <3>2, <1>7
  <2>2. CASE h # FIRST
    BY <2>2, <1>6
  <2> QED
    BY <2>1, <2>2
<1>10. ASSUME NEW k \in AllKeys(lists)
       PROVE  Held(lists')[k] = Held(lists)[k]
  <2>1. k \in AllKeys(lists') /\ k # r
    BY <1>1, <1>2, <1>3
  <2>2. \A h \in Segments : \A j \in DOMAIN lists'[h] : lists'[h][j].key = k =>
            \E x \in Segments : \E i \in DOMAIN lists[x] :
                lists[x][i].key = k /\ lists[x][i].size = lists'[h][j].size
    BY <2>1, <1>4, <1>9
  <2> QED
    BY <2>1, <2>2, <1>1, <1>5, HeldKept
<1> DEFINE W == [key |-> r, chunk |-> ChunkSize(request.size)]
           V == IF request = NoRequest THEN NoRequest ELSE W
<1>11. V # NoRequest /\ V.key = r /\ V.chunk = ChunkSize(request.size)
  BY <1>2, <1>3, WantedIsNotNone DEF r
<1> HIDE DEF W, V
<1>12. /\ V.key \notin DOMAIN Held(lists)
       /\ Held(lists') = [k \in DOMAIN Held(lists) \union {V.key} |->
                            IF k = V.key THEN V.chunk ELSE Held(lists)[k]]
  <2>1. DOMAIN Held(lists) = AllKeys(lists) /\ AllKeys(lists') = AllKeys(lists) \union {r}
    BY <1>1, <1>2 DEF Held
  <2>2. Held(lists') = [k \in AllKeys(lists') |-> Held(lists')[k]]
    BY DEF Held
  <2> QED
    BY <2>1, <2>2, <1>3, <1>8, <1>10, <1>11
<1>13. Abstract!Fits
  BY <1>2, FitsIffNotFull
<1>14. (IF request' = NoRequest THEN NoRequest
        ELSE [key |-> request'.key, chunk |-> ChunkSize(request'.size)]) = NoRequest
  BY <1>2
<1> QED
  BY <1>2, <1>11, <1>12, <1>13, <1>14, ResidentIsHeld, Zenon
     DEF Abstract!Fill, Residents, V, W, r

\* Segmented LRU is a demand-filled cache that evicts only while the object asked
\* for does not fit: its initial states are the abstract cache's, and each step
\* of its own is one of the abstract cache's or changes nothing of it.
THEOREM SegmentsImplementAbstractCache ==
    Spec => Abstract!Init /\ [][Abstract!Next]_Abstract!vars
<1>1. Init => Abstract!Init
  <2> SUFFICES ASSUME Init PROVE Abstract!Init
    OBVIOUS
  <2>1. IInv
    BY InitIInv
  <2>2. AllKeys(lists) = {}
    BY <2>1, Placed DEF Init
  <2>3. Held(lists) = [k \in {} |-> BIG]
    BY <2>2 DEF Held
  <2> QED
    BY <2>3, ResidentIsHeld DEF Init, Abstract!Init, Residents
<1>2. ASSUME IInv, IInv', [Next]_vars PROVE [Abstract!Next]_Abstract!vars
  <2>1. ASSUME NEW k \in Key, GetHit(k) PROVE UNCHANGED Abstract!vars
    <3> DEFINE g == SegmentOf(k)
               i == PositionOf(k)
    <3>1. /\ g \in Segments /\ i \in 1 .. Len(lists[g]) /\ lists[g][i].seg = g
      BY <1>2, <2>1, Found DEF IInv, GetHit
    <3>2. HighLevel(g) \in Segments
      BY <1>2, <3>1, SegmentFacts DEF IInv
    <3>3. /\ Move(g, HighLevel(g), i)
          /\ UNCHANGED <<cache_map, cache_size, cache_capacity, request>>
      BY <2>1, <3>1 DEF GetHit
    <3> HIDE DEF g, i
    <3> QED
      BY <1>2, <3>1, <3>2, <3>3, MovedNodes, MovingStutters
  <2>2. ASSUME NEW k \in Key, NEW s \in Size, GetMiss(k, s) PROVE Abstract!Next
    <3>1. /\ request = NoRequest /\ k \notin cache_map /\ request' = [key |-> k, size |-> s]
          /\ UNCHANGED <<lists, cache_capacity>>
      BY <2>2 DEF GetMiss, Idle
    <3>2. request' # NoRequest /\ request'.key = k /\ request'.size = s
      BY <3>1, NoRequestAssumption DEF NoRequestAssumption, Request
    <3>3. ChunkSize(s) \in Abstract!Chunk
      BY ChunkFacts DEF Abstract!Chunk
    <3>4. k \notin DOMAIN Held(lists) /\ Held(lists') = Held(lists)
      BY <1>2, <3>1, Placed DEF Held
    <3>5. Abstract!Miss(k, ChunkSize(s))
      BY <3>1, <3>2, <3>4, ResidentIsHeld DEF Abstract!Miss, Residents
    <3> QED
      BY <3>3, <3>5 DEF Abstract!Next
  <2>3. CASE Demote
    <3> DEFINE i == Len(lists[level])
    <3>1. /\ level \in Segments /\ level > 0 /\ lists[level] # << >> /\ Move(level, LowLevel(level), i)
          /\ UNCHANGED <<cache_map, cache_size, cache_capacity, request>>
      BY <1>2, <2>3, SegmentFacts DEF IInv, Demote
    <3>2. LowLevel(level) \in Segments
      BY <1>2, <3>1, SegmentFacts DEF IInv
    <3>3. i \in 1 .. Len(lists[level])
      <4>1. lists[level] \in Seq(Node)
        BY <1>2, <3>1, Placed DEF Lists
      <4> QED
        BY <4>1, <3>1
    <3> HIDE DEF i
    <3> QED
      BY <1>2, <3>1, <3>2, <3>3, MovedNodes, MovingStutters
  <2>4. CASE NextLevel \/ UNCHANGED vars
    <3>1. UNCHANGED <<lists, request, cache_capacity>>
      BY <2>4 DEF NextLevel, vars
    <3>2. Held(lists') = Held(lists)
      BY <3>1
    <3> QED
      BY <3>1, <3>2, ResidentIsHeld DEF Abstract!vars, Residents
  <2>5. CASE Evict
    BY <1>2, <2>5, EvictEvicts DEF Abstract!Next
  <2>6. CASE InsertNode
    BY <1>2, <2>6, InsertFills DEF Abstract!Next
  <2> QED
    BY <1>2, <2>1, <2>2, <2>3, <2>4, <2>5, <2>6 DEF Next, Get, Proceed
<1> QED
  BY <1>1, <1>2, InitIInv, StepKeeps, PTL DEF Spec
-----------------------------------------------------------------------------
(* SLRUCheckpoint: what holds on cold and on warm days *)

\* The lines of a file, and the keys its node lines name.
Line == [kind : {"segment"}, seg : Nat] \union [kind : {"node"}, key : Key, size : Size]

NodeLinesOf(f) == { i \in DOMAIN f : f[i].kind = "node" }
LineKeys(f) == { f[i].key : i \in NodeLinesOf(f) }
LinesDistinct(f) == \A i, j \in NodeLinesOf(f) : f[i].key = f[j].key => i = j
HeadersIn(f, S) == \A i \in DOMAIN f : f[i].kind = "segment" => f[i].seg \in S

\* The shape of the session; cache_size_ may wrap on a warm day.
SessionTypes ==
    /\ phase \in {"off", "load", "run", "save", "undefined"}
    /\ input \in Seq(Line) /\ file \in Seq(Line)
    /\ cache_size \in Word /\ loaded \in Word

\* cur_idx_ names a list, unless a save has run past the last one; there is no
\* way back from there, nor an end of the save.
CurrentList ==
    \/ cur_idx \in Segments
    \/ cur_idx = Count /\ cache_size # 0 /\ phase \in {"save", "undefined"}

\* No file names a key twice, nor a list that is not there; what is still to be
\* loaded is not in the cache, and what is saved is no longer.
FilesAreSound ==
    /\ LinesDistinct(file)
    /\ cur_idx \in Segments => HeadersIn(file, Segments)
    /\ phase = "load" =>
         /\ LinesDistinct(input) /\ HeadersIn(input, Segments)
         /\ LineKeys(input) \cap cache_map = {}
    /\ phase = "save" => LineKeys(file) \cap cache_map = {}

\* Only the replay calls get() and insert(), and a load counts nothing.
CallsAreReplayed ==
    /\ phase # "run" => Idle
    /\ phase = "load" => cache_size = 0

\* cache_size_ and what it does not count are the bytes stored.
Lag == Plus(cache_size, loaded) = SumOver(sizes, Segments)

\* The inductive invariant.
WarmInv ==
    /\ TypeOK /\ NodesWellPlaced /\ Counted /\ OneCall
    /\ SessionTypes /\ CurrentList /\ FilesAreSound /\ CallsAreReplayed /\ Lag

-----------------------------------------------------------------------------
\* The bytes of all that can be stored, and of one more chunk, fit in a word.
LEMMA RoomForAll ==
    ASSUME TypeOK, NodesWellPlaced, Counted
    PROVE  Roomy
<1> DEFINE B == { k \in AllKeys(lists) : Held(lists)[k] = BIG }
           T == { k \in AllKeys(lists) : Held(lists)[k] = TINY }
           b == Cardinality(B)
           t == Cardinality(T)
           n == Cardinality(Key)
<1>1. /\ lists \in Lists(Segments) /\ Segments \in ListSets /\ WellPlaced(lists)
      /\ AllKeys(lists) = cache_map /\ cache_map \subseteq Key
  BY SegmentFacts DEF TypeOK, NodesWellPlaced, WellPlaced, AllKeys, Segments
<1>2. BIG * b + TINY * t = SumOver(sizes, Segments)
  BY <1>1, HeldLoad, Zenon DEF Counted
<1>3. IsFiniteSet(Key) /\ BIG * (n + 1) < WORD
  BY KeysAssumption DEF KeysAssumption
<1>4. B \subseteq Key /\ T \subseteq Key /\ B \cap T = {}
  BY <1>1, ChunkFacts
<1> HIDE DEF B, T
<1>5. IsFiniteSet(B) /\ IsFiniteSet(T) /\ b \in Nat /\ t \in Nat /\ n \in Nat
  BY <1>3, <1>4, FS_Subset, FS_CardinalityType
<1>6. b + t <= n
  <2>1. Cardinality(B \union T) = Cardinality(B) + Cardinality(T) - Cardinality(B \cap T)
    BY <1>5, FS_Union
  <2>2. Cardinality(B \cap T) = 0
    BY <1>4, FS_EmptySet
  <2>3. B \union T \subseteq Key
    BY <1>4
  <2>4. Cardinality(B \union T) <= n
    BY <1>3, <2>3, FS_Subset
  <2> QED
    BY <1>5, <2>1, <2>2, <2>4
<1> HIDE DEF b, t, n
<1>7. BIG * b + TINY * t <= BIG * n
  <2>1. ASSUME NEW d \in Nat PROVE TINY * d <= BIG * d /\ TINY * d \in Nat /\ BIG * d \in Nat
    <3>1. BIG - TINY \in Nat /\ BIG \in Nat /\ TINY \in Nat
      BY ChunkFacts
    <3>2. BIG * d = TINY * d + (BIG - TINY) * d /\ (BIG - TINY) * d \in Nat /\ TINY * d \in Nat
      BY <3>1
    <3> QED
      BY <3>1, <3>2
  <2>2. BIG * n = BIG * b + (BIG * t + BIG * (n - (b + t))) /\ n - (b + t) \in Nat
    BY <1>5, <1>6, ChunkFacts
  <2> QED
    BY <2>1, <2>2, <1>5
<1>8. BIG * (n + 1) = BIG * n + BIG
  BY <1>5, ChunkFacts
<1>9. /\ BIG * n \in Nat /\ SumOver(sizes, Segments) \in Nat /\ BIG \in Nat /\ WORD \in Nat
  BY <1>5, CounterFacts, ChunkFacts
<1> QED
  BY <1>2, <1>3, <1>7, <1>8, <1>9 DEF Roomy

\* The lists are numbered from 0 to Count - 1.
LEMMA CountFacts ==
    ASSUME TypeOK
    PROVE  /\ Count \in Nat /\ Count > 1 /\ Segments = 0 .. Count - 1
           /\ \A g \in Nat : g < Count <=> g \in Segments
<1>1. PICK n \in {2, 3, 4} : Segments = ListsOf(n)
  BY SegmentFacts
<1>2. Count = n
  <2>1. 0 \in Int /\ n - 1 \in Int /\ ~(0 > n - 1) /\ (n - 1) - 0 + 1 = n
    OBVIOUS
  <2> QED
    BY <2>1, <1>1, FS_Interval DEF Count, ListsOf
<1> QED
  BY <1>1, <1>2 DEF ListsOf

\* The first line read.
LEMMA TailLines ==
    ASSUME NEW f \in Seq(Line), f # << >>, LinesDistinct(f)
    PROVE  /\ Head(f) \in Line /\ Tail(f) \in Seq(Line) /\ LinesDistinct(Tail(f))
           /\ LineKeys(Tail(f)) \subseteq LineKeys(f)
           /\ \A S : HeadersIn(f, S) =>
                HeadersIn(Tail(f), S) /\ (Head(f).kind = "segment" => Head(f).seg \in S)
           /\ Head(f).kind = "node" =>
                Head(f).key \in LineKeys(f) /\ Head(f).key \notin LineKeys(Tail(f))
<1> DEFINE t == Tail(f)
<1>1. /\ Len(f) \in Nat /\ Len(f) > 0 /\ Head(f) = f[1] /\ Head(f) \in Line
      /\ t \in Seq(Line) /\ DOMAIN t = 1 .. Len(f) - 1 /\ DOMAIN f = 1 .. Len(f)
      /\ \A i \in 1 .. Len(f) - 1 : t[i] = f[i + 1]
  OBVIOUS
<1> HIDE DEF t
<1>2. \A i \in DOMAIN t : i + 1 \in DOMAIN f /\ t[i] = f[i + 1] /\ i + 1 # 1
  BY <1>1
<1>3. \A i \in NodeLinesOf(t) : i \in Int /\ i + 1 \in NodeLinesOf(f) /\ t[i] = f[i + 1] /\ i + 1 # 1
  BY <1>1, <1>2 DEF NodeLinesOf
<1>4. LinesDistinct(t)
  BY <1>3 DEF LinesDistinct
<1>5. LineKeys(t) \subseteq LineKeys(f)
  BY <1>3 DEF LineKeys
<1>6. \A S : HeadersIn(f, S) => HeadersIn(t, S) /\ (Head(f).kind = "segment" => Head(f).seg \in S)
  BY <1>1, <1>2 DEF HeadersIn
<1>7. ASSUME Head(f).kind = "node"
      PROVE  Head(f).key \in LineKeys(f) /\ Head(f).key \notin LineKeys(t)
  <2>1. 1 \in NodeLinesOf(f)
    BY <1>1, <1>7 DEF NodeLinesOf
  <2> QED
    BY <2>1, <1>1, <1>3 DEF LineKeys, LinesDistinct
<1> QED
  BY <1>1, <1>4, <1>5, <1>6, <1>7 DEF t

\* A line written.
LEMMA AppendLine ==
    ASSUME NEW f \in Seq(Line), NEW l \in Line, LinesDistinct(f),
           l.kind = "node" => l.key \notin LineKeys(f)
    PROVE  /\ Append(f, l) \in Seq(Line) /\ LinesDistinct(Append(f, l))
           /\ LineKeys(Append(f, l)) \subseteq
                LineKeys(f) \union (IF l.kind = "node" THEN {l.key} ELSE {})
           /\ \A S : HeadersIn(f, S) /\ (l.kind = "segment" => l.seg \in S) =>
                HeadersIn(Append(f, l), S)
<1> DEFINE t == Append(f, l)
           n == Len(f) + 1
<1>1. /\ t \in Seq(Line) /\ t[n] = l
      /\ \A i \in DOMAIN t : i = n \/ (i \in DOMAIN f /\ t[i] = f[i])
  OBVIOUS
<1> HIDE DEF t, n
<1>2. \A i \in NodeLinesOf(t) :
         \/ i = n /\ l.kind = "node" /\ t[i] = l
         \/ i \in NodeLinesOf(f) /\ t[i] = f[i] /\ f[i].key \in LineKeys(f)
  BY <1>1 DEF NodeLinesOf, LineKeys
<1>3. LinesDistinct(t)
  BY <1>2 DEF LinesDistinct
<1>4. LineKeys(t) \subseteq LineKeys(f) \union (IF l.kind = "node" THEN {l.key} ELSE {})
  BY <1>2 DEF LineKeys
<1>5. \A S : HeadersIn(f, S) /\ (l.kind = "segment" => l.seg \in S) => HeadersIn(t, S)
  BY <1>1 DEF HeadersIn
<1> QED
  BY <1>1, <1>3, <1>4, <1>5 DEF t
-----------------------------------------------------------------------------
\* The first call finds no file.
LEMMA WarmInit == CheckpointInit => WarmInv
<1> SUFFICES ASSUME CheckpointInit PROVE WarmInv
  OBVIOUS
<1>1. IInv
  BY InitIInv DEF CheckpointInit
<1>2. TypeOK /\ NodesWellPlaced /\ Counted /\ OneCall /\ cache_size = SumOver(sizes, Segments) /\ Roomy
  BY <1>1, ExactFacts DEF IInv
<1>3. cache_size = 0 /\ level = 0 /\ request = NoRequest /\ cache_map = {} /\ WORD \in Nat /\ 0 < WORD
  BY ChunkFacts, BaseAssumption DEF CheckpointInit, Init, BaseAssumption, KeysAssumption
<1>4. SessionTypes /\ Lag
  BY <1>2, <1>3 DEF CheckpointInit, SessionTypes, Lag, Word, Plus
<1>5. CurrentList /\ CallsAreReplayed
  BY <1>2, <1>3, SegmentFacts DEF CheckpointInit, CurrentList, CallsAreReplayed, Idle, FIRST
<1>6. FilesAreSound
  <2>1. NodeLinesOf(file) = {} /\ DOMAIN file = {}
    BY DEF CheckpointInit, NodeLinesOf
  <2> QED
    BY <2>1, <1>3 DEF CheckpointInit, FilesAreSound, LinesDistinct, HeadersIn
<1> QED
  BY <1>2, <1>4, <1>5, <1>6 DEF WarmInv

\* A new day begins with an empty cache.
LEMMA StartDayKeeps ==
    ASSUME WarmInv, StartDay
    PROVE  WarmInv'
<1>1. /\ TypeOK /\ SessionTypes /\ CurrentList /\ FilesAreSound /\ phase = "off"
      /\ cur_idx \in Segments
  BY DEF WarmInv, StartDay, CurrentList
<1>2. /\ lists' = [g \in Segments |-> << >>] /\ sizes' = [g \in Segments |-> 0]
      /\ cache_map' = {} /\ cache_size' = 0 /\ level' = 0 /\ request' = NoRequest
      /\ hits' = [k \in Key |-> 0] /\ UNCHANGED <<cache_capacity, file>>
      /\ phase' = "load" /\ input' = file /\ cur_idx' = 0 /\ loaded' = 0
  BY DEF StartDay
<1>3. TypeOK' /\ Segments' = Segments
  <2>1. lists' \in Lists(Segments) /\ sizes' \in Counters(Segments)
    BY <1>2 DEF Lists, Counters
  <2>2. 0 \in Segment /\ 0 \in Segments
    BY <1>1, SegmentFacts DEF Segment, FIRST, FOURTH
  <2>3. hits' \in [Key -> Segment] /\ level' \in Segments /\ cache_map' \subseteq Key
    BY <2>2, <1>2
  <2>4. cache_size' \in Nat /\ cache_capacity' = cache_capacity /\ request' \in Request \union {NoRequest}
    BY <1>2
  <2> QED
    BY <2>1, <2>3, <2>4, <1>1, TypeAfter
<1>4. \A g \in Segments : lists'[g] = << >> /\ sizes'[g] = 0 /\ DOMAIN lists'[g] = {}
  BY <1>2
<1>5. NodesWellPlaced' /\ Counted'
  <2>1. \A g \in Segments : KeysOf(lists'[g]) = {}
    BY <1>4 DEF KeysOf
  <2> QED
    BY <2>1, <1>2, <1>3, <1>4, BytesEmpty DEF NodesWellPlaced, KeysDistinct, Counted
<1>6. OneCall' /\ CallsAreReplayed'
  BY <1>2 DEF OneCall, CallsAreReplayed, Idle
<1>7. SessionTypes' /\ CurrentList'
  <2>1. 0 \in Word /\ 0 \in Segments
    BY <1>1, SegmentFacts, ChunkFacts, KeysAssumption DEF Word, SessionTypes, FIRST
  <2> QED
    BY <2>1, <1>1, <1>2, <1>3 DEF SessionTypes, CurrentList
<1>8. FilesAreSound'
  BY <1>1, <1>2, <1>3 DEF FilesAreSound
<1>9. Lag'
  <2>1. SumOver(sizes', Segments') = 0
    BY <1>3, <1>4 DEF SumOver, Share
  <2>2. Plus(0, 0) = 0
    BY <1>1, ChunkFacts DEF Plus, Word, SessionTypes
  <2> QED
    BY <2>1, <2>2, <1>2 DEF Lag
<1> QED
  BY <1>3, <1>5, <1>6, <1>7, <1>8, <1>9 DEF WarmInv

\* What a step that leaves the cache alone must show.
LEMMA CacheAlone ==
    ASSUME WarmInv, UNCHANGED vars
    PROVE  /\ TypeOK' /\ NodesWellPlaced' /\ Counted' /\ OneCall' /\ Segments' = Segments
           /\ Count' = Count
           /\ (loaded' = loaded => Lag') /\ (Idle => Idle')
           /\ cache_map' = cache_map /\ cache_size' = cache_size
<1>1. Segments' = Segments /\ Count' = Count
  BY DEF vars, Segments, Count
<1>2. TypeOK'
  BY DEF WarmInv, TypeOK, vars
<1>3. NodesWellPlaced' /\ Counted' /\ OneCall'
  BY <1>1 DEF WarmInv, NodesWellPlaced, Counted, OneCall, vars
<1>4. (loaded' = loaded => Lag') /\ (Idle => Idle')
  BY <1>1 DEF WarmInv, Lag, Idle, vars
<1> QED
  BY <1>1, <1>2, <1>3, <1>4 DEF vars

\* A header line is read.
LEMMA PushHeaderKeeps ==
    ASSUME WarmInv, PushHeader
    PROVE  WarmInv'
<1>1. /\ SessionTypes /\ FilesAreSound /\ CallsAreReplayed
      /\ phase = "load" /\ input # << >> /\ Head(input).kind = "segment"
      /\ input' = Tail(input) /\ cur_idx' = Head(input).seg
      /\ UNCHANGED <<phase, file, loaded>> /\ UNCHANGED vars
  BY DEF WarmInv, PushHeader, ReadLine
<1>2. /\ TypeOK' /\ NodesWellPlaced' /\ Counted' /\ OneCall' /\ Segments' = Segments /\ Lag'
      /\ (Idle => Idle') /\ cache_map' = cache_map /\ cache_size' = cache_size
  BY <1>1, CacheAlone
<1>3. /\ input \in Seq(Line) /\ LinesDistinct(input) /\ HeadersIn(input, Segments)
      /\ LineKeys(input) \cap cache_map = {}
  BY <1>1 DEF SessionTypes, FilesAreSound
<1>4. /\ input' \in Seq(Line) /\ LinesDistinct(input') /\ HeadersIn(input', Segments)
      /\ LineKeys(input') \subseteq LineKeys(input) /\ cur_idx' \in Segments
  BY <1>1, <1>3, TailLines
<1>5. SessionTypes' /\ CurrentList' /\ CallsAreReplayed'
  BY <1>1, <1>2, <1>4 DEF SessionTypes, CurrentList, CallsAreReplayed
<1>6. cur_idx \in Segments
  BY <1>1 DEF WarmInv, CurrentList
<1>7. FilesAreSound'
  BY <1>1, <1>2, <1>3, <1>4, <1>6 DEF FilesAreSound
<1> QED
  BY <1>2, <1>5, <1>7 DEF WarmInv

\* Push() of a node line.
LEMMA PushNodeKeeps ==
    ASSUME WarmInv, PushNode
    PROVE  WarmInv'
<1> DEFINE l == Head(input)
           m == [key |-> l.key, size |-> l.size, seg |-> cur_idx]
           c == ChunkSize(l.size)
           t == Append(lists[cur_idx], m)
<1>1. /\ TypeOK /\ NodesWellPlaced /\ Counted /\ OneCall /\ SessionTypes /\ FilesAreSound
      /\ CallsAreReplayed /\ Lag /\ phase = "load" /\ cur_idx \in Segments
  BY DEF WarmInv, PushNode, ReadLine, CurrentList
<1>2. Roomy
  BY <1>1, RoomForAll
<1>3. /\ input # << >> /\ l.kind = "node" /\ input' = Tail(input)
      /\ lists' = [lists EXCEPT ![cur_idx] = t]
      /\ sizes' = [sizes EXCEPT ![cur_idx] = Plus(@, c)]
      /\ cache_map' = cache_map \union {l.key} /\ loaded' = loaded + c
      /\ hits' = [hits EXCEPT ![l.key] = cur_idx]
      /\ UNCHANGED <<cache_size, cache_capacity, level, request, phase, cur_idx, file>>
  BY DEF PushNode, ReadLine, PushedBack, SizesLoaded
<1>4. /\ input \in Seq(Line) /\ LinesDistinct(input) /\ HeadersIn(input, Segments)
      /\ LineKeys(input) \cap cache_map = {} /\ cache_size = 0 /\ Idle
  BY <1>1 DEF SessionTypes, FilesAreSound, CallsAreReplayed
<1>5. /\ l \in Line /\ input' \in Seq(Line) /\ LinesDistinct(input') /\ HeadersIn(input', Segments)
      /\ LineKeys(input') \subseteq LineKeys(input)
      /\ l.key \in LineKeys(input) /\ l.key \notin LineKeys(input')
  BY <1>3, <1>4, TailLines
<1> HIDE DEF l
<1>6. l.key \in Key /\ l.size \in Size /\ cur_idx \in Segment
  BY <1>1, <1>3, <1>5, SegmentFacts DEF Line
<1>7. /\ m \in Node /\ m.seg = cur_idx /\ m.key = l.key /\ m.size = l.size
      /\ m.key \notin cache_map
  BY <1>4, <1>5, <1>6 DEF Node
<1> HIDE DEF m
<1>8. IsWith(lists[cur_idx], m, t)
  <2>1. /\ lists[cur_idx] \in Seq(Node) /\ KeysDistinct(lists[cur_idx])
        /\ m.key \notin KeysOf(lists[cur_idx])
    BY <1>1, <1>7, SegmentFacts DEF Lists, NodesWellPlaced
  <2> QED
    BY <2>1, <1>7, AppendIsWith
<1> HIDE DEF t
<1>9. /\ lists' \in Lists(Segments) /\ sizes' \in Counters(Segments)
      /\ NodesWellPlaced' /\ Counted' /\ Segments' = Segments
      /\ SumOver(sizes', Segments) = SumOver(sizes, Segments) + c
  <2>1. /\ sizes' = [sizes EXCEPT ![cur_idx] = Plus(@, ChunkSize(m.size))]
        /\ cache_map' = cache_map \union {m.key} /\ c = ChunkSize(m.size)
    BY <1>3, <1>7
  <2> QED
    BY <2>1, <1>1, <1>2, <1>3, <1>7, <1>8, PutCounts
<1>10. TypeOK'
  <2>1. hits' \in [Key -> Segment]
    BY <1>1, <1>3, <1>6 DEF TypeOK
  <2>2. cache_map' \subseteq Key /\ level' \in Segments /\ cache_size' \in Nat
    BY <1>1, <1>3, <1>6, SegmentFacts DEF TypeOK
  <2>3. request' \in Request \union {NoRequest} /\ cache_capacity' = cache_capacity
    BY <1>1, <1>3 DEF TypeOK
  <2> QED
    BY <2>1, <2>2, <2>3, <1>1, <1>9, TypeAfter
<1>11. loaded' \in Word /\ Lag'
  <2>1. /\ loaded \in Word /\ c \in Nat /\ c <= BIG /\ BIG \in Nat /\ WORD \in Nat
        /\ SumOver(sizes, Segments) + BIG < WORD /\ SumOver(sizes, Segments) \in Nat
    BY <1>1, <1>2, ChunkBound, ChunkFacts, CounterFacts DEF SessionTypes, Roomy
  <2>2. loaded = SumOver(sizes, Segments)
    BY <2>1, <1>1, <1>4 DEF Lag, Plus, Word
  <2> HIDE DEF c
  <2>3. loaded' \in Word /\ Plus(0, loaded') = SumOver(sizes', Segments)
    BY <2>1, <2>2, <1>3, <1>9 DEF Plus, Word
  <2> QED
    BY <2>3, <1>3, <1>4, <1>9 DEF Lag
<1>12. SessionTypes' /\ CurrentList'
  BY <1>1, <1>3, <1>5, <1>9, <1>11 DEF SessionTypes, CurrentList
<1>13. FilesAreSound'
  <2>1. LineKeys(input') \cap cache_map' = {}
    BY <1>3, <1>4, <1>5
  <2> QED
    BY <2>1, <1>1, <1>3, <1>5, <1>9 DEF FilesAreSound
<1>14. OneCall' /\ CallsAreReplayed'
  BY <1>3, <1>4 DEF OneCall, CallsAreReplayed, Idle
<1> QED
  BY <1>9, <1>10, <1>11, <1>12, <1>13, <1>14 DEF WarmInv

\* The file has been read.
LEMMA LoadDoneKeeps ==
    ASSUME WarmInv, LoadDone
    PROVE  WarmInv'
<1>1. /\ SessionTypes /\ FilesAreSound /\ phase = "load" /\ phase' = "run"
      /\ UNCHANGED vars /\ UNCHANGED <<cur_idx, input, file, loaded>> /\ cur_idx \in Segments
  BY DEF WarmInv, LoadDone, CurrentList
<1>2. /\ TypeOK' /\ NodesWellPlaced' /\ Counted' /\ OneCall' /\ Segments' = Segments /\ Lag'
      /\ cache_size' = cache_size
  BY <1>1, CacheAlone
<1>3. SessionTypes' /\ CurrentList' /\ FilesAreSound' /\ CallsAreReplayed'
  BY <1>1, <1>2 DEF SessionTypes, CurrentList, FilesAreSound, CallsAreReplayed
<1> QED
  BY <1>2, <1>3 DEF WarmInv
-----------------------------------------------------------------------------
\* The replay is the segmented cache at work; it leaves the session alone.
LEMMA ReplayKeeps ==
    ASSUME WarmInv, phase = "run", UNCHANGED <<phase, cur_idx, input, file, loaded>>,
           TypeOK', NodesWellPlaced', Counted', OneCall', Segments' = Segments,
           cache_size' \in Word, Lag'
    PROVE  WarmInv'
<1>1. SessionTypes /\ FilesAreSound /\ cur_idx \in Segments
  BY DEF WarmInv, CurrentList
<1>2. SessionTypes' /\ CurrentList' /\ FilesAreSound' /\ CallsAreReplayed'
  BY <1>1 DEF SessionTypes, CurrentList, FilesAreSound, CallsAreReplayed
<1> QED
  BY <1>2 DEF WarmInv

\* A promotion or a demotion leaves the sum alone.
LEMMA MoveLags ==
    ASSUME WarmInv, phase = "run", UNCHANGED <<phase, cur_idx, input, file, loaded>>,
           NEW from \in Segments, NEW to \in Segments, NEW i \in 1 .. Len(lists[from]),
           Move(from, to, i), UNCHANGED <<cache_map, cache_size, cache_capacity, request>>,
           level' \in Segments, request = NoRequest, hits' \in [Key -> Segment]
    PROVE  WarmInv'
<1>1. TypeOK /\ NodesWellPlaced /\ Counted /\ SessionTypes /\ Lag
  BY DEF WarmInv
<1>2. /\ lists' \in Lists(Segments) /\ sizes' \in Counters(Segments)
      /\ NodesWellPlaced' /\ Counted' /\ Segments' = Segments
      /\ SumOver(sizes', Segments) = SumOver(sizes, Segments)
  BY <1>1, RoomForAll, MoveCounts
<1>3. TypeOK'
  <2>1. /\ cache_map' \subseteq Key /\ cache_size' \in Nat /\ cache_capacity' = cache_capacity
        /\ request' \in Request \union {NoRequest}
    BY <1>1 DEF TypeOK
  <2> QED
    BY <2>1, <1>1, <1>2, TypeAfter
<1>4. Lag' /\ OneCall' /\ cache_size' \in Word
  BY <1>1, <1>2 DEF Lag, OneCall, SessionTypes
<1> QED
  BY <1>2, <1>3, <1>4, ReplayKeeps

\* get() of a trace line.
LEMMA RunGetKeeps ==
    ASSUME WarmInv, RunGet
    PROVE  WarmInv'
<1>1. /\ TypeOK /\ NodesWellPlaced /\ Counted /\ SessionTypes /\ Lag
      /\ phase = "run" /\ UNCHANGED <<phase, cur_idx, input, file, loaded>>
  BY DEF WarmInv, RunGet
<1>2. ASSUME NEW k \in Key, GetHit(k)
      PROVE  WarmInv'
  <2> DEFINE from == SegmentOf(k)
             i == PositionOf(k)
             to == HighLevel(from)
  <2>1. /\ from \in Segments /\ i \in 1 .. Len(lists[from]) /\ lists[from][i].seg = from
    BY <1>1, <1>2, Found DEF GetHit
  <2>2. to \in Segments
    BY <1>1, <2>1, SegmentFacts
  <2>3. Move(from, to, i)
    BY <1>2, <2>1 DEF GetHit
  <2>4. /\ UNCHANGED <<cache_map, cache_size, cache_capacity, request>>
        /\ request = NoRequest /\ level' = HighestLevel
        /\ hits' = [hits EXCEPT ![k] = Lesser(FOURTH, hits[k] + 1)]
    BY <1>2 DEF GetHit, Idle
  <2>5. hits' \in [Key -> Segment] /\ level' \in Segments
    <3>1. hits \in [Key -> Segment]
      BY <1>1 DEF TypeOK
    <3>2. Lesser(FOURTH, hits[k] + 1) \in Segment
      BY <3>1 DEF Segment, FIRST, FOURTH, Lesser
    <3> QED
      BY <3>1, <3>2, <2>4, <1>1, SegmentFacts
  <2> HIDE DEF from, i, to
  <2> QED
    BY <2>1, <2>2, <2>3, <2>4, <2>5, <1>1, MoveLags
<1>3. ASSUME NEW k \in Key, NEW s \in Size, GetMiss(k, s)
      PROVE  WarmInv'
  <2>1. /\ UNCHANGED <<lists, sizes, cache_map, cache_size, cache_capacity, level, hits>>
        /\ request' = [key |-> k, size |-> s] /\ k \notin cache_map /\ level = 0
    BY <1>3 DEF GetMiss, Idle
  <2>2. request' \in Request /\ request'.key = k
    BY <2>1 DEF Request
  <2>3. Segments' = Segments
    BY <2>1 DEF Segments
  <2>4. TypeOK'
    BY <1>1, <2>1, <2>2 DEF TypeOK
  <2>5. NodesWellPlaced' /\ Counted' /\ OneCall'
    BY <1>1, <2>1, <2>2, <2>3 DEF NodesWellPlaced, Counted, OneCall
  <2>6. Lag' /\ cache_size' \in Word
    BY <1>1, <2>1, <2>3 DEF Lag, SessionTypes
  <2> QED
    BY <1>1, <2>3, <2>4, <2>5, <2>6, ReplayKeeps
<1> QED
  BY <1>2, <1>3 DEF RunGet, Get

\* cache_size_ may pass below zero: the word comes around with the sum.
LEMMA LagAfterLess ==
    ASSUME NEW a \in Word, NEW b \in Word, NEW S \in Nat, NEW c \in Nat,
           Plus(a, b) = S, c <= S
    PROVE  Minus(a, c) \in Word /\ Plus(Minus(a, c), b) = S - c
<1>1. WORD \in Nat
  BY ChunkFacts
<1>2. a \in Nat /\ b \in Nat /\ a < WORD /\ b < WORD
  BY <1>1 DEF Word
<1>3. S < WORD
  BY <1>1, <1>2 DEF Plus
<1>4. CASE c <= a
  <2>1. Minus(a, c) = a - c /\ a - c \in Word
    BY <1>1, <1>2, <1>4 DEF Minus, Word
  <2> QED
    BY <2>1, <1>1, <1>2, <1>4 DEF Plus
<1>5. CASE a < c
  <2>1. Minus(a, c) = (a + WORD) - c /\ (a + WORD) - c \in Word
    BY <1>1, <1>2, <1>3, <1>5 DEF Minus, Word
  <2> QED
    BY <2>1, <1>1, <1>2, <1>3, <1>5 DEF Plus
<1> QED
  BY <1>2, <1>4, <1>5

LEMMA LagAfterMore ==
    ASSUME NEW a \in Word, NEW b \in Word, NEW S \in Nat, NEW c \in Nat,
           Plus(a, b) = S, S + c < WORD
    PROVE  Plus(a, c) \in Word /\ Plus(Plus(a, c), b) = S + c
<1>1. WORD \in Nat
  BY ChunkFacts
<1>2. a \in Nat /\ b \in Nat /\ a < WORD /\ b < WORD
  BY <1>1 DEF Word
<1>3. CASE a + c < WORD
  <2>1. Plus(a, c) = a + c /\ a + c \in Word
    BY <1>1, <1>2, <1>3 DEF Plus, Word
  <2> QED
    BY <2>1, <1>1, <1>2, <1>3 DEF Plus
<1>4. CASE ~(a + c < WORD)
  <2>1. Plus(a, c) = (a + c) - WORD /\ (a + c) - WORD \in Word
    BY <1>1, <1>2, <1>4 DEF Plus, Word
  <2> QED
    BY <2>1, <1>1, <1>2, <1>4 DEF Plus
<1> QED
  BY <1>3, <1>4

\* The running call's next step.
LEMMA RunProceedKeeps ==
    ASSUME WarmInv, RunProceed
    PROVE  WarmInv'
<1>1. /\ TypeOK /\ NodesWellPlaced /\ Counted /\ OneCall /\ SessionTypes /\ Lag
      /\ phase = "run" /\ UNCHANGED <<phase, cur_idx, input, file, loaded>>
  BY DEF WarmInv, RunProceed, session
<1>2. Roomy
  BY <1>1, RoomForAll
<1>3. /\ cache_size \in Word /\ loaded \in Word /\ SumOver(sizes, Segments) \in Nat
      /\ Plus(cache_size, loaded) = SumOver(sizes, Segments)
  BY <1>1, CounterFacts DEF SessionTypes, Lag
<1>4. CASE Demote
  <2> DEFINE i == Len(lists[level])
             to == LowLevel(level)
  <2>1. /\ Move(level, to, i) /\ level > 0 /\ lists[level] # << >>
        /\ UNCHANGED <<cache_map, cache_size, cache_capacity, level, request, hits>>
    BY <1>4 DEF Demote
  <2>2. level \in Segments /\ lists[level] \in Seq(Node) /\ hits \in [Key -> Segment]
    BY <1>1, SegmentFacts DEF Lists, TypeOK
  <2>3. i \in 1 .. Len(lists[level]) /\ to \in Segments
    BY <1>1, <2>1, <2>2, SegmentFacts
  <2>4. request = NoRequest
    BY <1>1, <2>1, <2>2, SegmentFacts DEF OneCall
  <2>5. hits' \in [Key -> Segment] /\ level' \in Segments
    BY <2>1, <2>2
  <2> HIDE DEF i, to
  <2> QED
    BY <2>1, <2>2, <2>3, <2>4, <2>5, <1>1, MoveLags
<1>5. CASE NextLevel
  <2>1. /\ UNCHANGED <<lists, sizes, cache_map, cache_size, cache_capacity, request, hits>>
        /\ level > 0 /\ level' = level - 1
    BY <1>5 DEF NextLevel, NextDown
  <2>2. level' \in Segments /\ lists \in Lists(Segments) /\ sizes \in Counters(Segments)
    BY <1>1, <2>1, SegmentFacts
  <2>3. TypeOK' /\ Segments' = Segments
    BY <1>1, <2>1, <2>2, TypeAfter DEF TypeOK
  <2>4. NodesWellPlaced' /\ Counted'
    BY <1>1, <2>1, <2>3 DEF NodesWellPlaced, Counted
  <2>5. OneCall'
    <3>1. level \in Nat
      BY <1>1, SegmentFacts
    <3> QED
      BY <3>1, <1>1, <2>1 DEF OneCall
  <2>6. Lag' /\ cache_size' \in Word
    BY <1>1, <1>3, <2>1, <2>3 DEF Lag
  <2> QED
    BY <1>1, <2>3, <2>4, <2>5, <2>6, ReplayKeeps
<1>6. CASE Evict
  <2>1. PICK g \in Segments, node \in Node :
           /\ node.key \in Key
           /\ lists' \in Lists(Segments) /\ sizes' \in Counters(Segments)
           /\ NodesWellPlaced' /\ Counted' /\ Segments' = Segments
           /\ ChunkSize(node.size) <= SumOver(sizes, Segments)
           /\ SumOver(sizes', Segments) = SumOver(sizes, Segments) - ChunkSize(node.size)
           /\ cache_size' = Minus(cache_size, ChunkSize(node.size))
           /\ cache_map' = cache_map \ {node.key}
           /\ hits' = [hits EXCEPT ![node.key] = 0]
    BY <1>1, <1>6, EvictCounts
  <2>2. UNCHANGED <<cache_capacity, level, request>>
    BY <1>6 DEF Evict
  <2>3. ChunkSize(node.size) \in Nat
    BY ChunkBound
  <2>4. /\ cache_size' \in Word
        /\ Plus(cache_size', loaded) = SumOver(sizes, Segments) - ChunkSize(node.size)
    BY <1>3, <2>1, <2>3, LagAfterLess
  <2>5. Lag' /\ OneCall'
    BY <1>1, <2>1, <2>2, <2>4 DEF Lag, OneCall
  <2>6. TypeOK'
    <3>1. hits \in [Key -> Segment] /\ 0 \in Segment
      BY <1>1 DEF TypeOK, Segment, FIRST, FOURTH
    <3>2. hits' \in [Key -> Segment]
      BY <3>1, <2>1
    <3>3. cache_map' \subseteq Key /\ level' \in Segments /\ cache_size' \in Nat
      BY <1>1, <2>1, <2>2, <2>4, SegmentFacts, ChunkFacts DEF TypeOK, Word
    <3>4. request' \in Request \union {NoRequest} /\ cache_capacity' = cache_capacity
      BY <1>1, <2>2 DEF TypeOK
    <3> QED
      BY <3>2, <3>3, <3>4, <1>1, <2>1, TypeAfter
  <2> QED
    BY <1>1, <2>1, <2>4, <2>5, <2>6, ReplayKeeps
<1>7. CASE InsertNode
  <2> DEFINE c == ChunkSize(request.size)
  <2>1. /\ request \in Request
        /\ lists' \in Lists(Segments) /\ sizes' \in Counters(Segments)
        /\ NodesWellPlaced' /\ Counted' /\ Segments' = Segments
        /\ SumOver(sizes', Segments) = SumOver(sizes, Segments) + c
    BY <1>1, <1>2, <1>7, InsertCounts
  <2>2. /\ cache_map' = cache_map \union {request.key} /\ cache_size' = Plus(cache_size, c)
        /\ request' = NoRequest /\ UNCHANGED <<cache_capacity, level, hits>>
    BY <1>7 DEF InsertNode
  <2>3. c \in Nat /\ SumOver(sizes, Segments) + c < WORD
    BY <1>2, <1>3, ChunkBound, ChunkFacts DEF Roomy
  <2> HIDE DEF c
  <2>4. cache_size' \in Word /\ Plus(cache_size', loaded) = SumOver(sizes, Segments) + c
    BY <1>3, <2>2, <2>3, LagAfterMore
  <2>5. Lag' /\ OneCall'
    BY <1>1, <2>1, <2>2, <2>4 DEF Lag, OneCall
  <2>6. TypeOK'
    <3>1. request.key \in Key
      BY <2>1 DEF Request
    <3>2. cache_map' \subseteq Key /\ level' \in Segments /\ cache_size' \in Nat
      BY <3>1, <1>1, <2>2, <2>4, SegmentFacts, ChunkFacts DEF TypeOK, Word
    <3>3. /\ request' \in Request \union {NoRequest} /\ cache_capacity' = cache_capacity
          /\ hits' \in [Key -> Segment]
      BY <1>1, <2>2 DEF TypeOK
    <3> QED
      BY <3>2, <3>3, <1>1, <2>1, TypeAfter
  <2> QED
    BY <1>1, <2>1, <2>4, <2>5, <2>6, ReplayKeeps
<1> QED
  BY <1>4, <1>5, <1>6, <1>7 DEF RunProceed, Proceed
-----------------------------------------------------------------------------
\* Pop() begins a new file.
LEMMA StartSaveKeeps ==
    ASSUME WarmInv, StartSave
    PROVE  WarmInv'
<1>1. /\ SessionTypes /\ phase = "run" /\ phase' = "save" /\ Idle /\ cur_idx \in Segments
      /\ file' = << >> /\ UNCHANGED vars /\ UNCHANGED <<cur_idx, input, loaded>>
  BY DEF WarmInv, StartSave, CurrentList
<1>2. /\ TypeOK' /\ NodesWellPlaced' /\ Counted' /\ OneCall' /\ Segments' = Segments /\ Lag'
      /\ Idle' /\ cache_size' = cache_size
  BY <1>1, CacheAlone
<1>3. SessionTypes' /\ CurrentList' /\ CallsAreReplayed'
  BY <1>1, <1>2 DEF SessionTypes, CurrentList, CallsAreReplayed
<1>4. FilesAreSound'
  <2>1. DOMAIN file' = {} /\ phase' = "save"
    BY <1>1
  <2>2. NodeLinesOf(file') = {} /\ LineKeys(file') = {}
    BY <2>1 DEF NodeLinesOf, LineKeys
  <2> QED
    BY <2>1, <2>2 DEF FilesAreSound, LinesDistinct, HeadersIn
<1> QED
  BY <1>2, <1>3, <1>4 DEF WarmInv

\* Pop() writes a header, of a list or of the place past the last one.
LEMMA PopHeaderKeeps ==
    ASSUME WarmInv, PopHeader
    PROVE  WarmInv'
<1>1. /\ TypeOK /\ SessionTypes /\ CurrentList /\ FilesAreSound /\ CallsAreReplayed
      /\ phase = "save" /\ cache_size # 0 /\ file' = Append(file, Header(cur_idx'))
      /\ \/ cur_idx = Count - 1 /\ cur_idx' = 0
         \/ cur_idx < Count /\ cur_idx' = cur_idx + 1
      /\ UNCHANGED vars /\ UNCHANGED <<phase, input, loaded>>
  BY DEF WarmInv, PopHeader, Saving, Wraps
<1>2. /\ TypeOK' /\ NodesWellPlaced' /\ Counted' /\ OneCall' /\ Segments' = Segments /\ Lag'
      /\ (Idle => Idle') /\ cache_map' = cache_map /\ cache_size' = cache_size
      /\ Count' = Count
  BY <1>1, CacheAlone
<1>3. /\ cur_idx \in Segments /\ cur_idx' \in Nat /\ (cur_idx' \in Segments \/ cur_idx' = Count)
  <2>1. /\ Count \in Nat /\ Count > 1 /\ Segments = 0 .. Count - 1
    BY <1>1, CountFacts
  <2>2. cur_idx \in Segments \/ cur_idx = Count
    BY <1>1 DEF CurrentList
  <2> HIDE DEF Count
  <2>3. cur_idx \in Segments
    BY <1>1, <2>1, <2>2
  <2> QED
    BY <1>1, <2>1, <2>3
<1>4. Header(cur_idx') \in Line /\ Header(cur_idx').kind = "segment" /\ Header(cur_idx').seg = cur_idx'
  BY <1>3 DEF Header, Line
<1>5. /\ file' \in Seq(Line) /\ LinesDistinct(file') /\ LineKeys(file') \subseteq LineKeys(file)
      /\ (cur_idx' \in Segments => HeadersIn(file', Segments))
  <2>1. file \in Seq(Line) /\ LinesDistinct(file) /\ HeadersIn(file, Segments)
    BY <1>1, <1>3 DEF SessionTypes, FilesAreSound
  <2> QED
    BY <2>1, <1>1, <1>4, AppendLine
<1>6. SessionTypes' /\ CurrentList' /\ CallsAreReplayed'
  BY <1>1, <1>2, <1>3, <1>5 DEF SessionTypes, CurrentList, CallsAreReplayed
<1>7. FilesAreSound'
  BY <1>1, <1>2, <1>5 DEF FilesAreSound
<1> QED
  BY <1>2, <1>6, <1>7 DEF WarmInv

\* Pop() writes the front node of the current list; DecreaseSize may take
\* cache_size_, which never counted it, below zero.
LEMMA PopNodeKeeps ==
    ASSUME WarmInv, PopNode
    PROVE  WarmInv'
<1> DEFINE s == lists[cur_idx]
           node == Head(s)
           c == ChunkSize(node.size)
<1>1. /\ TypeOK /\ NodesWellPlaced /\ Counted /\ OneCall /\ SessionTypes /\ FilesAreSound
      /\ CallsAreReplayed /\ Lag /\ phase = "save" /\ Idle
  BY DEF WarmInv, PopNode, Saving, CallsAreReplayed
<1>2. /\ file' = Append(file, NodeLine(node))
      /\ lists' = [lists EXCEPT ![cur_idx] = Tail(@)]
      /\ sizes' = [sizes EXCEPT ![cur_idx] = Minus(@, c)]
      /\ cache_map' = cache_map \ {node.key}
      /\ cache_size' = Minus(cache_size, c)
      /\ hits' = [hits EXCEPT ![node.key] = 0]
      /\ sizes[cur_idx] # 0 /\ cur_idx < Count
      /\ UNCHANGED <<cache_capacity, level, request, phase, cur_idx, input, loaded>>
  BY DEF PopNode, SizePopped
<1>3. cur_idx \in Segments
  <2>1. Count \in Nat /\ (cur_idx \in Segments \/ cur_idx = Count)
    BY <1>1, CountFacts DEF WarmInv, CurrentList
  <2> QED
    BY <2>1, <1>2
<1>4. s \in Seq(Node) /\ s # << >> /\ KeysDistinct(s)
  <2>1. s \in Seq(Node) /\ KeysDistinct(s) /\ sizes[cur_idx] = Bytes(s)
    BY <1>1, <1>3, SegmentFacts DEF Lists, NodesWellPlaced, Counted
  <2> QED
    BY <2>1, <1>2, BytesEmpty
<1>5. /\ 1 \in 1 .. Len(s) /\ node = s[1] /\ IsWithout(Node, s, 1, Tail(s))
      /\ node \in Node
  BY <1>4, TailNode DEF IsWithout
<1>6. TakesOut(cur_idx, 1, Tail(s))
  BY <1>2, <1>5 DEF TakesOut
<1> HIDE DEF node
<1>7. /\ lists' \in Lists(Segments) /\ sizes' \in Counters(Segments)
      /\ NodesWellPlaced' /\ Counted' /\ Segments' = Segments
      /\ node.key \in Key /\ c <= SumOver(sizes, Segments)
      /\ SumOver(sizes', Segments) = SumOver(sizes, Segments) - c
  <2>1. 1 \in 1 .. Len(lists[cur_idx]) /\ IsWithout(Node, lists[cur_idx], 1, Tail(s))
    BY <1>5
  <2>2. lists[cur_idx][1] = node
    BY <1>5
  <2> HIDE DEF s
  <2> QED
    BY <2>1, <2>2, <1>1, <1>3, <1>6, TakeCounts
<1>8. cache_size' \in Word /\ Lag'
  <2>1. /\ cache_size \in Word /\ loaded \in Word /\ SumOver(sizes, Segments) \in Nat
        /\ Plus(cache_size, loaded) = SumOver(sizes, Segments) /\ c \in Nat
    BY <1>1, CounterFacts, ChunkBound DEF SessionTypes, Lag
  <2> HIDE DEF c
  <2>2. cache_size' \in Word /\ Plus(cache_size', loaded) = SumOver(sizes, Segments) - c
    BY <2>1, <1>2, <1>7, LagAfterLess
  <2> QED
    BY <2>2, <1>2, <1>7 DEF Lag
<1>9. TypeOK'
  <2>1. hits \in [Key -> Segment] /\ 0 \in Segment
    BY <1>1 DEF TypeOK, Segment, FIRST, FOURTH
  <2>2. hits' \in [Key -> Segment]
    BY <2>1, <1>2
  <2>3. cache_map' \subseteq Key /\ level' \in Segments /\ cache_size' \in Nat
    <3>1. cache_map' \subseteq Key
      BY <1>1, <1>2 DEF TypeOK
    <3>2. level' \in Segments
      BY <1>1, <1>2, SegmentFacts
    <3>3. cache_size' \in Nat
      BY <1>8, ChunkFacts DEF Word
    <3> QED
      BY <3>1, <3>2, <3>3
  <2>4. request' \in Request \union {NoRequest} /\ cache_capacity' = cache_capacity
    BY <1>1, <1>2 DEF TypeOK
  <2> QED
    BY <2>2, <2>3, <2>4, <1>1, <1>7, TypeAfter
<1>10. node.key \in cache_map
  BY <1>1, <1>3, <1>5 DEF NodesWellPlaced, KeysOf
<1>11. NodeLine(node) \in Line /\ NodeLine(node).kind = "node" /\ NodeLine(node).key = node.key
  BY <1>5 DEF NodeLine, Line, Node
<1>12. /\ file' \in Seq(Line) /\ LinesDistinct(file') /\ HeadersIn(file', Segments)
       /\ LineKeys(file') \subseteq LineKeys(file) \union {node.key}
       /\ LineKeys(file) \cap cache_map = {}
  <2>1. /\ file \in Seq(Line) /\ LinesDistinct(file) /\ HeadersIn(file, Segments)
        /\ LineKeys(file) \cap cache_map = {}
    BY <1>1, <1>3 DEF SessionTypes, FilesAreSound
  <2>2. NodeLine(node).key \notin LineKeys(file)
    BY <2>1, <1>10, <1>11
  <2> QED
    BY <2>1, <2>2, <1>2, <1>11, AppendLine
<1>13. SessionTypes' /\ CurrentList'
  <2>1. SessionTypes'
    BY <1>1, <1>2, <1>8, <1>12 DEF SessionTypes
  <2>2. CurrentList'
    BY <1>2, <1>3, <1>7 DEF CurrentList
  <2> QED
    BY <2>1, <2>2
<1>14. FilesAreSound'
  <2>1. HeadersIn(file', Segments') /\ phase' = "save"
    BY <1>1, <1>2, <1>7, <1>12
  <2>2. LineKeys(file') \cap cache_map' = {}
    BY <1>2, <1>12
  <2> QED
    BY <2>1, <2>2, <1>12, Zenon DEF FilesAreSound
<1>15. OneCall' /\ CallsAreReplayed'
  BY <1>1, <1>2 DEF OneCall, CallsAreReplayed, Idle
<1> QED
  BY <1>7, <1>8, <1>9, <1>13, <1>14, <1>15 DEF WarmInv

\* A save runs past the last list, or ends.
LEMMA SaveEndKeeps ==
    ASSUME WarmInv, PopOutOfBounds \/ SaveDone
    PROVE  WarmInv'
<1>1. /\ SessionTypes /\ CurrentList /\ FilesAreSound /\ phase = "save" /\ Idle
      /\ UNCHANGED vars /\ UNCHANGED <<cur_idx, input, file, loaded>>
      /\ \/ phase' = "undefined" /\ cache_size # 0
         \/ phase' = "off" /\ cache_size = 0
  BY DEF WarmInv, PopOutOfBounds, Saving, SaveDone, CallsAreReplayed
<1>2. /\ TypeOK' /\ NodesWellPlaced' /\ Counted' /\ OneCall' /\ Segments' = Segments /\ Lag'
      /\ Idle' /\ cache_map' = cache_map /\ cache_size' = cache_size
      /\ Count' = Count
  BY <1>1, CacheAlone
<1>3. SessionTypes' /\ CurrentList' /\ CallsAreReplayed'
  BY <1>1, <1>2 DEF SessionTypes, CurrentList, CallsAreReplayed
<1>4. FilesAreSound'
  BY <1>1, <1>2 DEF FilesAreSound
<1> QED
  BY <1>2, <1>3, <1>4 DEF WarmInv

LEMMA WarmNextKeeps == WarmInv /\ [CheckpointNext]_checkpointVars => WarmInv'
<1> SUFFICES ASSUME WarmInv, [CheckpointNext]_checkpointVars PROVE WarmInv'
  OBVIOUS
<1>1. CASE StartDay
  BY <1>1, StartDayKeeps
<1>2. CASE LoadStep
  BY <1>2, PushHeaderKeeps, PushNodeKeeps, LoadDoneKeeps DEF LoadStep
<1>3. CASE RunGet
  BY <1>3, RunGetKeeps
<1>4. CASE RunProceed
  BY <1>4, RunProceedKeeps
<1>5. CASE SaveStep
  BY <1>5, StartSaveKeeps, PopHeaderKeeps, PopNodeKeeps, SaveEndKeeps DEF SaveStep
<1>6. CASE UNCHANGED checkpointVars
  <2>1. /\ UNCHANGED vars /\ UNCHANGED <<phase, cur_idx, input, file, loaded>>
    BY <1>6 DEF checkpointVars, session
  <2>2. /\ TypeOK' /\ NodesWellPlaced' /\ Counted' /\ OneCall' /\ Segments' = Segments /\ Lag'
        /\ (Idle => Idle') /\ cache_map' = cache_map /\ cache_size' = cache_size
        /\ Count' = Count
    BY <2>1, CacheAlone
  <2>3. SessionTypes' /\ CurrentList' /\ CallsAreReplayed' /\ FilesAreSound'
    BY <2>1, <2>2 DEF WarmInv, SessionTypes, CurrentList, CallsAreReplayed, FilesAreSound
  <2> QED
    BY <2>2, <2>3 DEF WarmInv
<1> QED
  BY <1>1, <1>2, <1>3, <1>4, <1>5, <1>6 DEF CheckpointNext

\* Through loads, replays and saves of any number of days: the nodes are in
\* place, the bytes of each list are exact, no checkpoint names a key twice, a
\* save that ends names no list that is not there, and one that has run past the
\* last list never ends.
THEOREM WarmInvariant == CheckpointSpec => []WarmInv
<1> QED
  BY WarmInit, WarmNextKeeps, PTL DEF CheckpointSpec

\* Push() adds to the lists' sizes_ and not to cache_size_, which Evict(), Pop()
\* and insert() change all the same: at every moment it is short of what is
\* stored by exactly what the day has loaded, below zero included.
THEOREM CountersLagByLoads == CheckpointSpec => []SizeLagsByLoaded
<1>1. WarmInv => SizeLagsByLoaded
  <2> SUFFICES ASSUME WarmInv PROVE SizeLagsByLoaded
    OBVIOUS
  <2>1. TypeOK /\ NodesWellPlaced /\ Counted /\ Lag
    BY DEF WarmInv
  <2>2. SumOver(sizes, Segments) \in Nat /\ SumOver(sizes, Segments) < WORD
    BY <2>1, CounterFacts, RoomForAll, ChunkFacts DEF Roomy
  <2>3. SumOver(sizes, Segments) % WORD = SumOver(sizes, Segments)
    BY <2>2, ChunkFacts
  <2>4. FoldFunction(LAMBDA a, b : a + b, 0, sizes) = SumOver(sizes, Segments)
    <3>1. Total(sizes) = SumOver(sizes, Segments)
      BY <2>1, SegmentFacts, SumAfter
    <3> QED
      BY <3>1, Zenon DEF Total
  <2> QED
    BY <2>1, <2>3, <2>4, Zenon DEF SizeLagsByLoaded, Counted, Lag
<1> QED
  BY <1>1, WarmInvariant, PTL
-----------------------------------------------------------------------------
(* SLRUCheckpoint: a cold day is read back as it was *)

\* The lines before the first node of list g in a file that has, for each list of
\* I from the lowest, its nodes and then the header of the next.
Before(I, g) ==
    (IF g > 0 THEN Len(I[0]) + 1 ELSE 0) + (IF g > 1 THEN Len(I[1]) + 1 ELSE 0)
    + (IF g > 2 THEN Len(I[2]) + 1 ELSE 0)

\* f has in this way the lists of I below c and the first p nodes of list c.
Spells(f, I, c, p) ==
    /\ p <= Len(I[c]) /\ Len(f) = Before(I, c) + p
    /\ \A g \in DOMAIN I : g <= c =>
         /\ g > 0 => f[Before(I, g)] = Header(g)
         /\ \A j \in 1 .. Len(I[g]) :
              g < c \/ j <= p => f[Before(I, g) + j] = NodeLine(I[g][j])

\* The whole of image is in file.
ColdFile ==
    \E c \in Segments :
        /\ Spells(file, image, c, Len(image[c]))
        /\ \A h \in Segments : h > c => image[h] = << >>

\* How many nodes of the current list are written.
Popped == Len(image[cur_idx]) - Len(lists[cur_idx])

\* What is no longer in the lists is in file.
Written ==
    /\ cur_idx \in Segments /\ Len(lists[cur_idx]) <= Len(image[cur_idx])
    /\ Spells(file, image, cur_idx, Popped)
    /\ \A j \in 1 .. Len(lists[cur_idx]) : lists[cur_idx][j] = image[cur_idx][Popped + j]
    /\ \A h \in Segments : /\ h < cur_idx => lists[h] = << >>
                           /\ h > cur_idx => lists[h] = image[h]

\* What was read of file is in the lists, where it was.
ReadSoFar ==
    /\ Len(file) = Before(image, cur_idx) + Len(lists[cur_idx]) + Len(input)
    /\ \A i \in 1 .. Len(input) : input[i] = file[Len(file) - Len(input) + i]
    /\ Begins(lists[cur_idx], image[cur_idx])
    /\ \A h \in Segments : /\ h < cur_idx => lists[h] = image[h]
                           /\ h > cur_idx => lists[h] = << >>

\* A file that is not empty has a node: a day is cold when there is no line to
\* read, and then its save starts from the lowest list.
EndsInNode(f) == f # << >> => f[Len(f)].kind = "node"

StartsFromFirst ==
    /\ phase = "save" => EndsInNode(file) \/ cache_size # 0
    /\ phase = "off" => EndsInNode(file)
    /\ phase = "load" => EndsInNode(input)
    /\ phase = "load" /\ input = << >> /\ loaded = 0 => cur_idx = 0
    /\ phase = "run" /\ loaded = 0 => cur_idx = 0

ImageTagged == \A g \in Segments : \A i \in 1 .. Len(image[g]) : image[g][i].seg = g

\* Inductive together with WarmInv.
ColdInv ==
    /\ image \in Lists(Segments) /\ ImageTagged /\ StartsFromFirst
    /\ phase = "save" /\ ~warmFile => loaded = 0
    /\ phase = "save" /\ loaded = 0 => Written
    /\ phase \in {"off", "load"} /\ ~warmFile => ColdFile
    /\ phase = "load" /\ ~warmFile => ReadSoFar

\* Where the lines of a list begin.
LEMMA BeforeFacts ==
    ASSUME NEW D \in ListSets, NEW I \in Lists(D)
    PROVE  /\ 0 \in D /\ D \subseteq Nat /\ DOMAIN I = D /\ Before(I, 0) = 0
           /\ \A g \in D : /\ I[g] \in Seq(Node) /\ Len(I[g]) \in Nat
                           /\ Before(I, g) \in Nat /\ (g > 0 => Before(I, g) > 0)
                           /\ g + 1 \in D => Before(I, g + 1) = Before(I, g) + Len(I[g]) + 1
           /\ \A g, h \in D : g < h => Before(I, g) + Len(I[g]) < Before(I, h)
<1>1. PICK n \in {2, 3, 4} : D = 0 .. n - 1
  BY DEF ListSets, ListsOf
<1>2. DOMAIN I = D /\ \A g \in D : I[g] \in Seq(Node)
  BY DEF Lists
<1>3. \A g \in D : I[g] \in Seq(Node) /\ Len(I[g]) \in Nat
  BY <1>2
<1>4. /\ D \subseteq Nat /\ 0 \in D /\ 1 \in D
      /\ \A g \in D : g \in {0, 1, 2, 3} /\ \A h \in {0, 1, 2, 3} : h <= g => h \in D
  BY <1>1
<1>5. /\ Before(I, 0) = 0 /\ Before(I, 1) = Len(I[0]) + 1
      /\ 2 \in D => Before(I, 2) = Len(I[0]) + 1 + (Len(I[1]) + 1)
      /\ 3 \in D => Before(I, 3) = Len(I[0]) + 1 + (Len(I[1]) + 1) + (Len(I[2]) + 1)
  BY <1>3, <1>4 DEF Before
<1> DEFINE a == Len(I[0])
           b == Len(I[1])
           d == Len(I[2])
<1>6. ASSUME NEW g \in D
      PROVE  /\ Before(I, g) \in Nat /\ (g > 0 => Before(I, g) > 0)
             /\ g + 1 \in D => Before(I, g + 1) = Before(I, g) + Len(I[g]) + 1
  <2>1. a \in Nat /\ b \in Nat /\ (2 \in D => d \in Nat)
    BY <1>3, <1>4
  <2>2. \A h \in {0, 1, 2, 3} : h <= g => h \in D
    BY <1>4, <1>6
  <2>3. CASE g = 0
    BY <2>1, <2>3, <1>5
  <2>4. CASE g = 1
    <3>1. g + 1 = 2 /\ Len(I[g]) = b
      BY <2>4
    <3>2. Before(I, g) = a + 1 /\ (2 \in D => Before(I, 2) = a + 1 + (b + 1))
      BY <2>4, <1>5
    <3> HIDE DEF a, b
    <3> QED
      BY <3>1, <3>2, <2>1, <2>4
  <2>5. CASE g = 2
    <3>1. g + 1 = 3 /\ Len(I[g]) = d /\ 2 \in D
      BY <2>2, <2>5
    <3>2. /\ Before(I, g) = a + 1 + (b + 1)
          /\ 3 \in D => Before(I, 3) = a + 1 + (b + 1) + (d + 1)
      BY <3>1, <2>5, <1>5
    <3> HIDE DEF a, b, d
    <3> QED
      BY <3>1, <3>2, <2>1, <2>5
  <2>6. CASE g = 3
    <3>1. 2 \in D /\ 3 \in D /\ g + 1 \notin D
      BY <2>2, <2>6, <1>4
    <3>2. Before(I, g) = a + 1 + (b + 1) + (d + 1)
      BY <3>1, <2>6, <1>5
    <3> HIDE DEF a, b, d
    <3> QED
      BY <3>1, <3>2, <2>1, <2>6
  <2> QED
    BY <2>3, <2>4, <2>5, <2>6, <1>4, <1>6
<1>7. ASSUME NEW g \in D, NEW h \in D, g < h
      PROVE  Before(I, g) + Len(I[g]) < Before(I, h)
  <2>1. \A x \in D : x + 1 \in D => Before(I, x + 1) > Before(I, x) + Len(I[x]) /\ Len(I[x]) >= 0
    BY <1>3, <1>6
  <2>2. \A x \in {0, 1, 2, 3} : x <= h => x \in D
    BY <1>4, <1>7
  <2>3. \A x \in D : Before(I, x) \in Nat /\ Len(I[x]) \in Nat
    BY <1>3, <1>6
  <2>4. CASE h = g + 1
    BY <2>1, <2>4, <1>7
  <2>5. CASE g = 0 /\ h = 2
    <3>1. /\ 0 \in D /\ 1 \in D /\ 2 \in D
          /\ Before(I, 1) > Before(I, 0) + Len(I[0]) /\ Before(I, 2) > Before(I, 1) + Len(I[1])
      BY <2>1, <2>2, <2>5
    <3> QED
      BY <3>1, <2>3, <2>5
  <2>6. CASE h = 3 /\ g \in {0, 1}
    <3>1. /\ 0 \in D /\ 1 \in D /\ 2 \in D /\ 3 \in D
          /\ Before(I, 1) > Before(I, 0) + Len(I[0]) /\ Before(I, 2) > Before(I, 1) + Len(I[1])
          /\ Before(I, 3) > Before(I, 2) + Len(I[2])
      BY <2>1, <2>2, <2>6
    <3>2. Before(I, 3) > Before(I, 0) + Len(I[0]) /\ Before(I, 3) > Before(I, 1) + Len(I[1])
      <4>1. /\ Before(I, 0) \in Nat /\ Before(I, 1) \in Nat /\ Before(I, 2) \in Nat
            /\ Before(I, 3) \in Nat /\ Len(I[0]) \in Nat /\ Len(I[1]) \in Nat /\ Len(I[2]) \in Nat
        BY <3>1, <2>3
      <4> DEFINE x0 == Before(I, 0)  x1 == Before(I, 1)  x2 == Before(I, 2)  x3 == Before(I, 3)
                 y0 == Len(I[0])  y1 == Len(I[1])  y2 == Len(I[2])
      <4>2. /\ x0 \in Nat /\ x1 \in Nat /\ x2 \in Nat /\ x3 \in Nat
            /\ y0 \in Nat /\ y1 \in Nat /\ y2 \in Nat
            /\ x1 > x0 + y0 /\ x2 > x1 + y1 /\ x3 > x2 + y2
        BY <4>1, <3>1
      <4>3. x3 > x0 + y0 /\ x3 > x1 + y1
        <5> HIDE DEF x0, x1, x2, x3, y0, y1, y2
        <5> QED BY <4>2
      <4> QED
        BY <4>3
    <3> QED
      BY <3>2, <2>6
  <2> QED
    BY <2>4, <2>5, <2>6, <1>4, <1>7
<1> QED
  BY <1>2, <1>3, <1>4, <1>5, <1>6, <1>7

\* The next node of list c, and after its last node the next header.
LEMMA SpellsNode ==
    ASSUME NEW D \in ListSets, NEW I \in Lists(D), NEW c \in D, NEW p \in Nat, NEW f \in Seq(Line),
           Spells(f, I, c, p), p < Len(I[c])
    PROVE  Spells(Append(f, NodeLine(I[c][p + 1])), I, c, p + 1)
<1> DEFINE l == NodeLine(I[c][p + 1])
           t == Append(f, l)
<1>1. /\ Len(f) \in Nat /\ Len(t) = Len(f) + 1 /\ t[Len(f) + 1] = l
      /\ \A i \in 1 .. Len(f) : t[i] = f[i]
  OBVIOUS
<1>2. /\ DOMAIN I = D /\ D \subseteq Nat /\ Len(I[c]) \in Nat /\ Before(I, c) \in Nat
      /\ \A g \in D : Before(I, g) \in Nat /\ Len(I[g]) \in Nat /\ (g > 0 => Before(I, g) > 0)
      /\ \A g, h \in D : g < h => Before(I, g) + Len(I[g]) < Before(I, h)
  BY BeforeFacts
<1>3. Len(f) = Before(I, c) + p
  BY DEF Spells
<1> HIDE DEF t, l
<1>4. \A g \in D : g <= c /\ g > 0 => t[Before(I, g)] = Header(g)
  <2> SUFFICES ASSUME NEW g \in D, g <= c, g > 0 PROVE t[Before(I, g)] = Header(g)
    OBVIOUS
  <2>1. Before(I, g) \in 1 .. Len(f)
    BY <1>2, <1>3
  <2> QED
    BY <2>1, <1>1, <1>2 DEF Spells
<1>5. ASSUME NEW g \in D, g <= c, NEW j \in 1 .. Len(I[g]), g < c \/ j <= p + 1
      PROVE  t[Before(I, g) + j] = NodeLine(I[g][j])
  <2>1. CASE g = c /\ j = p + 1
    BY <2>1, <1>1, <1>2, <1>3 DEF l
  <2>2. CASE g < c \/ j <= p
    <3>1. Before(I, g) + j \in 1 .. Len(f)
      BY <2>2, <1>2, <1>3, <1>5
    <3>2. f[Before(I, g) + j] = NodeLine(I[g][j])
      BY <2>2, <1>2, <1>5 DEF Spells
    <3> QED
      BY <3>1, <3>2, <1>1
  <2> QED
    BY <2>1, <2>2, <1>2, <1>5
<1>6. p + 1 <= Len(I[c]) /\ Len(t) = Before(I, c) + (p + 1)
  BY <1>1, <1>2, <1>3
<1> QED
  BY <1>2, <1>4, <1>5, <1>6 DEF Spells, t, l

LEMMA SpellsHeader ==
    ASSUME NEW D \in ListSets, NEW I \in Lists(D), NEW c \in D, c + 1 \in D, NEW f \in Seq(Line),
           Spells(f, I, c, Len(I[c]))
    PROVE  Spells(Append(f, Header(c + 1)), I, c + 1, 0)
<1> DEFINE l == Header(c + 1)
           t == Append(f, l)
<1>1. /\ Len(f) \in Nat /\ Len(t) = Len(f) + 1 /\ t[Len(f) + 1] = l
      /\ \A i \in 1 .. Len(f) : t[i] = f[i]
  OBVIOUS
<1>2. /\ DOMAIN I = D /\ D \subseteq Nat /\ Before(I, c + 1) = Before(I, c) + Len(I[c]) + 1
      /\ \A g \in D : Before(I, g) \in Nat /\ Len(I[g]) \in Nat /\ (g > 0 => Before(I, g) > 0)
      /\ \A g, h \in D : g < h => Before(I, g) + Len(I[g]) < Before(I, h)
  BY BeforeFacts
<1>3. Len(f) = Before(I, c) + Len(I[c]) /\ Len(f) + 1 = Before(I, c + 1)
  BY <1>2 DEF Spells
<1> HIDE DEF t, l
<1>4. ASSUME NEW g \in D, g <= c + 1
      PROVE  /\ g > 0 => t[Before(I, g)] = Header(g)
             /\ \A j \in 1 .. Len(I[g]) : g < c + 1 \/ j <= 0 => t[Before(I, g) + j] = NodeLine(I[g][j])
  <2>1. CASE g = c + 1
    BY <2>1, <1>1, <1>2, <1>3 DEF l
  <2>2. CASE g <= c
    <3>1. g > 0 => f[Before(I, g)] = Header(g)
      BY <2>2, <1>2 DEF Spells
    <3>2. g > 0 => Before(I, g) \in 1 .. Len(f)
      BY <2>2, <1>2, <1>3
    <3>3. \A j \in 1 .. Len(I[g]) : f[Before(I, g) + j] = NodeLine(I[g][j])
      <4>1. \A j \in 1 .. Len(I[g]) : g < c \/ j <= Len(I[c])
        BY <2>2, <1>2
      <4> QED
        BY <4>1, <2>2, <1>2 DEF Spells
    <3>4. \A j \in 1 .. Len(I[g]) : Before(I, g) + j \in 1 .. Len(f)
      BY <2>2, <1>2, <1>3
    <3> QED
      BY <3>1, <3>2, <3>3, <3>4, <1>1
  <2> QED
    BY <2>1, <2>2, <1>2, <1>4
<1>5. 0 <= Len(I[c + 1]) /\ Len(t) = Before(I, c + 1) + 0
  BY <1>1, <1>2, <1>3
<1> QED
  BY <1>2, <1>4, <1>5 DEF Spells, t, l

\* No step changes how many lists there are.
LEMMA SameSegments == CheckpointNext => Segments' = Segments
<1>1. StartDay => Segments' = Segments
  BY DEF StartDay, Segments
<1>2. LoadStep => Segments' = Segments
  BY DEF LoadStep, PushHeader, PushNode, LoadDone, vars, Segments
<1>3. RunGet => Segments' = Segments
  BY DEF RunGet, Get, GetHit, GetMiss, Move, Segments
<1>4. RunProceed => Segments' = Segments
  BY DEF RunProceed, Proceed, Demote, NextLevel, Evict, InsertNode, Move, Segments
<1>5. SaveStep => Segments' = Segments
  BY DEF SaveStep, StartSave, PopHeader, PopNode, PopOutOfBounds, SaveDone, vars, Segments
<1> QED
  BY <1>1, <1>2, <1>3, <1>4, <1>5 DEF CheckpointNext

\* On a cold day cache_size_ is zero when, and only when, nothing is stored.
LEMMA ColdSize ==
    ASSUME WarmInv, loaded = 0
    PROVE  cache_size = 0 <=> \A g \in Segments : lists[g] = << >>
<1>1. TypeOK /\ NodesWellPlaced /\ Counted /\ Lag /\ SessionTypes
  BY DEF WarmInv
<1>2. cache_size = SumOver(sizes, Segments)
  BY <1>1, ChunkFacts DEF Lag, Plus, SessionTypes, Word
<1>3. ASSUME cache_size = 0, NEW g \in Segments PROVE lists[g] = << >>
  <2>1. sizes[g] = 0
    BY <1>1, <1>2, <1>3, CounterFacts
  <2> QED
    BY <2>1, <1>1, CountedEmpty
<1>4. ASSUME \A g \in Segments : lists[g] = << >> PROVE cache_size = 0
  <2>1. \A g \in Segments : sizes[g] = 0
    BY <1>1, <1>4, CountedEmpty
  <2> QED
    BY <2>1, <1>2 DEF SumOver, Share
<1> QED
  BY <1>3, <1>4

-----------------------------------------------------------------------------
\* Before the first day nothing is stored and nothing is written.
LEMMA ColdInit == CheckpointInit => ColdInv
<1> SUFFICES ASSUME CheckpointInit PROVE ColdInv
  OBVIOUS
<1>1. /\ WarmInv /\ phase = "off" /\ file = << >> /\ image = lists
      /\ \A g \in Segments : lists[g] = << >>
  BY WarmInit DEF CheckpointInit, Init, Segments
<1>2. TypeOK /\ lists \in Lists(Segments) /\ Segments \in ListSets /\ FIRST \in Segments
  BY <1>1, SegmentFacts DEF WarmInv
<1>3. DOMAIN image = Segments /\ Segments \subseteq Nat /\ 0 \in Segments /\ Before(image, 0) = 0
  BY <1>1, <1>2, BeforeFacts
<1>4. \A g \in Segments : image[g] = << >> /\ Len(image[g]) = 0
  BY <1>1
<1>5. Spells(file, image, 0, 0)
  <2>1. Len(file) = 0 /\ \A g \in Segments : g <= 0 => g = 0
    BY <1>1, <1>3
  <2> QED
    BY <2>1, <1>3, <1>4 DEF Spells
<1>6. ColdFile
  BY <1>3, <1>4, <1>5 DEF ColdFile
<1>7. ImageTagged
  BY <1>4 DEF ImageTagged
<1>8. StartsFromFirst
  BY <1>1 DEF StartsFromFirst, EndsInNode
<1> QED
  BY <1>1, <1>2, <1>6, <1>7, <1>8 DEF ColdInv

\* What is kept of the last save until the next one begins.
LEMMA ImageKept ==
    ASSUME ColdInv, UNCHANGED <<image, file>>, Segments' = Segments
    PROVE  /\ image' \in Lists(Segments') /\ ImageTagged'
           /\ (ColdFile => ColdFile')
  BY DEF ColdInv, ImageTagged, ColdFile

LEMMA StartDayCold ==
    ASSUME WarmInv, ColdInv, StartDay
    PROVE  ColdInv'
<1>1. /\ lists' = [g \in Segments |-> << >>] /\ UNCHANGED <<file, image, warmFile>>
      /\ phase = "off" /\ phase' = "load" /\ input' = file /\ cur_idx' = 0 /\ loaded' = 0
      /\ Segments' = Segments /\ file \in Seq(Line) /\ TypeOK
  BY SameSegments DEF StartDay, CheckpointNext, WarmInv, SessionTypes
<1>2. image' \in Lists(Segments') /\ ImageTagged' /\ (ColdFile => ColdFile')
  BY <1>1, ImageKept
<1>3. StartsFromFirst'
  BY <1>1 DEF ColdInv, StartsFromFirst, EndsInNode
<1>4. ReadSoFar'
  <2>1. /\ Segments \in ListSets /\ image \in Lists(Segments)
        /\ 0 \in Segments /\ Segments \subseteq Nat /\ Before(image, 0) = 0 /\ image[0] \in Seq(Node)
    BY <1>1, SegmentFacts, BeforeFacts DEF ColdInv
  <2>2. Len(input') = Len(file') /\ Len(file') \in Nat /\ lists'[0] = << >> /\ Len(lists'[0]) = 0
    BY <1>1, <2>1
  <2>3. Len(file') = Before(image', cur_idx') + Len(lists'[cur_idx']) + Len(input')
    BY <1>1, <2>1, <2>2
  <2>4. \A i \in 1 .. Len(input') : input'[i] = file'[Len(file') - Len(input') + i]
    BY <1>1, <2>2
  <2>5. Begins(lists'[cur_idx'], image'[cur_idx'])
    BY <1>1, <2>1, <2>2 DEF Begins
  <2>6. \A h \in Segments : ~(h < cur_idx') /\ lists'[h] = << >>
    BY <1>1, <2>1
  <2> QED
    BY <2>3, <2>4, <2>5, <2>6, <1>1 DEF ReadSoFar
<1> QED
  BY <1>1, <1>2, <1>3, <1>4 DEF ColdInv

\* The line Push() reads next is the node that comes next in its list, or the
\* header of the next list.
LEMMA NextLine ==
    ASSUME WarmInv, ColdInv, phase = "load", ~warmFile, input # << >>
    PROVE  \/ /\ Len(lists[cur_idx]) < Len(image[cur_idx])
              /\ Head(input) = NodeLine(image[cur_idx][Len(lists[cur_idx]) + 1])
           \/ /\ Len(lists[cur_idx]) = Len(image[cur_idx])
              /\ Head(input) = Header(cur_idx + 1) /\ cur_idx + 1 \in Segments
<1> DEFINE g == cur_idx
           I == image
           p == Len(lists[g])
<1>1. /\ TypeOK /\ g \in Segments /\ ColdFile /\ ReadSoFar /\ I \in Lists(Segments)
      /\ input \in Seq(Line) /\ file \in Seq(Line)
  BY DEF WarmInv, CurrentList, ColdInv, SessionTypes
<1>2. /\ Segments \in ListSets /\ lists[g] \in Seq(Node) /\ p \in Nat
  BY <1>1, SegmentFacts DEF Lists
<1>3. /\ DOMAIN I = Segments /\ Segments \subseteq Nat
      /\ \A h \in Segments : /\ I[h] \in Seq(Node) /\ Len(I[h]) \in Nat /\ Before(I, h) \in Nat
                             /\ h + 1 \in Segments => Before(I, h + 1) = Before(I, h) + Len(I[h]) + 1
      /\ \A h, k \in Segments : h < k => Before(I, h) + Len(I[h]) < Before(I, k)
  BY <1>1, <1>2, BeforeFacts
<1>4. /\ Len(file) = Before(I, g) + p + Len(input) /\ p <= Len(I[g])
      /\ \A i \in 1 .. Len(input) : input[i] = file[Len(file) - Len(input) + i]
  BY <1>1 DEF ReadSoFar, Begins
<1>5. PICK c \in Segments : Spells(file, I, c, Len(I[c]))
  BY <1>1 DEF ColdFile
<1>6. Len(file) = Before(I, c) + Len(I[c])
  BY <1>5 DEF Spells
<1>7. Len(input) \in Nat /\ Len(input) > 0 /\ Head(input) = input[1] /\ Len(file) \in Nat
  BY <1>1
<1> HIDE DEF p, g, I
<1>8. Head(input) = file[Before(I, g) + p + 1]
  <2>1. Len(file) - Len(input) = Before(I, g) + p /\ 1 \in 1 .. Len(input)
    BY <1>1, <1>2, <1>3, <1>4, <1>7
  <2> QED
    BY <2>1, <1>4, <1>7
<1>9. g <= c
  <2>1. CASE c < g
    BY <2>1, <1>1, <1>2, <1>3, <1>4, <1>6, <1>7
  <2> QED
    BY <2>1, <1>1, <1>3
<1>10. CASE p < Len(I[g])
  <2>1. p + 1 \in 1 .. Len(I[g]) /\ (g < c \/ p + 1 <= Len(I[c]))
    BY <1>1, <1>2, <1>3, <1>9, <1>10
  <2>2. file[Before(I, g) + (p + 1)] = NodeLine(I[g][p + 1])
    BY <2>1, <1>1, <1>3, <1>5, <1>9 DEF Spells
  <2>3. Before(I, g) + (p + 1) = Before(I, g) + p + 1
    BY <1>1, <1>2, <1>3
  <2> QED
    BY <2>2, <2>3, <1>8, <1>10 DEF p, g, I
<1>11. CASE p = Len(I[g])
  <2>1. g < c
    BY <1>1, <1>2, <1>3, <1>4, <1>6, <1>7, <1>9, <1>11
  <2>2. g + 1 \in Segments /\ g + 1 <= c /\ g + 1 > 0
    <3>1. PICK n \in {2, 3, 4} : Segments = 0 .. n - 1
      BY <1>2 DEF ListSets, ListsOf
    <3> QED
      BY <3>1, <2>1, <1>1
  <2>3. file[Before(I, g + 1)] = Header(g + 1)
    BY <2>2, <1>3, <1>5 DEF Spells
  <2>4. Before(I, g + 1) = Before(I, g) + p + 1
    BY <2>2, <1>1, <1>3, <1>11
  <2> QED
    BY <2>2, <2>3, <2>4, <1>8, <1>11 DEF p, g, I
<1> QED
  BY <1>1, <1>2, <1>3, <1>4, <1>10, <1>11

\* A list that begins another of the same length.
LEMMA BeginsWhole ==
    ASSUME NEW s \in Seq(Node), NEW t \in Seq(Node), Begins(s, t), Len(s) = Len(t)
    PROVE  s = t
BY DEF Begins

\* A file that ends in a node still does after its first line is read.
LEMMA TailEnds ==
    ASSUME NEW f \in Seq(Line), f # << >>, EndsInNode(f)
    PROVE  /\ Head(f) \in Line /\ EndsInNode(Tail(f))
           /\ Head(f).kind = "segment" => Tail(f) # << >>
<1> DEFINE t == Tail(f)
<1>1. /\ Len(f) \in Nat /\ Len(f) > 0 /\ Head(f) = f[1] /\ Head(f) \in Line
      /\ t \in Seq(Line) /\ Len(t) = Len(f) - 1
      /\ \A i \in 1 .. Len(f) - 1 : t[i] = f[i + 1]
  OBVIOUS
<1> HIDE DEF t
<1>2. EndsInNode(t)
  <2>1. ASSUME t # << >>
        PROVE  t[Len(t)] = f[Len(f)]
    <3>1. Len(t) \in 1 .. Len(f) - 1 /\ Len(t) + 1 = Len(f)
      BY <2>1, <1>1
    <3> QED
      BY <3>1, <1>1
  <2> QED
    BY <2>1 DEF EndsInNode
<1>3. ASSUME Head(f).kind = "segment" PROVE t # << >>
  <2>1. CASE t = << >>
    <3>1. Len(f) = 1
      BY <2>1, <1>1
    <3> QED
      BY <3>1, <1>1, <1>3 DEF EndsInNode
  <2> QED
    BY <2>1
<1> QED
  BY <1>1, <1>2, <1>3 DEF t

\* What is still to be read after a line is the end of the file, one line less.
LEMMA InputTail ==
    ASSUME input \in Seq(Line), file \in Seq(Line), input # << >>, input' = Tail(input),
           file' = file, \A i \in 1 .. Len(input) : input[i] = file[Len(file) - Len(input) + i]
    PROVE  /\ Len(input') = Len(input) - 1
           /\ \A i \in 1 .. Len(input') : input'[i] = file'[Len(file') - Len(input') + i]
<1> DEFINE t == Tail(input)
<1>1. /\ Len(input) \in Nat /\ Len(input) > 0 /\ Len(file) \in Nat
      /\ t \in Seq(Line) /\ Len(t) = Len(input) - 1
      /\ \A i \in 1 .. Len(input) - 1 : t[i] = input[i + 1]
  OBVIOUS
<1> HIDE DEF t
<1>2. \A i \in 1 .. Len(t) : t[i] = file[Len(file) - Len(t) + i]
  <2> SUFFICES ASSUME NEW i \in 1 .. Len(t) PROVE t[i] = file[Len(file) - Len(t) + i]
    OBVIOUS
  <2>1. i + 1 \in 1 .. Len(input) /\ t[i] = input[i + 1]
    BY <1>1
  <2>2. Len(file) - Len(input) + (i + 1) = Len(file) - Len(t) + i
    BY <2>1, <1>1
  <2>3. input[i + 1] = file[Len(file) - Len(input) + (i + 1)]
    BY <2>1
  <2> QED
    BY <2>1, <2>2, <2>3
<1> QED
  BY <1>1, <1>2 DEF t

\* A header is read: the list before it was read whole.
LEMMA PushHeaderCold ==
    ASSUME WarmInv, ColdInv, PushHeader
    PROVE  ColdInv'
<1>1. /\ phase = "load" /\ input # << >> /\ Head(input).kind = "segment"
      /\ input' = Tail(input) /\ cur_idx' = Head(input).seg
      /\ UNCHANGED <<phase, file, image, loaded, warmFile, lists>>
      /\ Segments' = Segments
      /\ input \in Seq(Line) /\ file \in Seq(Line) /\ TypeOK /\ cur_idx \in Segments
  BY DEF PushHeader, ReadLine, vars, Segments, WarmInv, SessionTypes, CurrentList
<1>2. image' \in Lists(Segments') /\ ImageTagged' /\ (ColdFile => ColdFile')
  BY <1>1, ImageKept
<1>3. EndsInNode(input)
  BY <1>1 DEF ColdInv, StartsFromFirst
<1>4. StartsFromFirst'
  <2>1. EndsInNode(input') /\ input' # << >>
    BY <1>1, <1>3, TailEnds
  <2> QED
    BY <2>1, <1>1 DEF ColdInv, StartsFromFirst
<1>5. ASSUME ~warmFile PROVE ReadSoFar'
  <2> DEFINE g == cur_idx
             I == image
  <2>1. ReadSoFar /\ I \in Lists(Segments) /\ Segments \in ListSets /\ lists \in Lists(Segments)
    BY <1>1, <1>5, SegmentFacts DEF ColdInv
  <2>2. Len(lists[g]) = Len(I[g]) /\ Head(input) = Header(g + 1) /\ g + 1 \in Segments
    <3>1. \A m : NodeLine(m).kind # "segment"
      BY DEF NodeLine
    <3> QED
      BY <3>1, <1>1, <1>5, NextLine
  <2>3. cur_idx' = g + 1
    BY <2>2, <1>1 DEF Header
  <2>4. /\ Len(file) = Before(I, g) + Len(lists[g]) + Len(input)
        /\ \A i \in 1 .. Len(input) : input[i] = file[Len(file) - Len(input) + i]
        /\ Begins(lists[g], I[g])
        /\ \A h \in Segments : (h < g => lists[h] = I[h]) /\ (h > g => lists[h] = << >>)
    BY <2>1 DEF ReadSoFar
  <2>5. /\ g \in Nat /\ Before(I, g) \in Nat /\ Len(I[g]) \in Nat /\ Segments \subseteq Nat
        /\ Before(I, g + 1) = Before(I, g) + Len(I[g]) + 1
        /\ I[g] \in Seq(Node) /\ I[g + 1] \in Seq(Node) /\ lists[g] \in Seq(Node)
    <3>1. lists[g] \in Seq(Node)
      BY <2>1, <1>1 DEF Lists
    <3> QED
      BY <3>1, <2>1, <2>2, <1>1, BeforeFacts
  <2> HIDE DEF g, I
  <2>6. lists[g] = I[g] /\ lists[g + 1] = << >>
    BY <2>2, <2>4, <2>5, BeginsWhole
  <2>7. Len(input) \in Nat
    BY <1>1
  <2>8. /\ Len(input') = Len(input) - 1
        /\ \A i \in 1 .. Len(input') : input'[i] = file'[Len(file') - Len(input') + i]
    BY <2>4, <1>1, InputTail
  <2>9. Len(file') = Before(I, g + 1) + Len(lists[g + 1]) + Len(input')
    <3>1. Len(lists[g + 1]) = 0
      BY <2>6
    <3>2. file' = file /\ Len(lists[g]) = Len(I[g]) /\ Len(file) = Before(I, g) + Len(lists[g]) + Len(input)
      BY <2>2, <2>4, <1>1
    <3> QED
      BY <3>1, <3>2, <2>5, <2>7, <2>8
  <2>10. Begins(lists[g + 1], I[g + 1])
    BY <2>5, <2>6 DEF Begins
  <2>11. \A h \in Segments : (h < g + 1 => lists[h] = I[h]) /\ (h > g + 1 => lists[h] = << >>)
    <3> SUFFICES ASSUME NEW h \in Segments
                 PROVE  (h < g + 1 => lists[h] = I[h]) /\ (h > g + 1 => lists[h] = << >>)
      OBVIOUS
    <3>1. h \in Nat /\ (h < g + 1 => h < g \/ h = g) /\ (h > g + 1 => h > g)
      BY <2>5
    <3> QED
      BY <3>1, <2>4, <2>6
  <2> QED
    BY <2>3, <2>8, <2>9, <2>10, <2>11, <1>1 DEF ReadSoFar, I
<1> QED
  BY <1>1, <1>2, <1>4, <1>5 DEF ColdInv

\* A node is read: it is the next of its list.
LEMMA PushNodeCold ==
    ASSUME WarmInv, ColdInv, PushNode
    PROVE  ColdInv'
<1> DEFINE g == cur_idx
           l == Head(input)
           m == [key |-> l.key, size |-> l.size, seg |-> g]
           I == image
<1>1. /\ phase = "load" /\ input # << >> /\ l.kind = "node" /\ input' = Tail(input)
      /\ lists' = [lists EXCEPT ![g] = Append(lists[g], m)]
      /\ loaded' = loaded + ChunkSize(l.size)
      /\ UNCHANGED <<phase, cur_idx, file, image, warmFile>>
      /\ input \in Seq(Line) /\ file \in Seq(Line) /\ TypeOK /\ g \in Segments
      /\ loaded \in Word /\ EndsInNode(input)
  BY DEF PushNode, ReadLine, PushedBack, WarmInv, SessionTypes, CurrentList,
         ColdInv, StartsFromFirst
<1>2. Segments' = Segments /\ lists \in Lists(Segments) /\ Segments \in ListSets
  BY <1>1, SegmentFacts, SameSegments DEF CheckpointNext, LoadStep
<1>3. image' \in Lists(Segments') /\ ImageTagged' /\ (ColdFile => ColdFile')
  BY <1>1, <1>2, ImageKept
<1>4. StartsFromFirst'
  <2>1. EndsInNode(input') /\ l \in Line
    BY <1>1, TailEnds
  <2>2. loaded' # 0
    <3>1. ChunkSize(l.size) \in Nat /\ ChunkSize(l.size) > 0 /\ loaded \in Nat
      BY <1>1, ChunkBound, ChunkFacts DEF Word
    <3> QED
      BY <3>1, <1>1
  <2> QED
    BY <2>1, <2>2, <1>1 DEF StartsFromFirst
<1>5. ASSUME ~warmFile PROVE ReadSoFar'
  <2> DEFINE p == Len(lists[g])
  <2>1. /\ ReadSoFar /\ I \in Lists(Segments) /\ lists[g] \in Seq(Node) /\ p \in Nat /\ ImageTagged
    BY <1>1, <1>2, <1>5 DEF ColdInv, Lists
  <2>2. p < Len(I[g]) /\ l = NodeLine(I[g][p + 1])
    <3>1. Header(g + 1).kind # "node"
      BY DEF Header
    <3> QED
      BY <3>1, <1>1, <1>5, NextLine
  <2>3. /\ Len(file) = Before(I, g) + p + Len(input)
        /\ \A i \in 1 .. Len(input) : input[i] = file[Len(file) - Len(input) + i]
        /\ Begins(lists[g], I[g])
        /\ \A h \in Segments : (h < g => lists[h] = I[h]) /\ (h > g => lists[h] = << >>)
    BY <2>1 DEF ReadSoFar
  <2>4. /\ g \in Nat /\ Segments \subseteq Nat /\ Before(I, g) \in Nat /\ Len(I[g]) \in Nat
        /\ I[g] \in Seq(Node)
    BY <2>1, <1>1, <1>2, BeforeFacts
  <2>5. Len(input) \in Nat
    BY <1>1
  <2>6. m = I[g][p + 1] /\ m \in Node
    <3>1. p + 1 \in 1 .. Len(I[g])
      BY <2>1, <2>2, <2>4
    <3>2. I[g][p + 1] \in Node /\ I[g][p + 1].seg = g
      BY <3>1, <2>1, <2>4, <1>1 DEF ImageTagged
    <3>3. l.key = I[g][p + 1].key /\ l.size = I[g][p + 1].size
      BY <2>2 DEF NodeLine
    <3> QED
      BY <3>2, <3>3 DEF Node
  <2>7. /\ Len(input') = Len(input) - 1
        /\ \A i \in 1 .. Len(input') : input'[i] = file'[Len(file') - Len(input') + i]
    BY <2>3, <1>1, InputTail
  <2> DEFINE t == Append(lists[g], m)
  <2>8. /\ Len(t) = p + 1 /\ t[p + 1] = m /\ \A i \in 1 .. p : t[i] = lists[g][i]
        /\ lists'[g] = t /\ \A h \in Segments : h # g => lists'[h] = lists[h]
    <3> HIDE DEF m
    <3> QED
      BY <2>1, <2>6, <1>1, <1>2 DEF Lists
  <2> HIDE DEF t, m, l, p
  <2>9. Begins(t, I[g])
    <3> SUFFICES ASSUME NEW i \in 1 .. p + 1 PROVE t[i] = I[g][i]
      BY <2>1, <2>2, <2>4, <2>8 DEF Begins
    <3>1. CASE i = p + 1
      BY <3>1, <2>6, <2>8
    <3>2. CASE i # p + 1
      <4>1. i \in 1 .. p
        BY <3>2, <2>1
      <4> QED
        BY <4>1, <2>3, <2>8 DEF Begins, p
    <3> QED
      BY <3>1, <3>2
  <2>10. Len(file') = Before(I, g) + Len(t) + Len(input')
    <3>1. file' = file
      BY <1>1
    <3> QED
      BY <3>1, <2>1, <2>3, <2>4, <2>5, <2>7, <2>8
  <2>11. \A h \in Segments : (h < g => lists'[h] = I[h]) /\ (h > g => lists'[h] = << >>)
    <3> SUFFICES ASSUME NEW h \in Segments
                 PROVE  (h < g => lists'[h] = I[h]) /\ (h > g => lists'[h] = << >>)
      OBVIOUS
    <3>1. h \in Nat /\ (h < g => h # g) /\ (h > g => h # g)
      BY <2>4
    <3> QED
      BY <3>1, <2>3, <2>8
  <2> QED
    BY <2>7, <2>8, <2>9, <2>10, <2>11, <1>1, <1>2 DEF ReadSoFar
<1> QED
  BY <1>1, <1>2, <1>3, <1>4, <1>5 DEF ColdInv

\* The load ends with every list as it was saved.
LEMMA LoadedWhole ==
    ASSUME WarmInv, ColdInv, phase = "load", input = << >>, ~warmFile
    PROVE  lists = image
<1> DEFINE g == cur_idx
           I == image
<1>1. /\ TypeOK /\ g \in Segments /\ ColdFile /\ ReadSoFar /\ I \in Lists(Segments)
  BY DEF WarmInv, CurrentList, ColdInv
<1>2. /\ Segments \in ListSets /\ lists \in Lists(Segments) /\ lists[g] \in Seq(Node)
  BY <1>1, SegmentFacts DEF Lists
<1>3. /\ DOMAIN I = Segments /\ Segments \subseteq Nat
      /\ \A h \in Segments : I[h] \in Seq(Node) /\ Len(I[h]) \in Nat /\ Before(I, h) \in Nat
      /\ \A h, k \in Segments : h < k => Before(I, h) + Len(I[h]) < Before(I, k)
  BY <1>1, <1>2, BeforeFacts
<1>4. PICK c \in Segments : /\ Len(file) = Before(I, c) + Len(I[c])
                            /\ \A h \in Segments : h > c => I[h] = << >>
  BY <1>1 DEF ColdFile, Spells
<1>5. /\ Len(file) = Before(I, g) + Len(lists[g]) /\ Len(lists[g]) <= Len(I[g])
      /\ Len(lists[g]) \in Nat /\ Begins(lists[g], I[g])
      /\ \A h \in Segments : (h < g => lists[h] = I[h]) /\ (h > g => lists[h] = << >>)
  <2>1. Len(input) = 0 /\ Len(lists[g]) \in Nat /\ Before(I, g) \in Nat
    BY <1>1, <1>2, <1>3
  <2> QED
    BY <2>1, <1>1 DEF ReadSoFar, Begins
<1> HIDE DEF g, I
<1>6. g = c
  <2>1. CASE g < c
    BY <2>1, <1>1, <1>3, <1>4, <1>5
  <2>2. CASE c < g
    BY <2>2, <1>1, <1>3, <1>4, <1>5
  <2> QED
    BY <2>1, <2>2, <1>1, <1>3
<1>7. lists[g] = I[g]
  <2>1. Len(lists[g]) = Len(I[g])
    BY <1>1, <1>3, <1>4, <1>5, <1>6
  <2> QED
    BY <2>1, <1>1, <1>2, <1>3, <1>5, BeginsWhole
<1>8. \A h \in Segments : lists[h] = I[h]
  <2> SUFFICES ASSUME NEW h \in Segments PROVE lists[h] = I[h]
    OBVIOUS
  <2>1. h < g \/ h = g \/ h > g
    BY <1>1, <1>3
  <2> QED
    BY <2>1, <1>4, <1>5, <1>6, <1>7
<1> QED
  BY <1>1, <1>2, <1>8 DEF Lists, I

LEMMA LoadDoneCold ==
    ASSUME WarmInv, ColdInv, LoadDone
    PROVE  ColdInv'
<1>1. /\ phase = "load" /\ input = << >> /\ phase' = "run"
      /\ UNCHANGED <<cur_idx, file, image, loaded>> /\ Segments' = Segments
  BY DEF LoadDone, vars, Segments
<1>2. image' \in Lists(Segments') /\ ImageTagged'
  BY <1>1, ImageKept
<1> QED
  BY <1>1, <1>2 DEF ColdInv, StartsFromFirst

\* Replaying does not touch the checkpoint.
LEMMA RunCold ==
    ASSUME WarmInv, ColdInv, RunGet \/ RunProceed
    PROVE  ColdInv'
<1>1. /\ phase = "run" /\ UNCHANGED <<phase, cur_idx, file, image, loaded>>
  BY DEF RunGet, RunProceed, session
<1>2. image' \in Lists(Segments') /\ ImageTagged'
  <2>1. Segments' = Segments
    BY SameSegments DEF CheckpointNext
  <2> QED
    BY <2>1, <1>1, ImageKept
<1> QED
  BY <1>1, <1>2 DEF ColdInv, StartsFromFirst
-----------------------------------------------------------------------------
\* A save of a cold day begins at the lowest list.
LEMMA StartSaveCold ==
    ASSUME WarmInv, ColdInv, StartSave
    PROVE  ColdInv'
<1>1. /\ phase = "run" /\ phase' = "save" /\ file' = << >> /\ image' = lists
      /\ warmFile' = (loaded > 0) /\ UNCHANGED <<lists, cur_idx, loaded>> /\ Segments' = Segments
      /\ TypeOK /\ NodesWellPlaced /\ loaded \in Word
  BY DEF StartSave, vars, Segments, WarmInv, SessionTypes
<1>2. lists \in Lists(Segments) /\ Segments \in ListSets
  BY <1>1, SegmentFacts
<1>3. loaded = 0 => cur_idx = 0
  BY <1>1 DEF ColdInv, StartsFromFirst
<1>4. ImageTagged'
  <2>1. \A g \in Segments : lists[g] \in Seq(Node) /\ \A i \in DOMAIN lists[g] : lists[g][i].seg = g
    BY <1>1, <1>2 DEF Lists, NodesWellPlaced
  <2>2. \A g \in Segments : DOMAIN lists[g] = 1 .. Len(lists[g])
    BY <2>1
  <2> QED
    BY <2>1, <2>2, <1>1 DEF ImageTagged
<1>5. ASSUME loaded = 0 PROVE Written'
  <2>1. /\ 0 \in Segments /\ Segments \subseteq Nat /\ DOMAIN lists = Segments
        /\ Before(lists, 0) = 0 /\ Len(lists[0]) \in Nat
    BY <1>2, BeforeFacts
  <2>2. Spells(<< >>, lists, 0, 0)
    <3>1. Len(<< >>) = 0 /\ 0 <= Len(lists[0]) /\ Len(<< >>) = Before(lists, 0) + 0
      BY <2>1
    <3>2. \A g \in Segments : g <= 0 => ~(g > 0) /\ ~(g < 0)
      BY <2>1
    <3>3. \A g : \A j \in 1 .. Len(lists[g]) : ~(j <= 0)
      OBVIOUS
    <3> QED
      BY <3>1, <3>2, <3>3, <2>1 DEF Spells
  <2>3. Len(lists[0]) <= Len(lists[0]) /\ Len(lists[0]) - Len(lists[0]) = 0
    BY <2>1
  <2>4. \A j \in 1 .. Len(lists[0]) : lists[0][j] = lists[0][0 + j]
    OBVIOUS
  <2>5. \A h \in Segments : ~(h < 0)
    BY <2>1
  <2>6. /\ cur_idx' = 0 /\ lists' = lists /\ image' = lists /\ file' = << >>
    BY <1>1, <1>3, <1>5
  <2> QED
    <3>1. Popped' = 0
      BY <2>3, <2>6 DEF Popped
    <3>2. Spells(file', image', cur_idx', Popped')
      BY <3>1, <2>2, <2>6
    <3>3. cur_idx' \in Segments' /\ Len(lists'[cur_idx']) <= Len(image'[cur_idx'])
      BY <2>1, <2>3, <2>6, <1>1
    <3>4. \A j \in 1 .. Len(lists'[cur_idx']) : lists'[cur_idx'][j] = image'[cur_idx'][Popped' + j]
      BY <3>1, <2>4, <2>6
    <3>5. \A h \in Segments' : /\ h < cur_idx' => lists'[h] = << >>
                               /\ h > cur_idx' => lists'[h] = image'[h]
      BY <2>5, <2>6, <1>1
    <3> QED
      BY <3>2, <3>3, <3>4, <3>5 DEF Written
<1>6. ~warmFile' => loaded' = 0
  <2>1. loaded = 0 \/ loaded > 0
    BY <1>1, ChunkFacts DEF Word
  <2>2. loaded > 0 => warmFile'
    BY <1>1, Zenon
  <2> QED
    BY <2>1, <2>2, <1>1
<1> QED
  BY <1>1, <1>2, <1>4, <1>5, <1>6 DEF ColdInv, StartsFromFirst, EndsInNode

\* Once the current list is empty, a cold save has another list left to write.
LEMMA MoreToWrite ==
    ASSUME WarmInv, Written, loaded = 0, cache_size # 0, lists[cur_idx] = << >>
    PROVE  cur_idx + 1 \in Segments
<1>1. /\ TypeOK /\ cur_idx \in Segments /\ \A h \in Segments : h < cur_idx => lists[h] = << >>
  BY DEF WarmInv, Written
<1>2. /\ Count \in Nat /\ Segments = 0 .. Count - 1
  BY <1>1, CountFacts
<1> HIDE DEF Count
<1>3. ASSUME cur_idx + 1 \notin Segments PROVE \A h \in Segments : lists[h] = << >>
  <2>1. \A h \in Segments : h < cur_idx \/ h = cur_idx
    BY <1>1, <1>2, <1>3
  <2> QED
    BY <2>1, <1>1
<1> QED
  BY <1>3, ColdSize

LEMMA PopHeaderCold ==
    ASSUME WarmInv, ColdInv, PopHeader
    PROVE  ColdInv'
<1> DEFINE c == cur_idx
<1>1. /\ phase = "save" /\ cache_size # 0
      /\ \/ Wraps /\ cur_idx' = 0
         \/ ~Wraps /\ c < Count /\ sizes[c] = 0 /\ cur_idx' = c + 1
      /\ file' = Append(file, Header(cur_idx'))
      /\ UNCHANGED <<phase, cache_size, lists, image, loaded, warmFile>> /\ Segments' = Segments
      /\ TypeOK /\ NodesWellPlaced /\ Counted /\ file \in Seq(Line)
  BY DEF PopHeader, Saving, vars, Segments, WarmInv, SessionTypes
<1>2. image' \in Lists(Segments') /\ ImageTagged'
  BY <1>1 DEF ColdInv, ImageTagged
<1>3. ASSUME loaded = 0 PROVE Written'
  <2>1. Written /\ image \in Lists(Segments) /\ Segments \in ListSets /\ c \in Segments
    BY <1>1, <1>3, SegmentFacts DEF ColdInv, Written
  <2>2. /\ Segments \subseteq Nat /\ DOMAIN image = Segments
        /\ \A g \in Segments : Len(image[g]) \in Nat
    BY <2>1, BeforeFacts
  <2>3. ~Wraps
    <3>1. ASSUME c > 0 PROVE sizes[0] = 0
      <4>1. 0 \in Segments /\ lists[0] = << >>
        BY <3>1, <2>1, <1>1, SegmentFacts DEF Written, FIRST
      <4> QED
        BY <4>1, <1>1, CountedEmpty
    <3>2. Count \in Nat /\ Count > 1
      BY <1>1, CountFacts
    <3> QED
      BY <3>1, <3>2 DEF Wraps, FIRST
  <2>4. lists[c] = << >> /\ cur_idx' = c + 1
    BY <2>1, <2>3, <1>1, CountedEmpty
  <2>5. c + 1 \in Segments
    BY <2>1, <2>4, <1>1, <1>3, MoreToWrite
  <2>6. Spells(file, image, c, Len(image[c]))
    <3>1. Popped = Len(image[c])
      BY <2>1, <2>2, <2>4 DEF Popped
    <3> QED
      BY <3>1, <2>1 DEF Written
  <2>7. Spells(file', image, c + 1, 0)
    BY <2>1, <2>4, <2>5, <2>6, <1>1, SpellsHeader
  <2>8. \A h \in Segments : (h < c => lists[h] = << >>) /\ (h > c => lists[h] = image[h])
    BY <2>1 DEF Written
  <2>9. c \in Nat
    BY <2>1, <2>2
  <2> HIDE DEF c
  <2>10. lists[c + 1] = image[c + 1] /\ Len(image[c + 1]) \in Nat
    BY <2>2, <2>5, <2>8, <2>9
  <2>11. \A h \in Segments : (h < c + 1 => lists[h] = << >>) /\ (h > c + 1 => lists[h] = image[h])
    <3> SUFFICES ASSUME NEW h \in Segments
                 PROVE  (h < c + 1 => lists[h] = << >>) /\ (h > c + 1 => lists[h] = image[h])
      OBVIOUS
    <3>1. h \in Nat /\ (h < c + 1 => h < c \/ h = c) /\ (h > c + 1 => h > c)
      BY <2>2, <2>9
    <3> QED
      BY <3>1, <2>4, <2>8
  <2>12. /\ Len(lists[c + 1]) <= Len(image[c + 1]) /\ Popped' = 0
         /\ \A j \in 1 .. Len(lists[c + 1]) : lists[c + 1][j] = image[c + 1][0 + j]
    BY <2>4, <2>10, <1>1 DEF Popped
  <2> QED
    BY <2>4, <2>5, <2>7, <2>11, <2>12, <1>1 DEF Written
<1> QED
  BY <1>1, <1>2, <1>3 DEF ColdInv, StartsFromFirst

LEMMA PopNodeCold ==
    ASSUME WarmInv, ColdInv, PopNode
    PROVE  ColdInv'
<1> DEFINE c == cur_idx
           s == lists[c]
           l == NodeLine(Head(s))
           I == image
<1>1. /\ phase = "save" /\ c < Count /\ sizes[c] # 0
      /\ file' = Append(file, l) /\ lists' = [lists EXCEPT ![c] = Tail(s)]
      /\ UNCHANGED <<phase, cur_idx, image, loaded, warmFile>>
      /\ TypeOK /\ NodesWellPlaced /\ Counted /\ file \in Seq(Line)
  BY DEF PopNode, Saving, WarmInv, SessionTypes
<1>2. c \in Segments
  <2>1. Count \in Nat /\ (c \in Segments \/ c = Count)
    BY <1>1, CountFacts DEF WarmInv, CurrentList
  <2> QED
    BY <2>1, <1>1
<1>3. /\ Segments' = Segments /\ lists \in Lists(Segments) /\ Segments \in ListSets
      /\ s \in Seq(Node) /\ s # << >>
  BY <1>1, <1>2, SegmentFacts, SameSegments, CountedEmpty DEF CheckpointNext, SaveStep
<1>4. image' \in Lists(Segments') /\ ImageTagged'
  BY <1>1, <1>3 DEF ColdInv, ImageTagged
<1>5. l \in Line /\ l.kind = "node"
  <2>1. Head(s) \in Node
    BY <1>3
  <2> QED
    BY <2>1 DEF NodeLine, Line, Node
<1>6. EndsInNode(file')
  <2>1. Len(file') = Len(file) + 1 /\ file'[Len(file) + 1] = l
    BY <1>1, <1>5
  <2> QED
    BY <2>1, <1>5 DEF EndsInNode
<1>7. ASSUME loaded = 0 PROVE Written'
  <2> DEFINE p == Len(I[c]) - Len(s)
             t == Tail(s)
  <2>1. Written /\ I \in Lists(Segments)
    BY <1>1, <1>7 DEF ColdInv
  <2>2. /\ Segments \subseteq Nat /\ DOMAIN I = Segments /\ I[c] \in Seq(Node) /\ Len(I[c]) \in Nat
    BY <2>1, <1>2, <1>3, BeforeFacts
  <2>3. /\ Spells(file, I, c, p) /\ Len(s) <= Len(I[c])
        /\ \A j \in 1 .. Len(s) : s[j] = I[c][p + j]
        /\ \A h \in Segments : (h < c => lists[h] = << >>) /\ (h > c => lists[h] = I[h])
    BY <2>1 DEF Written, Popped
  <2>4. /\ Len(s) \in Nat /\ Len(s) > 0 /\ Head(s) = s[1]
        /\ Len(t) = Len(s) - 1 /\ \A j \in 1 .. Len(s) - 1 : t[j] = s[j + 1]
    BY <1>3
  <2>5. l = NodeLine(I[c][p + 1])
    <3>1. 1 \in 1 .. Len(s)
      BY <2>4
    <3> QED
      BY <3>1, <2>3, <2>4
  <2>6. lists'[c] = t /\ \A h \in Segments : h # c => lists'[h] = lists[h]
    BY <1>1, <1>2, <1>3 DEF Lists
  <2> HIDE DEF l, t
  <2>7. p \in Nat /\ p < Len(I[c]) /\ Len(I[c]) - Len(t) = p + 1 /\ Len(t) <= Len(I[c])
    <3>1. /\ Len(I[c]) \in Nat /\ Len(s) \in Nat /\ Len(s) > 0 /\ Len(t) = Len(s) - 1
          /\ Len(s) <= Len(I[c])
      BY <2>2, <2>3, <2>4
    <3> HIDE DEF I, c, s
    <3> QED
      BY <3>1
  <2>8. Spells(file', I, c, p + 1)
    <3> HIDE DEF p
    <3> QED
      BY <2>1, <2>3, <2>5, <2>7, <1>1, <1>2, <1>3, SpellsNode
  <2>9. \A j \in 1 .. Len(t) : t[j] = I[c][(p + 1) + j]
    <3> SUFFICES ASSUME NEW j \in 1 .. Len(t) PROVE t[j] = I[c][(p + 1) + j]
      OBVIOUS
    <3>1. j + 1 \in 1 .. Len(s) /\ t[j] = s[j + 1]
      BY <2>4
    <3>2. s[j + 1] = I[c][p + (j + 1)]
      BY <3>1, <2>3
    <3>3. p + (j + 1) = (p + 1) + j
      <4>1. p \in Nat /\ j \in Nat
        BY <2>7
      <4> HIDE DEF p
      <4> QED
        BY <4>1
    <3> QED
      BY <3>1, <3>2, <3>3
  <2>10. \A h \in Segments : (h < c => lists'[h] = << >>) /\ (h > c => lists'[h] = I[h])
    <3> SUFFICES ASSUME NEW h \in Segments
                 PROVE  (h < c => lists'[h] = << >>) /\ (h > c => lists'[h] = I[h])
      OBVIOUS
    <3>1. (h < c => h # c) /\ (h > c => h # c)
      BY <2>2, <1>2
    <3> QED
      BY <3>1, <2>3, <2>6
  <2>11. Popped' = p + 1
    BY <2>6, <2>7, <1>1 DEF Popped
  <2> HIDE DEF p
  <2>12. Spells(file', image', cur_idx', Popped')
    BY <2>8, <2>11, <1>1
  <2>13. \A j \in 1 .. Len(lists'[cur_idx']) : lists'[cur_idx'][j] = image'[cur_idx'][Popped' + j]
    BY <2>6, <2>9, <2>11, <1>1
  <2>14. \A h \in Segments' : /\ h < cur_idx' => lists'[h] = << >>
                              /\ h > cur_idx' => lists'[h] = image'[h]
    BY <2>10, <1>1, <1>3
  <2>15. cur_idx' \in Segments' /\ Len(lists'[cur_idx']) <= Len(image'[cur_idx'])
    BY <2>6, <2>7, <1>1, <1>2, <1>3
  <2> QED
    BY <2>12, <2>13, <2>14, <2>15, Zenon DEF Written
<1> QED
  BY <1>1, <1>4, <1>6, <1>7 DEF ColdInv, StartsFromFirst

\* A cold save that is over has written everything.
LEMMA SaveDoneCold ==
    ASSUME WarmInv, ColdInv, SaveDone
    PROVE  ColdInv'
<1>1. /\ phase = "save" /\ cache_size = 0 /\ phase' = "off"
      /\ UNCHANGED <<file, image, warmFile>> /\ Segments' = Segments /\ TypeOK
  BY DEF SaveDone, vars, Segments, WarmInv
<1>2. image' \in Lists(Segments') /\ ImageTagged' /\ (ColdFile => ColdFile')
  BY <1>1, ImageKept
<1>3. ASSUME ~warmFile PROVE ColdFile
  <2>1. loaded = 0 /\ Written /\ image \in Lists(Segments) /\ Segments \in ListSets
    BY <1>1, <1>3, SegmentFacts DEF ColdInv
  <2>2. \A g \in Segments : lists[g] = << >>
    BY <2>1, <1>1, ColdSize
  <2>3. cur_idx \in Segments /\ Len(image[cur_idx]) \in Nat
    BY <2>1, BeforeFacts DEF Written
  <2>4. Popped = Len(image[cur_idx])
    <3>1. Len(lists[cur_idx]) = 0
      BY <2>2, <2>3
    <3> QED
      BY <3>1, <2>3 DEF Popped
  <2>5. Spells(file, image, cur_idx, Len(image[cur_idx]))
    BY <2>1, <2>4 DEF Written
  <2>6. \A h \in Segments : h > cur_idx => image[h] = << >>
    BY <2>1, <2>2 DEF Written
  <2> QED
    BY <2>3, <2>5, <2>6 DEF ColdFile
<1> QED
  BY <1>1, <1>2, <1>3 DEF ColdInv, StartsFromFirst

\* A save runs past the last list only on a warm day.
LEMMA OutOfBoundsIsWarm ==
    ASSUME WarmInv, ColdInv, PopOutOfBounds
    PROVE  loaded > 0 /\ ColdInv'
<1>1. /\ phase = "save" /\ cur_idx = Count /\ phase' = "undefined" /\ UNCHANGED image
      /\ Segments' = Segments /\ loaded \in Nat /\ TypeOK
  BY ChunkFacts DEF PopOutOfBounds, Saving, vars, Segments, WarmInv, SessionTypes, Word
<1>2. loaded # 0
  <2>1. Count \in Nat /\ Segments = 0 .. Count - 1
    BY <1>1, CountFacts
  <2>2. Count \notin Segments
    <3> HIDE DEF Count
    <3> QED
      BY <2>1
  <2> QED
    BY <2>2, <1>1 DEF ColdInv, Written
<1> QED
  BY <1>1, <1>2 DEF ColdInv, ImageTagged, StartsFromFirst

LEMMA ColdNextKeeps == WarmInv /\ ColdInv /\ [CheckpointNext]_checkpointVars => ColdInv'
<1> SUFFICES ASSUME WarmInv, ColdInv, [CheckpointNext]_checkpointVars PROVE ColdInv'
  OBVIOUS
<1>1. CASE StartDay
  BY <1>1, StartDayCold
<1>2. CASE LoadStep
  BY <1>2, PushHeaderCold, PushNodeCold, LoadDoneCold DEF LoadStep
<1>3. CASE RunGet \/ RunProceed
  BY <1>3, RunCold
<1>4. CASE SaveStep
  BY <1>4, StartSaveCold, PopHeaderCold, PopNodeCold, OutOfBoundsIsWarm, SaveDoneCold DEF SaveStep
<1>5. CASE UNCHANGED checkpointVars
  <2>1. UNCHANGED <<lists, cache_size, phase, cur_idx, input, file, image, loaded, warmFile>>
    BY <1>5 DEF checkpointVars, session, vars
  <2>2. Segments' = Segments
    BY <2>1 DEF Segments
  <2>3. image' \in Lists(Segments') /\ ImageTagged' /\ (ColdFile => ColdFile')
    BY <2>1, <2>2, ImageKept
  <2>4. (Written => Written') /\ (ReadSoFar => ReadSoFar') /\ StartsFromFirst'
    BY <2>1, <2>2 DEF Written, Popped, ReadSoFar, ColdInv, StartsFromFirst
  <2> QED
    BY <2>1, <2>3, <2>4 DEF ColdInv
<1> QED
  BY <1>1, <1>2, <1>3, <1>4, <1>5 DEF CheckpointNext

\* A day that read no line is saved whole: Pop() takes the lists in turn from the
\* lowest, never steps past the last, and ends when nothing is left; and Push()
\* rebuilds from its file each list, in its order and with its tags.
THEOREM ColdDaysRoundTrip == CheckpointSpec => ColdDayRoundTrips
<1> DEFINE A == /\ (phase = "load" /\ phase' = "run" /\ ~warmFile) => lists' = image
                /\ phase' = "undefined" => loaded > 0
<1>1. WarmInv /\ ColdInv /\ [CheckpointNext]_checkpointVars => [A]_checkpointVars
  <2> SUFFICES ASSUME WarmInv, ColdInv, CheckpointNext PROVE A
    OBVIOUS
  <2>1. CASE StartDay
    BY <2>1 DEF StartDay
  <2>2. CASE PushHeader \/ PushNode
    BY <2>2 DEF PushHeader, PushNode, ReadLine
  <2>3. CASE LoadDone
    BY <2>3, LoadedWhole DEF LoadDone, vars
  <2>4. CASE RunGet \/ RunProceed
    BY <2>4 DEF RunGet, RunProceed, session
  <2>5. CASE StartSave \/ PopHeader \/ PopNode \/ SaveDone
    BY <2>5 DEF StartSave, PopHeader, PopNode, SaveDone, Saving
  <2>6. CASE PopOutOfBounds
    BY <2>6, OutOfBoundsIsWarm DEF PopOutOfBounds, Saving
  <2> QED
    BY <2>1, <2>2, <2>3, <2>4, <2>5, <2>6 DEF CheckpointNext, LoadStep, SaveStep
<1> HIDE DEF A
<1>2. CheckpointSpec => [](WarmInv /\ ColdInv)
  BY WarmInit, ColdInit, WarmNextKeeps, ColdNextKeeps, PTL DEF CheckpointSpec
<1>3. CheckpointSpec => [][A]_checkpointVars
  BY <1>1, <1>2, PTL DEF CheckpointSpec
<1> QED
  BY <1>3 DEF ColdDayRoundTrips, A
=============================================================================
