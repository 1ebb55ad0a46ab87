--------------------------- MODULE ARCCacheProofs ---------------------------
(***************************************************************************)
(* ARC, for any keys, sizes, traces and capacity: each byte count is that  *)
(* of its list, the directory stays within the published bounds, a victim  *)
(* is there whenever one is asked for, and nothing is evicted but for room.*)
(*                                                                         *)
(* First lemmas about named lists and what the splices, drops and pushes   *)
(* of PolicyLists do to them, which any policy's proof can use; then chunks*)
(* of one size; the inductive invariant; and the four theorems.            *)
(***************************************************************************)
EXTENDS ARCCache, CacheBaseProofs

-----------------------------------------------------------------------------
(* Named lists of nodes, whatever the nodes are *)

\* The node of k taken out of a list.
KeyedNode(s, k) == s[CHOOSE i \in DOMAIN s : s[i].key = k]

\* A list without the node of k.
LEMMA WithoutFacts ==
    ASSUME NEW N, NEW s \in Seq(N), KeysDistinct(s), NEW k
    PROVE  /\ Without(s, k) \in Seq(N) /\ KeysDistinct(Without(s, k))
           /\ KeysOf(Without(s, k)) = KeysOf(s) \ {k}
           /\ \A j \in DOMAIN Without(s, k) : \E x \in DOMAIN s : Without(s, k)[j] = s[x]
           /\ k \notin KeysOf(s) => Without(s, k) = s
           /\ k \in KeysOf(s) =>
                /\ KeyedNode(s, k) \in N /\ KeyedNode(s, k).key = k
                /\ \E x \in DOMAIN s : KeyedNode(s, k) = s[x]
                /\ Bytes(s) = Bytes(Without(s, k)) + ChunkSize(KeyedNode(s, k).size)
<1> DEFINE i == CHOOSE i \in DOMAIN s : s[i].key = k
           r == RemoveAt(s, i)
<1>1. CASE k \notin KeysOf(s)
  BY <1>1 DEF Without
<1>2. CASE k \in KeysOf(s)
  <2>1. i \in DOMAIN s /\ s[i].key = k
    BY <1>2 DEF KeysOf
  <2>2. Without(s, k) = r /\ KeyedNode(s, k) = s[i]
    BY <1>2 DEF Without, KeyedNode, Erased, RemoveAt
  <2> HIDE DEF i
  <2>3. i \in 1 .. Len(s) /\ s[i] \in N
    BY <2>1
  <2>4. IsWithout(N, s, i, r)
    BY <2>3, RemoveAtFacts
  <2> HIDE DEF r
  <2>5. /\ r \in Seq(N) /\ KeysDistinct(r) /\ KeysOf(r) = KeysOf(s) \ {s[i].key}
        /\ Bytes(s) = Bytes(r) + ChunkSize(s[i].size)
        /\ \A j \in DOMAIN r : \E x \in DOMAIN s : r[j] = s[x]
    BY <2>3, <2>4, WithoutNode
  <2> QED
    BY <1>2, <2>1, <2>2, <2>3, <2>5
<1> QED
  BY <1>1, <1>2

\* The list a key is in, and its node there.
LEMMA FoundIn ==
    ASSUME NEW D, NEW N, lists \in [D -> Seq(N)], EachKeyOnce, NEW k \in Known
    PROVE  /\ ListOf(k) \in D /\ k \in KeysOf(lists[ListOf(k)])
           /\ NodeOf(k) = KeyedNode(lists[ListOf(k)], k)
           /\ NodeOf(k) \in N /\ NodeOf(k).key = k
           /\ \A l \in D : l # ListOf(k) => k \notin KeysOf(lists[l])
<1> DEFINE from == ListOf(k)
<1>1. from \in D /\ k \in KeysOf(lists[from])
  BY DEF Known, ListOf, In
<1>2. NodeOf(k) = KeyedNode(lists[from], k)
  BY DEF NodeOf, KeyedNode
<1> HIDE DEF from
<1>3. lists[from] \in Seq(N) /\ KeysDistinct(lists[from])
  BY <1>1 DEF EachKeyOnce
<1>4. KeyedNode(lists[from], k) \in N /\ KeyedNode(lists[from], k).key = k
  BY <1>1, <1>3, WithoutFacts
<1>5. \A l \in D : l # from => k \notin KeysOf(lists[l])
  BY <1>1 DEF EachKeyOnce
<1> QED
  BY <1>1, <1>2, <1>4, <1>5 DEF from

\* The nodes of some lists are nodes of some other lists.
NodesFrom(M, L) ==
    \A l \in DOMAIN M : \A i \in DOMAIN M[l] :
        \E m \in DOMAIN L : \E j \in DOMAIN L[m] : M[l][i] = L[m][j]

\* No key in two lists nor twice in one.
Apart(M) ==
    /\ \A l \in DOMAIN M : KeysDistinct(M[l])
    /\ \A l, m \in DOMAIN M : l # m => KeysOf(M[l]) \cap KeysOf(M[m]) = {}

\* M is the lists with the node of k, charged c, gone from one list to another.
Carries(D, N, k, from, to, c, M) ==
    /\ M \in [D -> Seq(N)] /\ Apart(M) /\ NodesFrom(M, lists)
    /\ KeysOf(M[to]) = KeysOf(lists[to]) \union {k}
    /\ \A l \in D : l # to => KeysOf(M[l]) = KeysOf(lists[l]) \ {k}
    /\ \A l \in D : (l = to <=> l = from) => Bytes(M[l]) = Bytes(lists[l])
    /\ to # from => Bytes(M[to]) = Bytes(lists[to]) + c /\ Bytes(lists[from]) = Bytes(M[from]) + c

\* A splice, within a list or between two.
LEMMA SpliceFacts ==
    ASSUME NEW D, NEW N, lists \in [D -> Seq(N)], EachKeyOnce, NEW k \in Known, NEW to \in D,
           NEW M, M = Spliced(k, to)
    PROVE  Carries(D, N, k, ListOf(k), to, Charge(NodeOf(k)), M)
<1> DEFINE from == ListOf(k)
           n == NodeOf(k)
           W(l) == Without(lists[l], k)
<1>1. /\ from \in D /\ k \in KeysOf(lists[from]) /\ n = KeyedNode(lists[from], k)
      /\ n \in N /\ n.key = k /\ \A l \in D : l # from => k \notin KeysOf(lists[l])
  BY FoundIn
<1>2. DOMAIN lists = D /\ \A l \in D : lists[l] \in Seq(N) /\ KeysDistinct(lists[l])
  BY DEF EachKeyOnce
<1>3. \A l, m \in D : l # m => KeysOf(lists[l]) \cap KeysOf(lists[m]) = {}
  BY <1>2 DEF EachKeyOnce
<1>4. M = [l \in D |-> (IF l = to THEN <<n>> ELSE << >>) \o W(l)]
  BY <1>2 DEF Spliced
<1> HIDE DEF from, n
<1>5. \A l \in D : /\ W(l) \in Seq(N) /\ KeysDistinct(W(l)) /\ KeysOf(W(l)) = KeysOf(lists[l]) \ {k}
                   /\ \A j \in DOMAIN W(l) : \E x \in DOMAIN lists[l] : W(l)[j] = lists[l][x]
                   /\ l # from => W(l) = lists[l]
  BY <1>1, <1>2, WithoutFacts
<1>6. /\ Bytes(lists[from]) = Bytes(W(from)) + ChunkSize(n.size)
      /\ \E x \in DOMAIN lists[from] : n = lists[from][x]
  BY <1>1, <1>2, WithoutFacts
<1> HIDE DEF W
<1>7. \A l \in D : l # to => M[l] = W(l)
  BY <1>4, <1>5
<1>8. M[to] = <<n>> \o W(to)
  BY <1>4
<1>9. /\ M[to] \in Seq(N) /\ Len(M[to]) = Len(W(to)) + 1 /\ KeysDistinct(M[to])
      /\ KeysOf(M[to]) = KeysOf(W(to)) \union {k}
      /\ Bytes(M[to]) = Bytes(W(to)) + ChunkSize(n.size)
      /\ M[to][1] = n /\ \A i \in 1 .. Len(W(to)) : M[to][i + 1] = W(to)[i]
  <2>1. W(to) \in Seq(N) /\ KeysDistinct(W(to)) /\ n.key \notin KeysOf(W(to))
    BY <1>1, <1>5
  <2> QED
    BY <2>1, <1>1, <1>8, ConsNode
<1>10. M \in [D -> Seq(N)]
  <2>1. M = [l \in D |-> M[l]]
    BY <1>4
  <2> QED
    BY <2>1, <1>5, <1>7, <1>9
<1>11. /\ KeysOf(M[to]) = KeysOf(lists[to]) \union {k}
       /\ \A l \in D : l # to => KeysOf(M[l]) = KeysOf(lists[l]) \ {k}
  BY <1>5, <1>7, <1>9
<1>12. Apart(M)
  <2>1. \A l \in D : KeysDistinct(M[l])
    BY <1>5, <1>7, <1>9
  <2>2. \A l, m \in D : l # m => KeysOf(M[l]) \cap KeysOf(M[m]) = {}
    BY <1>3, <1>11
  <2> QED
    BY <2>1, <2>2, <1>10 DEF Apart
<1>13. NodesFrom(M, lists)
  <2> SUFFICES ASSUME NEW l \in D, NEW i \in DOMAIN M[l]
               PROVE  \E m \in D : \E j \in DOMAIN lists[m] : M[l][i] = lists[m][j]
    BY <1>2, <1>10 DEF NodesFrom
  <2>1. CASE l # to
    BY <2>1, <1>5, <1>7
  <2>2. CASE l = to /\ i = 1
    BY <2>2, <1>1, <1>6, <1>9
  <2>3. CASE l = to /\ i # 1
    <3>1. i \in Nat /\ i >= 1 /\ i <= Len(W(to)) + 1 /\ W(to) \in Seq(N)
      BY <2>3, <1>5, <1>9
    <3>2. i - 1 \in 1 .. Len(W(to)) /\ (i - 1) + 1 = i /\ DOMAIN W(to) = 1 .. Len(W(to))
      BY <2>3, <3>1
    <3>3. M[to][i] = W(to)[i - 1]
      BY <3>2, <1>9
    <3> QED
      BY <2>3, <3>2, <3>3, <1>5
  <2> QED
    BY <2>1, <2>2, <2>3
<1>14. ASSUME NEW l \in D, l = to <=> l = from
       PROVE  Bytes(M[l]) = Bytes(lists[l])
  BY <1>14, <1>5, <1>6, <1>7, <1>9
<1>15. ASSUME to # from
       PROVE  /\ Bytes(M[to]) = Bytes(lists[to]) + ChunkSize(n.size)
              /\ Bytes(lists[from]) = Bytes(M[from]) + ChunkSize(n.size)
  BY <1>15, <1>1, <1>5, <1>6, <1>7, <1>9
<1> QED
  BY <1>10, <1>11, <1>12, <1>13, <1>14, <1>15 DEF from, n, Charge, Carries

\* The lists of a policy, of nodes with keys of the trace, and their counts.
Shape(D, N) ==
    /\ lists \in [D -> Seq(N)] /\ sizes \in [D -> Nat]
    /\ \A n \in N : n.key \in Key
Counted == \A l \in DOMAIN lists : sizes[l] = Bytes(lists[l])
Books(D, N) == Shape(D, N) /\ EachKeyOnce /\ Counted

\* No count comes within a chunk of the word's end.
LEMMA RoomInEach ==
    ASSUME NEW D, NEW N, Books(D, N), NEW l \in D
    PROVE  sizes[l] \in Nat /\ sizes[l] + BIG < WORD
<1> DEFINE K == KeysOf(lists[l])
           n == Cardinality(K)
           m == Cardinality(Key)
<1>1. /\ lists[l] \in Seq(N) /\ KeysDistinct(lists[l]) /\ sizes[l] = Bytes(lists[l])
      /\ sizes[l] \in Nat /\ K \subseteq Key
  BY DEF Books, Shape, EachKeyOnce, Counted, KeysOf
<1>2. sizes[l] <= BIG * n /\ n \in Nat
  BY <1>1, BytesPerKey
<1>3. IsFiniteSet(Key) /\ BIG * (m + 1) < WORD
  BY KeysAssumption DEF KeysAssumption
<1>4. n <= m /\ m \in Nat
  BY <1>1, <1>3, FS_Subset, FS_CardinalityType
<1> HIDE DEF n, m
<1>5. BIG * n <= BIG * m /\ BIG * (m + 1) = BIG * m + BIG /\ BIG * m \in Nat /\ BIG * n \in Nat
  <2>1. BIG * m = BIG * n + BIG * (m - n) /\ m - n \in Nat
    BY <1>2, <1>4, ChunkFacts
  <2> QED
    BY <2>1, <1>2, <1>4, ChunkFacts
<1> QED
  BY <1>1, <1>2, <1>3, <1>5, ChunkFacts

\* A charge is a chunk.
LEMMA ChargeFacts ==
    \A n : Charge(n) \in Nat /\ Charge(n) > 0 /\ Charge(n) <= BIG
  BY ChunkFacts DEF Charge

\* What a step does to the counts: c moves from one to another.
Shifts(D, from, to, c) ==
    /\ c <= sizes[from]
    /\ \A l \in D : sizes'[l] = IF from = to THEN sizes[l]
                                ELSE IF l = from THEN sizes[l] - c
                                ELSE IF l = to THEN sizes[l] + c
                                ELSE sizes[l]

\* k's node is in the lists or comes to be in list `to`; the others are as before.
KeysMove(D, k, to) ==
    /\ KeysOf(lists'[to]) = KeysOf(lists[to]) \union {k}
    /\ \A l \in D : l # to => KeysOf(lists'[l]) = KeysOf(lists[l]) \ {k}

\* A splice with its bytes.
LEMMA MoveBooks ==
    ASSUME NEW D, NEW N, Books(D, N), NEW k \in Known, NEW to \in D,
           lists' = Spliced(k, to), sizes' = Shifted(ListOf(k), to, Charge(NodeOf(k)))
    PROVE  /\ Books(D, N)' /\ NodesFrom(lists', lists) /\ KeysMove(D, k, to)
           /\ ListOf(k) \in D /\ NodeOf(k) \in N /\ NodeOf(k).key = k
           /\ Shifts(D, ListOf(k), to, Charge(NodeOf(k)))
<1> DEFINE from == ListOf(k)
           c == Charge(NodeOf(k))
           rest == Without(lists[from], k)
<1>0. lists \in [D -> Seq(N)] /\ sizes \in [D -> Nat] /\ EachKeyOnce
  BY DEF Books, Shape
<1>1. /\ from \in D /\ NodeOf(k) \in N /\ NodeOf(k).key = k
  BY <1>0, FoundIn
<1>2a. Carries(D, N, k, from, to, c, lists')
  BY <1>0, SpliceFacts
<1>3. sizes' = Shifted(from, to, c) /\ c \in Nat /\ c <= BIG /\ c = ChunkSize(NodeOf(k).size)
  BY ChargeFacts DEF Charge
<1>6a. /\ k \in KeysOf(lists[from]) /\ NodeOf(k) = KeyedNode(lists[from], k)
       /\ lists[from] \in Seq(N) /\ KeysDistinct(lists[from])
  BY <1>0, <1>1, FoundIn DEF EachKeyOnce
<1> HIDE DEF from, c
<1>2. /\ lists' \in [D -> Seq(N)] /\ Apart(lists') /\ NodesFrom(lists', lists)
      /\ KeysOf(lists'[to]) = KeysOf(lists[to]) \union {k}
      /\ \A l \in D : l # to => KeysOf(lists'[l]) = KeysOf(lists[l]) \ {k}
      /\ \A l \in D : (l = to <=> l = from) => Bytes(lists'[l]) = Bytes(lists[l])
      /\ to # from =>
           /\ Bytes(lists'[to]) = Bytes(lists[to]) + c
           /\ Bytes(lists[from]) = Bytes(lists'[from]) + c
  BY <1>2a DEF Carries
<1>4. \A l \in D : sizes[l] = Bytes(lists[l]) /\ sizes[l] \in Nat /\ sizes[l] + BIG < WORD
  BY <1>0, RoomInEach DEF Books, Counted
<1>5. \A l \in D : Bytes(lists'[l]) \in Nat
  BY <1>2, BytesType
<1>6. c <= sizes[from]
  <2>1. rest \in Seq(N) /\ Bytes(lists[from]) = Bytes(rest) + c
    BY <1>3, <1>6a, WithoutFacts
  <2>2. Bytes(rest) \in Nat
    BY <2>1, BytesType
  <2> HIDE DEF rest
  <2> QED
    BY <2>1, <2>2, <1>1, <1>3, <1>4
<1>7. /\ sizes' \in [D -> Nat]
      /\ \A l \in D : sizes'[l] = IF from = to THEN sizes[l]
                                  ELSE IF l = from THEN sizes[l] - c
                                  ELSE IF l = to THEN sizes[l] + c
                                  ELSE sizes[l]
  <2>1. WORD \in Nat /\ BIG \in Nat
    BY ChunkFacts
  <2>2. CASE from = to
    <3>1. Minus(sizes[to], c) = sizes[to] - c /\ Plus(sizes[to] - c, c) = sizes[to]
      BY <2>1, <2>2, <1>1, <1>3, <1>4, <1>6 DEF Plus, Minus
    <3>2. sizes' = sizes
      BY <3>1, <2>2, <1>0, <1>3 DEF Shifted
    <3> QED
      BY <3>2, <2>2, <1>0
  <2>3. CASE from # to
    <3>1. /\ sizes[from] - c \in Nat /\ sizes[to] + c \in Nat /\ sizes[to] + c < WORD
      BY <2>1, <1>1, <1>3, <1>4, <1>6
    <3>2. Minus(sizes[from], c) = sizes[from] - c /\ Plus(sizes[to], c) = sizes[to] + c
      BY <3>1, <1>6 DEF Plus, Minus
    <3>3. sizes' = [[sizes EXCEPT ![from] = sizes[from] - c] EXCEPT ![to] = sizes[to] + c]
      BY <3>2, <2>3, <1>0, <1>1, <1>3 DEF Shifted
    <3> QED
      BY <3>1, <3>3, <2>3, <1>0, <1>1
  <2> QED
    BY <2>2, <2>3
<1>8. \A l \in D : sizes'[l] = Bytes(lists'[l])
  BY <1>1, <1>2, <1>3, <1>4, <1>5, <1>7
<1>9. EachKeyOnce' /\ Counted' /\ Shape(D, N)'
  BY <1>2, <1>7, <1>8 DEF EachKeyOnce, Apart, Counted, Shape, Books
<1> QED
  BY <1>1, <1>2, <1>6, <1>7, <1>9 DEF Books, KeysMove, Shifts, from, c

\* Only list l changes, by the node of a key and its charge.
Loses(D, l, k, c) ==
    /\ k \in KeysOf(lists[l]) /\ KeysOf(lists'[l]) = KeysOf(lists[l]) \ {k}
    /\ c <= sizes[l] /\ sizes'[l] = sizes[l] - c
    /\ \A m \in D : m # l => KeysOf(lists'[m]) = KeysOf(lists[m]) /\ sizes'[m] = sizes[m]

Gains(D, l, k, c) ==
    /\ KeysOf(lists'[l]) = KeysOf(lists[l]) \union {k} /\ sizes'[l] = sizes[l] + c
    /\ \A m \in D : m # l => KeysOf(lists'[m]) = KeysOf(lists[m]) /\ sizes'[m] = sizes[m]

\* The tail of a list is erased.
LEMMA DropBooks ==
    ASSUME NEW D, NEW N, Books(D, N), NEW l \in D, DropTail(l)
    PROVE  /\ Books(D, N)' /\ NodesFrom(lists', lists)
           /\ Back(lists[l]) \in N
           /\ Loses(D, l, Back(lists[l]).key, Charge(Back(lists[l])))
<1> DEFINE s == lists[l]
           n == Back(s)
           c == Charge(n)
           r == Front(s)
<1>0. lists \in [D -> Seq(N)] /\ sizes \in [D -> Nat] /\ EachKeyOnce
  BY DEF Books, Shape
<1>1. /\ s # << >> /\ lists' = [lists EXCEPT ![l] = r] /\ sizes' = [sizes EXCEPT ![l] = Minus(@, c)]
  BY DEF DropTail, PopBack, Front
<1>2. s \in Seq(N) /\ KeysDistinct(s)
  BY <1>0 DEF EachKeyOnce
<1>3. /\ r \in Seq(N) /\ Len(s) \in Nat /\ 0 < Len(s) /\ n = s[Len(s)] /\ n \in N
      /\ Len(r) = Len(s) - 1 /\ \A i \in 1 .. Len(s) - 1 : r[i] = s[i]
      /\ KeysDistinct(r) /\ KeysOf(r) = KeysOf(s) \ {n.key}
      /\ Bytes(s) = Bytes(r) + ChunkSize(n.size)
  BY <1>1, <1>2, FrontNode DEF Back, Last
<1>4. c = ChunkSize(n.size) /\ c \in Nat
  BY ChargeFacts DEF Charge
<1> HIDE DEF r, n, c
<1>5. n.key \in KeysOf(s)
  BY <1>3 DEF KeysOf
<1>6. lists' \in [D -> Seq(N)] /\ lists'[l] = r /\ \A m \in D : m # l => lists'[m] = lists[m]
  BY <1>0, <1>1, <1>3
<1>7. /\ sizes[l] = Bytes(s) /\ sizes[l] \in Nat /\ Bytes(r) \in Nat
  BY <1>0, <1>3, BytesType DEF Books, Counted
<1>8. c <= sizes[l] /\ Minus(sizes[l], c) = sizes[l] - c /\ sizes[l] - c = Bytes(r)
  BY <1>3, <1>4, <1>7 DEF Minus
<1>9. /\ sizes' \in [D -> Nat] /\ sizes'[l] = sizes[l] - c
      /\ \A m \in D : m # l => sizes'[m] = sizes[m]
  BY <1>0, <1>1, <1>7, <1>8
<1>10. EachKeyOnce'
  <2>1. \A m \in D : KeysDistinct(lists'[m]) /\ KeysOf(lists'[m]) \subseteq KeysOf(lists[m])
    BY <1>0, <1>3, <1>6 DEF EachKeyOnce
  <2>2. \A m, q \in D : m # q => KeysOf(lists[m]) \cap KeysOf(lists[q]) = {}
    BY <1>0 DEF EachKeyOnce
  <2> QED
    BY <2>1, <2>2, <1>6 DEF EachKeyOnce
<1>11. NodesFrom(lists', lists)
  <2> SUFFICES ASSUME NEW m \in D, NEW i \in DOMAIN lists'[m]
               PROVE  \E q \in D : \E j \in DOMAIN lists[q] : lists'[m][i] = lists[q][j]
    BY <1>0, <1>6 DEF NodesFrom
  <2>1. CASE m # l
    BY <2>1, <1>6
  <2>2. CASE m = l
    <3>1. i \in 1 .. Len(s) - 1 /\ i \in DOMAIN s
      BY <2>2, <1>2, <1>3, <1>6
    <3> QED
      BY <3>1, <2>2, <1>3, <1>6
  <2> QED
    BY <2>1, <2>2
<1>12. Counted' /\ Shape(D, N)'
  BY <1>0, <1>6, <1>8, <1>9 DEF Books, Counted, Shape
<1> QED
  BY <1>3, <1>5, <1>6, <1>8, <1>9, <1>10, <1>11, <1>12 DEF Books, Loses, n, c

\* Every node is the new one or was there before.
NodesFromOr(M, L, n) ==
    \A l \in DOMAIN M : \A i \in DOMAIN M[l] :
        M[l][i] = n \/ \E m \in DOMAIN L : \E j \in DOMAIN L[m] : M[l][i] = L[m][j]

\* A new node.
LEMMA PushBooks ==
    ASSUME NEW D, NEW N, Books(D, N), NEW l \in D, NEW n \in N, n.key \notin Known,
           lists' = Pushed(l, n), sizes' = [sizes EXCEPT ![l] = Plus(@, Charge(n))]
    PROVE  /\ Books(D, N)' /\ NodesFromOr(lists', lists, n)
           /\ Gains(D, l, n.key, Charge(n))
<1> DEFINE s == lists[l]
           c == Charge(n)
           t == <<n>> \o s
<1>0. lists \in [D -> Seq(N)] /\ sizes \in [D -> Nat] /\ EachKeyOnce
  BY DEF Books, Shape
<1>1. lists' = [lists EXCEPT ![l] = t]
  BY DEF Pushed
<1>2. s \in Seq(N) /\ KeysDistinct(s) /\ \A m \in D : n.key \notin KeysOf(lists[m])
  BY <1>0 DEF EachKeyOnce, Known
<1>3. /\ t \in Seq(N) /\ Len(t) = Len(s) + 1 /\ KeysDistinct(t)
      /\ t[1] = n /\ \A i \in 1 .. Len(s) : t[i + 1] = s[i]
      /\ KeysOf(t) = KeysOf(s) \union {n.key}
      /\ Bytes(t) = Bytes(s) + ChunkSize(n.size)
  BY <1>2, ConsNode
<1>4. c = ChunkSize(n.size) /\ c \in Nat /\ c <= BIG /\ BIG \in Nat /\ WORD \in Nat
  BY ChargeFacts, ChunkFacts DEF Charge
<1> HIDE DEF t, c
<1>5. lists' \in [D -> Seq(N)] /\ lists'[l] = t /\ \A m \in D : m # l => lists'[m] = lists[m]
  BY <1>0, <1>1, <1>3
<1>6. sizes[l] = Bytes(s) /\ sizes[l] \in Nat /\ sizes[l] + BIG < WORD
  BY <1>0, RoomInEach DEF Books, Counted
<1>7. Plus(sizes[l], c) = sizes[l] + c /\ sizes[l] + c = Bytes(t) /\ sizes[l] + c \in Nat
  BY <1>3, <1>4, <1>6 DEF Plus
<1>8. /\ sizes' \in [D -> Nat] /\ sizes'[l] = sizes[l] + c
      /\ \A m \in D : m # l => sizes'[m] = sizes[m]
  BY <1>0, <1>7 DEF c
<1>9. EachKeyOnce'
  <2>1. \A m \in D : KeysDistinct(lists'[m])
    BY <1>0, <1>3, <1>5 DEF EachKeyOnce
  <2>2. \A m, q \in D : m # q => KeysOf(lists[m]) \cap KeysOf(lists[q]) = {}
    BY <1>0 DEF EachKeyOnce
  <2>3. KeysOf(lists'[l]) = KeysOf(lists[l]) \union {n.key}
    BY <1>3, <1>5
  <2>4. \A m, q \in D : m # q => KeysOf(lists'[m]) \cap KeysOf(lists'[q]) = {}
    <3> SUFFICES ASSUME NEW m \in D, NEW q \in D, m # q
                 PROVE  KeysOf(lists'[m]) \cap KeysOf(lists'[q]) = {}
      OBVIOUS
    <3>1. KeysOf(lists[m]) \cap KeysOf(lists[q]) = {}
      BY <2>2
    <3>2. CASE m # l /\ q # l
      BY <3>1, <3>2, <1>5
    <3>3. CASE m = l \/ q = l
      BY <3>1, <3>3, <2>3, <1>2, <1>5, Zenon
    <3> QED
      BY <3>2, <3>3
  <2> QED
    BY <2>1, <2>4, <1>5 DEF EachKeyOnce
<1>10. NodesFromOr(lists', lists, n)
  <2> SUFFICES ASSUME NEW m \in D, NEW i \in DOMAIN lists'[m], lists'[m][i] # n
               PROVE  \E q \in D : \E j \in DOMAIN lists[q] : lists'[m][i] = lists[q][j]
    BY <1>0, <1>5 DEF NodesFromOr
  <2>1. CASE m # l
    BY <2>1, <1>5
  <2>2. CASE m = l
    <3>1. i \in Nat /\ i >= 1 /\ i <= Len(s) + 1 /\ i # 1
      BY <2>2, <1>2, <1>3, <1>5
    <3>2. i - 1 \in 1 .. Len(s) /\ (i - 1) + 1 = i /\ DOMAIN s = 1 .. Len(s)
      BY <3>1, <1>2
    <3>3. t[(i - 1) + 1] = s[i - 1]
      BY <3>2, <1>3
    <3>4. lists'[m][i] = lists[l][i - 1]
      BY <3>2, <3>3, <2>2, <1>5
    <3> QED
      BY <3>2, <3>4
  <2> QED
    BY <2>1, <2>2
<1>11. Counted' /\ Shape(D, N)'
  BY <1>0, <1>5, <1>7, <1>8 DEF Books, Counted, Shape
<1> QED
  BY <1>3, <1>5, <1>8, <1>9, <1>10, <1>11 DEF Books, Gains, c
-----------------------------------------------------------------------------
(* The inductive invariant *)

Node == [key : Key, size : Size]

\* A node has a size under which the trace names its key.
Traced ==
    \A l \in Queue : \A i \in DOMAIN lists[l] :
        lists[l][i].size \in sizesOf[lists[l][i].key]

Configured ==
    /\ capacity \in Capacities
    /\ sizesOf \in [Key -> SUBSET Size \ {{}}]

\* What an insert() that is running was called with, and has yet to do.
CallOK ==
    /\ phase \in {"idle", "adapt", "room", "replace", "enter"}
    /\ phase = "idle" => request = NoRequest
    /\ phase # "idle" =>
         /\ request \in Node /\ request.size \in sizesOf[request.key]
         /\ ~In(request.key, "T1") /\ ~In(request.key, "T2")
    /\ phase = "adapt" => request.key \in Known
    /\ phase = "room" => request.key \notin Known

\* p_ is within the capacity until it wraps.
TargetOK ==
    /\ field \in [p : Int, wrapped : BOOLEAN]
    /\ ~field.wrapped => 0 <= field.p /\ field.p <= capacity

BooksOK == Books(Queue, Node) /\ Configured /\ Traced /\ CallOK /\ TargetOK

\* The trace has chunks of size c only.
AllOf(c) == \A k \in Key : \A s \in sizesOf[k] : ChunkSize(s) = c

InCache == sizes["T1"] + sizes["T2"]
Recent == sizes["T1"] + sizes["B1"]
Ghosts == sizes["B1"] + sizes["B2"]

\* The published bounds, at every step of a call, and what room it has made.
Within(c) ==
    /\ InCache <= capacity /\ Recent <= capacity /\ InCache + Ghosts <= 2 * capacity
    /\ (phase \in {"replace", "enter"} /\ request.key \notin Known) =>
         Recent + c <= capacity /\ InCache + Ghosts + c <= 2 * capacity
    /\ phase = "enter" => InCache + c <= capacity

\* There are ghosts only of a cache that is full, but for what the call takes out.
FullUnderGhosts(c) ==
    /\ (phase \in {"idle", "adapt", "room"} /\ Ghosts > 0) => InCache = capacity
    /\ phase = "replace" => InCache = capacity
    /\ (phase = "enter" /\ Ghosts > 0) => InCache + c = capacity

Directory == \A c \in {BIG, TINY} : AllOf(c) => Within(c) /\ FullUnderGhosts(c)
IInv == BooksOK /\ Directory
-----------------------------------------------------------------------------
(* Whole chunks *)

\* A capacity is so many chunks.
LEMMA WholeCapacity ==
    ASSUME NEW C \in Capacities, NEW c \in {BIG, TINY}
    PROVE  /\ C \in Nat /\ c \in Nat /\ c > 0 /\ c <= C /\ C + BIG < WORD
           /\ \E n \in Nat : C = c * n
<1>1. C \in Nat /\ BIG <= C /\ C + BIG < WORD
  BY BaseAssumption DEF BaseAssumption
<1>2. c \in Nat /\ c > 0 /\ c <= BIG /\ BIG \in Nat
  BY ChunkFacts
<1>3. \E n \in Nat : C = c * n
  BY WholeChunksAssumption DEF WholeChunksAssumption
<1> QED
  BY <1>1, <1>2, <1>3

\* Of two multiples of c the lesser is less by c at least.
LEMMA Gap ==
    ASSUME NEW c \in Nat, c > 0, NEW a \in Nat, NEW b \in Nat, c * a < c * b
    PROVE  c * a + c <= c * b
<1>1. a < b
  <2> SUFFICES ASSUME b <= a PROVE FALSE
    OBVIOUS
  <2>1. a - b \in Nat /\ c * a = c * b + c * (a - b)
    OBVIOUS
  <2>2. c * (a - b) \in Nat /\ c * a \in Nat /\ c * b \in Nat
    BY <2>1
  <2> QED
    BY <2>1, <2>2
<1>2. b - (a + 1) \in Nat /\ c * b = (c * a + c) + c * (b - (a + 1))
  BY <1>1
<1>3. c * (b - (a + 1)) \in Nat /\ c * a \in Nat
  BY <1>2
<1> QED
  BY <1>2, <1>3

Multiple(c, x) == \E n \in Nat : x = c * n

\* Multiples of c, one sum and one difference of them.
LEMMA Multiples ==
    ASSUME NEW c \in Nat, c > 0, NEW x, NEW y, Multiple(c, x), Multiple(c, y)
    PROVE  /\ x \in Nat /\ y \in Nat /\ Multiple(c, x + y)
           /\ x < y => x + c <= y
<1>1. PICK a \in Nat : x = c * a
  BY DEF Multiple
<1>2. PICK b \in Nat : y = c * b
  BY DEF Multiple
<1>3. x \in Nat /\ y \in Nat
  BY <1>1, <1>2
<1>4. a + b \in Nat /\ x + y = c * (a + b)
  BY <1>1, <1>2
<1>5. x < y => x + c <= y
  BY <1>1, <1>2, Gap
<1> QED
  BY <1>3, <1>4, <1>5 DEF Multiple

\* The counts are words, all of them together too.
LEMMA SumFits ==
    ASSUME Books(Queue, Node)
    PROVE  /\ \A l \in Queue : sizes[l] \in Nat
           /\ InCache + Ghosts < WORD
           /\ L1 = Recent /\ Total = InCache + Ghosts
<1> DEFINE K(l) == KeysOf(lists[l])
           n(l) == Cardinality(K(l))
           m == Cardinality(Key)
<1>1. \A l \in Queue : /\ lists[l] \in Seq(Node) /\ KeysDistinct(lists[l])
                       /\ sizes[l] \in Nat /\ sizes[l] = Bytes(lists[l]) /\ K(l) \subseteq Key
  BY DEF Books, Shape, EachKeyOnce, Counted, KeysOf
<1>2. \A l \in Queue : IsFiniteSet(K(l)) /\ n(l) \in Nat /\ sizes[l] <= BIG * n(l)
  BY <1>1, BytesPerKey
<1>3. \A l, q \in Queue : l # q => K(l) \cap K(q) = {}
  BY DEF Books, Shape, EachKeyOnce
<1>4. "T1" \in Queue /\ "T2" \in Queue /\ "B1" \in Queue /\ "B2" \in Queue
  BY DEF Queue, Resident
<1>5. IsFiniteSet(Key) /\ BIG * (m + 1) < WORD /\ BIG \in Nat /\ WORD \in Nat
  BY KeysAssumption, ChunkFacts DEF KeysAssumption
<1>6. m \in Nat
  BY <1>5, FS_CardinalityType
<1>7. n("T1") + n("T2") + n("B1") + n("B2") <= m
  <2>1. AddUp(K("T1"), K("T2"), K("B1"), K("B2"))
    <3>1. K("T1") \cap K("T2") = {}
      BY <1>3, <1>4
    <3>2. (K("T1") \cup K("T2")) \cap K("B1") = {}
      <4>1. K("T1") \cap K("B1") = {} /\ K("T2") \cap K("B1") = {}
        BY <1>3, <1>4
      <4> HIDE DEF K
      <4> QED BY <4>1
    <3>3. (K("T1") \cup K("T2") \cup K("B1")) \cap K("B2") = {}
      <4>1. K("T1") \cap K("B2") = {} /\ K("T2") \cap K("B2") = {} /\ K("B1") \cap K("B2") = {}
        BY <1>3, <1>4
      <4> HIDE DEF K
      <4> QED BY <4>1
    <3> HIDE DEF K, n
    <3> QED
      BY <3>1, <3>2, <3>3, <1>2, <1>4, FourDisjoint
  <2>2. K("T1") \cup K("T2") \cup K("B1") \cup K("B2") \subseteq Key
    BY <1>1, <1>4
  <2>3. Cardinality(K("T1") \cup K("T2") \cup K("B1") \cup K("B2")) <= m
    BY <2>2, <1>5, FS_Subset
  <2> HIDE DEF K, m
  <2> QED
    BY <2>1, <2>3 DEF AddUp
<1> HIDE DEF n, m
<1>8. BIG * n("T1") + BIG * n("T2") + BIG * n("B1") + BIG * n("B2") <= BIG * m
  <2> DEFINE s == n("T1") + n("T2") + n("B1") + n("B2")
  <2>1. s \in Nat /\ m - s \in Nat
    BY <1>2, <1>4, <1>6, <1>7
  <2>2. BIG * s = BIG * n("T1") + BIG * n("T2") + BIG * n("B1") + BIG * n("B2")
    BY <1>2, <1>4, <1>5
  <2> HIDE DEF s
  <2>3. BIG * m = BIG * s + BIG * (m - s) /\ BIG * (m - s) \in Nat /\ BIG * s \in Nat
    BY <2>1, <1>5, <1>6
  <2> QED
    BY <2>2, <2>3
<1>9. BIG * m + BIG < WORD /\ BIG * m \in Nat
  BY <1>5, <1>6
<1>10. InCache + Ghosts < WORD
  <2>1. \A l \in Queue : sizes[l] \in Nat /\ sizes[l] <= BIG * n(l) /\ BIG * n(l) \in Nat
    BY <1>1, <1>2, <1>5
  <2> QED
    BY <2>1, <1>4, <1>5, <1>8, <1>9 DEF InCache, Ghosts
<1>11. L1 = Recent /\ Total = InCache + Ghosts
  BY <1>1, <1>4, <1>5, <1>10 DEF InCache, Ghosts, Recent, L1, Total, Plus
<1> QED
  BY <1>1, <1>10, <1>11
-----------------------------------------------------------------------------
(* A trace with chunks of one size *)

\* Every node is charged c.
LEMMA NodeCharge ==
    ASSUME Books(Queue, Node), Traced, NEW c, AllOf(c)
    PROVE  \A l \in Queue : \A i \in DOMAIN lists[l] :
               lists[l][i] \in Node /\ ChunkSize(lists[l][i].size) = c
<1> SUFFICES ASSUME NEW l \in Queue, NEW i \in DOMAIN lists[l]
             PROVE  lists[l][i] \in Node /\ ChunkSize(lists[l][i].size) = c
  OBVIOUS
<1>1. lists[l][i] \in Node
  BY DEF Books, Shape
<1>2. lists[l][i].key \in Key
  BY <1>1 DEF Node
<1>3. lists[l][i].size \in sizesOf[lists[l][i].key]
  BY DEF Traced
<1> QED
  BY <1>1, <1>2, <1>3 DEF AllOf

\* Each count is so many chunks, as many as the list has keys.
LEMMA Blocks ==
    ASSUME Books(Queue, Node), Traced, NEW c \in {BIG, TINY}, AllOf(c)
    PROVE  \A l \in Queue : /\ Multiple(c, sizes[l])
                            /\ IsFiniteSet(KeysOf(lists[l]))
                            /\ sizes[l] = c * Cardinality(KeysOf(lists[l]))
                            /\ lists[l] = << >> => sizes[l] = 0
                            /\ lists[l] # << >> => sizes[l] >= c
<1> SUFFICES ASSUME NEW l \in Queue
             PROVE  /\ Multiple(c, sizes[l])
                    /\ IsFiniteSet(KeysOf(lists[l]))
                    /\ sizes[l] = c * Cardinality(KeysOf(lists[l]))
                    /\ lists[l] = << >> => sizes[l] = 0
                    /\ lists[l] # << >> => sizes[l] >= c
  OBVIOUS
<1> DEFINE s == lists[l]
           K(d) == KeysOfChunk(s, d)
           n(d) == Cardinality(K(d))
<1>1. /\ s \in Seq(Node) /\ sizes[l] \in Nat
      /\ sizes[l] = BIG * n(BIG) + TINY * n(TINY)
  BY DEF Books, Shape, Counted, Bytes
<1>2. \A i \in DOMAIN s : s[i] \in Node /\ ChunkSize(s[i].size) = c
  BY NodeCharge
<1>3. \A d : n(d) \in Nat /\ IsFiniteSet(K(d))
  BY <1>1, ChunkKeysFinite
<1>4. \A d : d # c => n(d) = 0
  <2>1. \A d : d # c => K(d) = {}
    BY <1>2 DEF KeysOfChunk
  <2> QED
    BY <2>1, FS_EmptySet
<1>5. s = << >> => n(c) = 0
  <2>1. s = << >> => K(c) = {}
    BY DEF KeysOfChunk
  <2> QED
    BY <2>1, FS_EmptySet
<1>6. s # << >> => n(c) >= 1
  <2>1. s # << >> => 1 \in DOMAIN s
    BY <1>1
  <2>2. s # << >> => s[1].key \in K(c)
    BY <2>1, <1>2 DEF KeysOfChunk
  <2> HIDE DEF K
  <2>3. s # << >> => n(c) # 0
    BY <2>2, <1>3, FS_EmptySet
  <2> QED
    BY <2>3, <1>3
<1>0. K(c) = KeysOf(s)
  BY <1>2 DEF KeysOfChunk, KeysOf
<1> HIDE DEF n
<1>7. sizes[l] = c * n(c)
  BY <1>1, <1>3, <1>4, ChunkFacts
<1>8. n(c) >= 1 => c * n(c) >= c
  <2>1. n(c) >= 1 => c * n(c) = c + c * (n(c) - 1) /\ c * (n(c) - 1) \in Nat
    BY <1>3, ChunkFacts
  <2> QED
    BY <2>1, ChunkFacts
<1>9. n(c) = 0 => c * n(c) = 0
  BY ChunkFacts
<1> QED
  BY <1>0, <1>3, <1>5, <1>6, <1>7, <1>8, <1>9 DEF Multiple, n

\* What the guards of insert() leave room for.
LEMMA RoomForOne ==
    ASSUME Books(Queue, Node), Traced, Configured, NEW c \in {BIG, TINY}, AllOf(c)
    PROVE  /\ InCache \in Nat /\ Recent \in Nat /\ Ghosts \in Nat /\ capacity \in Nat
           /\ c \in Nat /\ c > 0 /\ c <= capacity
           /\ InCache < capacity => InCache + c <= capacity
           /\ Recent < capacity => Recent + c <= capacity
           /\ sizes["T1"] < capacity => sizes["T1"] + c <= capacity
           /\ InCache + Ghosts < 2 * capacity => InCache + Ghosts + c <= 2 * capacity
<1>1. /\ capacity \in Nat /\ c \in Nat /\ c > 0 /\ c <= capacity /\ Multiple(c, capacity)
  BY WholeCapacity DEF Configured, Multiple
<1>2. \A l \in Queue : Multiple(c, sizes[l])
  BY Blocks
<1>3. "T1" \in Queue /\ "T2" \in Queue /\ "B1" \in Queue /\ "B2" \in Queue
  BY DEF Queue, Resident
<1>4. Multiple(c, InCache) /\ Multiple(c, Recent) /\ Multiple(c, Ghosts)
  BY <1>1, <1>2, <1>3, Multiples DEF InCache, Recent, Ghosts
<1>5. Multiple(c, InCache + Ghosts) /\ Multiple(c, capacity + capacity)
  BY <1>1, <1>4, Multiples
<1>6. /\ InCache \in Nat /\ Recent \in Nat /\ Ghosts \in Nat
      /\ InCache < capacity => InCache + c <= capacity
      /\ Recent < capacity => Recent + c <= capacity
      /\ sizes["T1"] < capacity => sizes["T1"] + c <= capacity
      /\ InCache + Ghosts < capacity + capacity => InCache + Ghosts + c <= capacity + capacity
  BY <1>1, <1>2, <1>3, <1>4, <1>5, Multiples
<1>7. 2 * capacity = capacity + capacity
  BY <1>1
<1> QED
  BY <1>1, <1>6, <1>7

\* The node of a key is charged c, as is the last of a list.
LEMMA ChargedOne ==
    ASSUME Books(Queue, Node), Traced, NEW c \in {BIG, TINY}, AllOf(c)
    PROVE  /\ \A k \in Known : Charge(NodeOf(k)) = c
           /\ \A l \in Queue : lists[l] # << >> => Charge(Back(lists[l])) = c
<1>1. lists \in [Queue -> Seq(Node)] /\ EachKeyOnce
  BY DEF Books, Shape
<1>2. \A l \in Queue : \A i \in DOMAIN lists[l] : Charge(lists[l][i]) = c
  BY NodeCharge DEF Charge
<1>3. ASSUME NEW k \in Known PROVE Charge(NodeOf(k)) = c
  <2>1. /\ ListOf(k) \in Queue /\ k \in KeysOf(lists[ListOf(k)])
        /\ NodeOf(k) = KeyedNode(lists[ListOf(k)], k)
    BY <1>1, FoundIn
  <2>2. lists[ListOf(k)] \in Seq(Node) /\ KeysDistinct(lists[ListOf(k)])
    BY <1>1, <2>1 DEF EachKeyOnce
  <2>3. \E x \in DOMAIN lists[ListOf(k)] : KeyedNode(lists[ListOf(k)], k) = lists[ListOf(k)][x]
    BY <2>1, <2>2, WithoutFacts
  <2> QED
    BY <2>1, <2>3, <1>2
<1>4. ASSUME NEW l \in Queue, lists[l] # << >> PROVE Charge(Back(lists[l])) = c
  <2>1. lists[l] \in Seq(Node) /\ KeysDistinct(lists[l])
    BY <1>1 DEF EachKeyOnce
  <2>2. Len(lists[l]) \in Nat /\ 0 < Len(lists[l]) /\ Back(lists[l]) = lists[l][Len(lists[l])]
    BY <1>4, <2>1, FrontNode DEF Back, Last
  <2>3. Len(lists[l]) \in DOMAIN lists[l]
    BY <2>1, <2>2
  <2> QED
    BY <2>2, <2>3, <1>2
<1> QED
  BY <1>3, <1>4
-----------------------------------------------------------------------------
(* The lists and the call *)

\* Nodes that were there have the sizes they had.
LEMMA TracedMoved ==
    ASSUME lists \in [Queue -> Seq(Node)], lists' \in [Queue -> Seq(Node)],
           Traced, UNCHANGED sizesOf, NodesFrom(lists', lists)
    PROVE  Traced'
<1> SUFFICES ASSUME NEW l \in Queue, NEW i \in DOMAIN lists'[l]
             PROVE  lists'[l][i].size \in sizesOf[lists'[l][i].key]
  BY DEF Traced
<1>1. PICK m \in Queue : \E j \in DOMAIN lists[m] : lists'[l][i] = lists[m][j]
  BY DEF NodesFrom
<1> QED
  BY <1>1 DEF Traced

\* The new node has a size of the trace.
LEMMA TracedPushed ==
    ASSUME lists \in [Queue -> Seq(Node)], lists' \in [Queue -> Seq(Node)],
           Traced, UNCHANGED sizesOf,
           NEW n, n.size \in sizesOf[n.key], NodesFromOr(lists', lists, n)
    PROVE  Traced'
<1> SUFFICES ASSUME NEW l \in Queue, NEW i \in DOMAIN lists'[l]
             PROVE  lists'[l][i].size \in sizesOf[lists'[l][i].key]
  BY DEF Traced
<1>1. CASE lists'[l][i] = n
  BY <1>1
<1>2. CASE lists'[l][i] # n
  <2>1. PICK m \in Queue : \E j \in DOMAIN lists[m] : lists'[l][i] = lists[m][j]
    BY <1>2 DEF NodesFromOr
  <2> QED
    BY <2>1 DEF Traced
<1> QED
  BY <1>1, <1>2

\* A list that has a key is charged something.
LEMMA ChargedSome ==
    ASSUME Books(Queue, Node), NEW l \in Queue, NEW k \in KeysOf(lists[l])
    PROVE  sizes[l] \in Nat /\ sizes[l] > 0
<1>1. /\ lists[l] \in Seq(Node) /\ KeysDistinct(lists[l])
      /\ sizes[l] = Bytes(lists[l]) /\ sizes[l] \in Nat
  BY DEF Books, Shape, EachKeyOnce, Counted
<1>2. /\ Without(lists[l], k) \in Seq(Node)
      /\ Bytes(lists[l]) = Bytes(Without(lists[l], k)) + ChunkSize(KeyedNode(lists[l], k).size)
  BY <1>1, WithoutFacts
<1>3. Bytes(Without(lists[l], k)) \in Nat
  BY <1>2, BytesType
<1>4. ChunkSize(KeyedNode(lists[l], k).size) \in Nat /\ ChunkSize(KeyedNode(lists[l], k).size) > 0
  BY ChunkFacts
<1> QED
  BY <1>1, <1>2, <1>3, <1>4

\* The step p_ takes.
LEMMA StepType ==
    ASSUME Books(Queue, Node), NEW of \in Queue, NEW by \in Queue, NEW k \in KeysOf(lists[by])
    PROVE  Step(of, by) \in Nat
<1>1. sizes[of] \in Nat /\ sizes[by] \in Nat /\ sizes[by] > 0
  BY ChargedSome DEF Books, Shape
<1>2. sizes[of] \div sizes[by] \in Int
  BY <1>1
<1>3. Theta(of, by) \in Nat
  BY <1>2 DEF Theta
<1> QED
  BY <1>3, ChunkFacts DEF Step

LEMMA QueueNames ==
    "T1" \in Queue /\ "T2" \in Queue /\ "B1" \in Queue /\ "B2" \in Queue
  BY DEF Queue, Resident

LEMMA KnownIn ==
    ASSUME lists \in [Queue -> Seq(Node)]
    PROVE  \A k : k \in Known <=> \E l \in Queue : k \in KeysOf(lists[l])
  BY DEF Known

\* A hit moves its node to the front of T2.
LEMMA HitKeeps ==
    ASSUME BooksOK, NEW k \in Key, GetHit(k)
    PROVE  /\ BooksOK' /\ k \in Known /\ ListOf(k) \in {"T1", "T2"}
           /\ Shifts(Queue, ListOf(k), "T2", Charge(NodeOf(k)))
           /\ KeysMove(Queue, k, "T2")
<1>1. Books(Queue, Node) /\ lists \in [Queue -> Seq(Node)] /\ EachKeyOnce
  BY DEF BooksOK, Books, Shape
<1>2. k \in Known
  BY <1>1, KnownIn, QueueNames DEF GetHit, In
<1>3. /\ Books(Queue, Node)' /\ NodesFrom(lists', lists) /\ KeysMove(Queue, k, "T2")
      /\ Shifts(Queue, ListOf(k), "T2", Charge(NodeOf(k)))
  BY <1>1, <1>2, MoveBooks, QueueNames DEF GetHit, MovedTo
<1>0. ListOf(k) \in {"T1", "T2"}
  <2>1. \A l \in Queue : l # ListOf(k) => k \notin KeysOf(lists[l])
    BY <1>1, <1>2, FoundIn
  <2> QED
    BY <2>1, QueueNames DEF GetHit, In
<1>4. Traced'
  BY <1>1, <1>3, TracedMoved DEF BooksOK, GetHit, configuration, Books, Shape
<1>5. Configured' /\ TargetOK'
  BY DEF BooksOK, GetHit, configuration, Configured, TargetOK
<1>6. CallOK'
  BY DEF BooksOK, GetHit, CallOK, At
<1> QED
  BY <1>0, <1>2, <1>3, <1>4, <1>5, <1>6 DEF BooksOK

\* A step that leaves the lists alone.
LEMMA ListsAlone ==
    ASSUME BooksOK, UNCHANGED <<configuration, lists, sizes>>, CallOK', TargetOK'
    PROVE  BooksOK'
<1>1. Books(Queue, Node)'
  BY DEF BooksOK, Books, Shape, EachKeyOnce, Counted
<1>2. Configured' /\ Traced'
  BY DEF BooksOK, configuration, Configured, Traced
<1> QED
  BY <1>1, <1>2 DEF BooksOK

\* A miss begins an insert().
LEMMA MissKeeps ==
    ASSUME BooksOK, NEW k \in Key, NEW s \in sizesOf[k], GetMiss(k, s)
    PROVE  BooksOK'
<1>1. request' = [key |-> k, size |-> s] /\ request' \in Node
  <2>1. s \in Size
    BY DEF BooksOK, Configured
  <2> QED
    BY <2>1 DEF GetMiss, Enter, Node
<1>2. /\ phase' = IF k \in Known THEN "adapt" ELSE "room"
      /\ ~In(k, "T1") /\ ~In(k, "T2") /\ UNCHANGED <<configuration, lists, sizes, field>>
  BY DEF GetMiss, Enter
<1>3. CallOK'
  BY <1>1, <1>2 DEF CallOK, In, Known, configuration
<1>4. TargetOK'
  BY <1>2 DEF BooksOK, TargetOK, configuration
<1> QED
  BY <1>2, <1>3, <1>4, ListsAlone

\* The target moves.
LEMMA AdaptKeeps ==
    ASSUME BooksOK, AdaptUp \/ AdaptDown
    PROVE  BooksOK'
<1>1. UNCHANGED <<configuration, lists, sizes, request>> /\ phase = "adapt" /\ phase' = "replace"
  BY DEF AdaptUp, AdaptDown, At
<1>2. CallOK'
  BY <1>1 DEF BooksOK, CallOK, In, configuration
<1>3. Books(Queue, Node) /\ capacity \in Nat
  BY WholeCapacity DEF BooksOK, Configured
<1>4. /\ field \in [p : Int, wrapped : BOOLEAN] /\ WORD \in Nat
      /\ ~field.wrapped => 0 <= field.p /\ field.p <= capacity
  BY ChunkFacts DEF BooksOK, TargetOK
<1>5. CASE AdaptUp
  <2>1. field' = [field EXCEPT !.p = SmallerOf(capacity, Plus(@, Step("B2", "B1")))]
    BY <1>5 DEF AdaptUp
  <2>2. Step("B2", "B1") \in Nat
    BY <1>3, <1>5, StepType, QueueNames DEF AdaptUp, In
  <2> DEFINE p == field.p
             q == Plus(p, Step("B2", "B1"))
  <2>3. p \in Int
    BY <1>4
  <2> HIDE DEF p
  <2>4. q \in Int /\ (p >= 0 => q >= 0)
    BY <1>4, <2>2, <2>3 DEF Plus
  <2> HIDE DEF q
  <2>5. SmallerOf(capacity, q) \in Int /\ SmallerOf(capacity, q) <= capacity
    BY <1>3, <2>4 DEF SmallerOf
  <2>6. p >= 0 => SmallerOf(capacity, q) >= 0
    BY <1>3, <2>4 DEF SmallerOf
  <2>7. field' = [field EXCEPT !.p = SmallerOf(capacity, q)]
    BY <2>1 DEF p, q
  <2>8. TargetOK'
    BY <1>1, <1>4, <2>5, <2>6, <2>7 DEF TargetOK, configuration, p
  <2> QED
    BY <1>1, <1>2, <2>8, ListsAlone
<1>6. CASE AdaptDown
  <2>1. field' = [p |-> Minus(field.p, Step("B1", "B2")),
                  wrapped |-> field.wrapped \/ Step("B1", "B2") > field.p]
    BY <1>6 DEF AdaptDown
  <2>2. Step("B1", "B2") \in Nat
    BY <1>3, <1>6, StepType, QueueNames DEF AdaptDown, In
  <2>3. field.p \in Int
    BY <1>4
  <2>4. /\ Minus(field.p, Step("B1", "B2")) \in Int
        /\ Step("B1", "B2") <= field.p =>
             Minus(field.p, Step("B1", "B2")) = field.p - Step("B1", "B2")
    BY <1>4, <2>2, <2>3 DEF Minus
  <2>5. field' \in [p : Int, wrapped : BOOLEAN]
    BY <2>1, <2>4
  <2>6. ASSUME ~field'.wrapped PROVE 0 <= field'.p /\ field'.p <= capacity
    <3>1. field'.wrapped = (field.wrapped \/ Step("B1", "B2") > field.p)
      BY <2>1
    <3>2. ~field.wrapped /\ ~(Step("B1", "B2") > field.p)
      BY <2>6, <3>1, <1>4, Zenon
    <3>3. 0 <= field.p /\ field.p <= capacity
      BY <3>2, <1>4, Zenon
    <3>4. Step("B1", "B2") <= field.p
      BY <3>2, <2>2, <2>3
    <3>5. field'.p = field.p - Step("B1", "B2")
      BY <2>1, <2>4, <3>4
    <3> QED
      BY <3>3, <3>4, <3>5, <2>2, <2>3, <1>3
  <2>7. TargetOK'
    BY <1>1, <2>5, <2>6 DEF TargetOK, configuration
  <2> QED
    BY <1>1, <1>2, <2>7, ListsAlone
<1> QED
  BY <1>5, <1>6
\* A tail is erased on the way from "room".
LEMMA EvictKeeps ==
    ASSUME BooksOK, NEW l \in Queue, NEW next \in {"replace", "enter"},
           phase = "room", Evict(l, next)
    PROVE  /\ BooksOK' /\ lists[l] # << >>
           /\ Loses(Queue, l, Back(lists[l]).key, Charge(Back(lists[l])))
<1>1. Books(Queue, Node) /\ lists \in [Queue -> Seq(Node)]
  BY DEF BooksOK, Books, Shape
<1>2. /\ DropTail(l) /\ phase' = next /\ UNCHANGED <<configuration, field, request>>
  BY DEF Evict
<1>3. /\ Books(Queue, Node)' /\ NodesFrom(lists', lists) /\ lists[l] # << >>
      /\ Loses(Queue, l, Back(lists[l]).key, Charge(Back(lists[l])))
  BY <1>1, <1>2, DropBooks DEF DropTail
<1>4. Traced'
  BY <1>1, <1>2, <1>3, TracedMoved DEF BooksOK, configuration, Books, Shape
<1>5. \A m \in Queue : KeysOf(lists'[m]) \subseteq KeysOf(lists[m])
  BY <1>3 DEF Loses
<1>6. CallOK'
  BY <1>2, <1>5, QueueNames DEF BooksOK, CallOK, In, configuration
<1>7. Configured' /\ TargetOK'
  BY <1>2 DEF BooksOK, configuration, Configured, TargetOK
<1> QED
  BY <1>3, <1>4, <1>6, <1>7 DEF BooksOK

LEMMA KeepGhostsKeeps ==
    ASSUME BooksOK, KeepGhosts
    PROVE  BooksOK'
<1>1. /\ phase = "room" /\ phase' \in {"replace", "enter"}
      /\ UNCHANGED <<configuration, lists, sizes, field, request>>
  BY DEF KeepGhosts, L1Room, At
<1>2. CallOK' /\ TargetOK'
  BY <1>1 DEF BooksOK, CallOK, In, configuration, TargetOK
<1> QED
  BY <1>1, <1>2, ListsAlone

\* The tail of T1 or T2 becomes a ghost.
LEMMA ReplaceKeeps ==
    ASSUME BooksOK, Replace
    PROVE  LET k == Back(lists[VictimList]).key
               to == IF T1Gives THEN "B1" ELSE "B2"
           IN  /\ BooksOK' /\ k \in Known /\ ListOf(k) = VictimList
               /\ KeysMove(Queue, k, to) /\ Shifts(Queue, VictimList, to, Charge(NodeOf(k)))
<1> DEFINE from == VictimList
           k == Back(lists[from]).key
           to == IF T1Gives THEN "B1" ELSE "B2"
<1>1. Books(Queue, Node) /\ lists \in [Queue -> Seq(Node)] /\ EachKeyOnce
  BY DEF BooksOK, Books, Shape
<1>2. from \in {"T1", "T2"} /\ to \in {"B1", "B2"} /\ from \in Queue /\ to \in Queue
  BY QueueNames DEF VictimList
<1>3. /\ phase = "replace" /\ lists[from] # << >> /\ MovedTo(k, to) /\ phase' = "enter"
      /\ UNCHANGED <<configuration, field, request>>
  BY DEF Replace, At
<1> HIDE DEF from, to
<1>4. k \in KeysOf(lists[from])
  <2>1. lists[from] \in Seq(Node) /\ KeysDistinct(lists[from])
    BY <1>1, <1>2 DEF EachKeyOnce
  <2>2. /\ Len(lists[from]) \in Nat /\ 0 < Len(lists[from])
        /\ Back(lists[from]) = lists[from][Len(lists[from])]
    BY <1>3, <2>1, FrontNode DEF Back, Last
  <2>3. Len(lists[from]) \in DOMAIN lists[from]
    BY <2>1, <2>2
  <2> QED
    BY <2>2, <2>3 DEF KeysOf
<1>5. k \in Known
  BY <1>1, <1>2, <1>4, KnownIn
<1> HIDE DEF k
<1>6. ListOf(k) = from
  <2>1. \A l \in Queue : l # ListOf(k) => k \notin KeysOf(lists[l])
    BY <1>1, <1>5, FoundIn
  <2> QED
    BY <2>1, <1>2, <1>4
<1>7. /\ Books(Queue, Node)' /\ NodesFrom(lists', lists) /\ KeysMove(Queue, k, to)
      /\ Shifts(Queue, ListOf(k), to, Charge(NodeOf(k)))
  BY <1>1, <1>2, <1>3, <1>5, MoveBooks DEF MovedTo
<1>8. Traced'
  BY <1>1, <1>3, <1>7, TracedMoved DEF BooksOK, configuration, Books, Shape
<1>9. /\ KeysOf(lists'["T1"]) \subseteq KeysOf(lists["T1"])
      /\ KeysOf(lists'["T2"]) \subseteq KeysOf(lists["T2"])
  BY <1>2, <1>7, QueueNames DEF KeysMove
<1>10. CallOK'
  BY <1>3, <1>9 DEF BooksOK, CallOK, In, configuration
<1>11. Configured' /\ TargetOK'
  BY <1>3 DEF BooksOK, configuration, Configured, TargetOK
<1>12. BooksOK'
  BY <1>7, <1>8, <1>10, <1>11 DEF BooksOK
<1> QED
  BY <1>5, <1>6, <1>7, <1>12 DEF from, k, to

\* The ghost asked for enters T2.
LEMMA EnterGhostKeeps ==
    ASSUME BooksOK, EnterGhost
    PROVE  /\ BooksOK' /\ ListOf(request.key) \in {"B1", "B2"}
           /\ KeysMove(Queue, request.key, "T2")
           /\ Shifts(Queue, ListOf(request.key), "T2", Charge(NodeOf(request.key)))
<1> DEFINE k == request.key
<1>1. Books(Queue, Node) /\ lists \in [Queue -> Seq(Node)] /\ EachKeyOnce
  BY DEF BooksOK, Books, Shape
<1>2. /\ phase = "enter" /\ k \in Known /\ MovedTo(k, "T2") /\ phase' = "idle"
      /\ request' = NoRequest /\ UNCHANGED <<configuration, field>>
  BY DEF EnterGhost, At, Leave
<1>3. k \notin KeysOf(lists["T1"]) /\ k \notin KeysOf(lists["T2"])
  BY <1>2 DEF BooksOK, CallOK, In
<1> HIDE DEF k
<1>4. ListOf(k) \in {"B1", "B2"}
  <2>1. ListOf(k) \in Queue /\ k \in KeysOf(lists[ListOf(k)])
    BY <1>1, <1>2, FoundIn
  <2> QED
    BY <2>1, <1>3 DEF Queue, Resident
<1>5. /\ Books(Queue, Node)' /\ NodesFrom(lists', lists) /\ KeysMove(Queue, k, "T2")
      /\ Shifts(Queue, ListOf(k), "T2", Charge(NodeOf(k)))
  BY <1>1, <1>2, QueueNames, MoveBooks DEF MovedTo
<1>6. Traced'
  BY <1>1, <1>2, <1>5, TracedMoved DEF BooksOK, configuration, Books, Shape
<1>7. CallOK' /\ Configured' /\ TargetOK'
  BY <1>2 DEF BooksOK, CallOK, configuration, Configured, TargetOK
<1> QED
  BY <1>4, <1>5, <1>6, <1>7 DEF BooksOK, k

\* A new node enters T1.
LEMMA EnterNewKeeps ==
    ASSUME BooksOK, EnterNew
    PROVE  BooksOK' /\ Gains(Queue, "T1", request.key, Chunk)
<1> DEFINE n == NewNode
<1>1. Books(Queue, Node) /\ lists \in [Queue -> Seq(Node)]
  BY DEF BooksOK, Books, Shape
<1>2. /\ phase = "enter" /\ request.key \notin Known /\ lists' = Pushed("T1", n)
      /\ sizes' = [sizes EXCEPT !["T1"] = Plus(@, Chunk)] /\ phase' = "idle"
      /\ request' = NoRequest /\ UNCHANGED <<configuration, field>>
  BY DEF EnterNew, At, Leave, ChargedTo
<1>3. request \in Node /\ request.size \in sizesOf[request.key]
  BY <1>2 DEF BooksOK, CallOK
<1>4. n \in Node /\ n.key = request.key /\ n.size = request.size /\ Charge(n) = Chunk
  BY <1>3 DEF NewNode, Node, Charge, Chunk
<1> HIDE DEF n
<1>5. /\ Books(Queue, Node)' /\ NodesFromOr(lists', lists, n) /\ Gains(Queue, "T1", n.key, Charge(n))
  BY <1>1, <1>2, <1>4, QueueNames, PushBooks
<1>6. Traced'
  BY <1>1, <1>2, <1>3, <1>4, <1>5, TracedPushed DEF BooksOK, configuration, Books, Shape
<1>7. CallOK' /\ Configured' /\ TargetOK'
  BY <1>2 DEF BooksOK, CallOK, configuration, Configured, TargetOK
<1> QED
  BY <1>4, <1>5, <1>6, <1>7 DEF BooksOK
-----------------------------------------------------------------------------
(* The directory *)

Bounded(c) == Within(c) /\ FullUnderGhosts(c)

\* The counts that a step from `from` to `to` leaves, by name.
LEMMA ShiftedCounts ==
    ASSUME NEW from \in Queue, NEW to \in Queue, from # to, NEW c, Shifts(Queue, from, to, c)
    PROVE  /\ c <= sizes[from] /\ sizes'[from] = sizes[from] - c /\ sizes'[to] = sizes[to] + c
           /\ \A l \in Queue : l # from /\ l # to => sizes'[l] = sizes[l]
  BY DEF Shifts

LEMMA HitBounded ==
    ASSUME BooksOK, NEW c \in {BIG, TINY}, AllOf(c), Bounded(c), NEW k \in Key, GetHit(k)
    PROVE  Bounded(c)'
<1>1. /\ k \in Known /\ ListOf(k) \in {"T1", "T2"} /\ Shifts(Queue, ListOf(k), "T2", c)
      /\ Books(Queue, Node)' /\ Books(Queue, Node)
  BY HitKeeps, ChargedOne DEF BooksOK
<1>2. phase = "idle" /\ phase' = "idle" /\ capacity' = capacity
  BY DEF GetHit, At, configuration
<1>3. \A l \in Queue : sizes[l] \in Nat /\ sizes'[l] \in Nat
  BY <1>1 DEF Books, Shape
<1>4. capacity \in Nat /\ c \in Nat
  BY RoomForOne DEF BooksOK
<1>5. InCache' = InCache /\ Recent' <= Recent /\ Ghosts' = Ghosts
  <2>1. CASE ListOf(k) = "T2"
    BY <1>1, <1>3, <2>1, QueueNames DEF Shifts, InCache, Recent, Ghosts
  <2>2. CASE ListOf(k) = "T1"
    BY <1>1, <1>3, <1>4, <2>2, QueueNames DEF Shifts, InCache, Recent, Ghosts
  <2> QED
    BY <1>1, <2>1, <2>2
<1>6. InCache \in Nat /\ Recent \in Nat /\ Recent' \in Nat /\ Ghosts \in Nat
  BY <1>3, QueueNames DEF InCache, Recent, Ghosts
<1> QED
  BY <1>2, <1>4, <1>5, <1>6 DEF Bounded, Within, FullUnderGhosts

\* Nothing moves between the lists.
LEMMA CallBounded ==
    ASSUME BooksOK, NEW c \in {BIG, TINY}, AllOf(c), Bounded(c),
           AdaptUp \/ AdaptDown \/ (\E k \in Key : \E s \in sizesOf[k] : GetMiss(k, s))
    PROVE  Bounded(c)'
<1>1. UNCHANGED <<configuration, sizes>>
  BY DEF AdaptUp, AdaptDown, GetMiss
<1>2. InCache' = InCache /\ Recent' = Recent /\ Ghosts' = Ghosts /\ capacity' = capacity
  BY <1>1 DEF InCache, Recent, Ghosts, configuration
<1>3. /\ InCache \in Nat /\ Recent \in Nat /\ Ghosts \in Nat /\ capacity \in Nat
      /\ c \in Nat /\ c > 0
  BY RoomForOne DEF BooksOK
<1>4. CASE \E k \in Key : \E s \in sizesOf[k] : GetMiss(k, s)
  <2>1. phase = "idle" /\ phase' \in {"adapt", "room"}
    BY <1>4 DEF GetMiss, Enter, At
  <2> QED
    BY <1>2, <2>1 DEF Bounded, Within, FullUnderGhosts
<1>5. CASE AdaptUp \/ AdaptDown
  <2>1. phase = "adapt" /\ phase' = "replace" /\ UNCHANGED <<lists, request>>
    BY <1>5 DEF AdaptUp, AdaptDown, At
  <2>2. request.key \in Known
    BY <2>1 DEF BooksOK, CallOK
  <2>3. request'.key \in Known'
    BY <2>1, <2>2 DEF Known
  <2>4. Ghosts > 0
    <3>1. Books(Queue, Node) /\ lists \in [Queue -> Seq(Node)]
      BY DEF BooksOK, Books, Shape
    <3>2. PICK l \in Queue : request.key \in KeysOf(lists[l])
      BY <2>2, <3>1, KnownIn
    <3>3. l \in {"B1", "B2"}
      BY <2>1, <3>2 DEF BooksOK, CallOK, In, Queue, Resident
    <3>4. sizes[l] > 0
      BY <3>1, <3>2, ChargedSome
    <3>5. sizes["B1"] \in Nat /\ sizes["B2"] \in Nat
      BY <3>1, QueueNames DEF Books, Shape
    <3> QED
      BY <3>3, <3>4, <3>5 DEF Ghosts
  <2> QED
    BY <1>2, <2>1, <2>3, <2>4 DEF Bounded, Within, FullUnderGhosts
<1> QED
  BY <1>4, <1>5

\* Room is made for an unknown key.
LEMMA RoomBounded ==
    ASSUME BooksOK, NEW c \in {BIG, TINY}, AllOf(c), Bounded(c),
           EvictB1 \/ EvictT1 \/ EvictB2 \/ KeepGhosts
    PROVE  Bounded(c)'
<1>1. /\ InCache \in Nat /\ Recent \in Nat /\ Ghosts \in Nat /\ capacity \in Nat
      /\ c \in Nat /\ c > 0 /\ c <= capacity
      /\ InCache < capacity => InCache + c <= capacity
      /\ Recent < capacity => Recent + c <= capacity
      /\ sizes["T1"] < capacity => sizes["T1"] + c <= capacity
      /\ InCache + Ghosts < 2 * capacity => InCache + Ghosts + c <= 2 * capacity
  BY RoomForOne DEF BooksOK
<1>2. Books(Queue, Node) /\ Traced
  BY DEF BooksOK
<1>3. L1 = Recent /\ Total = InCache + Ghosts /\ \A l \in Queue : sizes[l] \in Nat
  BY <1>2, SumFits
<1>4. phase = "room" /\ capacity' = capacity
  BY DEF EvictB1, EvictT1, EvictB2, KeepGhosts, L1Full, L1Room, At, Evict, configuration
<1>5. /\ InCache <= capacity /\ Recent <= capacity /\ InCache + Ghosts <= 2 * capacity
      /\ Ghosts > 0 => InCache = capacity
  BY <1>4 DEF Bounded, Within, FullUnderGhosts
<1> DEFINE t1 == sizes["T1"]
           t2 == sizes["T2"]
           b1 == sizes["B1"]
           b2 == sizes["B2"]
<1>6. t1 \in Nat /\ t2 \in Nat /\ b1 \in Nat /\ b2 \in Nat
  BY <1>3, QueueNames
<1>7. InCache = t1 + t2 /\ Recent = t1 + b1 /\ Ghosts = b1 + b2
  BY DEF InCache, Recent, Ghosts
<1>8. CASE EvictB1
  <2>1. Recent >= capacity /\ t1 < capacity /\ phase' = "replace" /\ Evict("B1", "replace")
    BY <1>3, <1>8 DEF EvictB1, L1Full, T1Room, Evict
  <2>2. Loses(Queue, "B1", Back(lists["B1"]).key, Charge(Back(lists["B1"]))) /\ lists["B1"] # << >>
    BY <1>4, <2>1, EvictKeeps, QueueNames
  <2>3. /\ c <= b1 /\ sizes'["B1"] = b1 - c
        /\ sizes'["T1"] = t1 /\ sizes'["T2"] = t2 /\ sizes'["B2"] = b2
    BY <1>2, <2>2, ChargedOne, QueueNames DEF Loses
  <2> HIDE DEF t1, t2, b1, b2
  <2>4. InCache' = InCache /\ Recent' = Recent - c /\ Ghosts' = Ghosts - c
    BY <1>1, <1>6, <1>7, <2>3 DEF InCache, Recent, Ghosts, t1, t2, b1, b2
  <2>5. InCache = capacity
    BY <1>1, <1>5, <1>6, <1>7, <2>1, <2>3
  <2> QED
    BY <1>1, <1>4, <1>5, <2>1, <2>4, <2>5 DEF Bounded, Within, FullUnderGhosts
<1>9. CASE EvictT1
  <2>1. Recent >= capacity /\ t1 >= capacity /\ phase' = "enter" /\ Evict("T1", "enter")
    BY <1>1, <1>3, <1>6, <1>9 DEF EvictT1, L1Full, T1Room, Evict
  <2>2. Loses(Queue, "T1", Back(lists["T1"]).key, Charge(Back(lists["T1"]))) /\ lists["T1"] # << >>
    BY <1>4, <2>1, EvictKeeps, QueueNames
  <2>3. /\ c <= t1 /\ sizes'["T1"] = t1 - c
        /\ sizes'["T2"] = t2 /\ sizes'["B1"] = b1 /\ sizes'["B2"] = b2
    BY <1>2, <2>2, ChargedOne, QueueNames DEF Loses
  <2> HIDE DEF t1, t2, b1, b2
  <2>4. InCache' = InCache - c /\ Recent' = Recent - c /\ Ghosts' = Ghosts
    BY <1>1, <1>6, <1>7, <2>3 DEF InCache, Recent, Ghosts, t1, t2, b1, b2
  <2>5. InCache = capacity
    BY <1>1, <1>5, <1>6, <1>7, <2>1
  <2> QED
    BY <1>1, <1>4, <1>5, <2>1, <2>4, <2>5 DEF Bounded, Within, FullUnderGhosts
<1>10. CASE EvictB2
  <2>1. /\ Recent < capacity /\ InCache + Ghosts >= 2 * capacity
        /\ phase' = "replace" /\ Evict("B2", "replace")
    BY <1>3, <1>10 DEF EvictB2, L1Room, TooMany, Evict
  <2>2. Loses(Queue, "B2", Back(lists["B2"]).key, Charge(Back(lists["B2"]))) /\ lists["B2"] # << >>
    BY <1>4, <2>1, EvictKeeps, QueueNames
  <2>3. /\ c <= b2 /\ sizes'["B2"] = b2 - c
        /\ sizes'["T1"] = t1 /\ sizes'["T2"] = t2 /\ sizes'["B1"] = b1
    BY <1>2, <2>2, ChargedOne, QueueNames DEF Loses
  <2> HIDE DEF t1, t2, b1, b2
  <2>4. InCache' = InCache /\ Recent' = Recent /\ Ghosts' = Ghosts - c
    BY <1>1, <1>6, <1>7, <2>3 DEF InCache, Recent, Ghosts, t1, t2, b1, b2
  <2>5. InCache = capacity
    BY <1>1, <1>5, <1>6, <1>7, <2>1, <2>3
  <2> QED
    BY <1>1, <1>4, <1>5, <2>1, <2>4, <2>5 DEF Bounded, Within, FullUnderGhosts
<1>11. CASE KeepGhosts
  <2>1. /\ Recent < capacity /\ InCache + Ghosts < 2 * capacity
        /\ phase' = IF InCache + Ghosts >= capacity THEN "replace" ELSE "enter"
        /\ UNCHANGED sizes
    BY <1>1, <1>3, <1>11 DEF KeepGhosts, L1Room, TooMany, Full
  <2>2. InCache' = InCache /\ Recent' = Recent /\ Ghosts' = Ghosts
    BY <2>1 DEF InCache, Recent, Ghosts
  <2>3. InCache + Ghosts >= capacity => InCache = capacity
    BY <1>1, <1>5
  <2>4. InCache + Ghosts < capacity => InCache + c <= capacity /\ ~(Ghosts > 0)
    BY <1>1, <1>5
  <2> QED
    BY <1>1, <1>4, <1>5, <2>1, <2>2, <2>3, <2>4 DEF Bounded, Within, FullUnderGhosts
<1> QED
  BY <1>8, <1>9, <1>10, <1>11
\* A node becomes a ghost.
LEMMA ReplaceBounded ==
    ASSUME BooksOK, NEW c \in {BIG, TINY}, AllOf(c), Bounded(c), Replace
    PROVE  Bounded(c)'
<1> DEFINE from == VictimList
           k == Back(lists[from]).key
           to == IF T1Gives THEN "B1" ELSE "B2"
<1>1. /\ k \in Known /\ KeysMove(Queue, k, to) /\ Shifts(Queue, from, to, c)
      /\ Books(Queue, Node) /\ lists \in [Queue -> Seq(Node)] /\ lists' \in [Queue -> Seq(Node)]
  <2>1. /\ k \in Known /\ KeysMove(Queue, k, to) /\ Shifts(Queue, from, to, Charge(NodeOf(k)))
        /\ BooksOK' /\ Books(Queue, Node) /\ Traced
    BY ReplaceKeeps DEF BooksOK
  <2>2. Charge(NodeOf(k)) = c
    BY <2>1, ChargedOne
  <2> QED
    BY <2>1, <2>2 DEF BooksOK, Books, Shape
<1>2. (from = "T1" /\ to = "B1") \/ (from = "T2" /\ to = "B2")
  BY DEF VictimList
<1>3. phase = "replace" /\ phase' = "enter" /\ capacity' = capacity /\ request' = request
  BY DEF Replace, At, configuration
<1> HIDE DEF from, k, to
<1>4. /\ InCache \in Nat /\ Recent \in Nat /\ Ghosts \in Nat /\ capacity \in Nat
      /\ c \in Nat /\ c > 0
  BY RoomForOne DEF BooksOK
<1>5. InCache' = InCache - c /\ Recent' = Recent /\ Ghosts' = Ghosts + c
  <2>1. \A l \in Queue : sizes[l] \in Nat
    BY <1>1 DEF Books, Shape
  <2>2. CASE from = "T1" /\ to = "B1"
    <3>1. /\ sizes'["T1"] = sizes["T1"] - c /\ sizes'["B1"] = sizes["B1"] + c
          /\ sizes'["T2"] = sizes["T2"] /\ sizes'["B2"] = sizes["B2"]
      <4>1. Shifts(Queue, "T1", "B1", c)
        BY <1>1, <2>2
      <4> QED
        BY <4>1, ShiftedCounts, QueueNames
    <3> QED
      BY <3>1, <2>1, <1>4, QueueNames DEF InCache, Recent, Ghosts
  <2>3. CASE from = "T2" /\ to = "B2"
    <3>1. /\ sizes'["T2"] = sizes["T2"] - c /\ sizes'["B2"] = sizes["B2"] + c
          /\ sizes'["T1"] = sizes["T1"] /\ sizes'["B1"] = sizes["B1"]
      <4>1. Shifts(Queue, "T2", "B2", c)
        BY <1>1, <2>3
      <4> QED
        BY <4>1, ShiftedCounts, QueueNames
    <3> QED
      BY <3>1, <2>1, <1>4, QueueNames DEF InCache, Recent, Ghosts
  <2> QED
    BY <1>2, <2>2, <2>3
<1>6. request'.key \notin Known' => request.key \notin Known
  <2> SUFFICES ASSUME request.key \in Known PROVE request.key \in Known'
    BY <1>3
  <2>1. PICK l \in Queue : request.key \in KeysOf(lists[l])
    BY <1>1, KnownIn
  <2>2. to \in Queue
    BY <1>2, QueueNames
  <2>3. \E m \in Queue : request.key \in KeysOf(lists'[m])
    BY <1>1, <2>1, <2>2 DEF KeysMove
  <2> QED
    BY <1>1, <2>3 DEF Known
<1> QED
  BY <1>3, <1>4, <1>5, <1>6 DEF Bounded, Within, FullUnderGhosts

\* A ghost is back in the cache.
LEMMA EnterGhostBounded ==
    ASSUME BooksOK, NEW c \in {BIG, TINY}, AllOf(c), Bounded(c), EnterGhost
    PROVE  Bounded(c)'
<1> DEFINE k == request.key
           from == ListOf(k)
<1>1. from \in {"B1", "B2"} /\ Shifts(Queue, from, "T2", c) /\ Books(Queue, Node)
  <2>1. /\ from \in {"B1", "B2"} /\ Shifts(Queue, from, "T2", Charge(NodeOf(k)))
        /\ Books(Queue, Node) /\ Traced /\ k \in Known
    BY EnterGhostKeeps DEF BooksOK, EnterGhost
  <2> QED
    BY <2>1, ChargedOne
<1>2. phase = "enter" /\ phase' = "idle" /\ capacity' = capacity
  BY DEF EnterGhost, At, Leave, configuration
<1> HIDE DEF from, k
<1>3. /\ InCache \in Nat /\ Recent \in Nat /\ Ghosts \in Nat /\ capacity \in Nat
      /\ c \in Nat /\ c > 0
  BY RoomForOne DEF BooksOK
<1>4. /\ InCache' = InCache + c /\ Ghosts' = Ghosts - c /\ Ghosts >= c
      /\ Recent' <= Recent /\ Recent' \in Nat
  <2>1. \A l \in Queue : sizes[l] \in Nat
    BY <1>1 DEF Books, Shape
  <2>2. CASE from = "B1"
    <3>1. /\ c <= sizes["B1"] /\ sizes'["B1"] = sizes["B1"] - c /\ sizes'["T2"] = sizes["T2"] + c
          /\ sizes'["T1"] = sizes["T1"] /\ sizes'["B2"] = sizes["B2"]
      BY <1>1, <2>2, ShiftedCounts, QueueNames
    <3> QED
      BY <3>1, <2>1, <1>3, QueueNames DEF InCache, Recent, Ghosts
  <2>3. CASE from = "B2"
    <3>1. /\ c <= sizes["B2"] /\ sizes'["B2"] = sizes["B2"] - c /\ sizes'["T2"] = sizes["T2"] + c
          /\ sizes'["T1"] = sizes["T1"] /\ sizes'["B1"] = sizes["B1"]
      BY <1>1, <2>3, ShiftedCounts, QueueNames
    <3> QED
      BY <3>1, <2>1, <1>3, QueueNames DEF InCache, Recent, Ghosts
  <2> QED
    BY <1>1, <2>2, <2>3
<1> QED
  BY <1>2, <1>3, <1>4 DEF Bounded, Within, FullUnderGhosts

\* A new object is in the cache.
LEMMA EnterNewBounded ==
    ASSUME BooksOK, NEW c \in {BIG, TINY}, AllOf(c), Bounded(c), EnterNew
    PROVE  Bounded(c)'
<1>1. phase = "enter" /\ phase' = "idle" /\ capacity' = capacity /\ request.key \notin Known
  BY DEF EnterNew, At, Leave, configuration
<1>2. Chunk = c
  <2>1. request \in Node /\ request.size \in sizesOf[request.key]
    BY <1>1 DEF BooksOK, CallOK
  <2> QED
    BY <2>1 DEF AllOf, Chunk, Node
<1>3. Gains(Queue, "T1", request.key, c) /\ Books(Queue, Node)
  BY <1>2, EnterNewKeeps DEF BooksOK
<1>4. /\ InCache \in Nat /\ Recent \in Nat /\ Ghosts \in Nat /\ capacity \in Nat
      /\ c \in Nat /\ c > 0
  BY RoomForOne DEF BooksOK
<1>5. InCache' = InCache + c /\ Recent' = Recent + c /\ Ghosts' = Ghosts
  <2>1. \A l \in Queue : sizes[l] \in Nat
    BY <1>3 DEF Books, Shape
  <2>2. /\ sizes'["T1"] = sizes["T1"] + c /\ sizes'["T2"] = sizes["T2"]
        /\ sizes'["B1"] = sizes["B1"] /\ sizes'["B2"] = sizes["B2"]
    BY <1>3, QueueNames DEF Gains
  <2> QED
    BY <2>1, <2>2, <1>4, QueueNames DEF InCache, Recent, Ghosts
<1> QED
  BY <1>1, <1>4, <1>5 DEF Bounded, Within, FullUnderGhosts

-----------------------------------------------------------------------------
(* The invariant *)

LEMMA InitIInv == Init => IInv
<1> SUFFICES ASSUME Init PROVE IInv
  OBVIOUS
<1>1. /\ lists = [l \in Queue |-> << >>] /\ sizes = [l \in Queue |-> 0]
      /\ field = [p |-> 0, wrapped |-> FALSE] /\ phase = "idle" /\ request = NoRequest
      /\ Configured
  BY DEF Init, Constructed, Configured
<1>2. Books(Queue, Node)
  <2>1. lists \in [Queue -> Seq(Node)] /\ \A l \in Queue : lists[l] = << >>
    BY <1>1
  <2>2. KeysOf(<< >>) = {} /\ KeysDistinct(<< >>)
    BY DEF KeysOf, KeysDistinct
  <2>3. EachKeyOnce
    BY <2>1, <2>2 DEF EachKeyOnce
  <2>4. Counted
    BY <1>1, <2>1, BytesEmpty DEF Counted
  <2>5. Shape(Queue, Node)
    BY <1>1, <2>1 DEF Shape, Node
  <2> QED
    BY <2>3, <2>4, <2>5 DEF Books
<1>3. capacity \in Nat
  BY <1>1, WholeCapacity DEF Configured
<1>4. BooksOK
  BY <1>1, <1>2, <1>3 DEF BooksOK, Traced, CallOK, TargetOK
<1>5. Directory
  BY <1>1, <1>3, QueueNames DEF Directory, Within, FullUnderGhosts, InCache, Recent, Ghosts
<1> QED
  BY <1>4, <1>5 DEF IInv

LEMMA NextIInv == IInv /\ [Next]_vars => IInv'
<1> SUFFICES ASSUME IInv, [Next]_vars PROVE IInv'
  OBVIOUS
<1>1. BooksOK /\ Directory
  BY DEF IInv
<1>2. CASE UNCHANGED vars
  <2>1. UNCHANGED <<configuration, lists, sizes, field, phase, request>>
    BY <1>2 DEF vars
  <2>2. CallOK' /\ TargetOK'
    BY <1>1, <2>1 DEF BooksOK, CallOK, In, Known, TargetOK, configuration
  <2>3. BooksOK'
    BY <1>1, <2>1, <2>2, ListsAlone
  <2>4. Directory'
    BY <1>1, <2>1 DEF Directory, AllOf, Within, FullUnderGhosts, InCache, Recent, Ghosts,
                      Known, configuration
  <2> QED
    BY <2>3, <2>4 DEF IInv
<1>3. CASE Next
  <2>1. BooksOK'
    <3>1. CASE \E k \in Key : GetHit(k)
      BY <1>1, <3>1, HitKeeps
    <3>2. CASE \E k \in Key : \E s \in sizesOf[k] : GetMiss(k, s)
      BY <1>1, <3>2, MissKeeps
    <3>3. CASE AdaptUp \/ AdaptDown
      BY <1>1, <3>3, AdaptKeeps
    <3>4. CASE EvictB1 \/ EvictT1 \/ EvictB2
      BY <1>1, <3>4, EvictKeeps, QueueNames DEF EvictB1, EvictT1, EvictB2, L1Full, L1Room, At
    <3>5. CASE KeepGhosts
      BY <1>1, <3>5, KeepGhostsKeeps
    <3>6. CASE Replace
      BY <1>1, <3>6, ReplaceKeeps
    <3>7. CASE EnterGhost
      BY <1>1, <3>7, EnterGhostKeeps
    <3>8. CASE EnterNew
      BY <1>1, <3>8, EnterNewKeeps
    <3> QED
      BY <1>3, <3>1, <3>2, <3>3, <3>4, <3>5, <3>6, <3>7, <3>8 DEF Next, Get, Insert
  <2>2. ASSUME NEW c \in {BIG, TINY}, AllOf(c)' PROVE Bounded(c)'
    <3>1. UNCHANGED sizesOf
      BY <1>3 DEF Next, Get, Insert, GetHit, GetMiss, AdaptUp, AdaptDown, EvictB1, EvictT1,
                  EvictB2, Evict, KeepGhosts, Replace, EnterGhost, EnterNew, configuration
    <3>2. AllOf(c) /\ Bounded(c)
      BY <1>1, <2>2, <3>1 DEF AllOf, Directory, Bounded
    <3>3. CASE \E k \in Key : GetHit(k)
      BY <1>1, <3>2, <3>3, HitBounded
    <3>4. CASE AdaptUp \/ AdaptDown \/ \E k \in Key : \E s \in sizesOf[k] : GetMiss(k, s)
      BY <1>1, <3>2, <3>4, CallBounded
    <3>5. CASE EvictB1 \/ EvictT1 \/ EvictB2 \/ KeepGhosts
      BY <1>1, <3>2, <3>5, RoomBounded
    <3>6. CASE Replace
      BY <1>1, <3>2, <3>6, ReplaceBounded
    <3>7. CASE EnterGhost
      BY <1>1, <3>2, <3>7, EnterGhostBounded
    <3>8. CASE EnterNew
      BY <1>1, <3>2, <3>8, EnterNewBounded
    <3> QED
      BY <1>3, <3>3, <3>4, <3>5, <3>6, <3>7, <3>8 DEF Next, Get, Insert
  <2> QED
    BY <2>1, <2>2 DEF IInv, Directory, Bounded
<1> QED
  BY <1>2, <1>3

\* The inductive invariant holds in every state: the counts are exact, every node
\* has a size of its key, and with chunks of one size the directory is in bounds
\* at every step of a call, not only between calls.
THEOREM ARCInvariant == Spec => []IInv
<1>1. Init => IInv
  BY InitIInv
<1>2. IInv /\ [Next]_vars => IInv'
  BY NextIInv
<1> QED
  BY <1>1, <1>2, PTL DEF Spec

\* Whatever the trace, whose sizes may change from one request to the next, each
\* of sizes_ is the bytes of its list, and no key is in two lists: neither the
\* splice in Move() nor Evict() loses or doubles a charge, and no sum wraps.
THEOREM ARCBooksBalance == Spec => []BooksBalance
<1>1. IInv => BooksBalance
  BY DEF IInv, BooksOK, Books, Counted, BooksBalance, Shape
<1> QED
  BY <1>1, ARCInvariant, PTL
-----------------------------------------------------------------------------
(* The published bounds, and victims *)

LEMMA UniformChunk ==
    ASSUME Uniform
    PROVE  \E c \in {BIG, TINY} : AllOf(c)
<1> DEFINE S == UNION { ChunksOf(k) : k \in Key }
<1>1. S \subseteq {BIG, TINY}
  BY ChunkFacts DEF ChunksOf
<1>2. Cardinality(S) = 1
  BY DEF Uniform
<1>3. \A k \in Key : \A s \in sizesOf[k] : ChunkSize(s) \in S
  BY DEF ChunksOf
<1> HIDE DEF S
<1>4. S # {}
  BY <1>2, FS_EmptySet
<1>5. S # {BIG, TINY}
  <2>1. IsFiniteSet({BIG}) /\ Cardinality({BIG}) = 1
    BY FS_Singleton
  <2>2. {BIG, TINY} = {BIG} \cup {TINY} /\ TINY \notin {BIG}
    BY ChunkFacts
  <2>3. Cardinality({BIG} \cup {TINY}) = 2
    BY <2>1, <2>2, FS_AddElement
  <2> QED
    BY <1>2, <2>2, <2>3
<1>6. \E c \in {BIG, TINY} : S = {c}
  BY <1>1, <1>4, <1>5
<1> QED
  BY <1>3, <1>6 DEF AllOf

\* The published algorithm's bounds, for any capacity and any number of keys: with
\* chunks of one size T1 and T2 hold no more than the capacity between calls, T1
\* and its ghosts neither, and everything no more than twice the capacity.
THEOREM ARCDirectoryBounded == Spec => []DirectoryBounded
<1>1. ASSUME IInv, Uniform, phase = "idle"
      PROVE  /\ sizes["T1"] + sizes["T2"] <= capacity
             /\ sizes["T1"] + sizes["B1"] <= capacity
             /\ Total <= 2 * capacity
  <2>1. PICK c \in {BIG, TINY} : AllOf(c)
    BY <1>1, UniformChunk
  <2>2. Within(c) /\ Books(Queue, Node)
    BY <1>1, <2>1 DEF IInv, Directory, BooksOK
  <2>3. Total = InCache + Ghosts
    BY <2>2, SumFits
  <2> QED
    BY <2>2, <2>3 DEF Within, InCache, Recent
<1>2. IInv => DirectoryBounded
  BY <1>1 DEF DirectoryBounded
<1> QED
  BY <1>2, ARCInvariant, PTL

\* Between the first line of an insert() and its last, a victim is there whenever
\* one is asked for: with chunks of one size, and as long as p_ has not wrapped,
\* neither Replace() nor Evict() dereferences the end of an empty list.
THEOREM ARCVictimExists == Spec => []VictimExists
<1>1. ASSUME IInv, Uniform, ~field.wrapped
      PROVE  /\ phase = "replace" => lists[VictimList] # << >>
             /\ L1Full => lists[IF T1Room THEN "B1" ELSE "T1"] # << >>
             /\ (L1Room /\ TooMany) => lists["B2"] # << >>
  <2>1. PICK c \in {BIG, TINY} : AllOf(c)
    BY <1>1, UniformChunk
  <2>2. /\ Within(c) /\ FullUnderGhosts(c) /\ Books(Queue, Node) /\ Traced
        /\ CallOK /\ TargetOK
    BY <1>1, <2>1 DEF IInv, Directory, BooksOK
  <2>3. /\ InCache \in Nat /\ Recent \in Nat /\ Ghosts \in Nat /\ capacity \in Nat
        /\ c \in Nat /\ c > 0 /\ c <= capacity
    BY <1>1, <2>1, RoomForOne DEF IInv, BooksOK
  <2>4. L1 = Recent /\ Total = InCache + Ghosts /\ \A l \in Queue : sizes[l] \in Nat
    BY <2>2, SumFits
  <2>5. \A l \in Queue : /\ lists[l] = << >> => sizes[l] = 0
                         /\ lists[l] # << >> => sizes[l] >= c
    BY <2>1, <2>2, Blocks
  <2> DEFINE t1 == sizes["T1"]
             t2 == sizes["T2"]
             b1 == sizes["B1"]
             b2 == sizes["B2"]
  <2>6. t1 \in Nat /\ t2 \in Nat /\ b1 \in Nat /\ b2 \in Nat
    BY <2>4, QueueNames
  <2>7. InCache = t1 + t2 /\ Recent = t1 + b1 /\ Ghosts = b1 + b2
    BY DEF InCache, Recent, Ghosts
  <2>8. InCache <= capacity /\ Recent <= capacity
    BY <2>2 DEF Within
  <2>9. ASSUME L1Full PROVE lists[IF T1Room THEN "B1" ELSE "T1"] # << >>
    <3>1. t1 + b1 >= capacity
      BY <2>4, <2>7, <2>9 DEF L1Full
    <3>2. T1Room => b1 > 0
      BY <2>3, <2>6, <3>1 DEF T1Room
    <3>3. ~T1Room => t1 > 0
      BY <2>3, <2>6 DEF T1Room
    <3>4. T1Room => lists["B1"] # << >>
      BY <2>5, <3>2, QueueNames
    <3>5. ~T1Room => lists["T1"] # << >>
      BY <2>5, <3>3, QueueNames
    <3> QED
      BY <3>4, <3>5
  <2>10. ASSUME L1Room, TooMany PROVE lists["B2"] # << >>
    <3>1. t1 + b1 < capacity /\ t1 + t2 + (b1 + b2) >= 2 * capacity
      BY <2>4, <2>7, <2>10 DEF L1Room, TooMany
    <3>2. b2 > 0
      BY <2>3, <2>6, <2>7, <2>8, <3>1
    <3> QED
      BY <2>5, <3>2, QueueNames
  <2>11. ASSUME phase = "replace" PROVE lists[VictimList] # << >>
    <3>1. t1 + t2 = capacity
      BY <2>2, <2>7, <2>11 DEF FullUnderGhosts
    <3>2. CASE T1Gives
      BY <2>5, <3>2, QueueNames DEF T1Gives, VictimList
    <3>3. CASE ~T1Gives
      <4>1. lists["T2"] # << >>
        <5> SUFFICES ASSUME lists["T2"] = << >> PROVE FALSE
          OBVIOUS
        <5>1. t2 = 0 /\ t1 = capacity /\ t1 > 0
          BY <2>3, <2>5, <2>6, <3>1, QueueNames
        <5>2. 0 <= field.p /\ field.p <= capacity /\ field.p \in Int
          BY <1>1, <2>2 DEF TargetOK
        <5>3. BIG <= capacity /\ TINY < BIG /\ TINY \in Nat /\ BIG \in Nat
          BY <1>1, ChunkFacts, BaseAssumption DEF BaseAssumption, IInv, BooksOK, Configured
        <5>4. Threshold \in Int /\ Threshold <= t1
          BY <2>3, <5>1, <5>2, <5>3 DEF Threshold
        <5>5. ~In(request.key, "B2")
          BY <3>3, <2>6, <5>1, <5>4 DEF T1Gives
        <5>6. request.key \in Known => b1 >= c
          <6>1. lists \in [Queue -> Seq(Node)]
            BY <2>2 DEF Books, Shape
          <6>2. request.key \in Known => In(request.key, "B1")
            BY <2>2, <2>11, <5>5, <6>1, KnownIn DEF CallOK, In, Queue, Resident
          <6>3. In(request.key, "B1") => lists["B1"] # << >>
            BY DEF In, KeysOf
          <6> QED
            BY <2>5, <6>2, <6>3, QueueNames
        <5>7. request.key \notin Known => Recent + c <= capacity
          BY <2>2, <2>11 DEF Within
        <5> QED
          BY <2>3, <2>6, <2>7, <2>8, <5>1, <5>6, <5>7
      <4> QED
        BY <3>3, <4>1 DEF VictimList
    <3> QED
      BY <3>2, <3>3
  <2> QED
    BY <2>9, <2>10, <2>11
<1>2. IInv => VictimExists
  BY <1>1 DEF VictimExists
<1> QED
  BY <1>2, ARCInvariant, PTL
-----------------------------------------------------------------------------
(* The abstract cache *)

Residents == [k \in ResidentKeys |-> Charge(NodeOf(k))]
Wanting == IF ~Uniform \/ request = NoRequest THEN NoRequest
           ELSE [key |-> request.key, chunk |-> Chunk]

\* What is held is charged c.
AllCharged == \A c \in {BIG, TINY} : AllOf(c) => \A k \in Known : Charge(NodeOf(k)) = c

LEMMA InvCharges == IInv => AllCharged
  BY ChargedOne DEF IInv, BooksOK, AllCharged

\* The abstract load is the bytes of T1 and T2.
LEMMA LoadIsInCache ==
    ASSUME BooksOK, AllCharged, Uniform, NEW c \in {BIG, TINY}, AllOf(c)
    PROVE  Abstract!Load = InCache
<1> DEFINE a == KeysOf(lists["T1"])
           b == KeysOf(lists["T2"])
           n == Cardinality(a \cup b)
<1>1. Books(Queue, Node) /\ Traced /\ lists \in [Queue -> Seq(Node)] /\ EachKeyOnce
  BY DEF BooksOK, Books, Shape
<1>2. ResidentKeys = a \cup b /\ \A k \in ResidentKeys : k \in Known
  BY <1>1, KnownIn, QueueNames DEF ResidentKeys
<1>3. \A k \in ResidentKeys : Residents[k] = c
  BY <1>2 DEF Residents, AllCharged
<1>4. \A d : Abstract!Holding(d) = IF d = c THEN a \cup b ELSE {}
  <2>1. \A d : Abstract!Holding(d) = { k \in ResidentKeys : Residents[k] = d }
    BY Zenon DEF Abstract!Holding, Residents
  <2> HIDE DEF a, b
  <2> QED
    BY <2>1, <1>2, <1>3
<1>5. Abstract!Load = BIG * Cardinality(Abstract!Holding(BIG))
                        + TINY * Cardinality(Abstract!Holding(TINY))
  BY Zenon DEF Abstract!Load, Abstract!Cardinality, Cardinality
<1>6. /\ IsFiniteSet(a) /\ sizes["T1"] = c * Cardinality(a)
      /\ IsFiniteSet(b) /\ sizes["T2"] = c * Cardinality(b)
  BY <1>1, Blocks, QueueNames
<1>7. a \cap b = {}
  BY <1>1, QueueNames DEF EachKeyOnce
<1> HIDE DEF a, b
<1>8. /\ n = Cardinality(a) + Cardinality(b) /\ n \in Nat
      /\ Cardinality(a) \in Nat /\ Cardinality(b) \in Nat
  BY <1>6, <1>7, Disjoint
<1>9. Cardinality({}) = 0
  BY FS_EmptySet
<1> HIDE DEF n
<1>10. Abstract!Load = c * n
  <2>1. CASE c = BIG
    <3>1. Cardinality(Abstract!Holding(BIG)) = n /\ Cardinality(Abstract!Holding(TINY)) = 0
      BY <2>1, <1>4, <1>9, ChunkFacts DEF n
    <3> QED
      BY <2>1, <3>1, <1>5, <1>8, ChunkFacts
  <2>2. CASE c = TINY
    <3>1. Cardinality(Abstract!Holding(TINY)) = n /\ Cardinality(Abstract!Holding(BIG)) = 0
      BY <2>2, <1>4, <1>9, ChunkFacts DEF n
    <3> QED
      BY <2>2, <3>1, <1>5, <1>8, ChunkFacts
  <2> QED
    BY <2>1, <2>2
<1> QED
  BY <1>6, <1>8, <1>10, ChunkFacts DEF InCache

\* The object an insert() wants, and whether it fits.
LEMMA WantedFits ==
    ASSUME BooksOK, AllCharged, Uniform, NEW c \in {BIG, TINY}, AllOf(c), phase # "idle"
    PROVE  /\ Wanting = [key |-> request.key, chunk |-> c] /\ Wanting # NoRequest
           /\ Abstract!Fits <=> InCache + c <= capacity
<1>1. request \in Node /\ request.size \in sizesOf[request.key]
  BY DEF BooksOK, CallOK
<1>2. Chunk = c /\ request # NoRequest /\ request.key \in Key
  BY <1>1, NoRequestAssumption DEF NoRequestAssumption, Node, Chunk, AllOf
<1>3. Wanting = [key |-> request.key, chunk |-> c]
  BY <1>2 DEF Wanting
<1>4. Wanting # NoRequest
  BY <1>2, <1>3, NoRequestAssumption DEF NoRequestAssumption
<1>5. Abstract!Load = InCache
  BY LoadIsInCache
<1>6. Abstract!Fits <=> Abstract!Load + Wanting.chunk <= capacity
  BY Zenon DEF Abstract!Fits, Wanting
<1>7. Wanting.chunk = c
  BY <1>3
<1> QED
  BY <1>3, <1>4, <1>5, <1>6, <1>7
\* Before a step and after it, what is held is charged c.
LEMMA HeldAtC ==
    ASSUME NEW c \in {BIG, TINY}, BooksOK, BooksOK', AllCharged, AllCharged', UNCHANGED sizesOf,
           Uniform, AllOf(c)
    PROVE  /\ Uniform' /\ AllOf(c)'
           /\ ResidentKeys = KeysOf(lists["T1"]) \cup KeysOf(lists["T2"])
           /\ ResidentKeys' = KeysOf(lists'["T1"]) \cup KeysOf(lists'["T2"])
           /\ Residents = [k \in ResidentKeys |-> c]
           /\ Residents' = [k \in ResidentKeys' |-> c]
<1>1. Uniform' /\ AllOf(c)'
  BY DEF Uniform, ChunksOf, AllOf
<1>2. /\ ResidentKeys = KeysOf(lists["T1"]) \cup KeysOf(lists["T2"])
      /\ ResidentKeys' = KeysOf(lists'["T1"]) \cup KeysOf(lists'["T2"])
  BY <1>1 DEF ResidentKeys
<1>3. lists \in [Queue -> Seq(Node)] /\ lists' \in [Queue -> Seq(Node)]
  BY DEF BooksOK, Books, Shape
<1>4. /\ \A k \in ResidentKeys : Charge(NodeOf(k)) = c
      /\ \A k \in ResidentKeys' : Charge(NodeOf(k))' = c
  BY <1>1, <1>2, <1>3, QueueNames DEF AllCharged, Known
<1> QED
  BY <1>1, <1>2, <1>4 DEF Residents

\* One node of the cache erased or made a ghost, when what is wanted does not fit.
LEMMA OneOutEvicts ==
    ASSUME NEW c \in {BIG, TINY}, BooksOK, BooksOK', AllCharged, AllCharged',
           UNCHANGED <<configuration, request>>, Uniform, AllOf(c), phase # "idle",
           InCache + c > capacity,
           NEW v \in ResidentKeys, ResidentKeys' = ResidentKeys \ {v}
    PROVE  Abstract!Evict
<1>1. UNCHANGED <<sizesOf, capacity>>
  BY DEF configuration
<1>2. /\ Uniform' /\ Residents = [k \in ResidentKeys |-> c]
      /\ Residents' = [k \in ResidentKeys' |-> c]
  BY <1>1, HeldAtC
<1>3. Wanting # NoRequest /\ Wanting' = Wanting
  BY <1>1, <1>2, WantedFits DEF Wanting, Chunk
<1>4. ~Abstract!Fits
  <2>1. InCache \in Nat /\ c \in Nat /\ capacity \in Nat
    BY RoomForOne DEF BooksOK
  <2> QED
    BY <2>1, WantedFits
<1>5. /\ DOMAIN Residents = ResidentKeys
      /\ Residents' = [k \in DOMAIN Residents \ {v} |-> Residents[k]]
  BY <1>2
<1>6. \E victim \in DOMAIN Residents :
        Residents' = [k \in DOMAIN Residents \ {victim} |-> Residents[k]]
  BY <1>5
<1> QED
  BY <1>1, <1>3, <1>4, <1>6, Zenon DEF Abstract!Evict, Residents, Wanting

\* The object asked for is in, where there was room for it.
LEMMA OneInFills ==
    ASSUME NEW c \in {BIG, TINY}, BooksOK, BooksOK', AllCharged, AllCharged',
           UNCHANGED configuration, request' = NoRequest, Uniform, AllOf(c), phase # "idle",
           InCache + c <= capacity,
           request.key \notin ResidentKeys,
           ResidentKeys' = ResidentKeys \cup {request.key}
    PROVE  Abstract!Fill
<1>1. UNCHANGED <<sizesOf, capacity>>
  BY DEF configuration
<1>2. /\ Uniform' /\ Residents = [k \in ResidentKeys |-> c]
      /\ Residents' = [k \in ResidentKeys' |-> c]
  BY <1>1, HeldAtC
<1>3. /\ Wanting # NoRequest /\ Wanting.key = request.key /\ Wanting.chunk = c
      /\ Wanting' = NoRequest
  BY <1>2, WantedFits DEF Wanting
<1>4. Abstract!Fits
  BY WantedFits
<1>5. /\ Wanting.key \notin DOMAIN Residents
      /\ Residents' = [k \in DOMAIN Residents \cup {Wanting.key} |->
                          IF k = Wanting.key THEN Wanting.chunk ELSE Residents[k]]
  BY <1>2, <1>3
<1> QED
  BY <1>1, <1>3, <1>4, <1>5, Zenon DEF Abstract!Fill, Residents, Wanting

\* Nothing enters the cache or leaves it.
LEMMA SameKeysStutter ==
    ASSUME NEW c \in {BIG, TINY}, BooksOK, BooksOK', AllCharged, AllCharged',
           UNCHANGED <<configuration, request>>, Uniform, AllOf(c), ResidentKeys' = ResidentKeys
    PROVE  UNCHANGED Abstract!vars
<1>1. UNCHANGED <<sizesOf, capacity>>
  BY DEF configuration
<1>2. Uniform' /\ Residents' = Residents
  BY <1>1, HeldAtC
<1>3. Wanting' = Wanting
  BY <1>1, <1>2 DEF Wanting, Chunk
<1> QED
  BY <1>1, <1>2, <1>3, Zenon DEF Abstract!vars, Residents, Wanting
\* A miss is the abstract cache's.
LEMMA MissMisses ==
    ASSUME NEW c \in {BIG, TINY}, BooksOK, BooksOK', AllCharged, AllCharged', Uniform, AllOf(c),
           NEW k \in Key, NEW s \in sizesOf[k], GetMiss(k, s)
    PROVE  Abstract!Next
<1>1. /\ phase = "idle" /\ ~In(k, "T1") /\ ~In(k, "T2") /\ request' = [key |-> k, size |-> s]
      /\ UNCHANGED <<configuration, lists, sizes>> /\ request = NoRequest
  BY DEF GetMiss, Enter, At, BooksOK, CallOK
<1>2. UNCHANGED <<sizesOf, capacity>>
  BY <1>1 DEF configuration
<1>3. /\ Uniform' /\ Residents = [x \in ResidentKeys |-> c]
      /\ Residents' = [x \in ResidentKeys' |-> c]
      /\ ResidentKeys = KeysOf(lists["T1"]) \cup KeysOf(lists["T2"])
      /\ ResidentKeys' = KeysOf(lists'["T1"]) \cup KeysOf(lists'["T2"])
  BY <1>2, HeldAtC
<1>4. Residents' = Residents /\ k \notin DOMAIN Residents
  BY <1>1, <1>3 DEF In
<1>5. s \in Size /\ ChunkSize(s) = c
  BY DEF BooksOK, Configured, AllOf
<1>6. request' # NoRequest /\ Chunk' = c /\ request'.key = k
  BY <1>1, <1>5, NoRequestAssumption DEF NoRequestAssumption, Chunk
<1>7. Wanting = NoRequest /\ Wanting' = [key |-> k, chunk |-> c]
  BY <1>1, <1>3, <1>6 DEF Wanting
<1>8. Abstract!Miss(k, c)
  BY <1>2, <1>4, <1>7, Zenon DEF Abstract!Miss, Residents, Wanting
<1>9. c \in Abstract!Chunk
  BY DEF Abstract!Chunk
<1> QED
  BY <1>8, <1>9 DEF Abstract!Next

\* With chunks of one size, each step is one of the abstract cache's or none.
LEMMA UniformStep ==
    ASSUME NEW c \in {BIG, TINY}, BooksOK, BooksOK', AllCharged, AllCharged',
           Uniform, AllOf(c), Bounded(c), Next
    PROVE  Abstract!Next \/ UNCHANGED Abstract!vars
<1>0. /\ InCache \in Nat /\ Recent \in Nat /\ Ghosts \in Nat /\ capacity \in Nat
      /\ c \in Nat /\ c > 0
  BY RoomForOne DEF BooksOK
<1>1. UNCHANGED configuration /\ UNCHANGED sizesOf
  BY DEF Next, Get, Insert, GetHit, GetMiss, AdaptUp, AdaptDown, EvictB1, EvictT1,
         EvictB2, Evict, KeepGhosts, Replace, EnterGhost, EnterNew, configuration
<1>2. /\ ResidentKeys = KeysOf(lists["T1"]) \cup KeysOf(lists["T2"])
      /\ ResidentKeys' = KeysOf(lists'["T1"]) \cup KeysOf(lists'["T2"])
  BY <1>1, HeldAtC
<1>3. /\ Books(Queue, Node) /\ lists \in [Queue -> Seq(Node)] /\ EachKeyOnce
      /\ KeysOf(lists["T1"]) \cap KeysOf(lists["T2"]) = {}
  BY QueueNames DEF BooksOK, Books, Shape, EachKeyOnce
<1>4. CASE \E k \in Key : GetHit(k)
  <2>1. PICK k \in Key : GetHit(k)
    BY <1>4
  <2>2. KeysMove(Queue, k, "T2") /\ UNCHANGED request
    BY <2>1, HitKeeps DEF GetHit
  <2>3. ResidentKeys' = ResidentKeys
    <3>1. k \in ResidentKeys
      BY <2>1, <1>2 DEF GetHit, In
    <3>2. /\ KeysOf(lists'["T2"]) = KeysOf(lists["T2"]) \cup {k}
          /\ KeysOf(lists'["T1"]) = KeysOf(lists["T1"]) \ {k}
      BY <2>2, QueueNames DEF KeysMove
    <3> QED
      BY <3>1, <3>2, <1>2
  <2> QED
    BY <2>2, <2>3, <1>1, SameKeysStutter
<1>5. CASE \E k \in Key : \E s \in sizesOf[k] : GetMiss(k, s)
  BY <1>5, MissMisses
<1>6. CASE AdaptUp \/ AdaptDown \/ KeepGhosts
  <2>1. UNCHANGED <<lists, request>>
    BY <1>6 DEF AdaptUp, AdaptDown, KeepGhosts
  <2> QED
    BY <2>1, <1>1, <1>2, SameKeysStutter
<1>7. CASE EvictB1 \/ EvictB2
  <2>1. PICK l \in {"B1", "B2"} : phase = "room" /\ Evict(l, "replace")
    BY <1>7 DEF EvictB1, EvictB2, L1Full, L1Room, At
  <2>2. Loses(Queue, l, Back(lists[l]).key, Charge(Back(lists[l])))
    BY <2>1, EvictKeeps, QueueNames
  <2>3. ResidentKeys' = ResidentKeys
    BY <2>1, <2>2, <1>2, QueueNames DEF Loses
  <2> QED
    BY <2>1, <2>3, <1>1, SameKeysStutter DEF Evict
<1>8. CASE EvictT1
  <2>1. phase = "room" /\ sizes["T1"] >= capacity /\ Evict("T1", "enter") /\ UNCHANGED request
    <3>1. sizes["T1"] \in Nat
      BY <1>3, QueueNames DEF Books, Shape
    <3> QED
      BY <3>1, <1>0, <1>8 DEF EvictT1, L1Full, At, T1Room, Evict
  <2> DEFINE v == Back(lists["T1"]).key
  <2>2. Loses(Queue, "T1", v, Charge(Back(lists["T1"])))
    BY <2>1, EvictKeeps, QueueNames
  <2> HIDE DEF v
  <2>3. v \in ResidentKeys /\ ResidentKeys' = ResidentKeys \ {v}
    <3>1. /\ v \in KeysOf(lists["T1"]) /\ KeysOf(lists'["T1"]) = KeysOf(lists["T1"]) \ {v}
          /\ KeysOf(lists'["T2"]) = KeysOf(lists["T2"])
      BY <2>2, QueueNames DEF Loses
    <3> QED
      BY <3>1, <1>2, <1>3
  <2>4. InCache + c > capacity
    <3>1. sizes["T1"] \in Nat /\ sizes["T2"] \in Nat
      BY <1>3, QueueNames DEF Books, Shape
    <3> QED
      BY <3>1, <2>1, <1>0 DEF InCache
  <2> QED
    BY <2>1, <2>3, <2>4, <1>1, OneOutEvicts DEF Abstract!Next
<1>9. CASE Replace
  <2> DEFINE v == Back(lists[VictimList]).key
             to == IF T1Gives THEN "B1" ELSE "B2"
  <2>1. v \in Known /\ ListOf(v) = VictimList /\ KeysMove(Queue, v, to)
    BY <1>9, ReplaceKeeps
  <2>2. VictimList \in {"T1", "T2"} /\ to \in {"B1", "B2"}
    BY DEF VictimList
  <2>3. phase = "replace" /\ UNCHANGED request
    BY <1>9 DEF Replace, At
  <2> HIDE DEF v, to
  <2>4. v \in ResidentKeys /\ ResidentKeys' = ResidentKeys \ {v}
    <3>1. v \in KeysOf(lists[VictimList])
      BY <2>1, <1>3, FoundIn
    <3>2. /\ KeysOf(lists'["T1"]) = KeysOf(lists["T1"]) \ {v}
          /\ KeysOf(lists'["T2"]) = KeysOf(lists["T2"]) \ {v}
      BY <2>1, <2>2, QueueNames DEF KeysMove
    <3> QED
      BY <3>1, <3>2, <2>2, <1>2
  <2>5. InCache + c > capacity
    BY <2>3, <1>0 DEF Bounded, FullUnderGhosts
  <2> QED
    BY <2>3, <2>4, <2>5, <1>1, OneOutEvicts DEF Abstract!Next
<1>10. CASE EnterGhost \/ EnterNew
  <2>1. phase = "enter" /\ request' = NoRequest
    BY <1>10 DEF EnterGhost, EnterNew, At, Leave
  <2>2. request.key \notin ResidentKeys
    BY <2>1, <1>2 DEF BooksOK, CallOK, In
  <2>3. ResidentKeys' = ResidentKeys \cup {request.key}
    <3>1. CASE EnterGhost
      <4>1. /\ KeysOf(lists'["T2"]) = KeysOf(lists["T2"]) \cup {request.key}
            /\ KeysOf(lists'["T1"]) = KeysOf(lists["T1"]) \ {request.key}
        BY <3>1, EnterGhostKeeps, QueueNames DEF KeysMove
      <4> QED
        BY <4>1, <1>2, <2>2
    <3>2. CASE EnterNew
      <4>1. /\ KeysOf(lists'["T1"]) = KeysOf(lists["T1"]) \cup {request.key}
            /\ KeysOf(lists'["T2"]) = KeysOf(lists["T2"])
        BY <3>2, EnterNewKeeps, QueueNames DEF Gains
      <4> QED
        BY <4>1, <1>2
    <3> QED
      BY <1>10, <3>1, <3>2
  <2>4. InCache + c <= capacity
    BY <2>1 DEF Bounded, Within
  <2> QED
    BY <2>1, <2>2, <2>3, <2>4, <1>1, OneInFills DEF Abstract!Next
<1> QED
  BY <1>4, <1>5, <1>6, <1>7, <1>8, <1>9, <1>10 DEF Next, Get, Insert

\* With chunks of one size ARC is a demand-filled cache: whatever its ghosts and its
\* target, wrapped or not, it evicts one node at a time, only while the object
\* asked for does not fit, and never holds more than the capacity.
THEOREM ARCEvictsForRoomOnly == Spec => EvictsForRoomOnly
<1>1. Init => Abstract!Init
  <2> SUFFICES ASSUME Init PROVE Abstract!Init
    OBVIOUS
  <2>1. lists = [l \in Queue |-> << >>] /\ request = NoRequest /\ capacity \in Capacities
    BY DEF Init, Constructed
  <2>2. KeysOf(lists["T1"]) = {} /\ KeysOf(lists["T2"]) = {}
    BY <2>1, QueueNames DEF KeysOf
  <2>3. ResidentKeys = {}
    BY <2>2 DEF ResidentKeys
  <2>4. Residents = [k \in {} |-> BIG] /\ Wanting = NoRequest
    BY <2>1, <2>3 DEF Residents, Wanting
  <2> QED
    BY <2>1, <2>4, Zenon DEF Abstract!Init, Residents, Wanting
<1>2. IInv /\ IInv' /\ AllCharged /\ AllCharged' /\ [Next]_vars => [Abstract!Next]_(Abstract!vars)
  <2> SUFFICES ASSUME IInv, IInv', AllCharged, AllCharged', [Next]_vars
               PROVE  Abstract!Next \/ UNCHANGED Abstract!vars
    OBVIOUS
  <2>1. BooksOK /\ BooksOK' /\ UNCHANGED sizesOf
    BY DEF IInv, vars, Next, Get, Insert, GetHit, GetMiss, AdaptUp, AdaptDown, EvictB1, EvictT1,
           EvictB2, Evict, KeepGhosts, Replace, EnterGhost, EnterNew, configuration
  <2>2. CASE Uniform
    <3>1. PICK c \in {BIG, TINY} : AllOf(c)
      BY <2>2, UniformChunk
    <3>2. Bounded(c)
      BY <3>1 DEF IInv, Directory, Bounded
    <3>3. CASE Next
      BY <2>1, <2>2, <3>1, <3>2, <3>3, UniformStep
    <3>4. CASE UNCHANGED vars
      <4>1. UNCHANGED <<configuration, lists, request>>
        BY <3>4 DEF vars
      <4>2. ResidentKeys' = ResidentKeys
        BY <4>1, <2>1, <2>2, <3>1, HeldAtC
      <4> QED
        BY <4>1, <4>2, <2>1, <2>2, <3>1, SameKeysStutter
    <3> QED
      BY <3>3, <3>4
  <2>3. CASE ~Uniform
    <3>1. ~Uniform'
      BY <2>1, <2>3 DEF Uniform, ChunksOf
    <3>2. Wanting = NoRequest /\ Wanting' = NoRequest /\ ResidentKeys = {} /\ ResidentKeys' = {}
      BY <2>3, <3>1 DEF Wanting, ResidentKeys
    <3>3. Residents' = Residents
      BY <3>2 DEF Residents
    <3>4. UNCHANGED capacity
      BY DEF vars, Next, Get, Insert, GetHit, GetMiss, AdaptUp, AdaptDown, EvictB1, EvictT1,
             EvictB2, Evict, KeepGhosts, Replace, EnterGhost, EnterNew, configuration
    <3> QED
      BY <3>2, <3>3, <3>4, Zenon DEF Abstract!vars, Residents, Wanting
  <2> QED
    BY <2>2, <2>3
<1> QED
  BY <1>1, <1>2, ARCInvariant, InvCharges, PTL DEF Spec, EvictsForRoomOnly
=============================================================================
