------------------------ MODULE LRUInclusionProofs -------------------------
(***************************************************************************)
(* The stack property of LRU for every set of keys and sizes, every        *)
(* assignment of sizes to keys and every two capacities: between two trace *)
(* lines the smaller cache holds a prefix of the larger one's list.        *)
(* Then, for one cache and its counters: the hits counted are those of the *)
(* stack distances of the trace, and the counters add up to the requests.  *)
(***************************************************************************)
EXTENDS MCReplay, CacheBaseProofs

Node == [key : Key, size : Size, flag : BOOLEAN]
Request == [key : Key, size : Size]

\* The node LRU makes of a request; its flag is FIFO2's and stays FALSE.
NodeOf(r) == [key |-> r.key, size |-> r.size, flag |-> FALSE]

\* A cache of list l, map m, counter z, capacity c and request r keeps its
\* books, and its nodes have the sizes the trace f gives their keys.
Books(f, l, m, z, c, r) ==
    /\ l \in Seq(Node) /\ KeysDistinct(l)
    /\ \A i \in 1 .. Len(l) : l[i].size = f[l[i].key] /\ l[i].flag = FALSE
    /\ m = KeysOf(l)
    /\ z = Bytes(l) /\ z <= c
    /\ r # NoRequest => r \in Request /\ r.size = f[r.key] /\ r.key \notin KeysOf(l)

\* The small list s, while it is making room for a chunk, and the large list q
\* agree as far as both go; what only s has does not fit in the large cache.
Aligned(s, q, chunk) ==
    /\ \A i \in 1 .. Len(s) : i <= Len(q) => s[i] = q[i]
    /\ Len(q) < Len(s) => capacity.large < Bytes(SubSeq(s, 1, Len(q) + 1)) + chunk

\* Where the two insertions of one trace line stand.
Lockstep ==
    /\ s_request = NoRequest /\ l_request = NoRequest => Begins(s_list, l_list)
    /\ s_request = NoRequest /\ l_request # NoRequest =>
         /\ s_list # << >> /\ Head(s_list) = NodeOf(l_request)
         /\ Begins(Tail(s_list), l_list)
    /\ s_request # NoRequest /\ l_request = NoRequest =>
         /\ l_list # << >> /\ Head(l_list) = NodeOf(s_request)
         /\ Aligned(s_list, Tail(l_list), ChunkSize(s_request.size))
    /\ s_request # NoRequest /\ l_request # NoRequest =>
         /\ s_request = l_request
         /\ Aligned(s_list, l_list, ChunkSize(s_request.size))

\* The inductive invariant.
InclusionInv ==
    /\ sizeOf \in [Key -> Size]
    /\ capacity.small \in Capacities /\ capacity.large \in Capacities
    /\ capacity.small < capacity.large
    /\ Books(sizeOf, s_list, s_map, s_size, capacity.small, s_request)
    /\ Books(sizeOf, l_list, l_map, l_size, capacity.large, l_request)
    /\ Lockstep
-----------------------------------------------------------------------------
(* What the steps of either cache do, in terms of its five values *)

\* An iteration of insert() that evicts the tail, and the one that ends it.
Evicted(l, m, z, c, r, l2, m2, z2, r2) ==
    /\ r # NoRequest /\ IsFullAt(z, c, ChunkSize(r.size)) /\ l # << >>
    /\ l2 = Front(l) /\ m2 = m \ {Last(l).key} /\ z2 = Minus(z, ChunkSize(Last(l).size))
    /\ r2 = r

Inserted(l, m, z, c, r, l2, m2, z2, r2) ==
    /\ r # NoRequest /\ ~IsFullAt(z, c, ChunkSize(r.size))
    /\ l2 = <<NodeOf(r)>> \o l /\ m2 = m \union {r.key} /\ z2 = Plus(z, ChunkSize(r.size))
    /\ r2 = NoRequest

\* A hit on k moves its node to the front; a miss is a request.
Hits(k, l, m, z, r, l2, m2, z2, r2) ==
    /\ r = NoRequest /\ k \in m /\ m2 = m /\ z2 = z /\ r2 = r
    /\ LET i == CHOOSE x \in DOMAIN l : l[x].key = k IN l2 = <<l[i]>> \o RemoveAt(l, i)

Misses(k, l, m, z, r, l2, m2, z2, r2) ==
    /\ r = NoRequest /\ k \notin m /\ l2 = l /\ m2 = m /\ z2 = z
    /\ r2 = [key |-> k, size |-> sizeOf[k]]

\* The steps of the small cache.
LEMMA SmallSteps ==
    /\ Small!Insert =>
         \/ Evicted(s_list, s_map, s_size, capacity.small, s_request,
                    s_list', s_map', s_size', s_request')
         \/ Inserted(s_list, s_map, s_size, capacity.small, s_request,
                     s_list', s_map', s_size', s_request')
    /\ \A k \in Key : Small!GetHitLRU(k) =>
         Hits(k, s_list, s_map, s_size, s_request, s_list', s_map', s_size', s_request')
    /\ \A k \in Key : Small!GetMiss(k, sizeOf[k]) =>
         Misses(k, s_list, s_map, s_size, s_request, s_list', s_map', s_size', s_request')
<1>1. Small!EvictTail => Evicted(s_list, s_map, s_size, capacity.small, s_request,
                                 s_list', s_map', s_size', s_request')
  BY Zenon DEF Small!EvictTail, Evicted, Small!Full, Small!IsFullAt, Small!Plus, Small!ChunkSize, Small!Front,
         Small!Last, Small!MapErased, Small!Minus, Small!Charge, IsFullAt, Plus, ChunkSize, Front,
         Last, Minus
<1>2. ~Small!RotateTail
  BY DEF Small!RotateTail, Small!TailExpendable
<1>3. Small!InsertNode => Inserted(s_list, s_map, s_size, capacity.small, s_request,
                                   s_list', s_map', s_size', s_request')
  BY Zenon DEF Small!InsertNode, Inserted, Small!Full, Small!IsFullAt, Small!Plus, Small!ChunkSize,
         Small!NewNode, NodeOf, IsFullAt, Plus, ChunkSize
<1>4. ASSUME NEW k \in Key, Small!GetHitLRU(k)
      PROVE  Hits(k, s_list, s_map, s_size, s_request, s_list', s_map', s_size', s_request')
  BY <1>4, Zenon DEF Small!GetHitLRU, Hits, Small!Promoted, Small!PositionOf, Small!RemoveAt, RemoveAt
<1>5. ASSUME NEW k \in Key, Small!GetMiss(k, sizeOf[k])
      PROVE  Misses(k, s_list, s_map, s_size, s_request, s_list', s_map', s_size', s_request')
  BY <1>5, Zenon DEF Small!GetMiss, Misses
<1> QED
  BY <1>1, <1>2, <1>3, <1>4, <1>5 DEF Small!Insert
\* The steps of the large cache.
LEMMA LargeSteps ==
    /\ Large!Insert =>
         \/ Evicted(l_list, l_map, l_size, capacity.large, l_request,
                    l_list', l_map', l_size', l_request')
         \/ Inserted(l_list, l_map, l_size, capacity.large, l_request,
                     l_list', l_map', l_size', l_request')
    /\ \A k \in Key : Large!GetHitLRU(k) =>
         Hits(k, l_list, l_map, l_size, l_request, l_list', l_map', l_size', l_request')
    /\ \A k \in Key : Large!GetMiss(k, sizeOf[k]) =>
         Misses(k, l_list, l_map, l_size, l_request, l_list', l_map', l_size', l_request')
<1>1. Large!EvictTail => Evicted(l_list, l_map, l_size, capacity.large, l_request,
                                 l_list', l_map', l_size', l_request')
  BY Zenon DEF Large!EvictTail, Evicted, Large!Full, Large!IsFullAt, Large!Plus, Large!ChunkSize,
         Large!Front, Large!Last, Large!MapErased, Large!Minus, Large!Charge, IsFullAt, Plus,
         ChunkSize, Front, Last, Minus
<1>2. ~Large!RotateTail
  BY DEF Large!RotateTail, Large!TailExpendable
<1>3. Large!InsertNode => Inserted(l_list, l_map, l_size, capacity.large, l_request,
                                   l_list', l_map', l_size', l_request')
  BY Zenon DEF Large!InsertNode, Inserted, Large!Full, Large!IsFullAt, Large!Plus, Large!ChunkSize,
         Large!NewNode, NodeOf, IsFullAt, Plus, ChunkSize
<1>4. ASSUME NEW k \in Key, Large!GetHitLRU(k)
      PROVE  Hits(k, l_list, l_map, l_size, l_request, l_list', l_map', l_size', l_request')
  BY <1>4, Zenon DEF Large!GetHitLRU, Hits, Large!Promoted, Large!PositionOf, Large!RemoveAt, RemoveAt
<1>5. ASSUME NEW k \in Key, Large!GetMiss(k, sizeOf[k])
      PROVE  Misses(k, l_list, l_map, l_size, l_request, l_list', l_map', l_size', l_request')
  BY <1>5, Zenon DEF Large!GetMiss, Misses
<1> QED
  BY <1>1, <1>2, <1>3, <1>4, <1>5 DEF Large!Insert

-----------------------------------------------------------------------------
(* Each step keeps the books of its cache *)

\* IsFull() compares the true sum: nothing wraps.
LEMMA FullIsExact ==
    ASSUME NEW f, NEW l, NEW m, NEW z, NEW c \in Capacities, NEW r, Books(f, l, m, z, c, r), NEW size
    PROVE  /\ Bytes(l) \in Nat /\ c \in Nat /\ ChunkSize(size) \in Nat /\ 0 < ChunkSize(size)
           /\ Plus(z, ChunkSize(size)) = Bytes(l) + ChunkSize(size)
           /\ IsFullAt(z, c, ChunkSize(size)) <=> c < Bytes(l) + ChunkSize(size)
<1>1. Bytes(l) \in Nat /\ z = Bytes(l) /\ z <= c
  BY BytesType DEF Books
<1>2. c \in Nat /\ c + BIG < WORD
  BY BaseAssumption DEF BaseAssumption
<1>3. /\ ChunkSize(size) \in Nat /\ 0 < ChunkSize(size) /\ ChunkSize(size) <= BIG
      /\ BIG \in Nat /\ WORD \in Nat
  BY ChunkFacts
<1>4. Plus(z, ChunkSize(size)) = Bytes(l) + ChunkSize(size)
  BY <1>1, <1>2, <1>3 DEF Plus
<1> QED
  BY <1>1, <1>2, <1>3, <1>4 DEF IsFullAt

\* Evicting the tail.
LEMMA EvictedBooks ==
    ASSUME NEW f, NEW l, NEW m, NEW z, NEW c \in Capacities, NEW r, Books(f, l, m, z, c, r),
           NEW l2, NEW m2, NEW z2, NEW r2, Evicted(l, m, z, c, r, l2, m2, z2, r2)
    PROVE  /\ Books(f, l2, m2, z2, c, r2) /\ r2 = r /\ l # << >> /\ l2 = Front(l)
           /\ c < Bytes(l) + ChunkSize(r.size)
<1>1. /\ r # NoRequest /\ IsFullAt(z, c, ChunkSize(r.size)) /\ l # << >>
      /\ l2 = Front(l) /\ m2 = m \ {Last(l).key} /\ z2 = Minus(z, ChunkSize(Last(l).size))
      /\ r2 = r
  BY DEF Evicted
<1>2. /\ l \in Seq(Node) /\ KeysDistinct(l) /\ m = KeysOf(l) /\ z = Bytes(l) /\ z <= c
      /\ \A i \in 1 .. Len(l) : l[i].size = f[l[i].key] /\ l[i].flag = FALSE
      /\ r \in Request /\ r.size = f[r.key] /\ r.key \notin KeysOf(l)
  BY <1>1 DEF Books
<1>3. /\ l2 \in Seq(Node) /\ Len(l) \in Nat /\ 0 < Len(l) /\ Len(l2) = Len(l) - 1
      /\ \A i \in 1 .. Len(l) - 1 : l2[i] = l[i]
      /\ KeysDistinct(l2) /\ KeysOf(l2) = KeysOf(l) \ {Last(l).key}
      /\ Bytes(l) = Bytes(l2) + ChunkSize(Last(l).size)
  BY <1>1, <1>2, FrontNode
<1>4. /\ Bytes(l2) \in Nat /\ ChunkSize(Last(l).size) \in Nat /\ c \in Nat
      /\ c < Bytes(l) + ChunkSize(r.size)
  BY <1>1, <1>3, BytesType, FullIsExact
<1>5. z2 = Bytes(l2) /\ z2 <= c
  BY <1>1, <1>2, <1>3, <1>4 DEF Minus
<1>6. \A i \in 1 .. Len(l2) : l2[i].size = f[l2[i].key] /\ l2[i].flag = FALSE
  BY <1>2, <1>3
<1>7. m2 = KeysOf(l2) /\ r.key \notin KeysOf(l2)
  BY <1>1, <1>2, <1>3
<1>8. Books(f, l2, m2, z2, c, r2)
  BY <1>1, <1>2, <1>3, <1>5, <1>6, <1>7 DEF Books
<1> QED
  BY <1>1, <1>4, <1>8

\* l2 is l with the node of r in front.
PutInFront(l, r, l2) ==
    l2 \in Seq(Node) /\ l2 # << >> /\ Head(l2) = NodeOf(r) /\ Tail(l2) = l

\* The end of insert(): the new node in front.
LEMMA InsertedBooks ==
    ASSUME NEW f, NEW l, NEW m, NEW z, NEW c \in Capacities, NEW r, Books(f, l, m, z, c, r),
           NEW l2, NEW m2, NEW z2, NEW r2, Inserted(l, m, z, c, r, l2, m2, z2, r2)
    PROVE  /\ Books(f, l2, m2, z2, c, r2) /\ r2 = NoRequest
           /\ Bytes(l) + ChunkSize(r.size) <= c /\ PutInFront(l, r, l2)
<1> DEFINE n == NodeOf(r)
<1>1. /\ r # NoRequest /\ ~IsFullAt(z, c, ChunkSize(r.size))
      /\ l2 = <<n>> \o l /\ m2 = m \union {r.key} /\ z2 = Plus(z, ChunkSize(r.size))
      /\ r2 = NoRequest
  BY DEF Inserted
<1>2. /\ l \in Seq(Node) /\ KeysDistinct(l) /\ m = KeysOf(l) /\ z = Bytes(l) /\ z <= c
      /\ \A i \in 1 .. Len(l) : l[i].size = f[l[i].key] /\ l[i].flag = FALSE
      /\ r \in Request /\ r.size = f[r.key] /\ r.key \notin KeysOf(l)
  BY <1>1 DEF Books
<1>3. n \in Node /\ n.key = r.key /\ n.size = r.size /\ n.flag = FALSE
  BY <1>2 DEF NodeOf, Node, Request
<1> HIDE DEF n
<1>4. /\ l2 \in Seq(Node) /\ Len(l2) = Len(l) + 1 /\ l2[1] = n
      /\ \A i \in 1 .. Len(l) : l2[i + 1] = l[i]
      /\ KeysDistinct(l2) /\ KeysOf(l2) = KeysOf(l) \cup {n.key}
      /\ Bytes(l2) = Bytes(l) + ChunkSize(n.size)
  BY <1>1, <1>2, <1>3, ConsNode
<1>5. /\ Bytes(l) \in Nat /\ c \in Nat /\ Plus(z, ChunkSize(r.size)) = Bytes(l) + ChunkSize(r.size)
      /\ ~(c < Bytes(l) + ChunkSize(r.size)) /\ ChunkSize(r.size) \in Nat
  BY <1>1, FullIsExact
<1>6. z2 = Bytes(l2) /\ z2 <= c /\ Bytes(l) + ChunkSize(r.size) <= c
  BY <1>1, <1>3, <1>4, <1>5
<1>7. ASSUME NEW i \in 1 .. Len(l2)
      PROVE  l2[i].size = f[l2[i].key] /\ l2[i].flag = FALSE
  <2>1. Len(l) \in Nat /\ (i = 1 \/ (i - 1 \in 1 .. Len(l) /\ i = (i - 1) + 1))
    BY <1>2, <1>4
  <2>2. CASE i = 1
    BY <2>2, <1>2, <1>3, <1>4
  <2>3. CASE i - 1 \in 1 .. Len(l) /\ i = (i - 1) + 1
    <3>1. l2[i] = l[i - 1]
      BY <2>3, <1>4
    <3> QED
      BY <3>1, <2>3, <1>2
  <2> QED
    BY <2>1, <2>2, <2>3
<1>8. Books(f, l2, m2, z2, c, r2)
  BY <1>1, <1>2, <1>3, <1>4, <1>6, <1>7 DEF Books
<1>9. l2 # << >> /\ Head(l2) = n
  BY <1>2, <1>4
<1>10. Tail(l2) = l
  <2>1. Tail(l2) \in Seq(Node) /\ Len(Tail(l2)) = Len(l)
        /\ \A i \in 1 .. Len(l) : Tail(l2)[i] = l2[i + 1]
    BY <1>2, <1>4, <1>9
  <2> QED
    BY <2>1, <1>2, <1>4
<1> QED
  BY <1>1, <1>4, <1>6, <1>8, <1>9, <1>10 DEF n, PutInFront

\* A hit: the node of k, found at its only position, goes to the front.
LEMMA HitBooks ==
    ASSUME NEW f, NEW l, NEW m, NEW z, NEW c, NEW r, Books(f, l, m, z, c, r),
           NEW l2, NEW m2, NEW z2, NEW r2, NEW k, Hits(k, l, m, z, r, l2, m2, z2, r2)
    PROVE  /\ Books(f, l2, m2, z2, c, r2) /\ r2 = NoRequest
           /\ \E i \in 1 .. Len(l) : l[i].key = k /\ IsFronted(Node, l, i, l[i], l2)
<1> DEFINE i == CHOOSE x \in DOMAIN l : l[x].key = k
<1>1. r = NoRequest /\ k \in m /\ m2 = m /\ z2 = z /\ r2 = r /\ l2 = <<l[i]>> \o RemoveAt(l, i)
  BY DEF Hits
<1>2. /\ l \in Seq(Node) /\ KeysDistinct(l) /\ m = KeysOf(l) /\ z = Bytes(l) /\ z <= c
      /\ \A x \in 1 .. Len(l) : l[x].size = f[l[x].key] /\ l[x].flag = FALSE
  BY DEF Books
<1>3. i \in DOMAIN l /\ l[i].key = k
  BY <1>1, <1>2 DEF KeysOf
<1> HIDE DEF i
<1>4. i \in 1 .. Len(l) /\ l[i] \in Node
  BY <1>2, <1>3
<1>5. IsFronted(Node, l, i, l[i], l2)
  BY <1>1, <1>2, <1>4, RemovedToFront
<1>6. /\ l2 \in Seq(Node) /\ Len(l2) = Len(l) /\ l2[1] = l[i]
      /\ \A j \in 2 .. Len(l) : l2[j] = IF j <= i THEN l[j - 1] ELSE l[j]
  BY <1>5 DEF IsFronted
<1>7. KeysDistinct(l2) /\ KeysOf(l2) = KeysOf(l) /\ Bytes(l2) = Bytes(l)
  BY <1>2, <1>4, <1>5, <1>6, ToFront
<1>8. ASSUME NEW j \in 1 .. Len(l2)
      PROVE  l2[j].size = f[l2[j].key] /\ l2[j].flag = FALSE
  <2>1. \E x \in 1 .. Len(l) : l2[j] = l[x]
    <3>1. Len(l) \in Nat
      BY <1>2
    <3>2. CASE j = 1
      BY <3>2, <1>4, <1>6
    <3>3. CASE j # 1 /\ j <= i
      <4>1. j \in 2 .. Len(l) /\ j - 1 \in 1 .. Len(l)
        BY <3>1, <3>3, <1>6
      <4> QED
        BY <4>1, <3>3, <1>6
    <3>4. CASE j # 1 /\ ~(j <= i)
      <4>1. j \in 2 .. Len(l) /\ j \in 1 .. Len(l)
        BY <3>1, <3>4, <1>6
      <4> QED
        BY <4>1, <3>4, <1>6
    <3> QED
      BY <3>2, <3>3, <3>4
  <2> QED
    BY <2>1, <1>2
<1>9. Books(f, l2, m2, z2, c, r2)
  BY <1>1, <1>2, <1>6, <1>7, <1>8 DEF Books
<1> QED
  BY <1>1, <1>3, <1>4, <1>5, <1>9

\* A miss: the request is of a key not stored, with the trace's size.
LEMMA MissBooks ==
    ASSUME NEW l, NEW m, NEW z, NEW c, NEW r, Books(sizeOf, l, m, z, c, r),
           NEW l2, NEW m2, NEW z2, NEW r2, NEW k \in Key, sizeOf[k] \in Size,
           Misses(k, l, m, z, r, l2, m2, z2, r2)
    PROVE  /\ Books(sizeOf, l2, m2, z2, c, r2) /\ l2 = l /\ r2 # NoRequest
           /\ r2 = [key |-> k, size |-> sizeOf[k]] /\ k \notin KeysOf(l)
<1>1. /\ r = NoRequest /\ k \notin m /\ l2 = l /\ m2 = m /\ z2 = z
      /\ r2 = [key |-> k, size |-> sizeOf[k]]
  BY DEF Misses
<1>2. r2 \in Request /\ r2.key = k /\ r2.size = sizeOf[k]
  BY <1>1 DEF Request
<1>3. r2 # NoRequest
  BY <1>2, PairAssumption DEF PairAssumption, Request
<1> QED
  BY <1>1, <1>2, <1>3 DEF Books
-----------------------------------------------------------------------------
(* The two lists side by side *)

\* What a node and its key say of a list.
LEMMA KeyHasPlace ==
    ASSUME NEW l \in Seq(Node), NEW k
    PROVE  k \in KeysOf(l) <=> \E i \in 1 .. Len(l) : l[i].key = k
<1>1. DOMAIN l = 1 .. Len(l)
  OBVIOUS
<1> QED
  BY <1>1 DEF KeysOf

\* The small list's tail goes while it makes room.
LEMMA AlignedFront ==
    ASSUME NEW s \in Seq(Node), s # << >>, KeysDistinct(s), NEW q \in Seq(Node), NEW chunk,
           Aligned(s, q, chunk)
    PROVE  Aligned(Front(s), q, chunk)
<1> DEFINE t == Front(s)
<1>1. /\ t \in Seq(Node) /\ Len(s) \in Nat /\ 0 < Len(s) /\ Len(t) = Len(s) - 1
      /\ \A i \in 1 .. Len(s) - 1 : t[i] = s[i]
  BY FrontNode
<1> HIDE DEF t
<1>2. Len(q) \in Nat
  OBVIOUS
<1>3. \A i \in 1 .. Len(t) : i <= Len(q) => t[i] = q[i]
  BY <1>1 DEF Aligned
<1>4. ASSUME Len(q) < Len(t)
      PROVE  capacity.large < Bytes(SubSeq(t, 1, Len(q) + 1)) + chunk
  <2>1. SubSeq(t, 1, Len(q) + 1) = SubSeq(s, 1, Len(q) + 1)
    <3> DEFINE a == SubSeq(t, 1, Len(q) + 1)
               b == SubSeq(s, 1, Len(q) + 1)
    <3>1. a \in Seq(Node) /\ Len(a) = Len(q) + 1 /\ \A i \in 1 .. Len(q) + 1 : a[i] = t[i]
      BY <1>1, <1>2, <1>4
    <3>2. b \in Seq(Node) /\ Len(b) = Len(q) + 1 /\ \A i \in 1 .. Len(q) + 1 : b[i] = s[i]
      BY <1>1, <1>2, <1>4
    <3>3. \A i \in 1 .. Len(q) + 1 : t[i] = s[i]
      BY <1>1, <1>2, <1>4
    <3> HIDE DEF a, b
    <3> QED
      BY <3>1, <3>2, <3>3 DEF a, b
  <2>2. Len(q) < Len(s)
    BY <1>1, <1>2, <1>4
  <2> QED
    BY <2>1, <2>2 DEF Aligned
<1> QED
  BY <1>3, <1>4 DEF Aligned, t

\* The large list's tail goes while it makes room for the same chunk.
LEMMA AlignedEvict ==
    ASSUME NEW s \in Seq(Node), NEW q \in Seq(Node), q # << >>, KeysDistinct(q), NEW chunk,
           Aligned(s, q, chunk), capacity.large < Bytes(q) + chunk
    PROVE  Aligned(s, Front(q), chunk)
<1> DEFINE t == Front(q)
<1>1. /\ t \in Seq(Node) /\ Len(q) \in Nat /\ 0 < Len(q) /\ Len(t) = Len(q) - 1
      /\ \A i \in 1 .. Len(q) - 1 : t[i] = q[i]
  BY FrontNode
<1> HIDE DEF t
<1>2. Len(s) \in Nat
  OBVIOUS
<1>3. \A i \in 1 .. Len(s) : i <= Len(t) => s[i] = t[i]
  BY <1>1, <1>2 DEF Aligned
<1>4. ASSUME Len(t) < Len(s)
      PROVE  capacity.large < Bytes(SubSeq(s, 1, Len(t) + 1)) + chunk
  <2>1. SubSeq(s, 1, Len(t) + 1) = q
    <3> DEFINE a == SubSeq(s, 1, Len(t) + 1)
    <3>1. a \in Seq(Node) /\ Len(a) = Len(q) /\ \A i \in 1 .. Len(q) : a[i] = s[i]
      BY <1>1, <1>2, <1>4
    <3>2. \A i \in 1 .. Len(q) : i \in 1 .. Len(s) /\ s[i] = q[i]
      BY <1>1, <1>2, <1>4 DEF Aligned
    <3> HIDE DEF a
    <3> QED
      BY <3>1, <3>2 DEF a
  <2> QED
    BY <2>1
<1> QED
  BY <1>3, <1>4 DEF Aligned, t

\* Once the small cache has room, it has nothing that the large one has not.
LEMMA AlignedFits ==
    ASSUME NEW s \in Seq(Node), NEW q \in Seq(Node), NEW chunk \in Nat, NEW c \in Nat,
           capacity.large \in Nat, c < capacity.large, Aligned(s, q, chunk), Bytes(s) + chunk <= c
    PROVE  Begins(s, q)
<1>1. Len(s) \in Nat /\ Len(q) \in Nat
  OBVIOUS
<1>2. Len(s) <= Len(q)
  <2> SUFFICES ASSUME Len(q) < Len(s) PROVE FALSE
    BY <1>1
  <2> DEFINE a == SubSeq(s, 1, Len(q) + 1)
  <2>1. a \in Seq(Node) /\ Len(a) = Len(q) + 1 /\ \A i \in 1 .. Len(q) + 1 : a[i] = s[i]
    BY <1>1
  <2>2. capacity.large < Bytes(a) + chunk
    BY DEF Aligned
  <2> HIDE DEF a
  <2>3. Len(a) <= Len(s)
    BY <1>1, <2>1
  <2>4. Bytes(a) <= Bytes(s) /\ Bytes(a) \in Nat /\ Bytes(s) \in Nat
    BY <2>1, <2>3, BytesPrefix, BytesType
  <2> QED
    BY <2>2, <2>4
<1> QED
  BY <1>1, <1>2 DEF Aligned, Begins

\* A prefix is aligned.
LEMMA BeginsAligned ==
    ASSUME NEW s \in Seq(Node), NEW q \in Seq(Node), NEW chunk, Begins(s, q)
    PROVE  Aligned(s, q, chunk)
<1>1. Len(s) \in Nat /\ Len(q) \in Nat
  OBVIOUS
<1> QED
  BY <1>1 DEF Begins, Aligned

\* The same node in front of both lists.
LEMMA BeginsCons ==
    ASSUME NEW s \in Seq(Node), NEW q \in Seq(Node), s # << >>, q # << >>, Head(s) = Head(q),
           Begins(Tail(s), Tail(q))
    PROVE  Begins(s, q)
<1>1. /\ Len(s) \in Nat /\ Len(q) \in Nat /\ 0 < Len(s) /\ 0 < Len(q)
      /\ Len(Tail(s)) = Len(s) - 1 /\ Len(Tail(q)) = Len(q) - 1
      /\ \A i \in 1 .. Len(s) - 1 : Tail(s)[i] = s[i + 1]
      /\ \A i \in 1 .. Len(q) - 1 : Tail(q)[i] = q[i + 1]
      /\ s[1] = q[1]
  OBVIOUS
<1>2. Len(s) <= Len(q)
  BY <1>1 DEF Begins
<1>3. ASSUME NEW i \in 1 .. Len(s) PROVE s[i] = q[i]
  <2>1. CASE i = 1
    BY <2>1, <1>1
  <2>2. CASE i # 1
    <3>1. i - 1 \in 1 .. Len(s) - 1 /\ i - 1 \in 1 .. Len(q) - 1 /\ (i - 1) + 1 = i
      BY <2>2, <1>1, <1>2
    <3>2. Tail(s)[i - 1] = Tail(q)[i - 1]
      BY <3>1, <1>1 DEF Begins
    <3>3. Tail(s)[i - 1] = s[i] /\ Tail(q)[i - 1] = q[i]
      BY <3>1, <1>1
    <3> QED
      BY <3>2, <3>3
  <2> QED
    BY <2>1, <2>2
<1> QED
  BY <1>2, <1>3 DEF Begins

\* Both caches hit, in the same place.
LEMMA BothHit ==
    ASSUME NEW s \in Seq(Node), NEW q \in Seq(Node), KeysDistinct(q), Begins(s, q),
           NEW i \in 1 .. Len(s), NEW j \in 1 .. Len(q), s[i].key = q[j].key,
           NEW s2, IsFronted(Node, s, i, s[i], s2), NEW q2, IsFronted(Node, q, j, q[j], q2)
    PROVE  Begins(s2, q2)
<1>1. Len(s) \in Nat /\ Len(q) \in Nat /\ Len(s) <= Len(q) /\ DOMAIN q = 1 .. Len(q)
  BY DEF Begins
<1>2. i \in 1 .. Len(q) /\ s[i] = q[i]
  BY <1>1 DEF Begins
<1>3. i = j
  BY <1>1, <1>2 DEF KeysDistinct
<1>4. /\ Len(s2) = Len(s) /\ Len(q2) = Len(q) /\ s2[1] = q2[1]
      /\ \A x \in 2 .. Len(s) : s2[x] = IF x <= i THEN s[x - 1] ELSE s[x]
      /\ \A x \in 2 .. Len(q) : q2[x] = IF x <= i THEN q[x - 1] ELSE q[x]
  BY <1>2, <1>3 DEF IsFronted
<1>5. ASSUME NEW x \in 1 .. Len(s2) PROVE s2[x] = q2[x]
  <2>1. CASE x = 1
    BY <2>1, <1>4
  <2>2. CASE x # 1
    <3>1. x \in 2 .. Len(s) /\ x \in 2 .. Len(q) /\ x - 1 \in 1 .. Len(s) /\ x \in 1 .. Len(s)
      BY <2>2, <1>1, <1>4
    <3>2. s[x - 1] = q[x - 1] /\ s[x] = q[x]
      BY <3>1 DEF Begins
    <3> QED
      BY <3>1, <3>2, <1>4
  <2> QED
    BY <2>1, <2>2
<1> QED
  BY <1>1, <1>4, <1>5 DEF Begins

\* Only the large cache hits: behind the node it brings to the front, the small
\* list is where it was.
LEMMA LargeHits ==
    ASSUME NEW s \in Seq(Node), NEW q \in Seq(Node), Begins(s, q),
           NEW j \in 1 .. Len(q), q[j].key \notin KeysOf(s),
           NEW q2, IsFronted(Node, q, j, q[j], q2)
    PROVE  q2 # << >> /\ Head(q2) = q[j] /\ Tail(q2) \in Seq(Node) /\ Begins(s, Tail(q2))
<1>1. Len(s) \in Nat /\ Len(q) \in Nat /\ Len(s) <= Len(q)
  BY DEF Begins
<1>2. Len(s) < j
  <2> SUFFICES ASSUME j \in 1 .. Len(s) PROVE FALSE
    BY <1>1
  <2>1. s[j] = q[j]
    BY DEF Begins
  <2> QED
    BY <2>1, KeyHasPlace
<1>3. /\ q2 \in Seq(Node) /\ Len(q2) = Len(q) /\ q2[1] = q[j]
      /\ \A x \in 2 .. Len(q) : q2[x] = IF x <= j THEN q[x - 1] ELSE q[x]
  BY DEF IsFronted
<1>4. /\ q2 # << >> /\ Head(q2) = q[j] /\ Tail(q2) \in Seq(Node) /\ Len(Tail(q2)) = Len(q) - 1
      /\ \A x \in 1 .. Len(q) - 1 : Tail(q2)[x] = q2[x + 1]
  BY <1>1, <1>3
<1>5. ASSUME NEW x \in 1 .. Len(s) PROVE s[x] = Tail(q2)[x]
  <2>1. x \in 1 .. Len(q) - 1 /\ x + 1 \in 2 .. Len(q) /\ x + 1 <= j /\ (x + 1) - 1 = x
    BY <1>1, <1>2
  <2>2. Tail(q2)[x] = q[x]
    BY <2>1, <1>3, <1>4
  <2> QED
    BY <2>2 DEF Begins
<1>6. Len(s) <= Len(Tail(q2))
  BY <1>1, <1>2, <1>4
<1> QED
  BY <1>4, <1>5, <1>6 DEF Begins

\* The large cache evicts something that the small one, done, does not hold.
LEMMA EvictedIsExtra ==
    ASSUME NEW s \in Seq(Node), NEW q \in Seq(Node), q # << >>, KeysDistinct(q), Begins(s, q),
           Bytes(s) < Bytes(q)
    PROVE  Begins(s, Front(q))
<1>1. /\ Front(q) \in Seq(Node) /\ Len(q) \in Nat /\ 0 < Len(q) /\ Len(Front(q)) = Len(q) - 1
      /\ \A i \in 1 .. Len(q) - 1 : Front(q)[i] = q[i]
  BY FrontNode
<1>2. Len(s) \in Nat /\ Len(s) <= Len(q) /\ \A i \in 1 .. Len(s) : s[i] = q[i]
  BY DEF Begins
<1>3. Len(s) # Len(q)
  <2> SUFFICES ASSUME Len(s) = Len(q) PROVE FALSE
    OBVIOUS
  <2>1. s = q
    BY <1>2
  <2>2. Bytes(q) \in Nat
    BY BytesType
  <2> QED
    BY <2>1, <2>2
<1> QED
  BY <1>1, <1>2, <1>3 DEF Begins
-----------------------------------------------------------------------------
(* Both caches together *)

\* Both caches start empty.
LEMMA InclusionInit == PairInit => InclusionInv
<1> SUFFICES ASSUME PairInit PROVE InclusionInv
  OBVIOUS
<1>1. /\ sizeOf \in [Key -> Size]
      /\ capacity.small \in Capacities /\ capacity.large \in Capacities
      /\ capacity.small < capacity.large
  BY DEF PairInit
<1>2. /\ s_list = << >> /\ s_map = {} /\ s_size = 0 /\ s_request = NoRequest
      /\ l_list = << >> /\ l_map = {} /\ l_size = 0 /\ l_request = NoRequest
  BY DEF PairInit, Small!Init, Large!Init
<1>3. ASSUME NEW c \in Capacities PROVE Books(sizeOf, << >>, {}, 0, c, NoRequest)
  <2>1. c \in Nat /\ 0 <= c
    BY BaseAssumption DEF BaseAssumption
  <2>2. << >> \in Seq(Node) /\ KeysDistinct(<< >>) /\ KeysOf(<< >>) = {} /\ Len(<< >>) = 0
    BY DEF KeysDistinct, KeysOf
  <2> QED
    BY <2>1, <2>2, BytesEmpty DEF Books
<1>4. Lockstep
  <2>1. Begins(<< >>, << >>)
    BY DEF Begins
  <2> QED
    BY <2>1, <1>2 DEF Lockstep
<1> QED
  BY <1>1, <1>2, <1>3, <1>4 DEF InclusionInv

\* Both caches read a trace line.
LEMMA ReadKeeps ==
    ASSUME InclusionInv, NEW k \in Key, ReadTrace(k)
    PROVE  InclusionInv'
<1>1. /\ sizeOf \in [Key -> Size] /\ sizeOf' = sizeOf /\ capacity' = capacity
      /\ capacity.small \in Capacities /\ capacity.large \in Capacities
      /\ capacity.small < capacity.large
      /\ Books(sizeOf, s_list, s_map, s_size, capacity.small, s_request)
      /\ Books(sizeOf, l_list, l_map, l_size, capacity.large, l_request)
      /\ Lockstep
  BY DEF InclusionInv, ReadTrace
<1>2. /\ \/ Hits(k, s_list, s_map, s_size, s_request, s_list', s_map', s_size', s_request')
         \/ Misses(k, s_list, s_map, s_size, s_request, s_list', s_map', s_size', s_request')
      /\ \/ Hits(k, l_list, l_map, l_size, l_request, l_list', l_map', l_size', l_request')
         \/ Misses(k, l_list, l_map, l_size, l_request, l_list', l_map', l_size', l_request')
  BY SmallSteps, LargeSteps DEF ReadTrace
<1>3. s_request = NoRequest /\ l_request = NoRequest
  BY <1>2 DEF Hits, Misses
<1>4. Begins(s_list, l_list)
  BY <1>1, <1>3 DEF Lockstep
<1>5. s_list \in Seq(Node) /\ l_list \in Seq(Node) /\ KeysDistinct(s_list) /\ KeysDistinct(l_list)
  BY <1>1 DEF Books
<1>6. sizeOf[k] \in Size
  BY <1>1
<1>7. SUFFICES /\ Books(sizeOf, s_list', s_map', s_size', capacity.small, s_request')
               /\ Books(sizeOf, l_list', l_map', l_size', capacity.large, l_request')
               /\ Lockstep'
  BY <1>1 DEF InclusionInv
<1>8. CASE /\ Hits(k, s_list, s_map, s_size, s_request, s_list', s_map', s_size', s_request')
           /\ Hits(k, l_list, l_map, l_size, l_request, l_list', l_map', l_size', l_request')
  <2>1. /\ Books(sizeOf, s_list', s_map', s_size', capacity.small, s_request') /\ s_request' = NoRequest
        /\ \E i \in 1 .. Len(s_list) : s_list[i].key = k /\ IsFronted(Node, s_list, i, s_list[i], s_list')
    BY <1>1, <1>8, HitBooks
  <2>2. /\ Books(sizeOf, l_list', l_map', l_size', capacity.large, l_request') /\ l_request' = NoRequest
        /\ \E i \in 1 .. Len(l_list) : l_list[i].key = k /\ IsFronted(Node, l_list, i, l_list[i], l_list')
    BY <1>1, <1>8, HitBooks
  <2>3. Begins(s_list', l_list')
    BY <2>1, <2>2, <1>4, <1>5, BothHit
  <2> QED
    BY <2>1, <2>2, <2>3 DEF Lockstep
<1>9. CASE /\ Hits(k, s_list, s_map, s_size, s_request, s_list', s_map', s_size', s_request')
           /\ Misses(k, l_list, l_map, l_size, l_request, l_list', l_map', l_size', l_request')
  <2>1. k \in KeysOf(s_list) /\ k \notin KeysOf(l_list)
    BY <1>1, <1>9 DEF Hits, Misses, Books
  <2>2. PICK i \in 1 .. Len(s_list) : s_list[i].key = k
    BY <2>1, <1>5, KeyHasPlace
  <2>3. i \in 1 .. Len(l_list) /\ l_list[i].key = k
    BY <2>2, <1>4, <1>5 DEF Begins
  <2> QED
    BY <2>1, <2>3, <1>5, KeyHasPlace
<1>10. CASE /\ Misses(k, s_list, s_map, s_size, s_request, s_list', s_map', s_size', s_request')
            /\ Hits(k, l_list, l_map, l_size, l_request, l_list', l_map', l_size', l_request')
  <2>1. /\ Books(sizeOf, s_list', s_map', s_size', capacity.small, s_request') /\ s_list' = s_list
        /\ s_request' # NoRequest /\ s_request' = [key |-> k, size |-> sizeOf[k]]
        /\ k \notin KeysOf(s_list)
    BY <1>1, <1>6, <1>10, MissBooks
  <2>2. /\ Books(sizeOf, l_list', l_map', l_size', capacity.large, l_request') /\ l_request' = NoRequest
        /\ \E i \in 1 .. Len(l_list) : l_list[i].key = k /\ IsFronted(Node, l_list, i, l_list[i], l_list')
    BY <1>1, <1>10, HitBooks
  <2>3. PICK i \in 1 .. Len(l_list) : l_list[i].key = k /\ IsFronted(Node, l_list, i, l_list[i], l_list')
    BY <2>2
  <2>4. /\ l_list' # << >> /\ Head(l_list') = l_list[i] /\ Tail(l_list') \in Seq(Node)
        /\ Begins(s_list, Tail(l_list'))
    BY <2>1, <2>3, <1>4, <1>5, LargeHits
  <2>5. l_list[i] = NodeOf(s_request')
    <3>1. l_list[i] \in Node /\ l_list[i].size = sizeOf[k] /\ l_list[i].flag = FALSE
      BY <2>3, <1>1, <1>5 DEF Books
    <3>2. l_list[i] = [key |-> k, size |-> sizeOf[k], flag |-> FALSE]
      BY <3>1, <2>3 DEF Node
    <3>3. s_request'.key = k /\ s_request'.size = sizeOf[k]
      BY <2>1
    <3> QED
      BY <3>2, <3>3 DEF NodeOf
  <2>6. Aligned(s_list, Tail(l_list'), ChunkSize(s_request'.size))
    BY <2>4, <1>5, BeginsAligned
  <2>7. Aligned(s_list, Tail(l_list), ChunkSize(s_request.size))'
    BY <2>6, <2>1, <1>1 DEF Aligned
  <2> QED
    BY <2>1, <2>2, <2>4, <2>5, <2>7 DEF Lockstep
<1>11. CASE /\ Misses(k, s_list, s_map, s_size, s_request, s_list', s_map', s_size', s_request')
            /\ Misses(k, l_list, l_map, l_size, l_request, l_list', l_map', l_size', l_request')
  <2>1. /\ Books(sizeOf, s_list', s_map', s_size', capacity.small, s_request') /\ s_list' = s_list
        /\ s_request' # NoRequest /\ s_request' = [key |-> k, size |-> sizeOf[k]]
    BY <1>1, <1>6, <1>11, MissBooks
  <2>2. /\ Books(sizeOf, l_list', l_map', l_size', capacity.large, l_request') /\ l_list' = l_list
        /\ l_request' # NoRequest /\ l_request' = [key |-> k, size |-> sizeOf[k]]
    BY <1>1, <1>6, <1>11, MissBooks
  <2>3. Aligned(s_list, l_list, ChunkSize(s_request'.size))
    BY <1>4, <1>5, BeginsAligned
  <2>4. Aligned(s_list, l_list, ChunkSize(s_request.size))'
    BY <2>1, <2>2, <2>3, <1>1 DEF Aligned
  <2> QED
    BY <2>1, <2>2, <2>4 DEF Lockstep
<1> QED
  BY <1>2, <1>8, <1>9, <1>10, <1>11

\* The small cache's insert() runs, whether or not the large one's still does.
LEMMA SmallKeeps ==
    ASSUME InclusionInv, SmallInserts
    PROVE  InclusionInv'
<1> DEFINE chunk == ChunkSize(s_request.size)
<1>1. /\ sizeOf \in [Key -> Size] /\ sizeOf' = sizeOf /\ capacity' = capacity
      /\ capacity.small \in Capacities /\ capacity.large \in Capacities
      /\ capacity.small < capacity.large
      /\ Books(sizeOf, s_list, s_map, s_size, capacity.small, s_request)
      /\ Books(sizeOf, l_list, l_map, l_size, capacity.large, l_request)
      /\ Lockstep
  BY DEF InclusionInv, SmallInserts
<1>2. UNCHANGED <<l_list, l_map, l_size, l_request>>
  BY DEF SmallInserts, large_vars
<1>3. \/ Evicted(s_list, s_map, s_size, capacity.small, s_request, s_list', s_map', s_size', s_request')
      \/ Inserted(s_list, s_map, s_size, capacity.small, s_request, s_list', s_map', s_size', s_request')
  BY SmallSteps DEF SmallInserts
<1>4. s_request # NoRequest
  BY <1>3 DEF Evicted, Inserted
<1>5. /\ s_list \in Seq(Node) /\ l_list \in Seq(Node) /\ KeysDistinct(s_list) /\ KeysDistinct(l_list)
      /\ Tail(l_list) \in Seq(Node) \/ l_list = << >>
  BY <1>1 DEF Books
<1>6. /\ l_request = NoRequest => /\ l_list # << >> /\ Head(l_list) = NodeOf(s_request)
                                  /\ Aligned(s_list, Tail(l_list), chunk)
      /\ l_request # NoRequest => s_request = l_request /\ Aligned(s_list, l_list, chunk)
  BY <1>1, <1>4 DEF Lockstep
<1>7. SUFFICES /\ Books(sizeOf, s_list', s_map', s_size', capacity.small, s_request')
               /\ Lockstep'
  BY <1>1, <1>2 DEF InclusionInv
<1>8. CASE Evicted(s_list, s_map, s_size, capacity.small, s_request, s_list', s_map', s_size', s_request')
  <2>1. /\ Books(sizeOf, s_list', s_map', s_size', capacity.small, s_request')
        /\ s_request' = s_request /\ s_list # << >> /\ s_list' = Front(s_list)
    BY <1>1, <1>8, EvictedBooks
  <2>2. l_request = NoRequest => Aligned(s_list', Tail(l_list), chunk)
    BY <2>1, <1>5, <1>6, AlignedFront
  <2>3. l_request # NoRequest => Aligned(s_list', l_list, chunk)
    BY <2>1, <1>5, <1>6, AlignedFront
  <2>4. l_request = NoRequest => Aligned(s_list, Tail(l_list), ChunkSize(s_request.size))'
    BY <2>1, <2>2, <1>1, <1>2 DEF Aligned
  <2>5. l_request # NoRequest => Aligned(s_list, l_list, ChunkSize(s_request.size))'
    BY <2>1, <2>3, <1>1, <1>2 DEF Aligned
  <2> QED
    BY <2>1, <2>4, <2>5, <1>2, <1>4, <1>6 DEF Lockstep
<1>9. CASE Inserted(s_list, s_map, s_size, capacity.small, s_request, s_list', s_map', s_size', s_request')
  <2>0. /\ Books(sizeOf, s_list', s_map', s_size', capacity.small, s_request')
        /\ s_request' = NoRequest /\ Bytes(s_list) + chunk <= capacity.small
        /\ PutInFront(s_list, s_request, s_list')
    BY <1>1, <1>9, InsertedBooks
  <2>1. /\ Books(sizeOf, s_list', s_map', s_size', capacity.small, s_request')
        /\ s_request' = NoRequest /\ Bytes(s_list) + chunk <= capacity.small
        /\ s_list' \in Seq(Node) /\ s_list' # << >> /\ Head(s_list') = NodeOf(s_request)
        /\ Tail(s_list') = s_list
    BY <2>0, Zenon DEF PutInFront
  <2>2. chunk \in Nat /\ capacity.small \in Nat /\ capacity.large \in Nat
    BY <1>1, ChunkFacts, BaseAssumption DEF BaseAssumption
  <2> HIDE DEF chunk
  <2>3. CASE l_request = NoRequest
    <3>1. Begins(s_list, Tail(l_list))
      BY <2>1, <2>2, <2>3, <1>1, <1>5, <1>6, AlignedFits
    <3>2. Begins(s_list', l_list)
      BY <3>1, <2>1, <2>3, <1>5, <1>6, BeginsCons
    <3> QED
      BY <3>2, <2>1, <2>3, <1>2 DEF Lockstep
  <2>4. CASE l_request # NoRequest
    <3>1. Begins(s_list, l_list)
      BY <2>1, <2>2, <2>4, <1>1, <1>5, <1>6, AlignedFits
    <3>2. Begins(Tail(s_list'), l_list) /\ Head(s_list') = NodeOf(l_request)
      BY <3>1, <2>1, <2>4, <1>6
    <3> QED
      BY <3>2, <2>1, <2>4, <1>2 DEF Lockstep
  <2> QED
    BY <2>1, <2>3, <2>4
<1> QED
  BY <1>3, <1>8, <1>9

\* The large cache's insert() runs, whether or not the small one's still does.
LEMMA LargeKeeps ==
    ASSUME InclusionInv, LargeInserts
    PROVE  InclusionInv'
<1> DEFINE chunk == ChunkSize(l_request.size)
<1>1. /\ sizeOf \in [Key -> Size] /\ sizeOf' = sizeOf /\ capacity' = capacity
      /\ capacity.small \in Capacities /\ capacity.large \in Capacities
      /\ capacity.small < capacity.large
      /\ Books(sizeOf, s_list, s_map, s_size, capacity.small, s_request)
      /\ Books(sizeOf, l_list, l_map, l_size, capacity.large, l_request)
      /\ Lockstep
  BY DEF InclusionInv, LargeInserts
<1>2. UNCHANGED <<s_list, s_map, s_size, s_request>>
  BY DEF LargeInserts, small_vars
<1>3. \/ Evicted(l_list, l_map, l_size, capacity.large, l_request, l_list', l_map', l_size', l_request')
      \/ Inserted(l_list, l_map, l_size, capacity.large, l_request, l_list', l_map', l_size', l_request')
  BY LargeSteps DEF LargeInserts
<1>4. l_request # NoRequest
  BY <1>3 DEF Evicted, Inserted
<1>5. s_list \in Seq(Node) /\ l_list \in Seq(Node) /\ KeysDistinct(s_list) /\ KeysDistinct(l_list)
  BY <1>1 DEF Books
<1>6. /\ s_request = NoRequest => /\ s_list # << >> /\ Head(s_list) = NodeOf(l_request)
                                  /\ Begins(Tail(s_list), l_list)
      /\ s_request # NoRequest => s_request = l_request /\ Aligned(s_list, l_list, chunk)
  BY <1>1, <1>4 DEF Lockstep
<1>7. SUFFICES /\ Books(sizeOf, l_list', l_map', l_size', capacity.large, l_request')
               /\ Lockstep'
  BY <1>1, <1>2 DEF InclusionInv
<1>8. CASE Evicted(l_list, l_map, l_size, capacity.large, l_request, l_list', l_map', l_size', l_request')
  <2>1. /\ Books(sizeOf, l_list', l_map', l_size', capacity.large, l_request')
        /\ l_request' = l_request /\ l_list # << >> /\ l_list' = Front(l_list)
        /\ capacity.large < Bytes(l_list) + chunk
    BY <1>1, <1>8, EvictedBooks
  <2>2. CASE s_request = NoRequest
    <3>1. Tail(s_list) \in Seq(Node) /\ Bytes(s_list) = Bytes(Tail(s_list)) + chunk
      <4>1. /\ Tail(s_list) \in Seq(Node)
            /\ Bytes(s_list) = Bytes(Tail(s_list)) + ChunkSize(Head(s_list).size)
        BY <2>2, <1>5, <1>6, TailNode
      <4>2. Head(s_list).size = l_request.size
        BY <2>2, <1>6 DEF NodeOf
      <4> QED
        BY <4>1, <4>2
    <3>2. Bytes(s_list) <= capacity.small
      BY <1>1 DEF Books
    <3>3. Bytes(Tail(s_list)) \in Nat /\ Bytes(l_list) \in Nat /\ chunk \in Nat
          /\ capacity.small \in Nat /\ capacity.large \in Nat
      BY <3>1, <1>1, <1>5, BytesType, ChunkFacts, BaseAssumption DEF BaseAssumption
    <3> HIDE DEF chunk
    <3>4. Bytes(Tail(s_list)) < Bytes(l_list)
      BY <3>1, <3>2, <3>3, <2>1, <1>1
    <3>5. Begins(Tail(s_list), l_list')
      BY <3>1, <3>4, <2>1, <2>2, <1>5, <1>6, EvictedIsExtra
    <3> QED
      BY <3>5, <2>1, <2>2, <1>2, <1>4, <1>6 DEF Lockstep
  <2>3. CASE s_request # NoRequest
    <3>1. Aligned(s_list, l_list', chunk)
      BY <2>1, <2>3, <1>5, <1>6, AlignedEvict
    <3>2. Aligned(s_list, l_list, ChunkSize(s_request.size))'
      BY <3>1, <2>3, <1>1, <1>2, <1>6 DEF Aligned
    <3> QED
      BY <3>2, <2>1, <2>3, <1>2, <1>4, <1>6 DEF Lockstep
  <2> QED
    BY <2>1, <2>2, <2>3
<1>9. CASE Inserted(l_list, l_map, l_size, capacity.large, l_request, l_list', l_map', l_size', l_request')
  <2>0. /\ Books(sizeOf, l_list', l_map', l_size', capacity.large, l_request')
        /\ l_request' = NoRequest /\ PutInFront(l_list, l_request, l_list')
    BY <1>1, <1>9, InsertedBooks
  <2>1. /\ Books(sizeOf, l_list', l_map', l_size', capacity.large, l_request')
        /\ l_request' = NoRequest
        /\ l_list' \in Seq(Node) /\ l_list' # << >> /\ Head(l_list') = NodeOf(l_request)
        /\ Tail(l_list') = l_list
    BY <2>0, Zenon DEF PutInFront
  <2>2. CASE s_request = NoRequest
    <3>1. Begins(s_list, l_list')
      BY <2>1, <2>2, <1>5, <1>6, BeginsCons
    <3> QED
      BY <3>1, <2>1, <2>2, <1>2 DEF Lockstep
  <2>3. CASE s_request # NoRequest
    <3>1. Aligned(s_list, Tail(l_list'), chunk)
      BY <2>1, <2>3, <1>6
    <3>2. Aligned(s_list, Tail(l_list), ChunkSize(s_request.size))'
      BY <3>1, <2>3, <1>1, <1>2, <1>6 DEF Aligned
    <3> QED
      BY <3>2, <2>1, <2>3, <1>2, <1>6 DEF Lockstep
  <2> QED
    BY <2>1, <2>2, <2>3
<1> QED
  BY <1>3, <1>8, <1>9

-----------------------------------------------------------------------------
\* Through every interleaving of the two insertions, what one cache has and the
\* other has not is what does not fit in the other.
THEOREM InclusionInvariant == PairSpec => []InclusionInv
<1>1. InclusionInv /\ [PairNext]_pair_vars => InclusionInv'
  <2>1. ASSUME InclusionInv, UNCHANGED pair_vars PROVE InclusionInv'
    BY <2>1 DEF pair_vars, small_vars, large_vars, InclusionInv, Lockstep, Aligned
  <2> QED
    BY <2>1, ReadKeeps, SmallKeeps, LargeKeeps DEF PairNext
<1> QED
  BY <1>1, InclusionInit, PTL DEF PairSpec

\* LRU (lru.h) is a stack algorithm, with big and tiny chunks mixed: between two
\* trace lines the smaller cache holds a prefix of the larger one's list.
THEOREM LRUIsAStackAlgorithm == PairSpec => []SmallIsPrefixOfLarge
<1>1. InclusionInv => SmallIsPrefixOfLarge
  <2> SUFFICES ASSUME InclusionInv, Replaying PROVE IsPrefix(s_list, l_list)
    BY DEF SmallIsPrefixOfLarge
  <2>1. Begins(s_list, l_list)
    BY DEF InclusionInv, Lockstep, Replaying
  <2>2. s_list \in Seq(Node) /\ l_list \in Seq(Node)
    BY DEF InclusionInv, Books
  <2> QED
    BY <2>1, <2>2, PrefixFacts
<1> QED
  BY <1>1, InclusionInvariant, PTL

\* A trace line that hits in the smaller cache hits in the larger one, so the
\* larger capacity cannot have the lower hit ratio.
THEOREM LargerNeverMissesAlone ==
    PairSpec => [][ \A k \in Key : ReadTrace(k) /\ k \in s_map => k \in l_map ]_pair_vars
<1>1. InclusionInv => \A k \in Key : ReadTrace(k) /\ k \in s_map => k \in l_map
  <2> SUFFICES ASSUME InclusionInv, NEW k \in Key, ReadTrace(k), k \in s_map
               PROVE  k \in l_map
    OBVIOUS
  <2>1. s_request = NoRequest /\ l_request = NoRequest
    BY SmallSteps, LargeSteps DEF ReadTrace, Hits, Misses
  <2>2. Begins(s_list, l_list)
    BY <2>1 DEF InclusionInv, Lockstep
  <2>3. /\ s_list \in Seq(Node) /\ l_list \in Seq(Node)
        /\ s_map = KeysOf(s_list) /\ l_map = KeysOf(l_list)
    BY DEF InclusionInv, Books
  <2>4. PICK i \in 1 .. Len(s_list) : s_list[i].key = k
    BY <2>3, KeyHasPlace
  <2>5. i \in 1 .. Len(l_list) /\ l_list[i].key = k
    BY <2>2, <2>3, <2>4 DEF Begins
  <2> QED
    BY <2>3, <2>5, KeyHasPlace
<1> QED
  BY <1>1, InclusionInvariant, PTL

-----------------------------------------------------------------------------
(* A trace replayed by one cache: what was used after which line *)

\* The keys of the trace lines after line p, up to line h.
UsedAfter(t, p, h) == { t[j].key : j \in p + 1 .. h }

\* Each key of the trace has a last line.
KnownLast(t) ==
    \A p \in 1 .. Len(t) : \E q \in p .. Len(t) :
        t[q].key = t[p].key /\ t[p].key \notin UsedAfter(t, q, Len(t))

\* The list l is ordered by last use: a node's key has a line after which, up
\* to line h, exactly the keys in front of it were used.
ByRecency(t, h, l) ==
    \A i \in 1 .. Len(l) : \E p \in 1 .. h :
        t[p].key = l[i].key /\ UsedAfter(t, p, h) = { l[j].key : j \in 1 .. i - 1 }

\* After any line of a key that is not in l all keys in l were used, and l has
\* n nodes or more.
LongUnused(t, h, l, n) ==
    \A p \in 1 .. h : t[p].key \notin KeysOf(l) =>
        KeysOf(l) \subseteq UsedAfter(t, p, h) /\ n <= Len(l)

\* One line more, used after p.
LEMMA UsedOneMore ==
    ASSUME NEW t, NEW h \in Nat, NEW p \in 0 .. h
    PROVE  UsedAfter(t, p, h + 1) = UsedAfter(t, p, h) \union {t[h + 1].key}
<1>1. p + 1 .. h + 1 = (p + 1 .. h) \union {h + 1}
  OBVIOUS
<1> QED
  BY <1>1 DEF UsedAfter

\* After the last line nothing was used.
LEMMA UsedNone ==
    ASSUME NEW t, NEW h \in Nat
    PROVE  UsedAfter(t, h, h) = {}
  BY DEF UsedAfter

\* A line appended changes nothing of what was used up to the lines before it.
LEMMA UsedBefore ==
    ASSUME NEW t \in Seq(Request), NEW e \in Request, NEW h \in 0 .. Len(t), NEW p \in 0 .. h
    PROVE  UsedAfter(Append(t, e), p, h) = UsedAfter(t, p, h)
<1>1. \A j \in 1 .. Len(t) : Append(t, e)[j] = t[j]
  OBVIOUS
<1>2. \A j \in p + 1 .. h : j \in 1 .. Len(t)
  OBVIOUS
<1> QED
  BY <1>1, <1>2 DEF UsedAfter

\* A trace and one line more.
LEMMA TraceGrows ==
    ASSUME NEW t \in Seq(Request), NEW e \in Request
    PROVE  /\ Append(t, e) \in Seq(Request) /\ Len(t) \in Nat
           /\ Len(Append(t, e)) = Len(t) + 1
           /\ Append(t, e)[Len(t) + 1] = e
           /\ \A j \in 1 .. Len(t) : Append(t, e)[j] = t[j]
  OBVIOUS

\* A line appended does not disturb the order up to the lines before it.
LEMMA OrderBefore ==
    ASSUME NEW t \in Seq(Request), NEW e \in Request, NEW h \in 0 .. Len(t), NEW l, NEW n
    PROVE  /\ ByRecency(t, h, l) => ByRecency(Append(t, e), h, l)
           /\ LongUnused(t, h, l, n) => LongUnused(Append(t, e), h, l, n)
<1> DEFINE t2 == Append(t, e)
<1>1. \A p \in 1 .. h : UsedAfter(t2, p, h) = UsedAfter(t, p, h) /\ t2[p] = t[p]
  <2> SUFFICES ASSUME NEW p \in 1 .. h PROVE UsedAfter(t2, p, h) = UsedAfter(t, p, h) /\ t2[p] = t[p]
    OBVIOUS
  <2>1. p \in 0 .. h /\ p \in 1 .. Len(t)
    OBVIOUS
  <2> QED
    BY <2>1, UsedBefore, TraceGrows
<1> HIDE DEF t2
<1>2. ByRecency(t, h, l) => ByRecency(t2, h, l)
  BY <1>1 DEF ByRecency
<1>3. LongUnused(t, h, l, n) => LongUnused(t2, h, l, n)
  BY <1>1 DEF LongUnused
<1> QED
  BY <1>2, <1>3 DEF t2

\* A line appended is the last of its key, and of no other.
LEMMA KnownLastGrows ==
    ASSUME NEW t \in Seq(Request), NEW e \in Request, KnownLast(t)
    PROVE  KnownLast(Append(t, e))
<1> DEFINE t2 == Append(t, e)
           T == Len(t)
<1>1. t2 \in Seq(Request) /\ T \in Nat /\ Len(t2) = T + 1 /\ t2[T + 1] = e
      /\ \A j \in 1 .. T : t2[j] = t[j]
  BY TraceGrows
<1>2. \A q \in 1 .. T : UsedAfter(t2, q, T + 1) = UsedAfter(t, q, T) \union {e.key}
  <2> SUFFICES ASSUME NEW q \in 1 .. T PROVE UsedAfter(t2, q, T + 1) = UsedAfter(t, q, T) \union {e.key}
    OBVIOUS
  <2>1. q \in 0 .. T /\ T \in 0 .. Len(t)
    BY <1>1
  <2>2. UsedAfter(t2, q, T + 1) = UsedAfter(t2, q, T) \union {t2[T + 1].key}
    <3> HIDE DEF t2, T
    <3> QED
      BY <2>1, <1>1, UsedOneMore
  <2>3. UsedAfter(t2, q, T) = UsedAfter(t, q, T)
    BY <2>1, UsedBefore
  <2> QED
    BY <2>2, <2>3, <1>1
<1>3. UsedAfter(t2, T + 1, T + 1) = {}
  BY <1>1, UsedNone
<1> HIDE DEF t2
<1>4. SUFFICES ASSUME NEW p \in 1 .. T + 1
               PROVE  \E q \in p .. T + 1 :
                        t2[q].key = t2[p].key /\ t2[p].key \notin UsedAfter(t2, q, T + 1)
  BY <1>1 DEF KnownLast, t2
<1>5. CASE t2[p].key = e.key
  <2>1. T + 1 \in p .. T + 1
    BY <1>1
  <2> QED
    BY <2>1, <1>1, <1>3, <1>5
<1>6. CASE t2[p].key # e.key
  <2>1. p \in 1 .. T
    BY <1>1, <1>6
  <2>2. PICK q \in p .. T : t[q].key = t[p].key /\ t[p].key \notin UsedAfter(t, q, T)
    BY <2>1 DEF KnownLast
  <2>3. q \in 1 .. T /\ q \in p .. T + 1
    BY <2>1, <2>2, <1>1
  <2> QED
    BY <2>1, <2>2, <2>3, <1>1, <1>2, <1>6
<1> QED
  BY <1>5, <1>6

\* Line h + 1 names the key that is then put in front of what is left of l.
LEMMA OrderCons ==
    ASSUME NEW t, NEW h \in Nat, NEW l \in Seq(Node), NEW l2 \in Seq(Node), NEW n \in Int,
           Len(l2) = Len(l) + 1, l2[1].key = t[h + 1].key, t[h + 1].key \notin KeysOf(l),
           \A i \in 1 .. Len(l) : l2[i + 1] = l[i],
           ByRecency(t, h, l), LongUnused(t, h, l, n - 1)
    PROVE  ByRecency(t, h + 1, l2) /\ LongUnused(t, h + 1, l2, n)
<1> DEFINE k == t[h + 1].key
<1>0. Len(l) \in Nat
  OBVIOUS
<1>1. \A p \in 1 .. h : UsedAfter(t, p, h + 1) = UsedAfter(t, p, h) \union {k}
  BY UsedOneMore
<1>2. ByRecency(t, h + 1, l2)
  <2> SUFFICES ASSUME NEW i \in 1 .. Len(l2)
               PROVE  \E p \in 1 .. h + 1 : t[p].key = l2[i].key
                        /\ UsedAfter(t, p, h + 1) = { l2[j].key : j \in 1 .. i - 1 }
    BY DEF ByRecency
  <2>1. CASE i = 1
    <3>1. UsedAfter(t, h + 1, h + 1) = {} /\ h + 1 \in 1 .. h + 1
      BY UsedNone
    <3>2. { l2[j].key : j \in 1 .. i - 1 } = {}
      BY <2>1
    <3> QED
      BY <3>1, <3>2, <2>1
  <2>2. CASE i # 1
    <3>1. i - 1 \in 1 .. Len(l) /\ l2[i] = l[i - 1]
      BY <2>2, <1>0
    <3>2. PICK p \in 1 .. h : t[p].key = l[i - 1].key
                              /\ UsedAfter(t, p, h) = { l[j].key : j \in 1 .. (i - 1) - 1 }
      BY <3>1 DEF ByRecency
    <3>3. { l2[j].key : j \in 1 .. i - 1 } = { l[j].key : j \in 1 .. (i - 1) - 1 } \union {k}
      <4>1. \A j \in 1 .. (i - 1) - 1 : j + 1 \in 1 .. i - 1 /\ l2[j + 1] = l[j]
        BY <1>0, <3>1
      <4>2. \A j \in 1 .. i - 1 : j = 1 \/ (j - 1 \in 1 .. (i - 1) - 1 /\ l2[j] = l[j - 1])
        BY <1>0, <3>1
      <4>3. 1 \in 1 .. i - 1 /\ l2[1].key = k
        BY <3>1
      <4>4. ASSUME NEW y
            PROVE  y \in { l2[j].key : j \in 1 .. i - 1 }
                     <=> y = k \/ y \in { l[j].key : j \in 1 .. (i - 1) - 1 }
        <5> HIDE DEF k
        <5>1. ASSUME NEW j \in 1 .. i - 1, y = l2[j].key
              PROVE  y = k \/ y \in { l[x].key : x \in 1 .. (i - 1) - 1 }
          BY <5>1, <4>2, <4>3
        <5>2. y = k => y \in { l2[j].key : j \in 1 .. i - 1 }
          BY <4>3
        <5>3. ASSUME NEW j \in 1 .. (i - 1) - 1, y = l[j].key
              PROVE  y \in { l2[x].key : x \in 1 .. i - 1 }
          BY <5>3, <4>1
        <5> QED
          BY <5>1, <5>2, <5>3
      <4> QED
        BY <4>4
    <3>4. p \in 1 .. h + 1 /\ UsedAfter(t, p, h + 1) = { l2[j].key : j \in 1 .. i - 1 }
      <4>1. p \in 1 .. h + 1
        OBVIOUS
      <4>2. UsedAfter(t, p, h + 1) = UsedAfter(t, p, h) \union {k}
        BY <1>1
      <4> HIDE DEF k
      <4> QED
        BY <3>2, <3>3, <4>1, <4>2, Zenon
    <3> QED
      BY <3>1, <3>2, <3>4
  <2> QED
    BY <2>1, <2>2
<1>3. LongUnused(t, h + 1, l2, n)
  <2>1. KeysOf(l2) = KeysOf(l) \union {k}
    <3>1. \A x : x \in KeysOf(l) <=> \E i \in 1 .. Len(l) : l[i].key = x
      BY KeyHasPlace
    <3>2. \A x : x \in KeysOf(l2) <=> \E i \in 1 .. Len(l2) : l2[i].key = x
      BY KeyHasPlace
    <3>3. \A i \in 1 .. Len(l) : i + 1 \in 1 .. Len(l2)
      BY <1>0
    <3>4. \A i \in 1 .. Len(l2) : i = 1 \/ (i - 1 \in 1 .. Len(l) /\ l2[i] = l[i - 1])
      BY <1>0
    <3>5. 1 \in 1 .. Len(l2) /\ l2[1].key = k
      BY <1>0
    <3> HIDE DEF k
    <3>6. ASSUME NEW y \in KeysOf(l2) PROVE y \in KeysOf(l) \/ y = k
      <4>1. PICK i \in 1 .. Len(l2) : l2[i].key = y
        BY <3>2
      <4>2. i = 1 \/ (i - 1 \in 1 .. Len(l) /\ l[i - 1].key = y)
        BY <3>4, <4>1
      <4> QED
        BY <3>1, <3>5, <4>1, <4>2
    <3>7. k \in KeysOf(l2)
      BY <3>2, <3>5
    <3>8. ASSUME NEW y \in KeysOf(l) PROVE y \in KeysOf(l2)
      BY <3>1, <3>2, <3>3
    <3> QED
      BY <3>6, <3>7, <3>8
  <2> SUFFICES ASSUME NEW p \in 1 .. h + 1, t[p].key \notin KeysOf(l2)
               PROVE  KeysOf(l2) \subseteq UsedAfter(t, p, h + 1) /\ n <= Len(l2)
    BY DEF LongUnused
  <2>2. p \in 1 .. h /\ t[p].key \notin KeysOf(l)
    BY <2>1
  <2>3. KeysOf(l) \subseteq UsedAfter(t, p, h) /\ n - 1 <= Len(l)
    BY <2>2 DEF LongUnused
  <2> QED
    BY <2>1, <2>2, <2>3, <1>0, <1>1
<1> QED
  BY <1>2, <1>3

\* Line h + 1 names the key of node i, which then goes to the front.
LEMMA OrderFronted ==
    ASSUME NEW t, NEW h \in Nat, NEW l \in Seq(Node), NEW l2 \in Seq(Node), NEW n \in Int,
           NEW i \in 1 .. Len(l), IsFronted(Node, l, i, l[i], l2), KeysDistinct(l),
           l[i].key = t[h + 1].key, KeysOf(l2) = KeysOf(l),
           ByRecency(t, h, l), LongUnused(t, h, l, n)
    PROVE  ByRecency(t, h + 1, l2) /\ LongUnused(t, h + 1, l2, n)
<1> DEFINE k == t[h + 1].key
<1>0. /\ Len(l) \in Nat /\ Len(l2) = Len(l) /\ l2[1] = l[i] /\ DOMAIN l = 1 .. Len(l)
      /\ \A j \in 2 .. Len(l) : l2[j] = IF j <= i THEN l[j - 1] ELSE l[j]
  <2>1. Len(l) \in Nat /\ DOMAIN l = 1 .. Len(l)
    OBVIOUS
  <2>2. /\ Len(l2) = Len(l) /\ l2[1] = l[i]
        /\ \A j \in 2 .. Len(l) : l2[j] = IF j <= i THEN l[j - 1] ELSE l[j]
    BY DEF IsFronted
  <2> QED
    BY <2>1, <2>2
<1>1. \A p \in 1 .. h : UsedAfter(t, p, h + 1) = UsedAfter(t, p, h) \union {k}
  BY UsedOneMore
<1>2. ByRecency(t, h + 1, l2)
  <2> SUFFICES ASSUME NEW x \in 1 .. Len(l2)
               PROVE  \E p \in 1 .. h + 1 : t[p].key = l2[x].key
                        /\ UsedAfter(t, p, h + 1) = { l2[j].key : j \in 1 .. x - 1 }
    BY DEF ByRecency
  <2>1. CASE x = 1
    <3>1. UsedAfter(t, h + 1, h + 1) = {} /\ h + 1 \in 1 .. h + 1
      BY UsedNone
    <3>2. { l2[j].key : j \in 1 .. x - 1 } = {}
      BY <2>1
    <3> QED
      BY <3>1, <3>2, <2>1, <1>0
  <2>2. CASE x # 1 /\ x <= i
    <3>1. x - 1 \in 1 .. Len(l) /\ l2[x] = l[x - 1] /\ x \in 2 .. Len(l)
      BY <2>2, <1>0
    <3>2. PICK p \in 1 .. h : t[p].key = l[x - 1].key
                              /\ UsedAfter(t, p, h) = { l[j].key : j \in 1 .. (x - 1) - 1 }
      BY <3>1 DEF ByRecency
    <3>3. { l2[j].key : j \in 1 .. x - 1 } = { l[j].key : j \in 1 .. (x - 1) - 1 } \union {k}
      <4>1. \A j \in 1 .. (x - 1) - 1 : j + 1 \in 1 .. x - 1 /\ l2[j + 1] = l[j]
        <5> SUFFICES ASSUME NEW j \in 1 .. (x - 1) - 1 PROVE j + 1 \in 1 .. x - 1 /\ l2[j + 1] = l[j]
          OBVIOUS
        <5>1. j + 1 \in 1 .. x - 1 /\ j + 1 \in 2 .. Len(l) /\ j + 1 <= i /\ (j + 1) - 1 = j
          BY <1>0, <3>1, <2>2
        <5> QED
          BY <5>1, <1>0
      <4>2. \A j \in 1 .. x - 1 : j = 1 \/ (j - 1 \in 1 .. (x - 1) - 1 /\ l2[j] = l[j - 1])
        <5> SUFFICES ASSUME NEW j \in 1 .. x - 1, j # 1
                     PROVE  j - 1 \in 1 .. (x - 1) - 1 /\ l2[j] = l[j - 1]
          OBVIOUS
        <5>1. j - 1 \in 1 .. (x - 1) - 1 /\ j \in 2 .. Len(l) /\ j <= i
          BY <1>0, <3>1, <2>2
        <5> QED
          BY <5>1, <1>0
      <4>3. 1 \in 1 .. x - 1 /\ l2[1].key = k
        BY <3>1, <1>0
      <4>4. ASSUME NEW y
            PROVE  y \in { l2[j].key : j \in 1 .. x - 1 }
                     <=> y = k \/ y \in { l[j].key : j \in 1 .. (x - 1) - 1 }
        <5> HIDE DEF k
        <5>1. ASSUME NEW j \in 1 .. x - 1, y = l2[j].key
              PROVE  y = k \/ y \in { l[z].key : z \in 1 .. (x - 1) - 1 }
          BY <5>1, <4>2, <4>3
        <5>2. y = k => y \in { l2[j].key : j \in 1 .. x - 1 }
          BY <4>3
        <5>3. ASSUME NEW j \in 1 .. (x - 1) - 1, y = l[j].key
              PROVE  y \in { l2[z].key : z \in 1 .. x - 1 }
          BY <5>3, <4>1
        <5> QED
          BY <5>1, <5>2, <5>3
      <4> QED
        BY <4>4
    <3>4. p \in 1 .. h + 1 /\ UsedAfter(t, p, h + 1) = { l2[j].key : j \in 1 .. x - 1 }
      <4>1. p \in 1 .. h + 1
        OBVIOUS
      <4>2. UsedAfter(t, p, h + 1) = UsedAfter(t, p, h) \union {k}
        BY <1>1
      <4> HIDE DEF k
      <4> QED
        BY <3>2, <3>3, <4>1, <4>2, Zenon
    <3> QED
      BY <3>1, <3>2, <3>4
  <2>3. CASE x > i
    <3>1. x \in 1 .. Len(l) /\ l2[x] = l[x] /\ x \in 2 .. Len(l)
      BY <2>3, <1>0
    <3>2. PICK p \in 1 .. h : t[p].key = l[x].key
                              /\ UsedAfter(t, p, h) = { l[j].key : j \in 1 .. x - 1 }
      BY <3>1 DEF ByRecency
    <3>3. { l2[j].key : j \in 1 .. x - 1 } = { l[j].key : j \in 1 .. x - 1 }
      <4>1. \A j \in 1 .. x - 1 : \E y \in 1 .. x - 1 : l2[y] = l[j]
        <5> SUFFICES ASSUME NEW j \in 1 .. x - 1 PROVE \E y \in 1 .. x - 1 : l2[y] = l[j]
          OBVIOUS
        <5>1. CASE j < i
          <6>1. j + 1 \in 1 .. x - 1 /\ j + 1 \in 2 .. Len(l) /\ j + 1 <= i /\ (j + 1) - 1 = j
            BY <5>1, <1>0, <3>1, <2>3
          <6> QED
            BY <6>1, <1>0
        <5>2. CASE j = i
          <6>1. 1 \in 1 .. x - 1
            BY <3>1
          <6> QED
            BY <5>2, <6>1, <1>0
        <5>3. CASE j > i
          <6>1. j \in 2 .. Len(l) /\ ~(j <= i)
            BY <5>3, <1>0, <3>1
          <6> QED
            BY <6>1, <1>0
        <5> QED
          BY <5>1, <5>2, <5>3
      <4>2. \A j \in 1 .. x - 1 : \E y \in 1 .. x - 1 : l2[j] = l[y]
        <5> SUFFICES ASSUME NEW j \in 1 .. x - 1 PROVE \E y \in 1 .. x - 1 : l2[j] = l[y]
          OBVIOUS
        <5>1. CASE j = 1
          <6>1. i \in 1 .. x - 1
            BY <2>3, <3>1
          <6> QED
            BY <5>1, <6>1, <1>0
        <5>2. CASE j # 1 /\ j <= i
          <6>1. j \in 2 .. Len(l) /\ j - 1 \in 1 .. x - 1
            BY <5>2, <1>0, <3>1
          <6> QED
            BY <5>2, <6>1, <1>0
        <5>3. CASE j # 1 /\ j > i
          <6>1. j \in 2 .. Len(l) /\ ~(j <= i)
            BY <5>3, <1>0, <3>1
          <6> QED
            BY <6>1, <1>0
        <5> QED
          BY <5>1, <5>2, <5>3
      <4>3. \A y : y \in { l2[j].key : j \in 1 .. x - 1 } => y \in { l[j].key : j \in 1 .. x - 1 }
        <5> SUFFICES ASSUME NEW j \in 1 .. x - 1 PROVE l2[j].key \in { l[z].key : z \in 1 .. x - 1 }
          OBVIOUS
        <5>1. PICK y \in 1 .. x - 1 : l2[j] = l[y]
          BY <4>2
        <5> QED
          BY <5>1
      <4>4. \A y : y \in { l[j].key : j \in 1 .. x - 1 } => y \in { l2[j].key : j \in 1 .. x - 1 }
        <5> SUFFICES ASSUME NEW j \in 1 .. x - 1 PROVE l[j].key \in { l2[z].key : z \in 1 .. x - 1 }
          OBVIOUS
        <5>1. PICK y \in 1 .. x - 1 : l2[y] = l[j]
          BY <4>1
        <5> QED
          BY <5>1
      <4> QED
        BY <4>3, <4>4
    <3>4. k \in { l[j].key : j \in 1 .. x - 1 }
      BY <2>3, <3>1
    <3>5. p \in 1 .. h + 1 /\ UsedAfter(t, p, h + 1) = { l2[j].key : j \in 1 .. x - 1 }
      <4>1. p \in 1 .. h + 1
        OBVIOUS
      <4>2. UsedAfter(t, p, h + 1) = UsedAfter(t, p, h) \union {k}
        BY <1>1
      <4>3. { l[j].key : j \in 1 .. x - 1 } \union {k} = { l[j].key : j \in 1 .. x - 1 }
        BY <3>4
      <4> HIDE DEF k
      <4> QED
        BY <3>2, <3>3, <4>1, <4>2, <4>3, Zenon
    <3> QED
      BY <3>1, <3>2, <3>5
  <2>4. x = 1 \/ (x # 1 /\ x <= i) \/ x > i
    BY <1>0
  <2> QED
    BY <2>1, <2>2, <2>3, <2>4, Zenon
<1>3. LongUnused(t, h + 1, l2, n)
  <2> SUFFICES ASSUME NEW p \in 1 .. h + 1, t[p].key \notin KeysOf(l2)
               PROVE  KeysOf(l2) \subseteq UsedAfter(t, p, h + 1) /\ n <= Len(l2)
    BY DEF LongUnused
  <2>1. k \in KeysOf(l)
    BY KeyHasPlace
  <2>2. p \in 1 .. h /\ t[p].key \notin KeysOf(l)
    BY <2>1
  <2>3. KeysOf(l) \subseteq UsedAfter(t, p, h) /\ n <= Len(l)
    BY <2>2 DEF LongUnused
  <2> QED
    BY <2>2, <2>3, <1>0, <1>1
<1> QED
  BY <1>2, <1>3

\* The key of the last node is no other node's.
LEMMA LastKeyApart ==
    ASSUME NEW l \in Seq(Node), KeysDistinct(l), NEW j \in 1 .. Len(l) - 1
    PROVE  l[j].key # l[Len(l)].key
<1> DEFINE n == Len(l)
<1>1. n \in Nat /\ DOMAIN l = 1 .. n /\ j \in 1 .. n - 1
  OBVIOUS
<1> HIDE DEF n
<1>2. j \in 1 .. n /\ n \in 1 .. n /\ j # n
  BY <1>1
<1>3. l[j].key # l[n].key
  BY <1>1, <1>2 DEF KeysDistinct
<1> QED
  BY <1>3 DEF n

\* The least recent node goes: it was used before all that stay.
LEMMA OrderFront ==
    ASSUME NEW t, NEW h \in Nat, NEW l \in Seq(Node), l # << >>, KeysDistinct(l),
           NEW n \in Int, n <= Len(l), NEW u,
           ByRecency(t, h, l), LongUnused(t, h, l, u)
    PROVE  ByRecency(t, h, Front(l)) /\ LongUnused(t, h, Front(l), n - 1)
<1> DEFINE l2 == Front(l)
<1>0. /\ l2 \in Seq(Node) /\ Len(l) \in Nat /\ 0 < Len(l) /\ Len(l2) = Len(l) - 1
      /\ \A i \in 1 .. Len(l) - 1 : l2[i] = l[i]
      /\ KeysOf(l2) = KeysOf(l) \ {l[Len(l)].key}
  BY FrontNode
<1> HIDE DEF l2
<1>1. ByRecency(t, h, l2)
  <2> SUFFICES ASSUME NEW i \in 1 .. Len(l2)
               PROVE  \E p \in 1 .. h : t[p].key = l2[i].key
                        /\ UsedAfter(t, p, h) = { l2[j].key : j \in 1 .. i - 1 }
    BY DEF ByRecency
  <2>1. i \in 1 .. Len(l) /\ l2[i] = l[i] /\ \A j \in 1 .. i - 1 : l2[j] = l[j]
    BY <1>0
  <2>2. { l2[j].key : j \in 1 .. i - 1 } = { l[j].key : j \in 1 .. i - 1 }
    BY <2>1
  <2> QED
    BY <2>1, <2>2 DEF ByRecency
<1>2. LongUnused(t, h, l2, n - 1)
  <2> SUFFICES ASSUME NEW p \in 1 .. h, t[p].key \notin KeysOf(l2)
               PROVE  KeysOf(l2) \subseteq UsedAfter(t, p, h) /\ n - 1 <= Len(l2)
    BY DEF LongUnused
  <2>1. n - 1 <= Len(l2)
    BY <1>0
  <2>2. CASE t[p].key \notin KeysOf(l)
    BY <2>1, <2>2, <1>0 DEF LongUnused
  <2>3. CASE t[p].key = l[Len(l)].key
    <3>1. Len(l) \in 1 .. Len(l)
      BY <1>0
    <3>2. PICK q \in 1 .. h : t[q].key = l[Len(l)].key
                              /\ UsedAfter(t, q, h) = { l[j].key : j \in 1 .. Len(l) - 1 }
      BY <3>1 DEF ByRecency
    <3>3. l[Len(l)].key \notin UsedAfter(t, q, h)
      <4>1. \A j \in 1 .. Len(l) - 1 : l[j].key # l[Len(l)].key
        BY LastKeyApart
      <4> QED
        BY <4>1, <3>2
    <3>4. p <= q
      <4> SUFFICES ASSUME q < p PROVE FALSE
        OBVIOUS
      <4>1. p \in q + 1 .. h
        OBVIOUS
      <4> QED
        BY <4>1, <3>3, <2>3 DEF UsedAfter
    <3>5. UsedAfter(t, q, h) \subseteq UsedAfter(t, p, h)
      <4>1. q + 1 .. h \subseteq p + 1 .. h
        BY <3>4
      <4> QED
        BY <4>1 DEF UsedAfter
    <3>6. KeysOf(l2) \subseteq { l[j].key : j \in 1 .. Len(l) - 1 }
      <4>1. DOMAIN l2 = 1 .. Len(l) - 1
        BY <1>0
      <4> QED
        BY <4>1, <1>0 DEF KeysOf
    <3> QED
      BY <3>2, <3>5, <3>6, <2>1
  <2> QED
    BY <2>2, <2>3, <1>0
<1> QED
  BY <1>1, <1>2 DEF l2

\* Stack distances of a trace t.
Reused(t, i) == { j \in 1 .. i - 1 : t[j].key = t[i].key }
LastReused(t, i) == CHOOSE j \in Reused(t, i) : \A h \in Reused(t, i) : h <= j
IsStackHit(t, i, n) ==
    Reused(t, i) # {} /\ Cardinality(UsedAfter(t, LastReused(t, i), i - 1)) < n

\* A line appended changes no earlier line's stack distance.
LEMMA StackHitBefore ==
    ASSUME NEW t \in Seq(Request), NEW e \in Request, NEW i \in 1 .. Len(t), NEW n
    PROVE  IsStackHit(Append(t, e), i, n) <=> IsStackHit(t, i, n)
<1> DEFINE t2 == Append(t, e)
<1>1. \A j \in 1 .. Len(t) : t2[j] = t[j]
  BY TraceGrows
<1>2. Reused(t2, i) = Reused(t, i)
  <2>1. \A j \in 1 .. i - 1 : j \in 1 .. Len(t)
    OBVIOUS
  <2> HIDE DEF t2
  <2> QED
    BY <2>1, <1>1 DEF Reused
<1>3. LastReused(t2, i) = LastReused(t, i)
  BY <1>2 DEF LastReused
<1>4. \A p : UsedAfter(t2, p, i - 1) = UsedAfter(t, p, i - 1) \/ p \notin Nat
  <2> SUFFICES ASSUME NEW p \in Nat PROVE UsedAfter(t2, p, i - 1) = UsedAfter(t, p, i - 1)
    OBVIOUS
  <2>1. \A j \in p + 1 .. i - 1 : j \in 1 .. Len(t)
    OBVIOUS
  <2> HIDE DEF t2
  <2> QED
    BY <2>1, <1>1 DEF UsedAfter
<1>5. CASE Reused(t, i) = {}
  BY <1>2, <1>5 DEF IsStackHit
<1>6. CASE Reused(t, i) # {}
  <2>1. UsedAfter(t2, LastReused(t, i), i - 1) = UsedAfter(t, LastReused(t, i), i - 1)
    <3> DEFINE q == LastReused(t, i)
    <3>1. CASE q \in Nat
      BY <3>1, <1>4
    <3>2. CASE q \notin Nat
      <4>1. Reused(t, i) \subseteq Nat
        BY DEF Reused
      <4>2. \E j \in Reused(t, i) : \A h \in Reused(t, i) : h <= j
        <5>1. \A h \in Reused(t, i) : h <= i
          BY DEF Reused
        <5>2. i \in Nat /\ Reused(t, i) \in SUBSET Nat
          BY <4>1
        <5> QED
          BY <5>1, <5>2, <1>6, SetHasMaximum
      <4> QED
        BY <3>2, <4>1, <4>2 DEF LastReused
    <3> QED
      BY <3>1, <3>2
  <2> QED
    BY <2>1, <1>2, <1>3 DEF IsStackHit
<1> QED
  BY <1>5, <1>6 DEF t2

\* The last line of a key before line i is the one that is chosen.
LEMMA LastReusedIs ==
    ASSUME NEW t, NEW i \in Nat, NEW p \in 1 .. i - 1, t[p].key = t[i].key,
           t[i].key \notin UsedAfter(t, p, i - 1)
    PROVE  Reused(t, i) # {} /\ LastReused(t, i) = p
<1>1. p \in Reused(t, i)
  BY DEF Reused
<1>2. \A h \in Reused(t, i) : h <= p
  <2> SUFFICES ASSUME NEW h \in 1 .. i - 1, t[h].key = t[i].key, ~(h <= p) PROVE FALSE
    BY DEF Reused
  <2>1. h \in p + 1 .. i - 1
    OBVIOUS
  <2> QED
    BY <2>1 DEF UsedAfter
<1>3. \A j \in Reused(t, i) : (\A h \in Reused(t, i) : h <= j) => j = p
  <2> SUFFICES ASSUME NEW j \in Reused(t, i), \A h \in Reused(t, i) : h <= j PROVE j = p
    OBVIOUS
  <2>1. p <= j /\ j <= p /\ j \in Nat /\ p \in Nat
    BY <1>1, <1>2 DEF Reused
  <2> QED
    BY <2>1
<1> QED
  BY <1>1, <1>2, <1>3 DEF LastReused

\* A set of as many keys as a list of distinct keys has nodes.
LEMMA DistinctKeysCounted ==
    ASSUME NEW l \in Seq(Node), KeysDistinct(l)
    PROVE  IsFiniteSet(KeysOf(l)) /\ Cardinality(KeysOf(l)) = Len(l)
<1> DEFINE f == [i \in 1 .. Len(l) |-> l[i].key]
<1>1. DOMAIN l = 1 .. Len(l) /\ Len(l) \in Nat
  OBVIOUS
<1>2. f \in Bijection(1 .. Len(l), KeysOf(l))
  <2>1. f \in [1 .. Len(l) -> KeysOf(l)]
    BY <1>1 DEF KeysOf
  <2>2. \A x \in KeysOf(l) : \E i \in 1 .. Len(l) : f[i] = x
    BY <1>1 DEF KeysOf
  <2>3. \A i, j \in 1 .. Len(l) : f[i] = f[j] => i = j
    BY <1>1 DEF KeysDistinct
  <2> HIDE DEF f
  <2> QED
    BY <2>1, <2>2, <2>3 DEF Bijection, Injection, Surjection, IsInjective
<1>3. ExistsBijection(1 .. Len(l), KeysOf(l))
  BY <1>2 DEF ExistsBijection
<1> QED
  BY <1>1, <1>3, KeysFinite, FS_CountingElements

\* The keys in front of node i are fewer than i.
LEMMA KeysInFront ==
    ASSUME NEW l \in Seq(Node), NEW i \in 1 .. Len(l)
    PROVE  /\ IsFiniteSet({ l[j].key : j \in 1 .. i - 1 })
           /\ Cardinality({ l[j].key : j \in 1 .. i - 1 }) <= i - 1
<1> DEFINE K == { l[j].key : j \in 1 .. i - 1 }
           f == [j \in 1 .. i - 1 |-> l[j].key]
<1>1. f \in Surjection(1 .. i - 1, K)
  BY DEF Surjection
<1>2. i - 1 \in Nat /\ IsFiniteSet(1 .. i - 1) /\ Cardinality(1 .. i - 1) = i - 1
  BY FS_Interval
<1> HIDE DEF f, K
<1> QED
  BY <1>1, <1>2, FS_Surjection DEF K

\* The keys used between two lines are finitely many.
LEMMA UsedFinite ==
    ASSUME NEW t, NEW p \in Nat, NEW h \in Nat
    PROVE  IsFiniteSet(UsedAfter(t, p, h))
<1> DEFINE f == [j \in p + 1 .. h |-> t[j].key]
<1>1. f \in Surjection(p + 1 .. h, UsedAfter(t, p, h))
  BY DEF Surjection, UsedAfter
<1>2. IsFiniteSet(p + 1 .. h)
  BY FS_Interval
<1> HIDE DEF f
<1> QED
  BY <1>1, <1>2, FS_Surjection

\* A line that names the key of node i: at most i - 1 others since.
LEMMA StoredIsStackHit ==
    ASSUME NEW t \in Seq(Request), NEW e \in Request, NEW l \in Seq(Node), KeysDistinct(l),
           ByRecency(t, Len(t), l), NEW i \in 1 .. Len(l), e.key = l[i].key,
           NEW n \in Nat, Len(l) <= n
    PROVE  IsStackHit(Append(t, e), Len(t) + 1, n)
<1> DEFINE t2 == Append(t, e)
           T == Len(t)
<1>0. /\ T \in Nat /\ t2[T + 1] = e /\ \A j \in 1 .. T : t2[j] = t[j]
      /\ DOMAIN l = 1 .. Len(l) /\ Len(l) \in Nat
  BY TraceGrows
<1>1. PICK p \in 1 .. T : t[p].key = l[i].key
                          /\ UsedAfter(t, p, T) = { l[j].key : j \in 1 .. i - 1 }
  BY DEF ByRecency
<1>2. UsedAfter(t2, p, T) = UsedAfter(t, p, T)
  BY <1>0, UsedBefore
<1>3. e.key \notin UsedAfter(t, p, T)
  <2> SUFFICES ASSUME NEW j \in 1 .. i - 1, l[j].key = l[i].key PROVE FALSE
    BY <1>1
  <2>1. j \in 1 .. Len(l) /\ i \in 1 .. Len(l) /\ j # i
    BY <1>0
  <2> QED
    BY <2>1, <1>0 DEF KeysDistinct
<1> HIDE DEF t2
<1>4. p \in 1 .. (T + 1) - 1 /\ (T + 1) - 1 = T /\ T + 1 \in Nat
  BY <1>0
<1>5. Reused(t2, T + 1) # {} /\ LastReused(t2, T + 1) = p
  <2>1. t2[p].key = t2[T + 1].key
    BY <1>0, <1>1
  <2>2. t2[T + 1].key \notin UsedAfter(t2, p, (T + 1) - 1)
    BY <1>0, <1>2, <1>3, <1>4
  <2> HIDE DEF T
  <2> QED
    BY <1>4, <2>1, <2>2, LastReusedIs
<1>6. Cardinality(UsedAfter(t2, p, (T + 1) - 1)) < n
  <2>1. /\ Cardinality({ l[j].key : j \in 1 .. i - 1 }) <= i - 1
        /\ Cardinality({ l[j].key : j \in 1 .. i - 1 }) \in Nat
    BY KeysInFront, FS_CardinalityType
  <2>2. UsedAfter(t2, p, (T + 1) - 1) = { l[j].key : j \in 1 .. i - 1 }
    BY <1>1, <1>2, <1>4
  <2>3. Cardinality({ l[j].key : j \in 1 .. i - 1 }) < n
    BY <2>1, <1>0
  <2> QED
    BY <2>2, <2>3
<1> QED
  BY <1>5, <1>6 DEF IsStackHit, t2

\* A line that names a key not stored: at least n others since, or it is new.
LEMMA AbsentIsNoStackHit ==
    ASSUME NEW t \in Seq(Request), NEW e \in Request, NEW l \in Seq(Node), KeysDistinct(l),
           KnownLast(t), NEW n \in Nat, LongUnused(t, Len(t), l, n), e.key \notin KeysOf(l)
    PROVE  ~IsStackHit(Append(t, e), Len(t) + 1, n)
<1> DEFINE t2 == Append(t, e)
           T == Len(t)
<1>0. T \in Nat /\ t2[T + 1] = e /\ \A j \in 1 .. T : t2[j] = t[j]
  BY TraceGrows
<1>1. (T + 1) - 1 = T /\ T + 1 \in Nat
  BY <1>0
<1> SUFFICES ASSUME Reused(t2, T + 1) # {}
             PROVE  ~(Cardinality(UsedAfter(t2, LastReused(t2, T + 1), T)) < n)
  BY <1>1 DEF IsStackHit
<1>2. PICK o \in 1 .. T : t2[o].key = e.key
  BY <1>0, <1>1 DEF Reused
<1>3. PICK p \in o .. T : t[p].key = t[o].key /\ t[o].key \notin UsedAfter(t, p, T)
  BY <1>2 DEF KnownLast
<1>4. p \in 1 .. T /\ t2[p] = t[p] /\ t[p].key = e.key /\ t[o].key = e.key
  BY <1>0, <1>2, <1>3
<1>5. UsedAfter(t2, p, T) = UsedAfter(t, p, T)
  BY <1>0, <1>4, UsedBefore
<1> HIDE DEF t2
<1>6. LastReused(t2, T + 1) = p
  <2>1. p \in 1 .. (T + 1) - 1 /\ t2[p].key = t2[T + 1].key
    BY <1>0, <1>1, <1>4
  <2>2. t2[T + 1].key \notin UsedAfter(t2, p, (T + 1) - 1)
    BY <1>0, <1>1, <1>3, <1>4, <1>5
  <2> HIDE DEF T
  <2> QED
    BY <1>1, <2>1, <2>2, LastReusedIs
<1>7. KeysOf(l) \subseteq UsedAfter(t, p, T) /\ n <= Len(l)
  BY <1>4 DEF LongUnused
<1>8. Cardinality(KeysOf(l)) = Len(l) /\ Len(l) \in Nat
  BY DistinctKeysCounted
<1>9. /\ Cardinality(KeysOf(l)) <= Cardinality(UsedAfter(t, p, T))
      /\ Cardinality(UsedAfter(t, p, T)) \in Nat
  <2>1. IsFiniteSet(UsedAfter(t, p, T))
    BY <1>0, <1>4, UsedFinite
  <2> QED
    BY <2>1, <1>7, FS_Subset, FS_CardinalityType
<1>10. ~(Cardinality(UsedAfter(t, p, T)) < n)
  BY <1>7, <1>8, <1>9
<1> QED
  BY <1>5, <1>6, <1>10

-----------------------------------------------------------------------------
(* The periods *)
Counters == [ho : Nat, so : Nat, wo : Nat, hb : Nat, sb : Nat]
Period == [at : Nat, warmup : BOOLEAN]

Closed(rs, n) == IF n = 0 THEN 0 ELSE rs[n].at
RunningLines(t, rs) == { i \in 1 .. Len(t) : i > Closed(rs, Len(rs)) }
CountedLines(t, rs) ==
    UNION { { i \in 1 .. Len(t) : Closed(rs, n - 1) < i /\ i <= Closed(rs, n) } :
              n \in { m \in 1 .. Len(rs) : ~rs[m].warmup } }

\* Periods were closed at lines of the trace, none after the last of them.
PeriodsClosed(t, rs) ==
    /\ rs \in Seq(Period)
    /\ \A n \in 1 .. Len(rs) : rs[n].at <= Closed(rs, Len(rs)) /\ rs[n].at <= Len(t)

\* Periods end at lines of the trace, in order up to the last.
LEMMA ClosedType ==
    ASSUME NEW t \in Seq(Request), NEW rs, PeriodsClosed(t, rs)
    PROVE  /\ Len(t) \in Nat /\ Len(rs) \in Nat
           /\ \A n \in 0 .. Len(rs) : Closed(rs, n) \in Nat /\ Closed(rs, n) <= Closed(rs, Len(rs))
                                      /\ Closed(rs, n) <= Len(t)
<1>1. Len(t) \in Nat /\ Len(rs) \in Nat /\ rs \in Seq(Period)
  BY DEF PeriodsClosed
<1>2. \A n \in 1 .. Len(rs) : rs[n] \in Period /\ Closed(rs, n) = rs[n].at
  BY <1>1 DEF Closed
<1>3. \A n \in 1 .. Len(rs) : Closed(rs, n) \in Nat
  BY <1>2 DEF Period
<1>4. Closed(rs, 0) = 0
  BY DEF Closed
<1>5. Closed(rs, Len(rs)) \in Nat
  BY <1>1, <1>3, <1>4
<1>6. ASSUME NEW n \in 0 .. Len(rs)
      PROVE  Closed(rs, n) \in Nat /\ Closed(rs, n) <= Closed(rs, Len(rs)) /\ Closed(rs, n) <= Len(t)
  <2>1. CASE n = 0
    BY <2>1, <1>1, <1>4, <1>5
  <2>2. CASE n # 0
    BY <2>2, <1>1, <1>2, <1>3 DEF PeriodsClosed
  <2> QED
    BY <2>1, <2>2
<1> QED
  BY <1>1, <1>6

\* The lines of the running period and those counted are apart.
LEMMA LinesFinite ==
    ASSUME NEW t \in Seq(Request), NEW rs, PeriodsClosed(t, rs)
    PROVE  /\ RunningLines(t, rs) \subseteq 1 .. Len(t) /\ IsFiniteSet(RunningLines(t, rs))
           /\ CountedLines(t, rs) \subseteq 1 .. Len(t) /\ IsFiniteSet(CountedLines(t, rs))
           /\ RunningLines(t, rs) \cap CountedLines(t, rs) = {}
<1>1. RunningLines(t, rs) \subseteq 1 .. Len(t) /\ CountedLines(t, rs) \subseteq 1 .. Len(t)
  BY DEF RunningLines, CountedLines
<1>2. IsFiniteSet(1 .. Len(t))
  BY FS_Interval
<1>3. IsFiniteSet(RunningLines(t, rs)) /\ IsFiniteSet(CountedLines(t, rs))
  BY <1>1, <1>2, FS_Subset
<1>4. \A i : i \in RunningLines(t, rs) => i \notin CountedLines(t, rs)
  <2> SUFFICES ASSUME NEW i \in RunningLines(t, rs), NEW n \in 1 .. Len(rs), i <= Closed(rs, n)
               PROVE  FALSE
    BY DEF CountedLines
  <2>1. i \in Nat /\ i > Closed(rs, Len(rs))
    BY DEF RunningLines
  <2>2. n \in 0 .. Len(rs) /\ Len(rs) \in 0 .. Len(rs)
    BY ClosedType
  <2> QED
    BY <2>1, <2>2, ClosedType
<1> QED
  BY <1>1, <1>3, <1>4

\* A line more in the running period.
LEMMA PeriodGrows ==
    ASSUME NEW t \in Seq(Request), NEW e \in Request, NEW rs, PeriodsClosed(t, rs)
    PROVE  /\ PeriodsClosed(Append(t, e), rs)
           /\ RunningLines(Append(t, e), rs) = RunningLines(t, rs) \union {Len(t) + 1}
           /\ CountedLines(Append(t, e), rs) = CountedLines(t, rs)
<1> DEFINE t2 == Append(t, e)
<1>1. Len(t) \in Nat /\ Len(t2) = Len(t) + 1
  BY TraceGrows
<1> HIDE DEF t2
<1>2. \A n \in 0 .. Len(rs) : Closed(rs, n) \in Nat /\ Closed(rs, n) <= Len(t)
  BY ClosedType
<1>3. PeriodsClosed(t2, rs)
  <2>1. rs \in Seq(Period) /\ Len(rs) \in Nat
    BY DEF PeriodsClosed
  <2>2. ASSUME NEW n \in 1 .. Len(rs)
        PROVE  rs[n].at <= Closed(rs, Len(rs)) /\ rs[n].at <= Len(t2)
    <3>1. rs[n] \in Period
      BY <2>1
    <3>2. rs[n].at \in Nat
      BY <3>1 DEF Period
    <3>3. rs[n].at <= Closed(rs, Len(rs)) /\ rs[n].at <= Len(t)
      BY DEF PeriodsClosed
    <3> QED
      BY <3>2, <3>3, <1>1
  <2> QED
    BY <2>1, <2>2 DEF PeriodsClosed
<1>4. Closed(rs, Len(rs)) \in Nat /\ Closed(rs, Len(rs)) <= Len(t)
  <2>1. Len(rs) \in 0 .. Len(rs)
    BY ClosedType
  <2> QED
    BY <2>1, <1>2
<1>5. RunningLines(t2, rs) = RunningLines(t, rs) \union {Len(t) + 1}
  <2>1. \A i : i \in 1 .. Len(t) + 1 <=> i \in 1 .. Len(t) \/ i = Len(t) + 1
    BY <1>1
  <2> QED
    BY <2>1, <1>1, <1>4 DEF RunningLines
<1>6. ASSUME NEW n \in 1 .. Len(rs)
      PROVE  { i \in 1 .. Len(t2) : Closed(rs, n - 1) < i /\ i <= Closed(rs, n) }
               = { i \in 1 .. Len(t) : Closed(rs, n - 1) < i /\ i <= Closed(rs, n) }
  <2>1. Closed(rs, n) \in Nat /\ Closed(rs, n) <= Len(t)
    BY <1>2
  <2> QED
    BY <2>1, <1>1
<1>7. CountedLines(t2, rs) = CountedLines(t, rs)
  <2> DEFINE Old(n) == { i \in 1 .. Len(t) : Closed(rs, n - 1) < i /\ i <= Closed(rs, n) }
             New(n) == { i \in 1 .. Len(t2) : Closed(rs, n - 1) < i /\ i <= Closed(rs, n) }
             Kept == { m \in 1 .. Len(rs) : ~rs[m].warmup }
  <2>1. \A n \in Kept : New(n) = Old(n)
    BY <1>6
  <2>2. CountedLines(t, rs) = UNION { Old(n) : n \in Kept }
    BY DEF CountedLines
  <2>3. CountedLines(t2, rs) = UNION { New(n) : n \in Kept }
    BY DEF CountedLines
  <2> HIDE DEF Old, New, Kept
  <2>4. ASSUME NEW i PROVE i \in CountedLines(t2, rs) <=> i \in CountedLines(t, rs)
    <3>1. i \in CountedLines(t2, rs) <=> \E n \in Kept : i \in New(n)
      BY <2>3, Zenon
    <3>2. i \in CountedLines(t, rs) <=> \E n \in Kept : i \in Old(n)
      BY <2>2, Zenon
    <3> QED
      BY <3>1, <3>2, <2>1, Zenon
  <2> QED
    BY <2>4
<1> QED
  BY <1>3, <1>5, <1>7 DEF t2

\* The periods after Reset(w).
Ended(t, rs, w) == Append(rs, [at |-> Len(t), warmup |-> w])

\* Reset() ends the running period, whose lines count unless it was a warm-up.
LEMMA PeriodEnds ==
    ASSUME NEW t \in Seq(Request), NEW rs, PeriodsClosed(t, rs), NEW w \in BOOLEAN
    PROVE  /\ PeriodsClosed(t, Ended(t, rs, w))
           /\ RunningLines(t, Ended(t, rs, w)) = {}
           /\ CountedLines(t, Ended(t, rs, w))
                = IF w THEN CountedLines(t, rs) ELSE CountedLines(t, rs) \union RunningLines(t, rs)
<1> DEFINE e == [at |-> Len(t), warmup |-> w]
           r2 == Append(rs, e)
           N == Len(rs)
<1>1. Len(t) \in Nat /\ N \in Nat /\ rs \in Seq(Period)
  BY DEF PeriodsClosed
<1>2. e \in Period /\ e.at = Len(t) /\ e.warmup = w
  BY <1>1 DEF Period
<1> HIDE DEF e
<1>3. r2 \in Seq(Period) /\ Len(r2) = N + 1 /\ r2[N + 1] = e /\ \A n \in 1 .. N : r2[n] = rs[n]
  BY <1>1, <1>2
<1> HIDE DEF r2, N
<1>4. Closed(r2, N + 1) = Len(t) /\ \A n \in 0 .. N : Closed(r2, n) = Closed(rs, n)
  BY <1>1, <1>2, <1>3 DEF Closed
<1>5. \A n \in 0 .. N : Closed(rs, n) \in Nat /\ Closed(rs, n) <= Len(t)
  BY ClosedType DEF N
<1>6. PeriodsClosed(t, r2)
  <2>1. ASSUME NEW n \in 1 .. N + 1
        PROVE  r2[n].at <= Len(t)
    <3>1. CASE n = N + 1
      BY <3>1, <1>1, <1>2, <1>3
    <3>2. CASE n \in 1 .. N
      <4>1. r2[n].at = Closed(rs, n) /\ n \in 0 .. N
        BY <3>2, <1>1, <1>3 DEF Closed
      <4> QED
        BY <4>1, <1>5
    <3> QED
      BY <3>1, <3>2, <1>1
  <2> QED
    BY <2>1, <1>3, <1>4 DEF PeriodsClosed
<1>7. RunningLines(t, r2) = {}
  BY <1>1, <1>3, <1>4 DEF RunningLines
<1> DEFINE Old(n) == { i \in 1 .. Len(t) : Closed(rs, n - 1) < i /\ i <= Closed(rs, n) }
           New(n) == { i \in 1 .. Len(t) : Closed(r2, n - 1) < i /\ i <= Closed(r2, n) }
<1>8. \A n \in 1 .. N : New(n) = Old(n) /\ r2[n].warmup = rs[n].warmup
  <2> SUFFICES ASSUME NEW n \in 1 .. N PROVE New(n) = Old(n) /\ r2[n].warmup = rs[n].warmup
    OBVIOUS
  <2>1. n \in 0 .. N /\ n - 1 \in 0 .. N
    BY <1>1
  <2> QED
    BY <2>1, <1>3, <1>4
<1>9. New(N + 1) = RunningLines(t, rs) /\ r2[N + 1].warmup = w
  <2>1. N \in 0 .. N /\ (N + 1) - 1 = N
    BY <1>1
  <2>2. Closed(r2, (N + 1) - 1) = Closed(rs, N) /\ Closed(rs, N) \in Nat
    BY <2>1, <1>4, <1>5
  <2> QED
    BY <2>2, <1>1, <1>2, <1>3, <1>4 DEF RunningLines, N
<1>10. \A n : n \in 1 .. N + 1 <=> n \in 1 .. N \/ n = N + 1
  BY <1>1
<1>11. /\ CountedLines(t, rs) = UNION { Old(n) : n \in { m \in 1 .. N : ~rs[m].warmup } }
       /\ CountedLines(t, r2) = UNION { New(n) : n \in { m \in 1 .. N + 1 : ~r2[m].warmup } }
  BY <1>3 DEF CountedLines, N
<1> HIDE DEF Old, New
<1>12. ASSUME NEW i
       PROVE  i \in CountedLines(t, r2)
                <=> i \in CountedLines(t, rs) \/ (~w /\ i \in RunningLines(t, rs))
  <2>1. i \in CountedLines(t, r2) <=> \E n \in 1 .. N + 1 : ~r2[n].warmup /\ i \in New(n)
    BY <1>11, Zenon
  <2>2. i \in CountedLines(t, rs) <=> \E n \in 1 .. N : ~rs[n].warmup /\ i \in Old(n)
    BY <1>11, Zenon
  <2> QED
    BY <2>1, <2>2, <1>8, <1>9, <1>10, Zenon
<1>13. CountedLines(t, r2) = IF w THEN CountedLines(t, rs)
                             ELSE CountedLines(t, rs) \union RunningLines(t, rs)
  BY <1>12
<1> QED
  BY <1>6, <1>7, <1>13 DEF Ended, r2, e

\* With chunks of one size, L nodes and one more fit in c bytes exactly when
\* there are fewer than c \div chunk of them.
LEMMA WholeChunks ==
    ASSUME NEW chunk \in Nat, 0 < chunk, NEW c \in Nat, NEW L \in Nat
    PROVE  /\ c \div chunk \in Nat /\ L * chunk \in Nat
           /\ (L + 1) * chunk = L * chunk + chunk
           /\ L * chunk <= c <=> L <= c \div chunk
<1> DEFINE n == c \div chunk
           r == c % chunk
<1>1. n \in Nat /\ r \in Nat /\ r < chunk /\ c = n * chunk + r
  OBVIOUS
<1>2. L * chunk \in Nat /\ n * chunk \in Nat /\ (L + 1) * chunk = L * chunk + chunk
  OBVIOUS
<1> HIDE DEF n, r
<1>3. ASSUME L <= n PROVE L * chunk <= n * chunk
  <2>1. n - L \in Nat /\ (n - L) * chunk \in Nat
    BY <1>1, <1>3
  <2>2. (n - L) * chunk = n * chunk - L * chunk
    BY <1>1
  <2> QED
    BY <2>1, <2>2, <1>2
<1>4. ASSUME n < L PROVE n * chunk + chunk <= L * chunk
  <2>1. L - n - 1 \in Nat /\ (L - n - 1) * chunk \in Nat
    BY <1>1, <1>4
  <2>2. (L - n - 1) * chunk = L * chunk - n * chunk - chunk
    BY <1>1
  <2> QED
    BY <2>1, <2>2, <1>2
<1>5. L * chunk <= c <=> L <= n
  <2>1. CASE L <= n
    BY <2>1, <1>1, <1>2, <1>3
  <2>2. CASE n < L
    BY <2>2, <1>1, <1>2, <1>4
  <2> QED
    BY <2>1, <2>2, <1>1
<1> QED
  BY <1>1, <1>2, <1>5 DEF n

\* How many of the lines in S are hits of a cache of n nodes.
HitCount(t, S, n) == Cardinality({ i \in S : IsStackHit(t, i, n) })

\* One line more, which hits or does not.
LEMMA HitCountGrows ==
    ASSUME NEW t \in Seq(Request), NEW e \in Request, NEW S \in SUBSET (1 .. Len(t)), NEW n
    PROVE  /\ HitCount(Append(t, e), S, n) = HitCount(t, S, n)
           /\ HitCount(t, S, n) \in Nat
           /\ HitCount(Append(t, e), S \union {Len(t) + 1}, n)
                = IF IsStackHit(Append(t, e), Len(t) + 1, n) THEN HitCount(t, S, n) + 1
                  ELSE HitCount(t, S, n)
<1> DEFINE t2 == Append(t, e)
           N == Len(t) + 1
           A == { i \in S : IsStackHit(t, i, n) }
           B == { i \in S : IsStackHit(t2, i, n) }
           C == { i \in S \union {N} : IsStackHit(t2, i, n) }
<1>1. A = B
  BY StackHitBefore
<1>2. IsFiniteSet(A) /\ N \notin A /\ Cardinality(A) \in Nat
  <2>1. IsFiniteSet(1 .. Len(t)) /\ Len(t) \in Nat
    BY FS_Interval
  <2>2. A \in SUBSET S /\ S \in SUBSET (1 .. Len(t)) /\ N \notin 1 .. Len(t)
    BY <2>1
  <2> HIDE DEF A
  <2> QED
    BY <2>1, <2>2, FS_Subset, FS_CardinalityType
<1>3. C = IF IsStackHit(t2, N, n) THEN B \union {N} ELSE B
  <2> HIDE DEF t2, N
  <2> QED
    OBVIOUS
<1>4. Cardinality(A \union {N}) = Cardinality(A) + 1
  <2> HIDE DEF A, N
  <2> QED
    BY <1>2, FS_AddElement
<1>5. Cardinality(C) = IF IsStackHit(t2, N, n) THEN Cardinality(A) + 1 ELSE Cardinality(A)
  <2> HIDE DEF A, B, C, N, t2
  <2> QED
    BY <1>1, <1>3, <1>4
<1>6. /\ HitCount(t2, S, n) = Cardinality(B) /\ HitCount(t, S, n) = Cardinality(A)
      /\ HitCount(t2, S \union {N}, n) = Cardinality(C)
  BY DEF HitCount
<1> HIDE DEF A, B, C
<1> QED
  BY <1>1, <1>2, <1>5, <1>6

\* The hits of disjoint sets of lines are added up.
LEMMA HitCountUnion ==
    ASSUME NEW t, NEW S, NEW R, IsFiniteSet(S), IsFiniteSet(R), R \cap S = {}, NEW n
    PROVE  /\ HitCount(t, S \union R, n) = HitCount(t, S, n) + HitCount(t, R, n)
           /\ HitCount(t, {}, n) = 0
<1> DEFINE A == { i \in S : IsStackHit(t, i, n) }
           B == { i \in R : IsStackHit(t, i, n) }
           C == { i \in S \union R : IsStackHit(t, i, n) }
           E == { i \in {} : IsStackHit(t, i, n) }
<1>1. C = A \union B /\ A \cap B = {} /\ E = {}
  OBVIOUS
<1>2. A \in SUBSET S /\ B \in SUBSET R
  OBVIOUS
<1>3. /\ HitCount(t, S \union R, n) = Cardinality(C) /\ HitCount(t, S, n) = Cardinality(A)
      /\ HitCount(t, R, n) = Cardinality(B) /\ HitCount(t, {}, n) = Cardinality(E)
  BY DEF HitCount
<1> HIDE DEF A, B, C, E
<1>4. IsFiniteSet(A) /\ IsFiniteSet(B) /\ Cardinality(A) \in Nat /\ Cardinality(B) \in Nat
  BY <1>2, FS_Subset, FS_CardinalityType
<1>5. Cardinality(A \union B) = Cardinality(A) + Cardinality(B) - Cardinality(A \cap B)
  BY <1>4, FS_Union
<1>6. Cardinality({}) = 0
  BY FS_EmptySet
<1>7. HitCount(t, {}, n) = 0
  BY <1>1, <1>3, <1>6
<1>8. Cardinality(C) = Cardinality(A) + Cardinality(B) - 0
  BY <1>1, <1>5, <1>6
<1> QED
  BY <1>3, <1>4, <1>7, <1>8

\* A set of lines and the line appended.
LEMMA LineCount ==
    ASSUME NEW t \in Seq(Request), NEW S \in SUBSET (1 .. Len(t))
    PROVE  Cardinality(S \union {Len(t) + 1}) = Cardinality(S) + 1 /\ Cardinality(S) \in Nat
<1>1. IsFiniteSet(1 .. Len(t)) /\ Len(t) \in Nat
  BY FS_Interval
<1>2. IsFiniteSet(S)
  BY <1>1, FS_Subset
<1>3. Len(t) + 1 \notin S
  <2>1. Len(t) + 1 \notin 1 .. Len(t)
    BY <1>1
  <2> QED
    BY <2>1
<1> QED
  BY <1>2, <1>3, FS_AddElement, FS_CardinalityType

-----------------------------------------------------------------------------
\* The sizes the lines in S carry, added up.
SizesOf(t, S) == SumOf([i \in 1 .. Len(t) |-> t[i].size], S)

\* The sizes that the lines of a trace name are numbers.
LEMMA SizesType ==
    ASSUME NEW t \in Seq(Request)
    PROVE  /\ IsFiniteSet(1 .. Len(t)) /\ Len(t) \in Nat
           /\ \A i \in 1 .. Len(t) : t[i].size \in Nat
<1>1. \A i \in 1 .. Len(t) : t[i] \in Request
  OBVIOUS
<1>2. \A r \in Request : r.size \in Nat
  BY BaseAssumption DEF BaseAssumption, Request
<1>3. Len(t) \in Nat /\ IsFiniteSet(1 .. Len(t))
  BY FS_Interval
<1> QED
  BY <1>1, <1>2, <1>3

\* The bytes of a set of lines and of the line appended.
LEMMA SizesGrow ==
    ASSUME NEW t \in Seq(Request), NEW e \in Request, NEW S \in SUBSET (1 .. Len(t))
    PROVE  /\ SizesOf(Append(t, e), S) = SizesOf(t, S) /\ SizesOf(t, S) \in Nat
           /\ SizesOf(Append(t, e), S \union {Len(t) + 1}) = SizesOf(t, S) + e.size
<1> DEFINE t2 == Append(t, e)
           T == Len(t)
           v == [i \in 1 .. T |-> t[i].size]
           w == [i \in 1 .. Len(t2) |-> t2[i].size]
<1>1. /\ t2 \in Seq(Request) /\ T \in Nat /\ Len(t2) = T + 1 /\ t2[T + 1] = e
      /\ \A j \in 1 .. T : t2[j] = t[j]
  BY TraceGrows
<1>2. /\ IsFiniteSet(1 .. T) /\ \A x \in 1 .. T : v[x] \in Nat
      /\ IsFiniteSet(1 .. Len(t2)) /\ \A x \in 1 .. Len(t2) : w[x] \in Nat
  BY <1>1, SizesType
<1>3. (\A x \in 1 .. T : v[x] = w[x]) /\ w[T + 1] = e.size
  BY <1>1
<1>4. SizesOf(t, S) = SumOf(v, S) /\ \A R : SizesOf(t2, R) = SumOf(w, R)
  BY DEF SizesOf
<1> HIDE DEF v, w, t2
<1>5. SumOf(v, S) \in Nat
  BY <1>2, SumFacts
<1>6. SumOf(w, S) = SumOf(v, S)
  <2>1. \A g : IsSum(v, S, g) <=> IsSum(w, S, g)
    <3>1. \A s \in SUBSET S : \A x \in s : v[x] = w[x]
      BY <1>3
    <3> QED
      BY <3>1 DEF IsSum
  <2> QED
    BY <2>1 DEF SumOf
<1>7. SumOf(w, S \union {T + 1}) = w[T + 1] + SumOf(w, S)
  <2> DEFINE R == S \union {T + 1}
  <2>1. R \in SUBSET (1 .. Len(t2)) /\ T + 1 \in R
    <3>1. \A i \in 1 .. T : i \in 1 .. Len(t2)
      BY <1>1
    <3>2. T + 1 \in 1 .. Len(t2)
      BY <1>1
    <3> QED
      BY <3>1, <3>2
  <2>2. T + 1 \notin 1 .. T
    BY <1>1
  <2>3. R \ {T + 1} = S
    BY <2>2
  <2> HIDE DEF R
  <2>4. SumOf(w, R) = w[T + 1] + SumOf(w, R \ {T + 1})
    <3>1. IsFiniteSet(R) /\ (\A x \in R : w[x] \in Nat)
      BY <1>2, <2>1, FS_Subset
    <3> QED
      BY <3>1, <2>1, SumOneLess
  <2> QED
    BY <2>3, <2>4 DEF R
<1>8. e.size \in Nat
  BY BaseAssumption DEF BaseAssumption, Request
<1> QED
  BY <1>3, <1>4, <1>5, <1>6, <1>7, <1>8 DEF t2

\* The sum over a and b is that over a plus that over b.
SplitSum(v, D, a, b) ==
    IsFiniteSet(D) /\ (\A x \in D : v[x] \in Nat) /\ a \in SUBSET D /\ b \in SUBSET D /\ a \cap b = {}
      => SumOf(v, a \union b) = SumOf(v, a) + SumOf(v, b)

\* SumUnion, as a fact about every v, D, a and b.
LEMMA SumsAddUp == \A v, D, a, b : SplitSum(v, D, a, b)
  BY SumUnion DEF SplitSum

\* The bytes of disjoint sets of lines are added up.
LEMMA SizesUnion ==
    ASSUME NEW t \in Seq(Request), NEW S \in SUBSET (1 .. Len(t)), NEW R \in SUBSET (1 .. Len(t)),
           R \cap S = {}
    PROVE  /\ SizesOf(t, S \union R) = SizesOf(t, S) + SizesOf(t, R)
           /\ SizesOf(t, {}) = 0
<1> DEFINE v == [i \in 1 .. Len(t) |-> t[i].size]
<1>1. IsFiniteSet(1 .. Len(t)) /\ \A x \in 1 .. Len(t) : v[x] \in Nat
  BY SizesType
<1>2. \A Q : SizesOf(t, Q) = SumOf(v, Q)
  BY DEF SizesOf
<1> HIDE DEF v
<1>3. S \cap R = {}
  OBVIOUS
<1>4. /\ SumOf(v, {}) = 0
      /\ SumOf(v, S \union R) = SumOf(v, S) + SumOf(v, R)
  <2> DEFINE D == 1 .. Len(t)
  <2>1. IsFiniteSet(D) /\ (\A x \in D : v[x] \in Nat) /\ S \in SUBSET D /\ R \in SUBSET D
    BY <1>1
  <2> HIDE DEF D
  <2>2. SumOf(v, S \union R) = SumOf(v, S) + SumOf(v, R)
    <3>1. SplitSum(v, D, S, R)
      BY SumsAddUp, Zenon
    <3> QED
      BY <3>1, <2>1, <1>3 DEF SplitSum
  <2>3. SumOf(v, {}) = 0
    BY SumNothing
  <2> QED
    BY <2>2, <2>3
<1> QED
  BY <1>2, <1>3, <1>4

-----------------------------------------------------------------------------
(* The sizes the objects of a trace t were stored with, when its lines ms missed *)
\* Line p stored what line i asks for: it is the last line up to i of that key in ms.
Wrote(t, ms, i, p) ==
    /\ p \in ms /\ p <= i /\ t[p].key = t[i].key
    /\ \A h \in ms : h <= i /\ t[h].key = t[i].key => h <= p

\* What every line asks for was stored.
AllWritten(t, ms) ==
    /\ ms \subseteq 1 .. Len(t)
    /\ \A i \in 1 .. Len(t) : \E p \in ms : Wrote(t, ms, i, p)

WriterOf(t, ms, i) ==
    LET writes == { j \in ms : j <= i /\ t[j].key = t[i].key }
    IN  CHOOSE j \in writes : \A h \in writes : h <= j

\* The trace with the sizes of the objects and not of the requests.
AsStored(t, ms) ==
    [i \in 1 .. Len(t) |-> [key |-> t[i].key, size |-> t[WriterOf(t, ms, i)].size]]

\* There is one such line at most.
LEMMA WriterIs ==
    ASSUME NEW t, NEW ms, ms \subseteq Nat, NEW i, NEW p, Wrote(t, ms, i, p)
    PROVE  WriterOf(t, ms, i) = p
<1> DEFINE W == { j \in ms : j <= i /\ t[j].key = t[i].key }
<1>1. p \in W /\ W \subseteq Nat /\ \A h \in W : h <= p
  BY DEF Wrote
<1>2. WriterOf(t, ms, i) = CHOOSE j \in W : \A h \in W : h <= j
  BY DEF WriterOf
<1> HIDE DEF W
<1>3. \A j \in W : (\A h \in W : h <= j) <=> j = p
  BY <1>1
<1> QED
  BY <1>1, <1>2, <1>3

\* It is a trace like the other.
LEMMA AsStoredType ==
    ASSUME NEW t \in Seq(Request), NEW ms, AllWritten(t, ms)
    PROVE  /\ AsStored(t, ms) \in Seq(Request) /\ Len(AsStored(t, ms)) = Len(t)
           /\ Len(t) \in Nat
<1>1. ms \subseteq Nat /\ ms \subseteq 1 .. Len(t) /\ Len(t) \in Nat
  BY DEF AllWritten
<1>2. ASSUME NEW i \in 1 .. Len(t)
      PROVE  [key |-> t[i].key, size |-> t[WriterOf(t, ms, i)].size] \in Request
  <2>1. PICK p \in ms : Wrote(t, ms, i, p)
    BY DEF AllWritten
  <2>2. WriterOf(t, ms, i) = p /\ p \in 1 .. Len(t)
    BY <1>1, <2>1, WriterIs
  <2>3. t[i] \in Request /\ t[p] \in Request
    BY <2>2
  <2> QED
    BY <2>2, <2>3 DEF Request
<1>3. AsStored(t, ms) = [i \in 1 .. Len(t) |-> [key |-> t[i].key, size |-> t[WriterOf(t, ms, i)].size]]
  BY DEF AsStored
<1> DEFINE v(i) == [key |-> t[i].key, size |-> t[WriterOf(t, ms, i)].size]
<1>4. AsStored(t, ms) = [i \in 1 .. Len(t) |-> v(i)] /\ \A i \in 1 .. Len(t) : v(i) \in Request
  BY <1>2, <1>3
<1> HIDE DEF v
<1> QED
  BY <1>1, <1>4

\* Line p stored, with size z, what one more line e asks for.
Stores(t, ms, e, ms2, p, z) ==
    /\ t \in Seq(Request) /\ AllWritten(t, ms) /\ e \in Request
    /\ ms2 \in {ms, ms \union {Len(t) + 1}} /\ p \in ms2
    /\ Wrote(Append(t, e), ms2, Len(t) + 1, p) /\ Append(t, e)[p].size = z

\* A line more leaves the objects of the lines before it as they were.
LEMMA StoredGrows ==
    ASSUME NEW t, NEW ms, NEW e, NEW ms2, NEW p, NEW z, Stores(t, ms, e, ms2, p, z)
    PROVE  /\ AllWritten(Append(t, e), ms2)
           /\ AsStored(Append(t, e), ms2) = Append(AsStored(t, ms), [key |-> e.key, size |-> z])
           /\ [key |-> e.key, size |-> z] \in Request
<1>0. /\ t \in Seq(Request) /\ AllWritten(t, ms) /\ e \in Request
      /\ ms2 \in {ms, ms \union {Len(t) + 1}} /\ p \in ms2
      /\ Wrote(Append(t, e), ms2, Len(t) + 1, p) /\ Append(t, e)[p].size = z
  BY DEF Stores
<1> USE <1>0
<1> DEFINE t2 == Append(t, e)
           T == Len(t)
<1>1. /\ t2 \in Seq(Request) /\ T \in Nat /\ Len(t2) = T + 1 /\ t2[T + 1] = e
      /\ \A j \in 1 .. T : t2[j] = t[j]
  BY TraceGrows
<1>2. ms \subseteq 1 .. T /\ ms2 \subseteq 1 .. T + 1 /\ ms \subseteq Nat /\ ms2 \subseteq Nat
  <2>1. ms \subseteq 1 .. T
    BY DEF AllWritten
  <2>2. \A h \in 1 .. T : h \in Nat /\ h \in 1 .. T + 1
    BY <1>1
  <2>3. T + 1 \in Nat /\ T + 1 \in 1 .. T + 1
    BY <1>1
  <2>4. ms2 = ms \/ ms2 = ms \union {T + 1}
    OBVIOUS
  <2> HIDE DEF T
  <2> QED
    BY <2>1, <2>2, <2>3, <2>4
<1>3. Wrote(t2, ms2, T + 1, p) /\ t2[p].size = z
  OBVIOUS
<1> HIDE DEF t2
<1>4. ASSUME NEW i \in 1 .. T, NEW q, Wrote(t, ms, i, q)
      PROVE  Wrote(t2, ms2, i, q)
  <2>1. q \in ms /\ q <= i /\ t[q].key = t[i].key
        /\ \A h \in ms : h <= i /\ t[h].key = t[i].key => h <= q
    BY <1>4 DEF Wrote
  <2>2. \A h \in ms2 : h <= i => h \in ms
    BY <1>1, <1>2
  <2>3. \A h \in ms : t2[h] = t[h]
    BY <1>1, <1>2
  <2>4. t2[i] = t[i] /\ q \in ms2
    BY <1>1, <2>1
  <2> QED
    BY <2>1, <2>2, <2>3, <2>4 DEF Wrote
<1>5. AllWritten(t2, ms2)
  <2> SUFFICES ASSUME NEW i \in 1 .. T + 1 PROVE \E q \in ms2 : Wrote(t2, ms2, i, q)
    BY <1>1, <1>2 DEF AllWritten
  <2>1. CASE i \in 1 .. T
    <3>1. PICK q \in ms : Wrote(t, ms, i, q)
      BY <2>1 DEF AllWritten
    <3> QED
      BY <3>1, <2>1, <1>4
  <2>2. CASE i = T + 1
    BY <2>2, <1>3
  <2> QED
    BY <2>1, <2>2, <1>1
<1>6. /\ AsStored(t, ms) \in Seq(Request) /\ Len(AsStored(t, ms)) = T
      /\ AsStored(t2, ms2) \in Seq(Request) /\ Len(AsStored(t2, ms2)) = T + 1
  BY <1>1, <1>5, AsStoredType
<1>7. ASSUME NEW i \in 1 .. T
      PROVE  AsStored(t2, ms2)[i] = AsStored(t, ms)[i]
  <2>1. PICK q \in ms : Wrote(t, ms, i, q)
    BY DEF AllWritten
  <2>2. WriterOf(t, ms, i) = q /\ WriterOf(t2, ms2, i) = q
    BY <2>1, <1>2, <1>4, WriterIs
  <2>3. t2[i] = t[i] /\ t2[q] = t[q] /\ i \in 1 .. Len(t2)
    BY <1>1, <1>2
  <2> QED
    BY <2>2, <2>3 DEF AsStored
<1>8. AsStored(t2, ms2)[T + 1] = [key |-> e.key, size |-> z]
  <2>1. WriterOf(t2, ms2, T + 1) = p
    BY <1>2, <1>3, WriterIs
  <2>2. T + 1 \in 1 .. Len(t2)
    BY <1>1
  <2> QED
    BY <2>1, <2>2, <1>1, <1>3 DEF AsStored
<1>9. [key |-> e.key, size |-> z] \in Request
  <2>1. T + 1 \in 1 .. T + 1
    BY <1>1
  <2> QED
    BY <2>1, <1>6, <1>8
<1>10. AsStored(t2, ms2) = Append(AsStored(t, ms), [key |-> e.key, size |-> z])
  <2> DEFINE a == AsStored(t, ms)
             b == AsStored(t2, ms2)
             d == [key |-> e.key, size |-> z]
  <2>1. a \in Seq(Request) /\ b \in Seq(Request) /\ Len(b) = Len(a) + 1 /\ d \in Request
        /\ (\A i \in 1 .. Len(a) : b[i] = a[i]) /\ b[Len(a) + 1] = d
    BY <1>6, <1>7, <1>8, <1>9
  <2> HIDE DEF a, b, d
  <2> QED
    BY <2>1 DEF a, b, d
<1> QED
  BY <1>5, <1>9, <1>10 DEF t2

-----------------------------------------------------------------------------
(* The words of CacheMetrics in these terms *)
\* CacheMetrics counts with the same Cardinality.
LEMMA SameCardinality == \A S : Metrics!Cardinality(S) = Cardinality(S)
  BY Zenon DEF Metrics!Cardinality, Cardinality

\* What CacheMetrics defines of its trace and periods, in the words above.
LEMMA MetricsWords ==
    ASSUME trace \in Seq(Request), PeriodsClosed(trace, resets), AllWritten(trace, missed)
    PROVE  /\ Metrics!Running = RunningLines(trace, resets)
           /\ Metrics!Counted = CountedLines(trace, resets)
           /\ \A n : Metrics!StackHits(n) = { i \in 1 .. Len(trace) : IsStackHit(trace, i, n) }
           /\ \A S \in SUBSET (1 .. Len(trace)) : Metrics!BytesStored(S) = SizesOf(AsStored(trace, missed), S)
<1>1. DOMAIN trace = 1 .. Len(trace) /\ DOMAIN resets = 1 .. Len(resets)
  BY DEF PeriodsClosed
<1>2. Metrics!Running = RunningLines(trace, resets)
  BY <1>1 DEF Metrics!Running, Metrics!Indices, Metrics!ClosedAt, RunningLines, Closed
<1>3. Metrics!Counted = CountedLines(trace, resets)
  BY <1>1, Zenon DEF Metrics!Counted, Metrics!Indices, Metrics!ClosedAt, CountedLines, Closed
<1>4. ASSUME NEW n, NEW i
      PROVE  i \in Metrics!StackHits(n) <=> i \in 1 .. Len(trace) /\ IsStackHit(trace, i, n)
  <2>1. Metrics!ReusedAt(i) = Reused(trace, i)
    BY DEF Metrics!ReusedAt, Reused
  <2>2. Metrics!Between(i) = UsedAfter(trace, LastReused(trace, i), i - 1)
    BY <2>1, Zenon DEF Metrics!Between, UsedAfter, LastReused
  <2> QED
    BY <1>1, <2>1, <2>2, SameCardinality DEF Metrics!StackHits, Metrics!Indices, IsStackHit
<1>5. ASSUME NEW S \in SUBSET (1 .. Len(trace))
      PROVE  Metrics!BytesStored(S) = SizesOf(AsStored(trace, missed), S)
  <2> DEFINE u == AsStored(trace, missed)
             w(i) == WriterOf(trace, missed, i)
             v == [i \in 1 .. Len(u) |-> u[i].size]
             Step(f) == [s \in SUBSET S |->
                           IF s = {} THEN 0
                           ELSE trace[w(CHOOSE x \in s : TRUE)].size + f[s \ {CHOOSE x \in s : TRUE}]]
  <2>0. \A i : Metrics!StoredBy(i) = w(i)
    BY Zenon DEF Metrics!StoredBy, WriterOf
  <2>1. Metrics!BytesStored(S) = (CHOOSE f : f = Step(f))[S]
    <3> HIDE DEF w
    <3> QED
      BY <2>0, Zenon DEF Metrics!BytesStored, Metrics!MapThenSumSet, Metrics!MapThenFoldSet
  <2>8. /\ u \in Seq(Request) /\ Len(u) = Len(trace)
        /\ \A i \in 1 .. Len(u) : u[i].size = trace[w(i)].size
    BY AsStoredType DEF AsStored
  <2>2. ASSUME NEW f PROVE Step(f) = SumStep(v, S, f)
    <3>1. ASSUME NEW s \in SUBSET S, s # {}
          PROVE  trace[w(CHOOSE x \in s : TRUE)].size = v[CHOOSE x \in s : TRUE]
      <4>1. (CHOOSE x \in s : TRUE) \in s
        BY <3>1
      <4>2. (CHOOSE x \in s : TRUE) \in 1 .. Len(u)
        BY <4>1, <2>8
      <4> HIDE DEF u, w
      <4> QED
        BY <4>2, <2>8
    <3> HIDE DEF u, v, w
    <3>2. \A s \in SUBSET S :
            (IF s = {} THEN 0
             ELSE trace[w(CHOOSE x \in s : TRUE)].size + f[s \ {CHOOSE x \in s : TRUE}])
              = (IF s = {} THEN 0 ELSE v[CHOOSE x \in s : TRUE] + f[s \ {CHOOSE x \in s : TRUE}])
      BY <3>1
    <3> QED
      BY <3>2, Zenon DEF SumStep
  <2>3. IsFiniteSet(S) /\ \A x \in S : v[x] \in Nat
    <3>1. IsFiniteSet(1 .. Len(u)) /\ \A x \in 1 .. Len(u) : u[x].size \in Nat
      BY <2>8, SizesType
    <3> HIDE DEF u
    <3> QED
      BY <3>1, <2>8, FS_Subset
  <2> HIDE DEF u, v, w, Step
  <2>4. (CHOOSE f : f = Step(f)) = (CHOOSE f : f = SumStep(v, S, f))
    BY <2>2
  <2>5. Metrics!BytesStored(S) = SumOf(v, S)
    BY <2>1, <2>3, <2>4, FoldIsSum
  <2> QED
    BY <2>5 DEF SizesOf, u, v
<1> QED
  BY <1>2, <1>3, <1>4, <1>5

\* OneChunkTrace of a trace t.
OneChunk(t, chunk) == \A i \in 1 .. Len(t) : ChunkSize(t[i].size) = chunk

\* Every node of l has the size of the last line that missed its key.
FromTrace(t, ms, l) ==
    \A i \in 1 .. Len(l) : \E p \in ms : /\ t[p].key = l[i].key /\ t[p].size = l[i].size
                                          /\ \A h \in ms : t[h].key = l[i].key => h <= p

\* The lines the cache has answered for: not the one being inserted.
Answered == IF s_request = NoRequest THEN Len(trace) ELSE Len(trace) - 1

ReplayTypes ==
    /\ capacity \in Capacities /\ s_list \in Seq(Node) /\ s_request \in Request \union {NoRequest}
    /\ trace \in Seq(Request) /\ PeriodsClosed(trace, resets)
    /\ cm \in Counters /\ total \in Counters

ReplayBooks ==
    /\ KeysDistinct(s_list) /\ s_map = KeysOf(s_list)
    /\ FromTrace(trace, missed, s_list) /\ AllWritten(trace, missed) /\ KnownLast(trace)
    /\ s_request # NoRequest => /\ Len(trace) > 0 /\ trace[Len(trace)] = s_request
                                /\ Len(trace) \in missed /\ s_request.key \notin s_map

\* The bytes of the lines S, and the counters.
BytesOf(S) == SizesOf(AsStored(trace, missed), S)

Tallies ==
    /\ cm.so = cm.ho + cm.wo /\ cm.so = Cardinality(RunningLines(trace, resets))
    /\ total.so = total.ho + total.wo /\ total.so = Cardinality(CountedLines(trace, resets))
    /\ cm.sb = BytesOf(RunningLines(trace, resets))
    /\ cm.hb = BytesOf(RunningLines(trace, resets) \ missed)
    /\ total.sb = BytesOf(CountedLines(trace, resets))
    /\ total.hb = BytesOf(CountedLines(trace, resets) \ missed)

\* With chunks of one size the list is in the order of last use, and what is not
\* in it any more was unused for longer than a cache of n nodes remembers.
StackOrder(n, chunk) ==
    /\ s_size = Len(s_list) * chunk /\ Len(s_list) <= n
    /\ ByRecency(trace, Answered, s_list)
    /\ LongUnused(trace, Answered, s_list, IF s_request = NoRequest THEN n ELSE n - 1)

StackTallies(n) ==
    /\ cm.ho = HitCount(trace, RunningLines(trace, resets), n)
    /\ total.ho = HitCount(trace, CountedLines(trace, resets), n)

StackOrders ==
    \A chunk \in {BIG, TINY} : name = "LRU" /\ OneChunk(trace, chunk) =>
        StackOrder(capacity \div chunk, chunk) /\ StackTallies(capacity \div chunk)

ReplayInv ==
    subject = "metrics" => ReplayTypes /\ ReplayBooks /\ Tallies /\ StackOrders

-----------------------------------------------------------------------------
\* Where get() finds the node of k.
Place(k) == CHOOSE x \in DOMAIN s_list : s_list[x].key = k

HitStep(k, s) ==
    /\ s_request = NoRequest /\ k \in s_map /\ s_map' = s_map /\ s_size' = s_size
    /\ s_request' = s_request /\ capacity' = capacity /\ name' = name
    /\ trace' = Append(trace, [key |-> k, size |-> s]) /\ missed' = missed
    /\ total' = total /\ resets' = resets
    /\ cm' = [cm EXCEPT !.ho = @ + 1, !.hb = @ + s_list[Place(k)].size, !.so = @ + 1,
                        !.sb = @ + s_list[Place(k)].size]
    /\ \/ name = "LRU" /\ Hits(k, s_list, s_map, s_size, s_request, s_list', s_map', s_size', s_request')
       \/ name # "LRU" /\ s_list' = s_list
       \/ name # "LRU" /\ s_list' = [s_list EXCEPT ![Place(k)].flag = TRUE]

MissStep(k, s) ==
    /\ s_request = NoRequest /\ k \notin s_map /\ s_map' = s_map /\ s_size' = s_size
    /\ s_list' = s_list
    /\ s_request' = [key |-> k, size |-> s] /\ capacity' = capacity /\ name' = name
    /\ trace' = Append(trace, [key |-> k, size |-> s])
    /\ missed' = missed \union {Len(trace) + 1} /\ total' = total /\ resets' = resets
    /\ cm' = [cm EXCEPT !.so = @ + 1, !.sb = @ + s, !.wo = @ + 1]

InsertStep ==
    /\ capacity' = capacity /\ name' = name /\ cm' = cm /\ total' = total
    /\ trace' = trace /\ missed' = missed /\ resets' = resets
    /\ \/ Evicted(s_list, s_map, s_size, capacity, s_request, s_list', s_map', s_size', s_request')
       \/ Inserted(s_list, s_map, s_size, capacity, s_request, s_list', s_map', s_size', s_request')
       \/ /\ name = "FIFO2" /\ s_request # NoRequest /\ s_list # << >>
          /\ s_list' = <<[Last(s_list) EXCEPT !.flag = FALSE]>> \o Front(s_list)
          /\ s_map' = s_map /\ s_request' = s_request

ResetStep(warmup) ==
    /\ UNCHANGED <<capacity, name, s_list, s_map, s_size, s_request, trace, missed>>
    /\ s_request = NoRequest
    /\ total' = IF warmup THEN total ELSE [c \in DOMAIN total |-> total[c] + cm[c]]
    /\ cm' = [ho |-> 0, so |-> 0, wo |-> 0, hb |-> 0, sb |-> 0]
    /\ resets' = Append(resets, [at |-> Len(trace), warmup |-> warmup])

\* Every step of the replay is one of the four.
LEMMA MetricsSteps ==
    Metrics!MetricsNext =>
        \/ \E k \in Key, s \in Size : HitStep(k, s) \/ MissStep(k, s)
        \/ InsertStep
        \/ \E warmup \in BOOLEAN : ResetStep(warmup)
<1>0. \A k : Metrics!PositionOf(k) = Place(k)
  BY DEF Metrics!PositionOf, Place
<1>1. ASSUME NEW k \in Key, NEW s \in Size, Metrics!RequestHit(k, s)
      PROVE  HitStep(k, s)
  <2>0. /\ trace' = Append(trace, [key |-> k, size |-> s]) /\ missed' = missed
        /\ total' = total /\ resets' = resets
        /\ cm' = [cm EXCEPT !.ho = @ + 1, !.hb = @ + s_list[Place(k)].size, !.so = @ + 1,
                            !.sb = @ + s_list[Place(k)].size]
    BY <1>0, <1>1, Zenon DEF Metrics!RequestHit, Metrics!Replay, Metrics!CountedHit,
         Metrics!SizeFound
  <2>1. CASE Metrics!GetHitLRU(k)
    <3>1. /\ s_request = NoRequest /\ k \in s_map /\ s_map' = s_map /\ s_size' = s_size
          /\ s_request' = s_request /\ capacity' = capacity /\ name' = name /\ name = "LRU"
      BY <2>1 DEF Metrics!GetHitLRU
    <3>2. Hits(k, s_list, s_map, s_size, s_request, s_list', s_map', s_size', s_request')
      BY <2>1, Zenon DEF Metrics!GetHitLRU, Hits, Metrics!Promoted, Metrics!PositionOf,
                         Metrics!RemoveAt, RemoveAt
    <3> QED
      BY <2>0, <3>1, <3>2, Zenon DEF HitStep
  <2>2. CASE Metrics!GetHitFIFO(k)
    <3>1. /\ s_request = NoRequest /\ k \in s_map /\ s_map' = s_map /\ s_size' = s_size
          /\ s_request' = s_request /\ capacity' = capacity /\ name' = name /\ name # "LRU"
          /\ s_list' = s_list
      BY <2>2 DEF Metrics!GetHitFIFO, Metrics!vars
    <3> QED
      BY <2>0, <3>1, Zenon DEF HitStep
  <2>3. CASE Metrics!GetHitFIFO2(k)
    <3>1. /\ s_request = NoRequest /\ k \in s_map /\ s_map' = s_map /\ s_size' = s_size
          /\ s_request' = s_request /\ capacity' = capacity /\ name' = name /\ name # "LRU"
      BY <2>3 DEF Metrics!GetHitFIFO2
    <3>2. s_list' = [s_list EXCEPT ![Place(k)].flag = TRUE]
      BY <2>3, <1>0, Zenon DEF Metrics!GetHitFIFO2, Metrics!Flagged
    <3> QED
      BY <2>0, <3>1, <3>2, Zenon DEF HitStep
  <2> QED
    BY <1>1, <2>1, <2>2, <2>3 DEF Metrics!RequestHit
<1>2. ASSUME NEW k \in Key, NEW s \in Size, Metrics!RequestMiss(k, s)
      PROVE  MissStep(k, s)
  BY <1>2, Zenon DEF Metrics!RequestMiss, Metrics!Replay, Metrics!CountedMiss, Metrics!GetMiss, MissStep
<1>3. ASSUME Metrics!RunInsert
      PROVE  InsertStep
  <2>0. /\ cm' = cm /\ total' = total /\ trace' = trace /\ missed' = missed /\ resets' = resets
        /\ Metrics!Insert
    BY <1>3 DEF Metrics!RunInsert
  <2>1. CASE Metrics!EvictTail
    <3>1. capacity' = capacity /\ name' = name
      BY <2>1 DEF Metrics!EvictTail
    <3>2. Evicted(s_list, s_map, s_size, capacity, s_request, s_list', s_map', s_size', s_request')
      BY <2>1, Zenon DEF Metrics!EvictTail, Evicted, Metrics!Full, Metrics!IsFullAt, Metrics!Plus,
           Metrics!ChunkSize, Metrics!Front, Metrics!Last, Metrics!MapErased, Metrics!Minus,
           Metrics!Charge, IsFullAt, Plus, ChunkSize, Front, Last, Minus
    <3> QED
      BY <2>0, <3>1, <3>2, Zenon DEF InsertStep
  <2>2. CASE Metrics!RotateTail
    <3>1. /\ capacity' = capacity /\ name' = name /\ name = "FIFO2" /\ s_request # NoRequest
          /\ s_list # << >> /\ s_map' = s_map /\ s_request' = s_request
      BY <2>2 DEF Metrics!RotateTail, Metrics!TailExpendable
    <3>2. s_list' = <<[Last(s_list) EXCEPT !.flag = FALSE]>> \o Front(s_list)
      BY <2>2, Zenon DEF Metrics!RotateTail, Metrics!Spared, Metrics!Last, Metrics!Front, Last, Front
    <3> QED
      BY <2>0, <3>1, <3>2, Zenon DEF InsertStep
  <2>3. CASE Metrics!InsertNode
    <3>1. capacity' = capacity /\ name' = name
      BY <2>3 DEF Metrics!InsertNode
    <3>2. Inserted(s_list, s_map, s_size, capacity, s_request, s_list', s_map', s_size', s_request')
      BY <2>3, Zenon DEF Metrics!InsertNode, Inserted, Metrics!Full, Metrics!IsFullAt, Metrics!Plus,
           Metrics!ChunkSize, Metrics!NewNode, NodeOf, IsFullAt, Plus, ChunkSize
    <3> QED
      BY <2>0, <3>1, <3>2, Zenon DEF InsertStep
  <2> QED
    BY <2>0, <2>1, <2>2, <2>3 DEF Metrics!Insert
<1>4. ASSUME NEW warmup \in BOOLEAN, Metrics!Reset(warmup)
      PROVE  ResetStep(warmup)
  BY <1>4 DEF Metrics!Reset, Metrics!vars, Metrics!Zeroed, ResetStep
<1> QED
  BY <1>1, <1>2, <1>3, <1>4 DEF Metrics!MetricsNext

-----------------------------------------------------------------------------
\* The nodes of l2 are, key and size, nodes of l.
Holds(l2, l) ==
    \A j \in 1 .. Len(l2) : \E i \in 1 .. Len(l) : l2[j].key = l[i].key /\ l2[j].size = l[i].size

\* Nodes held before come from the trace as before.
LEMMA FromTraceKept ==
    ASSUME NEW t, NEW ms, NEW l, NEW l2, Holds(l2, l), FromTrace(t, ms, l)
    PROVE  FromTrace(t, ms, l2)
  BY DEF Holds, FromTrace

\* A line appended takes no node's line away, and one that misses is of another key.
LEMMA FromTraceGrows ==
    ASSUME NEW t \in Seq(Request), NEW e \in Request, NEW l \in Seq(Node), NEW ms,
           ms \subseteq 1 .. Len(t), FromTrace(t, ms, l)
    PROVE  /\ FromTrace(Append(t, e), ms, l)
           /\ e.key \notin KeysOf(l) => FromTrace(Append(t, e), ms \union {Len(t) + 1}, l)
<1>1. /\ Len(t) \in Nat /\ Append(t, e)[Len(t) + 1] = e
      /\ \A j \in ms : Append(t, e)[j] = t[j]
  BY TraceGrows
<1>2. \A i \in 1 .. Len(l) : l[i].key \in KeysOf(l)
  BY KeyHasPlace
<1>3. ASSUME NEW i \in 1 .. Len(l)
      PROVE  \E p \in ms : /\ t[p].key = l[i].key /\ t[p].size = l[i].size
                           /\ \A h \in ms : t[h].key = l[i].key => h <= p
  BY DEF FromTrace
<1> DEFINE t2 == Append(t, e)
           T == Len(t)
<1>4. T \in Nat /\ t2[T + 1] = e /\ \A j \in ms : t2[j] = t[j]
  BY <1>1
<1> HIDE DEF t2, T
<1>5. FromTrace(t2, ms, l)
  BY <1>3, <1>4 DEF FromTrace
<1>6. e.key \notin KeysOf(l) => FromTrace(t2, ms \union {T + 1}, l)
  <2> SUFFICES ASSUME e.key \notin KeysOf(l), NEW i \in 1 .. Len(l)
               PROVE  \E p \in ms \union {T + 1} :
                        /\ t2[p].key = l[i].key /\ t2[p].size = l[i].size
                        /\ \A h \in ms \union {T + 1} : t2[h].key = l[i].key => h <= p
    BY DEF FromTrace
  <2>1. PICK p \in ms : /\ t[p].key = l[i].key /\ t[p].size = l[i].size
                        /\ \A h \in ms : t[h].key = l[i].key => h <= p
    BY <1>3
  <2>2. t2[T + 1].key # l[i].key
    BY <1>2, <1>4
  <2> QED
    BY <2>1, <2>2, <1>4
<1> QED
  BY <1>5, <1>6 DEF t2, T

\* A node brought to the front, here or with a new flag.
LEMMA FrontedHolds ==
    ASSUME NEW l \in Seq(Node), NEW l2 \in Seq(Node), NEW i \in 1 .. Len(l),
           NEW n \in Node, n.key = l[i].key, n.size = l[i].size, IsFronted(Node, l, i, n, l2)
    PROVE  Holds(l2, l)
<1>0. /\ Len(l) \in Nat /\ Len(l2) = Len(l) /\ l2[1] = n
      /\ \A j \in 2 .. Len(l) : l2[j] = IF j <= i THEN l[j - 1] ELSE l[j]
  BY DEF IsFronted
<1>1. ASSUME NEW j \in 1 .. Len(l2)
      PROVE  \E x \in 1 .. Len(l) : l2[j].key = l[x].key /\ l2[j].size = l[x].size
  <2>1. CASE j = 1
    BY <2>1, <1>0
  <2>2. CASE j # 1 /\ j <= i
    <3>1. j \in 2 .. Len(l) /\ j - 1 \in 1 .. Len(l)
      BY <2>2, <1>0
    <3> QED
      BY <3>1, <2>2, <1>0
  <2>3. CASE j # 1 /\ ~(j <= i)
    <3>1. j \in 2 .. Len(l) /\ j \in 1 .. Len(l)
      BY <2>3, <1>0
    <3> QED
      BY <3>1, <2>3, <1>0
  <2> QED
    BY <2>1, <2>2, <2>3
<1> QED
  BY <1>1 DEF Holds

\* IsFull() with L nodes of one chunk size: full exactly at c \div chunk nodes.
LEMMA FullAtWholeChunks ==
    ASSUME NEW chunk \in {BIG, TINY}, NEW c \in Capacities, NEW L \in Nat, L <= c \div chunk
    PROVE  /\ c \div chunk \in Nat
           /\ IsFullAt(L * chunk, c, chunk) <=> c \div chunk <= L
           /\ Plus(L * chunk, chunk) = (L + 1) * chunk
           /\ 0 < L => Minus(L * chunk, chunk) = (L - 1) * chunk
<1>1. /\ chunk \in Nat /\ 0 < chunk /\ chunk <= BIG /\ BIG \in Nat /\ WORD \in Nat
      /\ c \in Nat /\ c + BIG < WORD
  BY BaseAssumption DEF BaseAssumption
<1> DEFINE n == c \div chunk
           z == L * chunk
<1>2. n \in Nat /\ z \in Nat /\ (L + 1) * chunk = z + chunk /\ (z <= c <=> L <= n)
  BY <1>1, WholeChunks
<1>3. z + chunk <= c <=> L + 1 <= n
  <2>1. L + 1 \in Nat
    OBVIOUS
  <2>2. (L + 1) * chunk <= c <=> L + 1 <= c \div chunk
    BY <1>1, <2>1, WholeChunks
  <2> QED
    BY <1>2, <2>2
<1>4. 0 < L => (L - 1) * chunk = z - chunk /\ chunk <= z
  <2> SUFFICES ASSUME 0 < L PROVE (L - 1) * chunk = z - chunk /\ chunk <= z
    OBVIOUS
  <2>1. L - 1 \in Nat
    OBVIOUS
  <2>2. (L - 1) * chunk \in Nat /\ ((L - 1) + 1) * chunk = (L - 1) * chunk + chunk /\ (L - 1) + 1 = L
    BY <1>1, <2>1, WholeChunks
  <2> QED
    BY <2>2, <1>1, <1>2
<1> HIDE DEF n, z
<1>5. Plus(z, chunk) = z + chunk
  <2>1. z <= c
    BY <1>2 DEF n
  <2> QED
    BY <2>1, <1>1, <1>2 DEF Plus
<1>6. IsFullAt(z, c, chunk) <=> n <= L
  BY <1>1, <1>2, <1>3, <1>5 DEF IsFullAt
<1>7. 0 < L => Minus(z, chunk) = (L - 1) * chunk
  BY <1>4, <1>1, <1>2 DEF Minus
<1> QED
  BY <1>2, <1>5, <1>6, <1>7 DEF n, z

\* One trace line counted, a hit or not, with the bytes of its object.
LEMMA TallyLine ==
    ASSUME ReplayTypes, AllWritten(trace, missed), Tallies, NEW e \in Request, NEW a \in Request,
           trace' = Append(trace, e), AsStored(trace', missed') = Append(AsStored(trace, missed), a),
           NEW hit \in BOOLEAN,
           missed' = IF hit THEN missed ELSE missed \union {Len(trace) + 1},
           resets' = resets, total' = total, cm' \in Counters, cm'.so = cm.so + 1,
           cm'.ho + cm'.wo = cm.ho + cm.wo + 1, cm'.sb = cm.sb + a.size,
           cm'.hb = IF hit THEN cm.hb + a.size ELSE cm.hb
    PROVE  Tallies'
<1> DEFINE R == RunningLines(trace, resets)
           C == CountedLines(trace, resets)
           T == Len(trace)
           u == AsStored(trace, missed)
           v == AsStored(trace', missed')
<1>1. /\ trace \in Seq(Request) /\ PeriodsClosed(trace, resets) /\ cm \in Counters /\ total \in Counters
  BY DEF ReplayTypes
<1>2. R \in SUBSET (1 .. T) /\ C \in SUBSET (1 .. T)
  BY <1>1, LinesFinite
<1>3. RunningLines(trace', resets') = R \union {T + 1} /\ CountedLines(trace', resets') = C
  BY <1>1, PeriodGrows
<1>4. Cardinality(R \union {T + 1}) = Cardinality(R) + 1
  BY <1>1, <1>2, LineCount
<1>5. u \in Seq(Request) /\ Len(u) = T /\ T \in Nat /\ v = Append(u, a)
  BY <1>1, AsStoredType
<1>6. missed \subseteq 1 .. T
  BY DEF AllWritten
<1> HIDE DEF R, C, T, u, v
<1>7. /\ cm.so = cm.ho + cm.wo /\ cm.so = Cardinality(R)
      /\ total.so = total.ho + total.wo /\ total.so = Cardinality(C)
      /\ cm.sb = SizesOf(u, R) /\ cm.hb = SizesOf(u, R \ missed)
      /\ total.sb = SizesOf(u, C) /\ total.hb = SizesOf(u, C \ missed)
  BY DEF Tallies, BytesOf, R, C, u
<1>8. cm'.so = cm'.ho + cm'.wo /\ cm'.so = Cardinality(RunningLines(trace', resets'))
  BY <1>3, <1>4, <1>7
<1>9. total'.so = total'.ho + total'.wo /\ total'.so = Cardinality(CountedLines(trace', resets'))
  BY <1>3, <1>7
<1>10. \A S \in SUBSET (1 .. T) : /\ SizesOf(v, S) = SizesOf(u, S)
                                  /\ SizesOf(v, S \union {T + 1}) = SizesOf(u, S) + a.size
  BY <1>5, SizesGrow
<1>11. R \ missed \in SUBSET (1 .. T) /\ C \ missed \in SUBSET (1 .. T)
  BY <1>2
<1>12. /\ (R \union {T + 1}) \ missed' = IF hit THEN (R \ missed) \union {T + 1} ELSE R \ missed
       /\ C \ missed' = C \ missed
  <2>1. missed' = IF hit THEN missed ELSE missed \union {T + 1}
    BY DEF T
  <2>2. T + 1 \notin 1 .. T
    BY <1>5
  <2> QED
    BY <2>1, <2>2, <1>2, <1>6
<1>13. cm'.sb = SizesOf(v, R \union {T + 1}) /\ total'.sb = SizesOf(v, C)
  BY <1>2, <1>7, <1>10
<1>14. cm'.hb = SizesOf(v, (R \union {T + 1}) \ missed') /\ total'.hb = SizesOf(v, C \ missed')
  BY <1>7, <1>10, <1>11, <1>12
<1> QED
  BY <1>3, <1>8, <1>9, <1>13, <1>14 DEF Tallies, BytesOf, v

\* The object hits after one more line, which hits or does not.
LEMMA StackLine ==
    ASSUME ReplayTypes, NEW n, StackTallies(n), NEW e \in Request, trace' = Append(trace, e),
           resets' = resets, total' = total,
           cm'.ho = IF IsStackHit(trace', Len(trace) + 1, n) THEN cm.ho + 1 ELSE cm.ho
    PROVE  StackTallies(n)'
<1> DEFINE R == RunningLines(trace, resets)
           C == CountedLines(trace, resets)
           T == Len(trace)
<1>1. trace \in Seq(Request) /\ PeriodsClosed(trace, resets)
  BY DEF ReplayTypes
<1>2. R \in SUBSET (1 .. T) /\ C \in SUBSET (1 .. T)
  BY <1>1, LinesFinite
<1>3. RunningLines(trace', resets') = R \union {T + 1} /\ CountedLines(trace', resets') = C
  BY <1>1, PeriodGrows
<1>4. HitCount(trace', C, n) = HitCount(trace, C, n)
  BY <1>1, <1>2, HitCountGrows
<1>5. HitCount(trace', R \union {T + 1}, n)
        = IF IsStackHit(trace', T + 1, n) THEN HitCount(trace, R, n) + 1 ELSE HitCount(trace, R, n)
  BY <1>1, <1>2, HitCountGrows
<1> QED
  BY <1>3, <1>4, <1>5 DEF StackTallies

\* A trace of one chunk size had it before its last line.
LEMMA OneChunkBefore ==
    ASSUME NEW t \in Seq(Request), NEW e \in Request, NEW chunk, OneChunk(Append(t, e), chunk)
    PROVE  OneChunk(t, chunk)
<1>1. /\ Len(t) \in Nat /\ Len(Append(t, e)) = Len(t) + 1
      /\ \A j \in 1 .. Len(t) : j \in 1 .. Len(t) + 1 /\ Append(t, e)[j] = t[j]
  BY TraceGrows
<1> QED
  BY <1>1 DEF OneChunk

\* get() finds the key: its node is where Place says.
LEMMA PlaceIs ==
    ASSUME s_list \in Seq(Node), NEW k, k \in KeysOf(s_list)
    PROVE  Place(k) \in 1 .. Len(s_list) /\ s_list[Place(k)].key = k /\ s_list[Place(k)] \in Node
<1>1. \E x \in DOMAIN s_list : s_list[x].key = k
  BY DEF KeysOf
<1>2. Place(k) \in DOMAIN s_list /\ s_list[Place(k)].key = k
  BY <1>1 DEF Place
<1> HIDE DEF Place
<1> QED
  BY <1>2

\* Requests and nodes have sizes that are numbers.
LEMMA NodeIsRequested ==
    ASSUME NEW r \in Request \union Node
    PROVE  r.size \in Nat
  BY BaseAssumption DEF BaseAssumption, Request, Node

\* The counters d after a hit on z bytes and after a miss of z bytes.
HitCounts(c, z, d) == d = [c EXCEPT !.ho = @ + 1, !.hb = @ + z, !.so = @ + 1, !.sb = @ + z]
MissCounts(c, z, d) == d = [c EXCEPT !.so = @ + 1, !.sb = @ + z, !.wo = @ + 1]

\* A hit counts one request and no write.
LEMMA HitCounted ==
    ASSUME NEW c \in Counters, NEW z \in Nat, NEW d, HitCounts(c, z, d)
    PROVE  /\ d \in Counters /\ d.so = c.so + 1 /\ d.ho = c.ho + 1
           /\ d.ho + d.wo = c.ho + c.wo + 1 /\ d.sb = c.sb + z
           /\ d.hb = c.hb + z
<1>1. c = [ho |-> c.ho, so |-> c.so, wo |-> c.wo, hb |-> c.hb, sb |-> c.sb]
      /\ c.ho \in Nat /\ c.so \in Nat /\ c.wo \in Nat /\ c.hb \in Nat /\ c.sb \in Nat
  BY DEF Counters
<1>2. d = [ho |-> c.ho + 1, so |-> c.so + 1, wo |-> c.wo, hb |-> c.hb + z, sb |-> c.sb + z]
  BY <1>1 DEF HitCounts
<1> QED
  BY <1>1, <1>2 DEF Counters

\* A miss counts one request and one write.
LEMMA MissCounted ==
    ASSUME NEW c \in Counters, NEW z \in Nat, NEW d, MissCounts(c, z, d)
    PROVE  /\ d \in Counters /\ d.so = c.so + 1 /\ d.ho = c.ho
           /\ d.ho + d.wo = c.ho + c.wo + 1 /\ d.sb = c.sb + z
           /\ d.hb = c.hb
<1>1. c = [ho |-> c.ho, so |-> c.so, wo |-> c.wo, hb |-> c.hb, sb |-> c.sb]
      /\ c.ho \in Nat /\ c.so \in Nat /\ c.wo \in Nat /\ c.hb \in Nat /\ c.sb \in Nat
  BY DEF Counters
<1>2. d = [ho |-> c.ho, so |-> c.so + 1, wo |-> c.wo + 1, hb |-> c.hb, sb |-> c.sb + z]
  BY <1>1 DEF MissCounts
<1> QED
  BY <1>1, <1>2 DEF Counters

\* A hit.
LEMMA HitKeeps ==
    ASSUME ReplayTypes, ReplayBooks, Tallies, StackOrders,
           NEW k \in Key, NEW s \in Size, HitStep(k, s)
    PROVE  ReplayTypes' /\ ReplayBooks' /\ Tallies' /\ StackOrders'
<1> DEFINE e == [key |-> k, size |-> s]
           T == Len(trace)
           i == Place(k)
           z == s_list[i].size
<1>1. /\ capacity \in Capacities /\ s_list \in Seq(Node) /\ s_request \in Request \union {NoRequest}
      /\ trace \in Seq(Request) /\ PeriodsClosed(trace, resets)
      /\ cm \in Counters /\ total \in Counters
  BY DEF ReplayTypes
<1>2. /\ s_request = NoRequest /\ k \in s_map /\ s_map' = s_map /\ s_size' = s_size
      /\ s_request' = s_request /\ capacity' = capacity /\ name' = name
      /\ trace' = Append(trace, e) /\ missed' = missed /\ total' = total /\ resets' = resets
      /\ cm' = [cm EXCEPT !.ho = @ + 1, !.hb = @ + z, !.so = @ + 1, !.sb = @ + z]
  BY DEF HitStep
<1>3. /\ KeysDistinct(s_list) /\ s_map = KeysOf(s_list) /\ FromTrace(trace, missed, s_list)
      /\ AllWritten(trace, missed) /\ KnownLast(trace)
  BY DEF ReplayBooks
<1>4. i \in 1 .. Len(s_list) /\ s_list[i].key = k /\ s_list[i] \in Node
  BY <1>1, <1>2, <1>3, PlaceIs
<1>5. e \in Request /\ e.key = k /\ e.size = s /\ s \in Nat /\ z \in Nat
  BY <1>4, NodeIsRequested, BaseAssumption DEF BaseAssumption, Request
<1>6. /\ cm' \in Counters /\ cm'.so = cm.so + 1 /\ cm'.ho = cm.ho + 1
      /\ cm'.ho + cm'.wo = cm.ho + cm.wo + 1 /\ cm'.sb = cm.sb + z /\ cm'.hb = cm.hb + z
  <2>1. HitCounts(cm, z, cm')
    BY <1>2, Zenon DEF HitCounts
  <2> HIDE DEF z
  <2> QED
    BY <2>1, <1>1, <1>5, HitCounted
<1>7. /\ trace' \in Seq(Request) /\ T \in Nat /\ Len(trace') = T + 1 /\ trace'[T + 1] = e
      /\ \A j \in 1 .. T : trace'[j] = trace[j]
  BY <1>1, <1>2, <1>5, TraceGrows
<1>8. \/ s_list' = s_list
      \/ IsFronted(Node, s_list, i, s_list[i], s_list')
      \/ s_list' = [s_list EXCEPT ![i].flag = TRUE]
  <2>1. CASE Hits(k, s_list, s_map, s_size, s_request, s_list', s_map', s_size', s_request')
    <3>1. s_list' = <<s_list[i]>> \o RemoveAt(s_list, i)
      BY <2>1 DEF Hits, Place
    <3> HIDE DEF i
    <3> QED
      BY <3>1, <1>1, <1>4, RemovedToFront
  <2> QED
    BY <2>1 DEF HitStep
<1>9. /\ s_list' \in Seq(Node) /\ Holds(s_list', s_list)
      /\ KeysDistinct(s_list') /\ KeysOf(s_list') = KeysOf(s_list)
  <2>1. CASE s_list' = s_list
    BY <2>1, <1>1, <1>3 DEF Holds
  <2>2. CASE IsFronted(Node, s_list, i, s_list[i], s_list')
    <3>1. s_list' \in Seq(Node)
      BY <2>2 DEF IsFronted
    <3> HIDE DEF i
    <3> QED
      BY <3>1, <2>2, <1>1, <1>3, <1>4, FrontedHolds, ToFront
  <2>3. CASE s_list' = [s_list EXCEPT ![i].flag = TRUE]
    <3> HIDE DEF i, z
    <3> DEFINE n == [s_list[i] EXCEPT !.flag = TRUE]
    <3>1. n \in Node /\ n.key = s_list[i].key /\ n.size = s_list[i].size
      BY <1>4 DEF Node
    <3>2. s_list' = [s_list EXCEPT ![i] = n]
      BY <2>3
    <3> HIDE DEF n
    <3>3. /\ s_list' \in Seq(Node) /\ Len(s_list') = Len(s_list)
          /\ \A j \in 1 .. Len(s_list) : s_list'[j] = IF j = i THEN n ELSE s_list[j]
      BY <3>1, <3>2, <1>1, <1>4
    <3>4. Holds(s_list', s_list)
      BY <3>1, <3>3 DEF Holds
    <3>5. DOMAIN s_list' = DOMAIN s_list /\ \A j \in DOMAIN s_list : s_list'[j].key = s_list[j].key
      BY <3>1, <3>3, <1>1
    <3>6. KeysDistinct(s_list') /\ KeysOf(s_list') = KeysOf(s_list)
      BY <3>5, <1>3 DEF KeysDistinct, KeysOf
    <3> QED
      BY <3>3, <3>4, <3>6
  <2> QED
    BY <1>8, <2>1, <2>2, <2>3
<1>10. ReplayTypes'
  <2>1. PeriodsClosed(trace', resets')
    BY <1>1, <1>2, <1>5, PeriodGrows
  <2> QED
    BY <1>1, <1>2, <1>6, <1>7, <1>9, <2>1 DEF ReplayTypes
<1>11. PICK p \in missed : /\ trace[p].key = k /\ trace[p].size = z
                           /\ \A h \in missed : trace[h].key = k => h <= p
  BY <1>3, <1>4 DEF FromTrace
<1>12. /\ AllWritten(trace', missed')
       /\ AsStored(trace', missed') = Append(AsStored(trace, missed), [key |-> k, size |-> z])
       /\ [key |-> k, size |-> z] \in Request
  <2>1. missed \subseteq 1 .. T
    BY <1>3 DEF AllWritten
  <2>2. trace'[T + 1].key = k /\ \A h \in missed : trace'[h] = trace[h] /\ h <= T + 1
    BY <2>1, <1>5, <1>7
  <2>3. Wrote(trace', missed, T + 1, p) /\ trace'[p].size = z
    BY <2>2, <1>11 DEF Wrote
  <2>4. missed' = missed /\ trace' = Append(trace, e) /\ e \in Request /\ e.key = k
    BY <1>2, <1>5
  <2> HIDE DEF z, e
  <2>5. /\ Wrote(Append(trace, e), missed, Len(trace) + 1, p) /\ Append(trace, e)[p].size = z
        /\ missed \in {missed, missed \union {Len(trace) + 1}} /\ p \in missed
    BY <2>3, <2>4, <1>11
  <2>6. /\ AllWritten(Append(trace, e), missed)
        /\ AsStored(Append(trace, e), missed)
             = Append(AsStored(trace, missed), [key |-> e.key, size |-> z])
        /\ [key |-> e.key, size |-> z] \in Request
    <3>1. trace \in Seq(Request) /\ AllWritten(trace, missed) /\ e \in Request
      BY <2>4, <1>1, <1>3
    <3>2. Stores(trace, missed, e, missed, p, z)
      BY <3>1, <2>5, Zenon DEF Stores
    <3> QED
      BY <3>2, StoredGrows, Zenon
  <2> QED
    BY <2>4, <2>6
<1>14. ReplayBooks'
  <2>1. FromTrace(trace', missed', s_list')
    <3>1. missed \subseteq 1 .. Len(trace)
      BY <1>3 DEF AllWritten
    <3> QED
      BY <3>1, <1>1, <1>2, <1>3, <1>5, <1>9, FromTraceGrows, FromTraceKept
  <2>2. KnownLast(trace')
    BY <1>1, <1>2, <1>3, <1>5, KnownLastGrows
  <2> QED
    BY <1>2, <1>3, <1>9, <1>12, <2>1, <2>2 DEF ReplayBooks
<1>15. Tallies'
  <2> DEFINE a == [key |-> k, size |-> z]
  <2>1. a \in Request /\ a.size = z /\ AsStored(trace', missed') = Append(AsStored(trace, missed), a)
    BY <1>12
  <2>2. missed' = IF TRUE THEN missed ELSE missed \union {Len(trace) + 1}
    BY <1>2
  <2>3. cm'.hb = IF TRUE THEN cm.hb + a.size ELSE cm.hb
    BY <2>1, <1>6
  <2>4. cm'.sb = cm.sb + a.size
    BY <2>1, <1>6
  <2> HIDE DEF e, z, a
  <2> QED
    BY <2>1, <2>2, <2>3, <2>4, <1>2, <1>3, <1>5, <1>6, TallyLine
<1>13. StackOrders'
  <2> SUFFICES ASSUME NEW chunk \in {BIG, TINY}, name' = "LRU", OneChunk(trace', chunk)
               PROVE  /\ StackOrder(capacity \div chunk, chunk)'
                      /\ StackTallies(capacity \div chunk)'
    BY DEF StackOrders
  <2> DEFINE n == capacity \div chunk
  <2>1. OneChunk(trace, chunk) /\ name = "LRU"
    BY <1>1, <1>2, <1>5, OneChunkBefore
  <2>2. StackOrder(n, chunk) /\ StackTallies(n)
    BY <2>1 DEF StackOrders
  <2>3. /\ s_size = Len(s_list) * chunk /\ Len(s_list) <= n
        /\ ByRecency(trace, T, s_list) /\ LongUnused(trace, T, s_list, n)
    BY <2>2, <1>2 DEF StackOrder, Answered
  <2>4. n \in Nat
    <3>1. chunk \in Nat /\ 0 < chunk /\ capacity \in Nat
      BY <1>1, BaseAssumption DEF BaseAssumption
    <3> QED
      BY <3>1, WholeChunks
  <2> HIDE DEF n
  <2>5. IsFronted(Node, s_list, i, s_list[i], s_list')
    <3>1. Hits(k, s_list, s_map, s_size, s_request, s_list', s_map', s_size', s_request')
      BY <2>1 DEF HitStep
    <3>2. s_list' = <<s_list[i]>> \o RemoveAt(s_list, i)
      BY <3>1 DEF Hits, Place
    <3> HIDE DEF i
    <3> QED
      BY <3>2, <1>1, <1>4, RemovedToFront
  <2>6. Len(s_list') = Len(s_list)
    BY <2>5 DEF IsFronted
  <2>7. ByRecency(trace', T, s_list) /\ LongUnused(trace', T, s_list, n)
    <3>1. T \in 0 .. Len(trace)
      BY <1>7
    <3> QED
      BY <3>1, <1>1, <1>2, <1>5, <2>3, OrderBefore
  <2>8. ByRecency(trace', T + 1, s_list') /\ LongUnused(trace', T + 1, s_list', n)
    <3>1. s_list[i].key = trace'[T + 1].key /\ n \in Int
      BY <1>4, <1>5, <1>7, <2>4
    <3> HIDE DEF i, T
    <3> QED
      BY <3>1, <1>1, <1>3, <1>4, <1>7, <1>9, <2>5, <2>6, <2>7, OrderFronted
  <2>9. StackOrder(n, chunk)'
    <3>1. Answered' = T + 1
      BY <1>2, <1>7 DEF Answered
    <3>2. /\ s_request' = NoRequest /\ s_size' = Len(s_list') * chunk /\ Len(s_list') <= n
      BY <1>2, <2>3, <2>6
    <3>3. n' = n
      BY <1>2 DEF n
    <3> QED
      BY <3>1, <3>2, <3>3, <2>8 DEF StackOrder
  <2>10. StackTallies(n)'
    <3>1. IsStackHit(trace', T + 1, n)
      <4> HIDE DEF e, i
      <4> QED
        BY <1>1, <1>2, <1>3, <1>4, <1>5, <2>3, <2>4, StoredIsStackHit
    <3>2. cm'.ho = IF IsStackHit(trace', Len(trace) + 1, n) THEN cm.ho + 1 ELSE cm.ho
      BY <3>1, <1>6
    <3> HIDE DEF e
    <3>3. n' = n
      BY <1>2 DEF n
    <3> QED
      BY <3>2, <3>3, <1>2, <1>5, <2>2, StackLine
  <2> QED
    BY <2>9, <2>10, <1>2 DEF n
<1> QED
  BY <1>10, <1>13, <1>14, <1>15

\* A request is not NoRequest.
LEMMA RequestsAreNot ==
    ASSUME NEW r \in Request
    PROVE  r # NoRequest
  BY PairAssumption DEF PairAssumption, Request

\* What n nodes do not remember, n - 1 nodes do not.
LEMMA LongUnusedLess ==
    ASSUME NEW t, NEW h, NEW l \in Seq(Node), NEW n \in Int, LongUnused(t, h, l, n)
    PROVE  LongUnused(t, h, l, n - 1)
<1>1. Len(l) \in Nat
  OBVIOUS
<1> QED
  BY <1>1 DEF LongUnused

\* As many nodes as fit are a number.
LEMMA NodesFit ==
    ASSUME NEW chunk \in {BIG, TINY}, NEW c \in Capacities
    PROVE  c \div chunk \in Nat
<1>1. chunk \in Nat /\ 0 < chunk /\ c \in Nat
  BY BaseAssumption DEF BaseAssumption
<1> QED
  BY <1>1, WholeChunks

\* A miss.
LEMMA MissKeeps ==
    ASSUME ReplayTypes, ReplayBooks, Tallies, StackOrders,
           NEW k \in Key, NEW s \in Size, MissStep(k, s)
    PROVE  ReplayTypes' /\ ReplayBooks' /\ Tallies' /\ StackOrders'
<1> DEFINE e == [key |-> k, size |-> s]
           T == Len(trace)
<1>1. /\ capacity \in Capacities /\ s_list \in Seq(Node)
      /\ trace \in Seq(Request) /\ PeriodsClosed(trace, resets)
      /\ cm \in Counters /\ total \in Counters
  BY DEF ReplayTypes
<1>2. /\ s_request = NoRequest /\ k \notin s_map /\ s_map' = s_map /\ s_size' = s_size
      /\ s_list' = s_list /\ s_request' = e /\ capacity' = capacity /\ name' = name
      /\ trace' = Append(trace, e) /\ missed' = missed \union {T + 1}
      /\ total' = total /\ resets' = resets
      /\ cm' = [cm EXCEPT !.so = @ + 1, !.sb = @ + s, !.wo = @ + 1]
  BY DEF MissStep
<1>3. /\ KeysDistinct(s_list) /\ s_map = KeysOf(s_list) /\ FromTrace(trace, missed, s_list)
      /\ AllWritten(trace, missed) /\ KnownLast(trace)
  BY DEF ReplayBooks
<1>5. e \in Request /\ e.key = k /\ e.size = s /\ s \in Nat /\ e # NoRequest
  <2>1. e \in Request /\ e.key = k /\ e.size = s /\ s \in Nat
    BY BaseAssumption DEF BaseAssumption, Request
  <2> HIDE DEF e
  <2> QED
    BY <2>1, RequestsAreNot
<1>6. /\ cm' \in Counters /\ cm'.so = cm.so + 1 /\ cm'.ho = cm.ho
      /\ cm'.ho + cm'.wo = cm.ho + cm.wo + 1 /\ cm'.sb = cm.sb + s /\ cm'.hb = cm.hb
  <2>1. MissCounts(cm, s, cm')
    BY <1>2, Zenon DEF MissCounts
  <2> QED
    BY <2>1, <1>1, <1>5, MissCounted
<1> HIDE DEF e
<1>7. /\ trace' \in Seq(Request) /\ T \in Nat /\ Len(trace') = T + 1 /\ trace'[T + 1] = e
  BY <1>1, <1>2, <1>5, TraceGrows
<1>8. ReplayTypes'
  <2>1. PeriodsClosed(trace', resets')
    BY <1>1, <1>2, <1>5, PeriodGrows
  <2> QED
    BY <1>1, <1>2, <1>5, <1>6, <1>7, <2>1 DEF ReplayTypes
<1>9. /\ AllWritten(trace', missed') /\ missed \subseteq 1 .. T
      /\ AsStored(trace', missed') = Append(AsStored(trace, missed), e)
  <2>1. missed \subseteq 1 .. T
    BY <1>3 DEF AllWritten
  <2>2. Wrote(trace', missed', T + 1, T + 1) /\ T + 1 \in missed' /\ trace'[T + 1].size = s
    BY <2>1, <1>2, <1>5, <1>7 DEF Wrote
  <2>3. e = [key |-> e.key, size |-> s]
    BY <1>5 DEF Request
  <2> DEFINE m == missed \union {Len(trace) + 1}
  <2>4. /\ Wrote(Append(trace, e), m, Len(trace) + 1, Len(trace) + 1)
        /\ Append(trace, e)[Len(trace) + 1].size = s
        /\ m \in {missed, missed \union {Len(trace) + 1}} /\ Len(trace) + 1 \in m
    BY <2>2, <1>2
  <2> HIDE DEF m
  <2>5. /\ AllWritten(Append(trace, e), m)
        /\ AsStored(Append(trace, e), m) = Append(AsStored(trace, missed), [key |-> e.key, size |-> s])
    <3>1. trace \in Seq(Request) /\ AllWritten(trace, missed) /\ e \in Request
      BY <1>1, <1>3, <1>5
    <3>2. Stores(trace, missed, e, m, Len(trace) + 1, s)
      BY <3>1, <2>4, Zenon DEF Stores
    <3> QED
      BY <3>2, StoredGrows
  <2> QED
    BY <2>1, <2>3, <2>5, <1>2 DEF m
<1>12. ReplayBooks'
  <2>1. FromTrace(trace', missed', s_list')
    BY <1>1, <1>2, <1>3, <1>5, <1>9, FromTraceGrows
  <2>2. KnownLast(trace')
    BY <1>1, <1>2, <1>3, <1>5, KnownLastGrows
  <2> QED
    BY <1>2, <1>3, <1>5, <1>7, <1>9, <2>1, <2>2 DEF ReplayBooks
<1>10. Tallies'
  <2>1. missed' = IF FALSE THEN missed ELSE missed \union {Len(trace) + 1}
    BY <1>2
  <2>2. cm'.hb = IF FALSE THEN cm.hb + e.size ELSE cm.hb
    BY <1>6
  <2>3. cm'.sb = cm.sb + e.size
    BY <1>5, <1>6
  <2> QED
    BY <2>1, <2>2, <2>3, <1>2, <1>3, <1>5, <1>6, <1>9, TallyLine
<1>11. StackOrders'
  <2> SUFFICES ASSUME NEW chunk \in {BIG, TINY}, name' = "LRU", OneChunk(trace', chunk)
               PROVE  /\ StackOrder(capacity \div chunk, chunk)'
                      /\ StackTallies(capacity \div chunk)'
    BY DEF StackOrders
  <2> DEFINE n == capacity \div chunk
  <2>1. OneChunk(trace, chunk) /\ name = "LRU"
    BY <1>1, <1>2, <1>5, OneChunkBefore
  <2>2. StackOrder(n, chunk) /\ StackTallies(n)
    BY <2>1 DEF StackOrders
  <2>3. n \in Nat /\ n' = n
    BY <1>1, <1>2, NodesFit
  <2> HIDE DEF n
  <2>4. /\ s_size = Len(s_list) * chunk /\ Len(s_list) <= n
        /\ ByRecency(trace, T, s_list) /\ LongUnused(trace, T, s_list, n)
    BY <2>2, <1>2 DEF StackOrder, Answered
  <2>5. ByRecency(trace', T, s_list) /\ LongUnused(trace', T, s_list, n - 1)
    <3>1. T \in 0 .. Len(trace)
      BY <1>7
    <3>2. ByRecency(trace', T, s_list) /\ LongUnused(trace', T, s_list, n)
      BY <3>1, <1>1, <1>2, <1>5, <2>4, OrderBefore
    <3> QED
      BY <3>2, <1>1, <2>3, LongUnusedLess
  <2>6. StackOrder(n, chunk)'
    <3>1. Answered' = T /\ s_request' # NoRequest
      BY <1>2, <1>5, <1>7 DEF Answered
    <3> QED
      BY <3>1, <1>2, <2>3, <2>4, <2>5 DEF StackOrder
  <2>7. StackTallies(n)'
    <3>1. ~IsStackHit(trace', T + 1, n)
      BY <1>1, <1>2, <1>3, <1>5, <2>3, <2>4, AbsentIsNoStackHit
    <3>2. cm'.ho = IF IsStackHit(trace', Len(trace) + 1, n) THEN cm.ho + 1 ELSE cm.ho
      BY <3>1, <1>6
    <3> QED
      BY <3>2, <1>2, <1>5, <2>2, <2>3, StackLine
  <2> QED
    BY <2>3, <2>6, <2>7 DEF n
<1> QED
  BY <1>8, <1>10, <1>11, <1>12

-----------------------------------------------------------------------------
\* A list without its last node, whatever its keys.
LEMMA FrontOf ==
    ASSUME NEW l \in Seq(Node), l # << >>
    PROVE  /\ Front(l) \in Seq(Node) /\ Len(l) \in Nat /\ 0 < Len(l)
           /\ Len(Front(l)) = Len(l) - 1 /\ Last(l) = l[Len(l)] /\ Last(l) \in Node
           /\ \A i \in 1 .. Len(l) - 1 : Front(l)[i] = l[i]
           /\ Holds(Front(l), l)
<1> DEFINE f == Front(l)
<1>1. /\ f \in Seq(Node) /\ Len(l) \in Nat /\ 0 < Len(l) /\ Len(f) = Len(l) - 1
      /\ Last(l) = l[Len(l)] /\ \A i \in 1 .. Len(l) - 1 : f[i] = l[i]
  <2>1. Len(l) \in Nat /\ 0 < Len(l)
    OBVIOUS
  <2>2. Last(l) = l[Len(l)]
    BY DEF Last
  <2>3. Len(l) - 1 \in Nat /\ \A i \in 1 .. Len(l) - 1 : l[i] \in Node
    BY <2>1
  <2>4. f = [i \in 1 .. Len(l) - 1 |-> l[i]]
    BY <2>1 DEF Front
  <2> QED
    BY <2>1, <2>2, <2>3, <2>4
<1> HIDE DEF f
<1>2. Last(l) \in Node
  BY <1>1
<1>3. Holds(f, l)
  <2>1. \A j \in 1 .. Len(f) : j \in 1 .. Len(l) /\ f[j] = l[j]
    BY <1>1
  <2> QED
    BY <2>1 DEF Holds
<1> QED
  BY <1>1, <1>2, <1>3 DEF f

\* Nothing of the trace and the counters changes in insert().
Settled ==
    /\ capacity' = capacity /\ name' = name /\ cm' = cm /\ total' = total /\ trace' = trace
    /\ missed' = missed /\ resets' = resets

\* An eviction.
LEMMA EvictKeeps ==
    ASSUME ReplayTypes, ReplayBooks, StackOrders, Settled,
           Evicted(s_list, s_map, s_size, capacity, s_request,
                   s_list', s_map', s_size', s_request')
    PROVE  s_list' \in Seq(Node) /\ s_request' = s_request /\ ReplayBooks' /\ StackOrders'
<1> DEFINE r == s_request
           T == Len(trace)
           L == Len(s_list)
<1>1. /\ capacity \in Capacities /\ s_list \in Seq(Node) /\ trace \in Seq(Request) /\ T \in Nat
  BY DEF ReplayTypes
<1>2. /\ r # NoRequest /\ IsFullAt(s_size, capacity, ChunkSize(r.size)) /\ s_list # << >>
      /\ s_list' = Front(s_list) /\ s_map' = s_map \ {Last(s_list).key}
      /\ s_size' = Minus(s_size, ChunkSize(Last(s_list).size)) /\ s_request' = s_request
      /\ capacity' = capacity /\ name' = name /\ cm' = cm /\ total' = total
      /\ trace' = trace /\ missed' = missed /\ resets' = resets
  BY DEF Evicted, Settled
<1>3. /\ KeysDistinct(s_list) /\ s_map = KeysOf(s_list) /\ FromTrace(trace, missed, s_list)
      /\ AllWritten(trace, missed) /\ KnownLast(trace)
      /\ T > 0 /\ trace[T] = r /\ T \in missed /\ r.key \notin s_map
  BY <1>2 DEF ReplayBooks
<1>4. /\ s_list' \in Seq(Node) /\ L \in Nat /\ 0 < L /\ Len(s_list') = L - 1
      /\ Last(s_list) = s_list[L] /\ Holds(s_list', s_list)
      /\ KeysDistinct(s_list') /\ KeysOf(s_list') = KeysOf(s_list) \ {Last(s_list).key}
  BY <1>1, <1>2, <1>3, FrontOf, FrontNode
<1>5. ReplayBooks'
  <2>1. FromTrace(trace', missed', s_list')
    BY <1>2, <1>3, <1>4, FromTraceKept
  <2> QED
    BY <2>1, <1>2, <1>3, <1>4 DEF ReplayBooks
<1>6. StackOrders'
  <2> SUFFICES ASSUME NEW chunk \in {BIG, TINY}, name' = "LRU", OneChunk(trace', chunk)
               PROVE  /\ StackOrder(capacity \div chunk, chunk)'
                      /\ StackTallies(capacity \div chunk)'
    BY DEF StackOrders
  <2> DEFINE n == capacity \div chunk
  <2>1. StackOrder(n, chunk) /\ StackTallies(n)
    BY <1>2 DEF StackOrders
  <2>2. /\ s_size = L * chunk /\ L <= n
        /\ ByRecency(trace, T - 1, s_list) /\ LongUnused(trace, T - 1, s_list, n - 1)
    BY <2>1, <1>2 DEF StackOrder, Answered
  <2>3. ChunkSize(r.size) = chunk
    <3>1. T \in 1 .. Len(trace)
      BY <1>1, <1>3
    <3> QED
      BY <3>1, <1>2, <1>3 DEF OneChunk
  <2>4. ChunkSize(Last(s_list).size) = chunk
    <3>1. L \in 1 .. Len(s_list)
      BY <1>4
    <3>2. PICK p \in 1 .. Len(trace) : trace[p].size = s_list[L].size
      BY <3>1, <1>3 DEF FromTrace, AllWritten
    <3> QED
      BY <3>2, <1>2, <1>4 DEF OneChunk
  <2>5. n \in Nat /\ n <= L /\ s_size' = (L - 1) * chunk
    BY <1>1, <1>2, <1>4, <2>2, <2>3, <2>4, FullAtWholeChunks
  <2>6. n' = n
    BY <1>2
  <2> HIDE DEF n
  <2>7. ByRecency(trace, T - 1, s_list') /\ LongUnused(trace, T - 1, s_list', n - 1)
    <3>1. T - 1 \in Nat
      BY <1>1, <1>3
    <3> QED
      BY <3>1, <1>1, <1>2, <1>3, <2>2, <2>5, OrderFront
  <2>9. StackOrder(n, chunk)'
    <3>1. Answered' = T - 1 /\ s_request' # NoRequest
      BY <1>2 DEF Answered
    <3>3. s_size' = Len(s_list') * chunk /\ Len(s_list') <= n
      BY <1>4, <2>2, <2>5
    <3> QED
      BY <3>1, <3>3, <1>2, <2>6, <2>7 DEF StackOrder
  <2>10. StackTallies(n)'
    BY <1>2, <2>1, <2>6 DEF StackTallies, n
  <2> QED
    BY <2>6, <2>9, <2>10 DEF n
<1> QED
  BY <1>2, <1>4, <1>5, <1>6

\* The end of insert().
LEMMA InsertedKeeps ==
    ASSUME ReplayTypes, ReplayBooks, StackOrders, Settled,
           Inserted(s_list, s_map, s_size, capacity, s_request,
                    s_list', s_map', s_size', s_request')
    PROVE  s_list' \in Seq(Node) /\ s_request' = NoRequest /\ ReplayBooks' /\ StackOrders'
<1> DEFINE r == s_request
           T == Len(trace)
           L == Len(s_list)
           d == NodeOf(r)
<1>1. /\ capacity \in Capacities /\ s_list \in Seq(Node) /\ trace \in Seq(Request) /\ T \in Nat
      /\ L \in Nat /\ (r = NoRequest \/ r \in Request)
  BY DEF ReplayTypes
<1>2. /\ r # NoRequest /\ ~IsFullAt(s_size, capacity, ChunkSize(r.size))
      /\ s_list' = <<d>> \o s_list /\ s_map' = s_map \union {r.key}
      /\ s_size' = Plus(s_size, ChunkSize(r.size)) /\ s_request' = NoRequest
      /\ capacity' = capacity /\ name' = name /\ cm' = cm /\ total' = total
      /\ trace' = trace /\ missed' = missed /\ resets' = resets
  BY DEF Inserted, Settled
<1>3. /\ KeysDistinct(s_list) /\ s_map = KeysOf(s_list) /\ FromTrace(trace, missed, s_list)
      /\ AllWritten(trace, missed) /\ KnownLast(trace)
      /\ T > 0 /\ trace[T] = r /\ T \in missed /\ r.key \notin s_map
  BY <1>2 DEF ReplayBooks
<1>4. d \in Node /\ d.key = r.key /\ d.size = r.size
  BY <1>1, <1>2 DEF NodeOf, Node, Request
<1> HIDE DEF d
<1>5. /\ s_list' \in Seq(Node) /\ Len(s_list') = L + 1 /\ s_list'[1] = d
      /\ \A i \in 1 .. L : s_list'[i + 1] = s_list[i]
      /\ KeysDistinct(s_list') /\ KeysOf(s_list') = KeysOf(s_list) \union {r.key}
  BY <1>1, <1>2, <1>3, <1>4, ConsNode
<1>6. ReplayBooks'
  <2> SUFFICES FromTrace(trace', missed', s_list')
    BY <1>2, <1>3, <1>5 DEF ReplayBooks
  <2> SUFFICES ASSUME NEW i \in 1 .. L + 1
               PROVE  \E p \in missed : /\ trace[p].key = s_list'[i].key
                                        /\ trace[p].size = s_list'[i].size
                                        /\ \A h \in missed : trace[h].key = s_list'[i].key => h <= p
    BY <1>2, <1>5 DEF FromTrace
  <2>1. CASE i = 1
    <3>1. \A h \in missed : h <= T
      BY <1>1, <1>3 DEF AllWritten
    <3> QED
      BY <3>1, <2>1, <1>3, <1>4, <1>5
  <2>2. CASE i # 1
    <3>1. i - 1 \in 1 .. L /\ (i - 1) + 1 = i
      BY <2>2, <1>1
    <3>2. s_list'[i] = s_list[i - 1]
      BY <3>1, <1>5
    <3> QED
      BY <3>1, <3>2, <1>3 DEF FromTrace
  <2> QED
    BY <2>1, <2>2
<1>7. StackOrders'
  <2> SUFFICES ASSUME NEW chunk \in {BIG, TINY}, name' = "LRU", OneChunk(trace', chunk)
               PROVE  /\ StackOrder(capacity \div chunk, chunk)'
                      /\ StackTallies(capacity \div chunk)'
    BY DEF StackOrders
  <2> DEFINE n == capacity \div chunk
  <2>1. StackOrder(n, chunk) /\ StackTallies(n)
    BY <1>2 DEF StackOrders
  <2>2. /\ s_size = L * chunk /\ L <= n
        /\ ByRecency(trace, T - 1, s_list) /\ LongUnused(trace, T - 1, s_list, n - 1)
    BY <2>1, <1>2 DEF StackOrder, Answered
  <2>3. ChunkSize(r.size) = chunk
    <3>1. T \in 1 .. Len(trace)
      BY <1>1, <1>3
    <3> QED
      BY <3>1, <1>2, <1>3 DEF OneChunk
  <2>4. n \in Nat /\ ~(n <= L) /\ s_size' = (L + 1) * chunk
    BY <1>1, <1>2, <2>2, <2>3, FullAtWholeChunks
  <2>5. n' = n
    BY <1>2
  <2> HIDE DEF n
  <2>7. ByRecency(trace, T, s_list') /\ LongUnused(trace, T, s_list', n)
    <3> DEFINE h == T - 1
    <3>1. h \in Nat /\ h + 1 = T
      BY <1>1, <1>3
    <3>2. n \in Int /\ s_list'[1].key = trace[h + 1].key /\ trace[h + 1].key \notin KeysOf(s_list)
      BY <3>1, <1>3, <1>4, <1>5, <2>4
    <3>3. ByRecency(trace, h, s_list) /\ LongUnused(trace, h, s_list, n - 1)
      BY <2>2
    <3> HIDE DEF h
    <3>4. ByRecency(trace, h + 1, s_list') /\ LongUnused(trace, h + 1, s_list', n)
      BY <3>1, <3>2, <3>3, <1>1, <1>5, OrderCons
    <3> QED
      BY <3>1, <3>4
  <2>8. StackOrder(n, chunk)'
    <3>1. Answered' = T
      BY <1>2 DEF Answered
    <3>2. s_size' = Len(s_list') * chunk /\ Len(s_list') <= n
      BY <1>1, <1>5, <2>2, <2>4
    <3> QED
      BY <3>1, <3>2, <1>2, <2>2, <2>5, <2>7 DEF StackOrder
  <2>9. StackTallies(n)'
    BY <1>2, <2>1, <2>5 DEF StackTallies, n
  <2> QED
    BY <2>5, <2>8, <2>9 DEF n
<1> QED
  BY <1>2, <1>5, <1>6, <1>7

\* A node put in front of a list.
LEMMA InFront ==
    ASSUME NEW f \in Seq(Node), NEW d \in Node
    PROVE  /\ <<d>> \o f \in Seq(Node) /\ Len(f) \in Nat /\ Len(<<d>> \o f) = Len(f) + 1
           /\ (<<d>> \o f)[1] = d /\ \A j \in 2 .. Len(f) + 1 : (<<d>> \o f)[j] = f[j - 1]
  OBVIOUS

\* The last node, changed, put in front of the others.
LEMMA LastFronted ==
    ASSUME NEW l \in Seq(Node), l # << >>, NEW d \in Node
    PROVE  IsFronted(Node, l, Len(l), d, <<d>> \o Front(l))
<1> DEFINE f == Front(l)
           t == <<d>> \o f
<1>1. /\ f \in Seq(Node) /\ Len(l) \in Nat /\ Len(f) = Len(l) - 1
      /\ \A i \in 1 .. Len(l) - 1 : f[i] = l[i]
  BY FrontOf
<1> HIDE DEF f
<1>2. /\ t \in Seq(Node) /\ Len(t) = Len(f) + 1 /\ t[1] = d
      /\ \A j \in 2 .. Len(f) + 1 : t[j] = f[j - 1]
  BY <1>1, InFront
<1> HIDE DEF t
<1>3. \A j \in 2 .. Len(l) : j - 1 \in 1 .. Len(l) - 1 /\ j <= Len(l) /\ j \in 2 .. Len(f) + 1
  BY <1>1
<1> QED
  BY <1>1, <1>2, <1>3 DEF IsFronted, t, f

\* A second chance.
LEMMA RotateKeeps ==
    ASSUME ReplayTypes, ReplayBooks, Settled, name = "FIFO2", s_list # << >>,
           s_list' = <<[Last(s_list) EXCEPT !.flag = FALSE]>> \o Front(s_list),
           s_map' = s_map, s_request' = s_request
    PROVE  s_list' \in Seq(Node) /\ ReplayBooks' /\ StackOrders'
<1> DEFINE d == [Last(s_list) EXCEPT !.flag = FALSE]
           L == Len(s_list)
<1>1. /\ s_list \in Seq(Node) /\ trace \in Seq(Request) /\ trace' = trace /\ missed' = missed
      /\ name' = name /\ KeysDistinct(s_list)
  BY DEF ReplayTypes, ReplayBooks, Settled
<1>2. /\ Front(s_list) \in Seq(Node) /\ L \in Nat /\ 0 < L /\ Len(Front(s_list)) = L - 1
      /\ Last(s_list) = s_list[L] /\ Last(s_list) \in Node
      /\ \A i \in 1 .. L - 1 : Front(s_list)[i] = s_list[i]
  BY <1>1, FrontOf
<1>3. d \in Node /\ d.key = s_list[L].key /\ d.size = s_list[L].size
  <2>1. d \in Node /\ d.key = Last(s_list).key /\ d.size = Last(s_list).size
    BY <1>2 DEF Node
  <2> HIDE DEF d
  <2> QED
    BY <2>1, <1>2
<1>4. s_list' = <<d>> \o Front(s_list)
  OBVIOUS
<1> HIDE DEF d
<1>6. IsFronted(Node, s_list, L, d, s_list')
  BY <1>1, <1>3, <1>4, LastFronted
<1>5. s_list' \in Seq(Node)
  BY <1>6 DEF IsFronted
<1>7. Holds(s_list', s_list) /\ KeysDistinct(s_list') /\ KeysOf(s_list') = KeysOf(s_list)
  <2>1. L \in 1 .. Len(s_list)
    BY <1>2
  <2> QED
    BY <2>1, <1>1, <1>3, <1>5, <1>6, FrontedHolds, ToFront
<1>8. ReplayBooks'
  <2>1. FromTrace(trace', missed', s_list')
    BY <1>1, <1>7, FromTraceKept DEF ReplayBooks
  <2> QED
    BY <2>1, <1>1, <1>7 DEF ReplayBooks
<1>9. StackOrders'
  BY <1>1 DEF StackOrders
<1> QED
  BY <1>5, <1>8, <1>9

\* A step of insert().
LEMMA InsertKeeps ==
    ASSUME ReplayTypes, ReplayBooks, Tallies, StackOrders, InsertStep
    PROVE  ReplayTypes' /\ ReplayBooks' /\ Tallies' /\ StackOrders'
<1>1. Settled
  BY DEF InsertStep, Settled
<1>2. /\ s_list' \in Seq(Node) /\ (s_request' = s_request \/ s_request' = NoRequest)
      /\ ReplayBooks' /\ StackOrders'
  <2>1. CASE Evicted(s_list, s_map, s_size, capacity, s_request,
                     s_list', s_map', s_size', s_request')
    BY <2>1, <1>1, EvictKeeps
  <2>2. CASE Inserted(s_list, s_map, s_size, capacity, s_request,
                      s_list', s_map', s_size', s_request')
    BY <2>2, <1>1, InsertedKeeps
  <2>3. CASE /\ name = "FIFO2" /\ s_request # NoRequest /\ s_list # << >>
             /\ s_list' = <<[Last(s_list) EXCEPT !.flag = FALSE]>> \o Front(s_list)
             /\ s_map' = s_map /\ s_request' = s_request
    BY <2>3, <1>1, RotateKeeps
  <2> QED
    BY <2>1, <2>2, <2>3 DEF InsertStep
<1>3. ReplayTypes'
  BY <1>1, <1>2 DEF ReplayTypes, Settled
<1>4. Tallies'
  BY <1>1 DEF Tallies, BytesOf, Settled
<1> QED
  BY <1>2, <1>3, <1>4

\* Reset() adds the counters of the period to the totals.
LEMMA TotalsAdded ==
    ASSUME NEW c \in Counters, NEW d \in Counters
    PROVE  LET e == [x \in DOMAIN c |-> c[x] + d[x]]
           IN  /\ e \in Counters /\ e.ho = c.ho + d.ho /\ e.so = c.so + d.so
               /\ e.wo = c.wo + d.wo /\ e.sb = c.sb + d.sb /\ e.hb = c.hb + d.hb
<1> DEFINE e == [x \in DOMAIN c |-> c[x] + d[x]]
<1>1. /\ DOMAIN c = {"ho", "so", "wo", "hb", "sb"}
      /\ c.ho \in Nat /\ c.so \in Nat /\ c.wo \in Nat /\ c.hb \in Nat /\ c.sb \in Nat
      /\ d.ho \in Nat /\ d.so \in Nat /\ d.wo \in Nat /\ d.hb \in Nat /\ d.sb \in Nat
  BY DEF Counters
<1>2. /\ e.ho = c.ho + d.ho /\ e.so = c.so + d.so /\ e.wo = c.wo + d.wo
      /\ e.hb = c.hb + d.hb /\ e.sb = c.sb + d.sb
  BY <1>1
<1>3. e = [ho |-> c.ho + d.ho, so |-> c.so + d.so, wo |-> c.wo + d.wo, hb |-> c.hb + d.hb,
           sb |-> c.sb + d.sb]
  BY <1>1
<1>4. e \in Counters
  <2> HIDE DEF e
  <2> QED
    BY <1>1, <1>3 DEF Counters
<1> QED
  BY <1>2, <1>4

\* The lines that counted and those of the period are added up.
LEMMA CountsAddUp ==
    ASSUME NEW S, NEW R, IsFiniteSet(S), IsFiniteSet(R), R \cap S = {}
    PROVE  Cardinality(S \union R) = Cardinality(S) + Cardinality(R)
<1>1. S \cap R = {} /\ Cardinality({}) = 0
  BY FS_EmptySet
<1>2. Cardinality(S) \in Nat /\ Cardinality(R) \in Nat
  BY FS_CardinalityType
<1>3. Cardinality(S \union R) = Cardinality(S) + Cardinality(R) - Cardinality(S \cap R)
  BY FS_Union
<1>4. Cardinality(S \cap R) = 0
  BY <1>1, Zenon
<1> QED
  BY <1>2, <1>3, <1>4

\* The end of a period.
LEMMA ResetKeeps ==
    ASSUME ReplayTypes, ReplayBooks, Tallies, StackOrders,
           NEW warmup \in BOOLEAN, ResetStep(warmup)
    PROVE  ReplayTypes' /\ ReplayBooks' /\ Tallies' /\ StackOrders'
<1> DEFINE R == RunningLines(trace, resets)
           C == CountedLines(trace, resets)
<1>1. /\ capacity \in Capacities /\ s_list \in Seq(Node)
      /\ trace \in Seq(Request) /\ PeriodsClosed(trace, resets)
      /\ cm \in Counters /\ total \in Counters
  BY DEF ReplayTypes
<1>2. /\ capacity' = capacity /\ name' = name /\ s_list' = s_list /\ s_map' = s_map
      /\ s_size' = s_size /\ s_request' = s_request /\ trace' = trace /\ missed' = missed
      /\ total' = IF warmup THEN total ELSE [c \in DOMAIN total |-> total[c] + cm[c]]
      /\ cm' = [ho |-> 0, so |-> 0, wo |-> 0, hb |-> 0, sb |-> 0]
      /\ resets' = Append(resets, [at |-> Len(trace), warmup |-> warmup])
  BY DEF ResetStep
<1>3. /\ PeriodsClosed(trace', resets') /\ RunningLines(trace', resets') = {}
      /\ CountedLines(trace', resets') = IF warmup THEN C ELSE C \union R
  <2>1. resets' = Ended(trace, resets, warmup)
    BY <1>2 DEF Ended
  <2>2. trace' = trace
    BY <1>2
  <2>3. /\ PeriodsClosed(trace, Ended(trace, resets, warmup))
        /\ RunningLines(trace, Ended(trace, resets, warmup)) = {}
        /\ CountedLines(trace, Ended(trace, resets, warmup)) = IF warmup THEN C ELSE C \union R
    BY <1>1, PeriodEnds
  <2> HIDE DEF C, R
  <2> QED
    BY <2>1, <2>2, <2>3
<1>4. /\ IsFiniteSet(C) /\ IsFiniteSet(R) /\ R \cap C = {}
      /\ C \in SUBSET (1 .. Len(trace)) /\ R \in SUBSET (1 .. Len(trace))
  BY <1>1, LinesFinite
<1>5. cm' \in Counters /\ cm'.ho = 0 /\ cm'.so = 0 /\ cm'.wo = 0 /\ cm'.sb = 0 /\ cm'.hb = 0
  BY <1>2 DEF Counters
<1>6. /\ total' \in Counters
      /\ warmup => total' = total
      /\ ~warmup => /\ total'.ho = total.ho + cm.ho /\ total'.so = total.so + cm.so
                    /\ total'.wo = total.wo + cm.wo /\ total'.sb = total.sb + cm.sb
                    /\ total'.hb = total.hb + cm.hb
  <2>1. CASE warmup
    BY <2>1, <1>1, <1>2
  <2>2. CASE ~warmup
    <3>1. total' = [c \in DOMAIN total |-> total[c] + cm[c]]
      BY <2>2, <1>2
    <3> QED
      BY <3>1, <2>2, <1>1, TotalsAdded
  <2> QED
    BY <2>1, <2>2
<1> HIDE DEF R, C
<1>7. ReplayTypes'
  BY <1>1, <1>2, <1>3, <1>5, <1>6 DEF ReplayTypes
<1>8. ReplayBooks'
  BY <1>2 DEF ReplayBooks
<1>9. Tallies'
  <2>1. /\ cm.so = cm.ho + cm.wo /\ cm.so = Cardinality(R)
        /\ total.so = total.ho + total.wo /\ total.so = Cardinality(C)
        /\ cm.sb = BytesOf(R) /\ cm.hb = BytesOf(R \ missed)
        /\ total.sb = BytesOf(C) /\ total.hb = BytesOf(C \ missed)
    BY DEF Tallies, R, C
  <2>2. cm'.so = cm'.ho + cm'.wo /\ cm'.so = Cardinality(RunningLines(trace', resets'))
    BY <1>3, <1>5, FS_EmptySet
  <2>3. total'.so = total'.ho + total'.wo
    <3>1. /\ cm.ho \in Nat /\ cm.wo \in Nat /\ total.ho \in Nat /\ total.wo \in Nat
      BY <1>1 DEF Counters
    <3> QED
      BY <3>1, <1>6, <2>1
  <2>4. total'.so = Cardinality(CountedLines(trace', resets'))
    <3>1. Cardinality(C \union R) = Cardinality(C) + Cardinality(R)
      BY <1>4, CountsAddUp
    <3> QED
      BY <3>1, <1>3, <1>6, <2>1
  <2>5. /\ BytesOf(C \union R) = BytesOf(C) + BytesOf(R) /\ BytesOf({}) = 0
        /\ BytesOf((C \union R) \ missed) = BytesOf(C \ missed) + BytesOf(R \ missed)
    <3>1. /\ AsStored(trace, missed) \in Seq(Request)
          /\ Len(AsStored(trace, missed)) = Len(trace)
      BY <1>1, AsStoredType DEF ReplayBooks
    <3>2. BytesOf(C \union R) = BytesOf(C) + BytesOf(R) /\ BytesOf({}) = 0
      BY <3>1, <1>4, SizesUnion DEF BytesOf
    <3>3. BytesOf((C \ missed) \union (R \ missed)) = BytesOf(C \ missed) + BytesOf(R \ missed)
      <4>1. /\ C \ missed \in SUBSET (1 .. Len(trace)) /\ R \ missed \in SUBSET (1 .. Len(trace))
            /\ (R \ missed) \cap (C \ missed) = {}
        BY <1>4
      <4> QED
        BY <4>1, <3>1, SizesUnion DEF BytesOf
    <3>4. (C \ missed) \union (R \ missed) = (C \union R) \ missed
      OBVIOUS
    <3> QED
      BY <3>2, <3>3, <3>4
  <2> DEFINE u == AsStored(trace, missed)
             R2 == RunningLines(trace', resets')
             C2 == CountedLines(trace', resets')
  <2>6. AsStored(trace', missed') = u /\ missed' = missed
    BY <1>2
  <2>7. cm'.sb = SizesOf(u, R2) /\ cm'.hb = SizesOf(u, R2 \ missed)
    <3>1. R2 = {} /\ R2 \ missed = {}
      BY <1>3
    <3> QED
      BY <3>1, <1>5, <2>5 DEF BytesOf
  <2>8. total'.sb = SizesOf(u, C2) /\ total'.hb = SizesOf(u, C2 \ missed)
    <3>1. CASE warmup
      BY <3>1, <1>3, <1>6, <2>1 DEF BytesOf
    <3>2. CASE ~warmup
      BY <3>2, <1>3, <1>6, <2>1, <2>5 DEF BytesOf
    <3> QED
      BY <3>1, <3>2
  <2> HIDE DEF u
  <2>9. /\ cm'.sb = SizesOf(AsStored(trace', missed'), R2)
        /\ cm'.hb = SizesOf(AsStored(trace', missed'), R2 \ missed')
        /\ total'.sb = SizesOf(AsStored(trace', missed'), C2)
        /\ total'.hb = SizesOf(AsStored(trace', missed'), C2 \ missed')
    BY <2>6, <2>7, <2>8
  <2> QED
    BY <2>2, <2>3, <2>4, <2>9, Zenon DEF Tallies, BytesOf
<1>10. StackOrders'
  <2> SUFFICES ASSUME NEW chunk \in {BIG, TINY}, name' = "LRU", OneChunk(trace', chunk)
               PROVE  /\ StackOrder(capacity \div chunk, chunk)'
                      /\ StackTallies(capacity \div chunk)'
    BY DEF StackOrders
  <2> DEFINE n == capacity \div chunk
  <2>1. StackOrder(n, chunk) /\ StackTallies(n)
    BY <1>2 DEF StackOrders
  <2>2. n' = n
    BY <1>2
  <2> HIDE DEF n
  <2>3. StackOrder(n, chunk)'
    BY <1>2, <2>1, <2>2 DEF StackOrder, Answered
  <2>4. StackTallies(n)'
    <3>1. /\ HitCount(trace, C \union R, n) = HitCount(trace, C, n) + HitCount(trace, R, n)
          /\ HitCount(trace, {}, n) = 0
      BY <1>4, HitCountUnion
    <3>2. cm.ho = HitCount(trace, R, n) /\ total.ho = HitCount(trace, C, n)
      BY <2>1 DEF StackTallies, R, C
    <3>3. /\ cm'.ho = HitCount(trace', RunningLines(trace', resets'), n)
          /\ total'.ho = HitCount(trace', CountedLines(trace', resets'), n)
      BY <3>1, <3>2, <1>2, <1>3, <1>5, <1>6
    <3> QED
      BY <3>3, <2>2 DEF StackTallies
  <2> QED
    BY <2>2, <2>3, <2>4 DEF n
<1> QED
  BY <1>7, <1>8, <1>9, <1>10

\* Nothing replayed yet.
LEMMA ReplayInit == Init => ReplayInv
<1> SUFFICES ASSUME Metrics!MetricsInit
             PROVE  ReplayTypes /\ ReplayBooks /\ Tallies /\ StackOrders
  BY DEF Init, ReplayInv, PairInit
<1>1. /\ s_list = << >> /\ s_map = {} /\ s_size = 0 /\ capacity \in Capacities
      /\ s_request = NoRequest
  BY DEF Metrics!MetricsInit, Metrics!Init
<1>2. /\ cm = [ho |-> 0, so |-> 0, wo |-> 0, hb |-> 0, sb |-> 0]
      /\ total = [ho |-> 0, so |-> 0, wo |-> 0, hb |-> 0, sb |-> 0]
      /\ trace = << >> /\ missed = {} /\ resets = << >>
  BY DEF Metrics!MetricsInit, Metrics!Zeroed
<1>3. /\ trace \in Seq(Request) /\ resets \in Seq(Period) /\ s_list \in Seq(Node)
      /\ Len(trace) = 0 /\ Len(resets) = 0 /\ Len(s_list) = 0 /\ 1 .. 0 = {}
      /\ DOMAIN s_list = {}
  BY <1>1, <1>2
<1>4. RunningLines(trace, resets) = {} /\ CountedLines(trace, resets) = {}
  BY <1>3 DEF RunningLines, CountedLines
<1>5. ReplayTypes
  <2>1. cm \in Counters /\ total \in Counters
    BY <1>2 DEF Counters
  <2>2. PeriodsClosed(trace, resets)
    BY <1>3 DEF PeriodsClosed
  <2> QED
    BY <1>1, <1>3, <2>1, <2>2 DEF ReplayTypes
<1>6. ReplayBooks
  <2>0. KeysOf(s_list) = {} /\ KeysDistinct(s_list)
    BY <1>3 DEF KeysOf, KeysDistinct
  <2> QED
    BY <1>1, <1>2, <1>3, <2>0 DEF ReplayBooks, FromTrace, AllWritten, KnownLast
<1>7. Tallies
  <2>1. Cardinality({}) = 0 /\ BytesOf({}) = 0
    BY FS_EmptySet, SumNothing DEF BytesOf, SizesOf
  <2>2. /\ cm.so = 0 /\ cm.ho = 0 /\ cm.wo = 0 /\ cm.sb = 0 /\ cm.hb = 0
        /\ total.so = 0 /\ total.ho = 0 /\ total.wo = 0 /\ total.sb = 0 /\ total.hb = 0
    BY <1>2
  <2>3. {} \ missed = {}
    OBVIOUS
  <2> QED
    BY <1>4, <2>1, <2>2, <2>3 DEF Tallies
<1>8. StackOrders
  <2> SUFFICES ASSUME NEW chunk \in {BIG, TINY}
               PROVE  StackOrder(capacity \div chunk, chunk) /\ StackTallies(capacity \div chunk)
    BY DEF StackOrders
  <2> DEFINE n == capacity \div chunk
  <2>1. n \in Nat
    BY <1>1, NodesFit
  <2> HIDE DEF n
  <2>3. Answered = 0
    BY <1>1, <1>3 DEF Answered
  <2>4. ByRecency(trace, 0, s_list) /\ LongUnused(trace, 0, s_list, n)
    BY <1>3 DEF ByRecency, LongUnused
  <2>5. 0 = 0 * chunk
    BY BaseAssumption DEF BaseAssumption
  <2>6. StackOrder(n, chunk)
    BY <1>1, <1>3, <2>1, <2>3, <2>4, <2>5 DEF StackOrder
  <2>7. StackTallies(n)
    <3>1. { i \in {} : IsStackHit(trace, i, n) } = {}
      OBVIOUS
    <3> QED
      BY <3>1, <1>2, <1>4, FS_EmptySet DEF StackTallies, HitCount
  <2> QED
    BY <2>6, <2>7 DEF n
<1> QED
  BY <1>5, <1>6, <1>7, <1>8

\* The inductive invariant of a replay.
THEOREM ReplayInvariant == Spec => []ReplayInv
<1>1. ASSUME ReplayInv, [Next]_<<subject, pair_vars, metrics_vars>>
      PROVE  ReplayInv'
  <2> SUFFICES ASSUME subject' = "metrics"
               PROVE  ReplayTypes' /\ ReplayBooks' /\ Tallies' /\ StackOrders'
    BY DEF ReplayInv
  <2>1. subject = "metrics"
    BY <1>1 DEF Next
  <2>2. ReplayTypes /\ ReplayBooks /\ Tallies /\ StackOrders
    BY <2>1, <1>1 DEF ReplayInv
  <2>3. CASE Metrics!MetricsNext
    BY <2>2, <2>3, MetricsSteps, HitKeeps, MissKeeps, InsertKeeps, ResetKeeps
  <2>4. CASE UNCHANGED <<subject, pair_vars, metrics_vars>>
    <3>1. /\ capacity' = capacity /\ name' = name /\ s_list' = s_list /\ s_map' = s_map
          /\ s_size' = s_size /\ s_request' = s_request /\ trace' = trace /\ missed' = missed
          /\ cm' = cm /\ total' = total /\ resets' = resets
      BY <2>4 DEF pair_vars, small_vars, metrics_vars
    <3>2. ReplayTypes' /\ ReplayBooks' /\ Tallies'
      BY <2>2, <3>1 DEF ReplayTypes, ReplayBooks, Tallies, BytesOf
    <3>3. StackOrders'
      BY <2>2, <3>1 DEF StackOrders, StackOrder, StackTallies, Answered
    <3> QED
      BY <3>2, <3>3
  <2> QED
    BY <1>1, <2>1, <2>3, <2>4 DEF Next
<1> QED
  BY ReplayInit, <1>1, PTL DEF Spec

\* cache_checkpoint.h, cacheinstance.h: the object hits that LRU reports are
\* those of the stack distances of the trace, over any number of periods.
THEOREM HitsAreMattsons == Spec => []HitsAreStackDistances
<1>1. ReplayInv => HitsAreStackDistances
  <2> SUFFICES ASSUME ReplayInv, subject = "metrics" PROVE Metrics!HitsAreStackDistances
    BY DEF HitsAreStackDistances
  <2> SUFFICES ASSUME name = "LRU", NEW chunk \in {BIG, TINY}, Metrics!OneChunkTrace(chunk)
               PROVE  LET H == Metrics!StackHits(capacity \div chunk)
                      IN  /\ cm.ho = Metrics!Cardinality(H \cap Metrics!Running)
                          /\ total.ho = Metrics!Cardinality(H \cap Metrics!Counted)
    BY Zenon DEF Metrics!HitsAreStackDistances
  <2> DEFINE n == capacity \div chunk
             H == Metrics!StackHits(n)
             R == RunningLines(trace, resets)
             C == CountedLines(trace, resets)
  <2>1. ReplayTypes /\ StackOrders /\ AllWritten(trace, missed)
    BY DEF ReplayInv, ReplayBooks
  <2>2. trace \in Seq(Request) /\ PeriodsClosed(trace, resets) /\ DOMAIN trace = 1 .. Len(trace)
    BY <2>1 DEF ReplayTypes
  <2>3. OneChunk(trace, chunk)
    BY <2>2 DEF Metrics!OneChunkTrace, Metrics!Indices, Metrics!ChunkSize, OneChunk, ChunkSize
  <2>4. cm.ho = HitCount(trace, R, n) /\ total.ho = HitCount(trace, C, n)
    BY <2>1, <2>3 DEF StackOrders, StackTallies
  <2>5. /\ Metrics!Running = R /\ Metrics!Counted = C
        /\ H = { i \in 1 .. Len(trace) : IsStackHit(trace, i, n) }
    BY <2>1, <2>2, MetricsWords
  <2>6. R \subseteq 1 .. Len(trace) /\ C \subseteq 1 .. Len(trace)
    BY <2>2, LinesFinite
  <2> HIDE DEF n, R, C, H
  <2>7. /\ H \cap R = { i \in R : IsStackHit(trace, i, n) }
        /\ H \cap C = { i \in C : IsStackHit(trace, i, n) }
    BY <2>5, <2>6
  <2>8. cm.ho = Cardinality(H \cap R) /\ total.ho = Cardinality(H \cap C)
    BY <2>4, <2>7 DEF HitCount
  <2>9. /\ Cardinality(H \cap R) = Metrics!Cardinality(H \cap Metrics!Running)
        /\ Cardinality(H \cap C) = Metrics!Cardinality(H \cap Metrics!Counted)
    BY <2>5, SameCardinality
  <2> QED
    BY <2>8, <2>9 DEF H, n
<1> QED
  BY <1>1, ReplayInvariant, PTL

\* cache_checkpoint.h, cacheinstance.h: every request counted is a hit or a
\* write, and the bytes requested and hit are those of the objects as their last
\* misses stored them.
THEOREM CountersAlwaysAgree == Spec => []CountersAgree
<1>1. ReplayInv => CountersAgree
  <2> SUFFICES ASSUME ReplayInv, subject = "metrics" PROVE Metrics!CountersAgree
    BY DEF CountersAgree
  <2> DEFINE R == RunningLines(trace, resets)
             C == CountedLines(trace, resets)
  <2>1. ReplayTypes /\ Tallies /\ AllWritten(trace, missed)
    BY DEF ReplayInv, ReplayBooks
  <2>2. trace \in Seq(Request) /\ PeriodsClosed(trace, resets) /\ DOMAIN trace = 1 .. Len(trace)
    BY <2>1 DEF ReplayTypes
  <2>4. R \in SUBSET (1 .. Len(trace)) /\ C \in SUBSET (1 .. Len(trace))
    BY <2>2, LinesFinite
  <2>5. /\ Metrics!Running = R /\ Metrics!Counted = C
        /\ \A S \in SUBSET (1 .. Len(trace)) : Metrics!BytesStored(S) = BytesOf(S)
    BY <2>1, <2>2, MetricsWords DEF BytesOf
  <2>6. /\ cm.so = cm.ho + cm.wo /\ cm.so = Cardinality(R)
        /\ total.so = total.ho + total.wo /\ total.so = Cardinality(C)
        /\ cm.sb = BytesOf(R) /\ cm.hb = BytesOf(R \ missed)
        /\ total.sb = BytesOf(C) /\ total.hb = BytesOf(C \ missed)
    BY <2>1 DEF Tallies
  <2> HIDE DEF R, C
  <2>7. Cardinality(R) = Metrics!Cardinality(R) /\ Cardinality(C) = Metrics!Cardinality(C)
    BY SameCardinality
  <2>8. /\ Metrics!BytesStored(R) = BytesOf(R) /\ Metrics!BytesStored(R \ missed) = BytesOf(R \ missed)
        /\ Metrics!BytesStored(C) = BytesOf(C) /\ Metrics!BytesStored(C \ missed) = BytesOf(C \ missed)
    <3>1. R \ missed \in SUBSET (1 .. Len(trace)) /\ C \ missed \in SUBSET (1 .. Len(trace))
      BY <2>4
    <3> QED
      BY <3>1, <2>4, <2>5
  <2> QED
    BY <2>5, <2>6, <2>7, <2>8, Zenon DEF Metrics!CountersAgree
<1> QED
  BY <1>1, ReplayInvariant, PTL
=============================================================================
