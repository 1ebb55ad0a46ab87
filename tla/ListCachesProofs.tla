-------------------------- MODULE ListCachesProofs --------------------------
(***************************************************************************)
(* The three list caches keep their books right for every set of keys and  *)
(* sizes and every capacity: type correctness, the accounting invariants,  *)
(* the eviction order and FIFO2's second chance.                           *)
(*                                                                         *)
(* Then any number of days, simulated in any order and again, each call of *)
(* CacheTest() able to die at any point: the cache stays consistent        *)
(* through load, replay and save, an uninterrupted save is complete, an    *)
(* interrupted one leaves the most valuable nodes, and loading a complete  *)
(* checkpoint that fits resumes the replay from the very same list.        *)
(***************************************************************************)
EXTENDS DailySimulation, CacheBaseProofs

\* The history names no key twice.
OrderDistinct == IsInjective(order)

\* FIFO2: a key hit and not yet spared is stored, and its node is flagged.
UsedAreFlagged ==
    name = "FIFO2" =>
        /\ used \subseteq KeysOf(list)
        /\ \A i \in DOMAIN list : list[i].key \in used => list[i].flag

\* The inductive invariant.
IInv ==
    /\ TypeOK
    /\ MapMatchesList
    /\ SizeMatchesList
    /\ WithinCapacity
    /\ InsertOnlyAbsent
    /\ OrderDistinct
    /\ StoredIsMostRecent
    /\ UsedAreFlagged

-----------------------------------------------------------------------------
\* insert() finds room in an empty cache: its loop does not reach evict().
LEMMA EmptyIsNotFull ==
    ASSUME TypeOK, SizeMatchesList, request # NoRequest
    PROVE  EvictHasVictim
<1> SUFFICES ASSUME list = << >>
             PROVE  ~Full
  BY DEF EvictHasVictim
<1>1. cache_size = 0
  BY BytesEmpty DEF SizeMatchesList
<1>2. cache_capacity \in Nat /\ BIG <= cache_capacity /\ cache_capacity + BIG < WORD
  BY BaseAssumption DEF TypeOK, BaseAssumption
<1> QED BY <1>1, <1>2, ChunkFacts DEF Full, IsFullAt, Plus

\* A stored key has a position, and PositionOf finds it.
LEMMA PositionFacts ==
    ASSUME TypeOK, MapMatchesList, NEW k \in cache_map
    PROVE  /\ PositionOf(k) \in 1 .. Len(list)
           /\ list[PositionOf(k)].key = k
  BY DEF TypeOK, MapMatchesList, KeysOf, PositionOf

\* t is the history o with k, its i-th key or a new one, brought to the front.
IsRenewed(o, i, k, t) ==
    /\ t \in Seq(Key)
    /\ IsInjective(t)
    /\ Len(o) <= Len(t) /\ i <= Len(t)
    /\ \A j \in 1 .. Len(o) : o[j] = k <=> j = i
    /\ t[1] = k
    /\ \A j \in 2 .. Len(t) : t[j] = IF j <= i THEN o[j - 1] ELSE o[j]

\* What Renewed does to the history.
LEMMA RenewedFacts ==
    ASSUME TypeOK, OrderDistinct, NEW k \in Key
    PROVE  \E i \in 1 .. Len(order) + 1 : IsRenewed(order, i, k, Renewed(k))
<1> DEFINE o == order
           n == Len(order)
           t == Renewed(k)
<1>1. o \in Seq(Key) /\ n \in Nat /\ DOMAIN o = 1 .. n
  BY DEF TypeOK
<1>2. CASE \E i \in 1 .. n : o[i] = k
  <2>1. PICK i \in 1 .. n : o[i] = k
    BY <1>2
  <2>2. \A j \in 1 .. n : o[j] = k <=> j = i
    BY <2>1, <1>1 DEF OrderDistinct, IsInjective
  <2>3. t = <<k>> \o RemoveAt(o, i)
    BY <1>1, <2>1, <2>2, RemoveFirstFacts DEF Renewed
  <2>4. /\ t \in Seq(Key) /\ Len(t) = n /\ t[1] = k
        /\ \A j \in 2 .. n : t[j] = IF j <= i THEN o[j - 1] ELSE o[j]
    <3>1. IsFronted(Key, o, i, k, <<k>> \o RemoveAt(o, i))
      BY <1>1, RemovedToFront
    <3> HIDE DEF t
    <3> QED BY <2>3, <3>1 DEF IsFronted
  <2> HIDE DEF t
  <2>5. IsInjective(t)
    <3> SUFFICES ASSUME NEW a \in 1 .. n, NEW b \in 1 .. n, t[a] = t[b]
                 PROVE  a = b
      BY <2>4 DEF IsInjective
    <3> DEFINE of(j) == IF j = 1 THEN i ELSE IF j <= i THEN j - 1 ELSE j
    <3>1. \A j \in 1 .. n : of(j) \in 1 .. n /\ t[j] = o[of(j)]
      <4> SUFFICES ASSUME NEW j \in 1 .. n
                   PROVE  of(j) \in 1 .. n /\ t[j] = o[of(j)]
        OBVIOUS
      <4>1. CASE j = 1
        BY <4>1, <2>1, <2>4
      <4>2. CASE j \in 2 .. n
        BY <4>2, <2>4
      <4> QED BY <4>1, <4>2
    <3>2. of(a) = of(b)
      <4>1. o[of(a)] = o[of(b)] /\ of(a) \in DOMAIN o /\ of(b) \in DOMAIN o
        BY <3>1, <1>1
      <4> HIDE DEF of
      <4> QED BY <4>1 DEF OrderDistinct, IsInjective
    <3> QED BY <3>2
  <2>6. IsRenewed(o, i, k, t) /\ i \in 1 .. n + 1
    BY <1>1, <2>2, <2>4, <2>5 DEF IsRenewed
  <2> QED BY <2>6 DEF t
<1>3. CASE ~\E i \in 1 .. n : o[i] = k
  <2>1. t = <<k>> \o o
    BY <1>3 DEF Renewed, RemoveFirst
  <2>2. /\ t \in Seq(Key) /\ Len(t) = n + 1 /\ t[1] = k
        /\ \A j \in 2 .. n + 1 : t[j] = o[j - 1]
    BY <1>1, <2>1
  <2> HIDE DEF t
  <2>3. IsInjective(t)
    <3> SUFFICES ASSUME NEW a \in 1 .. n + 1, NEW b \in 1 .. n + 1, t[a] = t[b]
                 PROVE  a = b
      BY <2>2 DEF IsInjective
    <3>1. \A j \in 2 .. n + 1 : j - 1 \in 1 .. n /\ t[j] # k
      BY <1>1, <1>3, <2>2
    <3>2. CASE a = 1 \/ b = 1
      BY <3>1, <3>2, <2>2, <1>1
    <3>3. CASE a \in 2 .. n + 1 /\ b \in 2 .. n + 1
      <4>1. o[a - 1] = o[b - 1]
        BY <3>3, <2>2
      <4>2. a - 1 = b - 1
        BY <4>1, <3>1, <3>3, <1>1 DEF OrderDistinct, IsInjective
      <4> QED BY <4>2
    <3> QED BY <3>2, <3>3
  <2>4. n + 1 \in 1 .. n + 1 /\ \A j \in 1 .. n : o[j] = k <=> j = n + 1
    BY <1>1, <1>3
  <2>5. \A j \in 2 .. Len(t) : t[j] = IF j <= n + 1 THEN o[j - 1] ELSE o[j]
    BY <2>2
  <2>6. IsRenewed(o, n + 1, k, t)
    BY <1>1, <2>2, <2>3, <2>4, <2>5 DEF IsRenewed
  <2> QED BY <2>4, <2>6 DEF t
<1> QED BY <1>2, <1>3

-----------------------------------------------------------------------------
\* The invariant holds of a new cache.
LEMMA InitIInv == Init => IInv
<1> SUFFICES ASSUME Init PROVE IInv
  OBVIOUS
<1>1. cache_capacity \in Nat /\ BIG <= cache_capacity /\ cache_capacity + BIG < WORD
  BY BaseAssumption DEF Init, BaseAssumption
<1>2. TypeOK
  BY <1>1, ChunkFacts DEF Init, TypeOK, Word
<1>3. MapMatchesList /\ SizeMatchesList /\ WithinCapacity /\ InsertOnlyAbsent
  BY <1>1, BytesEmpty
     DEF Init, MapMatchesList, KeysDistinct, KeysOf, SizeMatchesList, WithinCapacity,
         InsertOnlyAbsent
<1>4. OrderDistinct /\ StoredIsMostRecent /\ UsedAreFlagged
  BY DEF Init, OrderDistinct, IsInjective, StoredIsMostRecent, UsedAreFlagged
<1> QED BY <1>2, <1>3, <1>4 DEF IInv

\* Moving a node to the front of the list and its key to the front of the
\* history: LRU's hit and FIFO2's second chance.
LEMMA FrontKeeps ==
    ASSUME IInv, NEW i \in 1 .. Len(list), NEW m \in Node,
           m.key = list[i].key, m.size = list[i].size,
           IsFronted(Node, list, i, m, list'), order' = Renewed(m.key),
           UNCHANGED <<name, cache_map, cache_size, cache_capacity, request>>,
           used' \in SUBSET Key
    PROVE  /\ TypeOK' /\ MapMatchesList' /\ SizeMatchesList' /\ WithinCapacity'
           /\ InsertOnlyAbsent' /\ OrderDistinct' /\ StoredIsMostRecent'
<1> USE DEF IInv
<1> DEFINE n == Len(list)
           k == m.key
<1>1. /\ list \in Seq(Node) /\ n \in Nat /\ DOMAIN list = 1 .. n
      /\ i \in 1 .. n /\ list[i].key = k /\ k \in Key
  BY DEF TypeOK, Node
<1>2. KeysDistinct(list') /\ KeysOf(list') = KeysOf(list) /\ Bytes(list') = Bytes(list)
  <2>1. list' \in Seq(Node)
    BY DEF IsFronted
  <2> QED BY <1>1, <2>1, ToFront DEF MapMatchesList
<1> HIDE DEF k
<1>3. TypeOK'
  <2>1. order' \in Seq(Key)
    BY <1>1, RenewedFacts DEF IsRenewed, k
  <2>2. list' \in Seq(Node)
    BY DEF IsFronted
  <2> QED BY <2>1, <2>2 DEF TypeOK
<1>4. (MapMatchesList /\ SizeMatchesList /\ WithinCapacity /\ InsertOnlyAbsent)'
  BY <1>2 DEF MapMatchesList, SizeMatchesList, WithinCapacity, InsertOnlyAbsent
<1>5. OrderDistinct'
  BY <1>1, RenewedFacts DEF OrderDistinct, IsRenewed, k
<1>6. StoredIsMostRecent'
  <2>1. order[i] = k /\ n <= Len(order) /\ \A j \in 1 .. n : list[j].key = order[j]
    BY <1>1 DEF StoredIsMostRecent
  <2>2. PICK p \in 1 .. Len(order) + 1 : IsRenewed(order, p, k, order')
    BY <1>1, RenewedFacts DEF k
  <2>3. order \in Seq(Key) /\ Len(order) \in Nat /\ Len(order') \in Nat
    BY <1>3 DEF TypeOK
  <2>4. p = i
    BY <2>1, <2>2, <2>3, <1>1 DEF IsRenewed
  <2>5. ASSUME NEW j \in 1 .. n
        PROVE  list'[j].key = order'[j]
    <3>1. CASE j = 1
      BY <3>1, <2>2 DEF IsRenewed, IsFronted, k
    <3>2. CASE j # 1
      <4>1. j \in 2 .. n /\ j \in 2 .. Len(order') /\ j - 1 \in 1 .. n
        BY <3>2, <1>1, <2>1, <2>2, <2>3 DEF IsRenewed
      <4> QED BY <4>1, <2>1, <2>2, <2>4 DEF IsRenewed, IsFronted
    <3> QED BY <3>1, <3>2
  <2> QED BY <1>1, <2>1, <2>2, <2>3, <2>5 DEF StoredIsMostRecent, IsRenewed, IsFronted
<1> QED BY <1>3, <1>4, <1>5, <1>6

-----------------------------------------------------------------------------
\* LRU's hit.
LEMMA HitLRUKeeps ==
    ASSUME IInv, NEW k \in Key, GetHitLRU(k)
    PROVE  IInv'
<1> USE DEF IInv
<1> DEFINE i == PositionOf(k)
<1>1. i \in 1 .. Len(list) /\ list[i].key = k
  BY PositionFacts DEF GetHitLRU
<1>2. list \in Seq(Node) /\ list[i] \in Node
  BY <1>1 DEF TypeOK
<1>3. IsFronted(Node, list, i, list[i], list')
  BY <1>1, <1>2, RemovedToFront DEF GetHitLRU, Promoted
<1>4. /\ UNCHANGED <<name, cache_map, cache_size, cache_capacity, request, used>>
      /\ name = "LRU" /\ used' \in SUBSET Key /\ order' = Renewed(list[i].key)
  BY <1>1 DEF GetHitLRU, TypeOK
<1> HIDE DEF i
<1>5. /\ TypeOK' /\ MapMatchesList' /\ SizeMatchesList' /\ WithinCapacity'
      /\ InsertOnlyAbsent' /\ OrderDistinct' /\ StoredIsMostRecent'
  BY <1>1, <1>2, <1>3, <1>4, FrontKeeps
<1> QED BY <1>4, <1>5 DEF UsedAreFlagged

\* FIFO2's hit sets a flag and remembers it.
LEMMA HitFIFO2Keeps ==
    ASSUME IInv, NEW k \in Key, GetHitFIFO2(k)
    PROVE  IInv'
<1> USE DEF IInv
<1> DEFINE i == PositionOf(k)
<1>1. i \in 1 .. Len(list) /\ list[i].key = k
  BY PositionFacts DEF GetHitFIFO2
<1>2. list \in Seq(Node) /\ DOMAIN list = 1 .. Len(list)
  BY DEF TypeOK
<1>3. list' = [list EXCEPT ![i].flag = TRUE]
  BY DEF GetHitFIFO2, Flagged
<1> HIDE DEF i
<1>4. /\ list' \in Seq(Node) /\ Len(list') = Len(list) /\ DOMAIN list' = DOMAIN list
      /\ \A j \in DOMAIN list : /\ list'[j].key = list[j].key
                                /\ list'[j].size = list[j].size
                                /\ list'[j].flag = (j = i \/ list[j].flag)
  <2>1. [list[i] EXCEPT !.flag = TRUE] \in Node
    <3>1. list[i] \in Node
      BY <1>1, <1>2
    <3> QED BY <3>1 DEF Node
  <2>2. list' \in Seq(Node) /\ Len(list') = Len(list) /\ DOMAIN list' = DOMAIN list
    BY <1>1, <1>2, <1>3, <2>1, ExceptSeq
  <2>3. ASSUME NEW j \in DOMAIN list
        PROVE  /\ list'[j].key = list[j].key /\ list'[j].size = list[j].size
               /\ list'[j].flag = (j = i \/ list[j].flag)
    <3>1. list[j] \in Node
      BY <1>2
    <3> QED BY <1>2, <1>3, <3>1 DEF Node
  <2> QED BY <2>2, <2>3
<1>5. KeysDistinct(list') /\ KeysOf(list') = KeysOf(list)
      /\ \A c : KeysOfChunk(list', c) = KeysOfChunk(list, c)
  BY <1>4 DEF MapMatchesList, KeysDistinct, KeysOf, KeysOfChunk
<1>6. Bytes(list') = Bytes(list)
  BY <1>5, BytesSame
<1>7. /\ UNCHANGED <<name, cache_map, cache_size, cache_capacity, request, order>>
      /\ used' = used \cup {k} /\ k \in KeysOf(list)
  BY DEF GetHitFIFO2, MapMatchesList
<1>8. (TypeOK /\ OrderDistinct)'
  BY <1>4, <1>7 DEF TypeOK, OrderDistinct
<1>9. (MapMatchesList /\ SizeMatchesList /\ WithinCapacity /\ InsertOnlyAbsent)'
  BY <1>5, <1>6, <1>7 DEF MapMatchesList, SizeMatchesList, WithinCapacity, InsertOnlyAbsent
<1>10. StoredIsMostRecent'
  BY <1>4, <1>7 DEF StoredIsMostRecent
<1>11. UsedAreFlagged'
  <2>1. \A j \in DOMAIN list : list[j].key = k => j = i
    BY <1>1, <1>2 DEF MapMatchesList, KeysDistinct
  <2> QED BY <1>4, <1>5, <1>7, <2>1 DEF UsedAreFlagged
<1> QED BY <1>8, <1>9, <1>10, <1>11

\* A miss only remembers what is to be inserted.
LEMMA MissKeeps ==
    ASSUME IInv, NEW k \in Key, NEW s \in Size, GetMiss(k, s)
    PROVE  IInv'
<1> USE DEF IInv, GetMiss
<1>1. request' \in Request /\ request'.key = k
  BY DEF Request
<1>2. TypeOK' /\ InsertOnlyAbsent'
  BY <1>1 DEF TypeOK, InsertOnlyAbsent, MapMatchesList
<1> QED
  BY <1>2 DEF MapMatchesList, SizeMatchesList, WithinCapacity, OrderDistinct,
              StoredIsMostRecent, UsedAreFlagged

\* An eviction takes the tail node off the list, the map and the size.
LEMMA EvictKeeps ==
    ASSUME IInv, EvictTail
    PROVE  IInv'
<1> USE DEF IInv
<1> DEFINE f == Front(list)
           l == Last(list)
           n == Len(list)
<1>1. /\ list \in Seq(Node) /\ list # << >> /\ KeysDistinct(list)
      /\ DOMAIN list = 1 .. n
  BY DEF EvictTail, TypeOK, MapMatchesList
<1>2. /\ f \in Seq(Node) /\ n \in Nat /\ 0 < n /\ l = list[n] /\ l \in Node
      /\ Len(f) = n - 1 /\ DOMAIN f = 1 .. n - 1
      /\ \A i \in 1 .. n - 1 : f[i] = list[i]
      /\ KeysDistinct(f)
      /\ KeysOf(f) = KeysOf(list) \ {l.key}
      /\ Bytes(list) = Bytes(f) + ChunkSize(l.size)
  <2>1. /\ f \in Seq(Node) /\ n \in Nat /\ 0 < n /\ l = list[n] /\ l \in Node
        /\ Len(f) = n - 1 /\ \A i \in 1 .. n - 1 : f[i] = list[i]
    BY <1>1, FrontNode
  <2>2. /\ KeysDistinct(f)
        /\ KeysOf(f) = KeysOf(list) \ {l.key}
        /\ Bytes(list) = Bytes(f) + ChunkSize(l.size)
    BY <1>1, FrontNode
  <2> HIDE DEF f, l, n
  <2> QED BY <2>1, <2>2
<1> HIDE DEF f, l, n
<1>3. /\ list' = f /\ cache_map' = cache_map \ {l.key}
      /\ cache_size' = Minus(cache_size, ChunkSize(l.size))
      /\ UNCHANGED <<name, cache_capacity, request, order, used>>
  BY DEF EvictTail, MapErased, Charge, f, l
<1>4. cache_size' = Bytes(f) /\ Bytes(f) \in Nat /\ cache_size' <= cache_size
  <2>1. Bytes(f) \in Nat /\ ChunkSize(l.size) \in Nat
    BY <1>2, BytesType, ChunkFacts
  <2> QED BY <2>1, <1>2, <1>3 DEF SizeMatchesList, Minus
<1>5. cache_size \in Nat /\ cache_capacity \in Nat /\ WORD \in Nat /\ cache_size < WORD
  BY ChunkFacts, BaseAssumption DEF TypeOK, Word, BaseAssumption
<1>6. TypeOK'
  BY <1>2, <1>3, <1>4, <1>5 DEF TypeOK, Word
<1>7. (MapMatchesList /\ SizeMatchesList /\ InsertOnlyAbsent)'
  BY <1>2, <1>3, <1>4 DEF MapMatchesList, SizeMatchesList, InsertOnlyAbsent
<1>8. WithinCapacity'
  BY <1>3, <1>4, <1>5 DEF WithinCapacity
<1>9. OrderDistinct' /\ StoredIsMostRecent'
  <2>1. Len(order) \in Nat
    BY DEF TypeOK
  <2> QED BY <2>1, <1>1, <1>2, <1>3 DEF OrderDistinct, StoredIsMostRecent
<1>10. UsedAreFlagged'
  <2> SUFFICES ASSUME name = "FIFO2"
               PROVE  /\ used \subseteq KeysOf(f)
                      /\ \A i \in DOMAIN f : f[i].key \in used => f[i].flag
    BY <1>3 DEF UsedAreFlagged
  <2>1. ~l.flag
    BY DEF EvictTail, TailExpendable, l
  <2>2. n \in DOMAIN list /\ \A i \in DOMAIN f : i \in DOMAIN list
    BY <1>1, <1>2
  <2>3. l.key \notin used
    BY <2>1, <2>2, <1>2 DEF UsedAreFlagged
  <2> QED BY <2>2, <2>3, <1>2 DEF UsedAreFlagged
<1> QED BY <1>6, <1>7, <1>8, <1>9, <1>10

\* A second chance moves the tail node to the front and uses up its flag.
LEMMA RotateKeeps ==
    ASSUME IInv, RotateTail
    PROVE  IInv'
<1> USE DEF IInv
<1> DEFINE f == Front(list)
           l == Last(list)
           n == Len(list)
           m == Spared(l)
<1>1. list \in Seq(Node) /\ list # << >> /\ KeysDistinct(list) /\ DOMAIN list = 1 .. n
  BY DEF RotateTail, TypeOK, MapMatchesList
<1>2. /\ f \in Seq(Node) /\ n \in Nat /\ 0 < n /\ l = list[n] /\ l \in Node
      /\ Len(f) = n - 1 /\ \A i \in 1 .. n - 1 : f[i] = list[i]
  BY <1>1, FrontNode
<1>3. m \in Node /\ m.key = l.key /\ m.size = l.size
  BY <1>2 DEF Spared, Node
<1>4. /\ list' = <<m>> \o f /\ order' = Renewed(l.key) /\ used' = used \ {l.key}
      /\ UNCHANGED <<name, cache_map, cache_size, cache_capacity, request>>
  BY DEF RotateTail
<1> HIDE DEF f, l, n, m
<1>5. n \in 1 .. Len(list) /\ IsWithout(Node, list, n, f)
  BY <1>2 DEF IsWithout, n
<1>6. IsFronted(Node, list, n, m, list')
  BY <1>1, <1>3, <1>4, <1>5, FrontedFacts
<1>7. /\ TypeOK' /\ MapMatchesList' /\ SizeMatchesList' /\ WithinCapacity'
      /\ InsertOnlyAbsent' /\ OrderDistinct' /\ StoredIsMostRecent'
  <2>1. used' \in SUBSET Key
    BY <1>4 DEF TypeOK
  <2> QED BY <2>1, <1>2, <1>3, <1>4, <1>5, <1>6, FrontKeeps
<1>8. UsedAreFlagged'
  <2> SUFFICES ASSUME name = "FIFO2"
               PROVE  /\ used' \subseteq KeysOf(list')
                      /\ \A i \in DOMAIN list' : list'[i].key \in used' => list'[i].flag
    BY <1>4 DEF UsedAreFlagged
  <2>1. KeysOf(list') = KeysOf(list)
    BY <1>4, <1>7 DEF MapMatchesList
  <2>2. ASSUME NEW i \in DOMAIN list', list'[i].key \in used'
        PROVE  list'[i].flag
    <3>1. list'[1] = m /\ DOMAIN list' = 1 .. n /\ Len(list) = n
      BY <1>6 DEF IsFronted, n
    <3>2. i # 1
      BY <2>2, <3>1, <1>3, <1>4
    <3>3. i \in 2 .. n /\ i - 1 \in DOMAIN list
      BY <3>1, <3>2, <1>1, <1>2
    <3>4. list'[i] = list[i - 1]
      BY <3>1, <3>3, <1>6 DEF IsFronted
    <3> QED BY <2>2, <3>3, <3>4, <1>4 DEF UsedAreFlagged
  <2> QED BY <2>1, <2>2, <1>4 DEF UsedAreFlagged
<1> QED BY <1>7, <1>8

\* The insertion of a key that is absent, into a cache with room for it.
LEMMA InsertKeeps ==
    ASSUME IInv, InsertNode
    PROVE  IInv'
<1> USE DEF IInv
<1> DEFINE m == NewNode(request)
           k == request.key
           n == Len(list)
<1>1. /\ list \in Seq(Node) /\ KeysDistinct(list) /\ DOMAIN list = 1 .. n
      /\ n \in Nat /\ k \notin KeysOf(list) /\ k \in Key /\ m \in Node
      /\ m.key = k /\ m.size = request.size /\ ~m.flag
  BY NoRequestAssumption
     DEF InsertNode, TypeOK, MapMatchesList, InsertOnlyAbsent, Request, Node, NewNode
<1>2. /\ list' = <<m>> \o list /\ cache_map' = cache_map \cup {k}
      /\ cache_size' = Plus(cache_size, ChunkSize(m.size))
      /\ order' = Renewed(k) /\ request' = NoRequest
      /\ UNCHANGED <<name, cache_capacity, used>>
  BY <1>1 DEF InsertNode
<1>3. ~(Plus(cache_size, ChunkSize(m.size)) > cache_capacity)
  BY <1>1 DEF InsertNode, Full, IsFullAt
<1> HIDE DEF m, k, n
<1>4. /\ list' \in Seq(Node) /\ Len(list') = n + 1
      /\ list'[1] = m /\ \A i \in 1 .. n : list'[i + 1] = list[i]
      /\ KeysDistinct(list')
      /\ KeysOf(list') = KeysOf(list) \cup {k}
      /\ Bytes(list') = Bytes(list) + ChunkSize(m.size)
  BY <1>1, <1>2, ConsNode DEF n
<1>5. DOMAIN list' = 1 .. n + 1 /\ \A i \in 2 .. n + 1 : list'[i] = list[i - 1]
  BY <1>1, <1>4
<1>6. /\ cache_size \in Nat /\ cache_capacity \in Nat /\ WORD \in Nat
      /\ cache_size <= cache_capacity /\ cache_capacity + BIG < WORD
      /\ ChunkSize(m.size) \in Nat /\ ChunkSize(m.size) <= BIG /\ BIG \in Nat
  BY ChunkFacts, BaseAssumption DEF TypeOK, Word, BaseAssumption, WithinCapacity
<1>7. cache_size' = cache_size + ChunkSize(m.size) /\ cache_size' <= cache_capacity
  BY <1>2, <1>3, <1>6 DEF Plus
<1>8. TypeOK'
  <2>1. order' \in Seq(Key)
    BY <1>1, <1>2, RenewedFacts DEF IsRenewed
  <2>2. cache_size' \in Word
    BY <1>6, <1>7 DEF Word
  <2> QED BY <2>1, <2>2, <1>1, <1>2, <1>4 DEF TypeOK
<1>9. (MapMatchesList /\ SizeMatchesList /\ WithinCapacity /\ InsertOnlyAbsent)'
  BY <1>2, <1>4, <1>7
     DEF MapMatchesList, SizeMatchesList, WithinCapacity, InsertOnlyAbsent
<1>10. OrderDistinct' /\ StoredIsMostRecent'
  <2>1. PICK p \in 1 .. Len(order) + 1 : IsRenewed(order, p, k, order')
    BY <1>1, <1>2, RenewedFacts
  <2>2. Len(order) \in Nat /\ Len(order') \in Nat /\ n <= Len(order)
        /\ \A j \in 1 .. n : list[j].key = order[j]
    <3>1. order \in Seq(Key) /\ order' \in Seq(Key)
      BY <1>8 DEF TypeOK
    <3>2. n <= Len(order) /\ \A j \in 1 .. n : list[j].key = order[j]
      BY <1>1 DEF StoredIsMostRecent, n
    <3> QED BY <3>1, <3>2
  <2>3. n < p
    <3> SUFFICES ASSUME p \in 1 .. n
                 PROVE  FALSE
      BY <1>1, <2>2
    <3>1. order[p] = k
      BY <2>1, <2>2, <1>1 DEF IsRenewed
    <3> QED BY <3>1, <2>2, <1>1 DEF KeysOf
  <2>4. n + 1 <= Len(order')
    BY <2>1, <2>2, <2>3, <1>1 DEF IsRenewed
  <2>5. ASSUME NEW j \in 1 .. n + 1
        PROVE  list'[j].key = order'[j]
    <3>1. CASE j = 1
      BY <3>1, <1>1, <1>4, <2>1 DEF IsRenewed
    <3>2. CASE j # 1
      <4>1. j \in 2 .. n + 1 /\ j \in 2 .. Len(order') /\ j - 1 \in 1 .. n /\ j <= p
        BY <3>2, <1>1, <2>2, <2>3, <2>4
      <4> QED BY <4>1, <1>5, <2>1, <2>2 DEF IsRenewed
    <3> QED BY <3>1, <3>2
  <2> QED BY <2>1, <2>4, <2>5, <1>4, <1>5 DEF StoredIsMostRecent, OrderDistinct, IsRenewed
<1>11. UsedAreFlagged'
  <2> SUFFICES ASSUME name = "FIFO2"
               PROVE  /\ used \subseteq KeysOf(list')
                      /\ \A i \in DOMAIN list' : list'[i].key \in used => list'[i].flag
    BY <1>2 DEF UsedAreFlagged
  <2>1. k \notin used
    BY <1>1 DEF UsedAreFlagged
  <2>2. ASSUME NEW i \in DOMAIN list', list'[i].key \in used
        PROVE  list'[i].flag
    <3>1. i # 1
      BY <2>1, <2>2, <1>1, <1>4
    <3>2. i \in 2 .. n + 1 /\ i - 1 \in DOMAIN list
      BY <3>1, <1>1, <1>5
    <3> QED BY <2>2, <3>2, <1>5 DEF UsedAreFlagged
  <2> QED BY <2>2, <1>4 DEF UsedAreFlagged
<1> QED BY <1>8, <1>9, <1>10, <1>11

-----------------------------------------------------------------------------
\* Every step keeps the invariant.
LEMMA NextKeeps == IInv /\ [Next]_vars => IInv'
<1> SUFFICES ASSUME IInv, [Next]_vars PROVE IInv'
  OBVIOUS
<1>1. CASE UNCHANGED vars
  BY <1>1 DEF vars, IInv, TypeOK, MapMatchesList, SizeMatchesList, WithinCapacity,
              InsertOnlyAbsent, OrderDistinct, StoredIsMostRecent, UsedAreFlagged
<1>2. ASSUME NEW k \in Key, GetHitLRU(k) PROVE IInv'
  BY <1>2, HitLRUKeeps
<1>3. ASSUME NEW k \in Key, GetHitFIFO(k) PROVE IInv'
  BY <1>1, <1>3 DEF GetHitFIFO
<1>4. ASSUME NEW k \in Key, GetHitFIFO2(k) PROVE IInv'
  BY <1>4, HitFIFO2Keeps
<1>5. ASSUME NEW k \in Key, NEW s \in Size, GetMiss(k, s) PROVE IInv'
  BY <1>5, MissKeeps
<1>6. CASE EvictTail
  BY <1>6, EvictKeeps
<1>7. CASE RotateTail
  BY <1>7, RotateKeeps
<1>8. CASE InsertNode
  BY <1>8, InsertKeeps
<1> QED
  BY <1>1, <1>2, <1>3, <1>4, <1>5, <1>6, <1>7, <1>8 DEF Next, Get, Insert

\* The invariant is invariant.
LEMMA Invariance == Spec => []IInv
  BY InitIInv, NextKeeps, PTL DEF Spec

\* The state keeps its shape through get() and insert(): the list holds nodes,
\* cache_size_ stays a machine word.
THEOREM TypeCorrect == Spec => []TypeOK
<1>1. IInv => TypeOK
  BY DEF IInv
<1> QED BY <1>1, Invariance, PTL

\* The map, the list and cache_size_ agree in every state, whatever mix of big
\* and tiny chunks get() and insert() (lru.h, fifo.h, fifo2.h) have seen.
THEOREM Accounting == Spec => []BooksBalance
<1>1. IInv => BooksBalance
  BY DEF IInv, BooksBalance
<1> QED BY <1>1, Invariance, PTL

\* The cache never holds more than its capacity (Cache::IsFull).
THEOREM CapacityIsRespected == Spec => []WithinCapacity
<1>1. IInv => WithinCapacity
  BY DEF IInv
<1> QED BY <1>1, Invariance, PTL

\* evict() is never entered with an empty list, where std::prev(end()) would be
\* undefined.
THEOREM VictimExists == Spec => []EvictHasVictim
<1>1. IInv => EvictHasVictim
  BY EmptyIsNotFull DEF IInv, EvictHasVictim
<1> QED BY <1>1, Invariance, PTL

\* What is stored is the most recent part of the history: evict() drops the
\* oldest, for each of the three policies.
THEOREM EvictionByAge == Spec => []StoredIsMostRecent
<1>1. IInv => StoredIsMostRecent
  BY DEF IInv
<1> QED BY <1>1, Invariance, PTL

\* FIFO2's evict() never drops a key hit since it was inserted or last spared.
THEOREM HitsEarnASecondChance == Spec => SecondChance
<1>1. IInv /\ [Next]_vars
      => [name = "FIFO2" => (KeysOf(list) \ KeysOf(list')) \cap used = {}]_vars
  <2> SUFFICES ASSUME IInv, Next, name = "FIFO2"
               PROVE  (KeysOf(list) \ KeysOf(list')) \cap used = {}
    OBVIOUS
  <2>1. CASE EvictTail
    <3>1. /\ list \in Seq(Node) /\ list # << >> /\ KeysDistinct(list)
          /\ list' = Front(list) /\ ~Last(list).flag
      BY <2>1 DEF IInv, TypeOK, MapMatchesList, EvictTail, TailExpendable
    <3>2. KeysOf(list') = KeysOf(list) \ {Last(list).key}
      BY <3>1, FrontNode
    <3>3. Len(list) \in DOMAIN list /\ Last(list) = list[Len(list)]
      BY <3>1, FrontNode
    <3>4. Last(list).key \notin used
      BY <3>1, <3>3 DEF IInv, UsedAreFlagged
    <3> QED BY <3>2, <3>4
  <2>2. CASE ~EvictTail
    <3>1. cache_map \subseteq cache_map'
      BY <2>2 DEF Next, Get, Insert, GetHitLRU, GetHitFIFO, GetHitFIFO2, GetMiss,
                  RotateTail, InsertNode, vars
    <3>2. IInv'
      BY NextKeeps
    <3> QED BY <3>1, <3>2 DEF IInv, MapMatchesList
  <2> QED BY <2>1, <2>2
<1> QED BY <1>1, Invariance, PTL DEF Spec, SecondChance
-----------------------------------------------------------------------------
\* The abstract cache a list stands for: each stored key and its chunk size.
Resident(l) ==
    [k \in KeysOf(l) |-> ChunkSize(l[CHOOSE i \in DOMAIN l : l[i].key = k].size)]

\* The keys of l charged as chunk c are those the abstract cache holds at c.
LEMMA ResidentFacts ==
    ASSUME NEW l \in Seq(Node), KeysDistinct(l)
    PROVE  /\ DOMAIN Resident(l) = KeysOf(l)
           /\ \A i \in DOMAIN l : Resident(l)[l[i].key] = ChunkSize(l[i].size)
           /\ \A c : { k \in DOMAIN Resident(l) : Resident(l)[k] = c } = KeysOfChunk(l, c)
<1>1. DOMAIN Resident(l) = KeysOf(l)
  BY DEF Resident
<1>2. ASSUME NEW i \in DOMAIN l
      PROVE  Resident(l)[l[i].key] = ChunkSize(l[i].size)
  <2> DEFINE x == CHOOSE j \in DOMAIN l : l[j].key = l[i].key
  <2>1. x \in DOMAIN l /\ l[x].key = l[i].key
    BY <1>2
  <2>2. x = i
    BY <2>1 DEF KeysDistinct
  <2>3. l[i].key \in KeysOf(l)
    BY DEF KeysOf
  <2>4. Resident(l)[l[i].key] = ChunkSize(l[x].size)
    BY <2>3 DEF Resident
  <2> QED BY <2>2, <2>4
<1>3. ASSUME NEW c
      PROVE  { k \in DOMAIN Resident(l) : Resident(l)[k] = c } = KeysOfChunk(l, c)
  BY <1>1, <1>2 DEF KeysOf, KeysOfChunk
<1> QED BY <1>1, <1>2, <1>3

\* Reordering the nodes, or dropping some, changes no chunk size.
LEMMA ResidentKept ==
    ASSUME NEW l \in Seq(Node), KeysDistinct(l), NEW m \in Seq(Node), KeysDistinct(m),
           \A j \in DOMAIN m : \E i \in DOMAIN l : m[j].key = l[i].key /\ m[j].size = l[i].size
    PROVE  Resident(m) = [k \in KeysOf(m) |-> Resident(l)[k]]
<1>1. ASSUME NEW k \in KeysOf(m)
      PROVE  Resident(m)[k] = Resident(l)[k]
  <2>1. PICK j \in DOMAIN m : m[j].key = k
    BY DEF KeysOf
  <2>2. PICK i \in DOMAIN l : l[i].key = k /\ m[j].size = l[i].size
    BY <2>1
  <2> QED BY <2>1, <2>2, ResidentFacts
<1> HIDE DEF Resident
<1>2. Resident(m) = [k \in KeysOf(m) |-> Resident(m)[k]]
  BY DEF Resident
<1> QED BY <1>1, <1>2

\* The abstract load is cache_size_, so what fits there is what is not full here.
LEMMA FitsIffNotFull ==
    ASSUME IInv, request # NoRequest
    PROVE  Abstract!Fits <=> ~Full
<1>1. list \in Seq(Node) /\ KeysDistinct(list) /\ cache_size = Bytes(list)
  BY DEF IInv, TypeOK, MapMatchesList, SizeMatchesList
<1>2. \A c : Abstract!Holding(c) = KeysOfChunk(list, c)
  BY <1>1, ResidentFacts, Zenon DEF Abstract!Holding, Resident, PositionOf
<1>3. Abstract!Load = cache_size
  <2>1. /\ Abstract!Holding(BIG) = KeysOfChunk(list, BIG)
        /\ Abstract!Holding(TINY) = KeysOfChunk(list, TINY)
    BY <1>2
  <2>2. Abstract!Load = BIG * Cardinality(Abstract!Holding(BIG))
                        + TINY * Cardinality(Abstract!Holding(TINY))
    BY Zenon DEF Abstract!Load, Abstract!Cardinality, Cardinality
  <2> QED BY <1>1, <2>1, <2>2, Zenon DEF Bytes
<1>4. /\ cache_size \in Nat /\ cache_size <= cache_capacity
      /\ cache_capacity \in Nat /\ cache_capacity + BIG < WORD
  BY <1>1, BytesType, BaseAssumption DEF IInv, TypeOK, WithinCapacity, BaseAssumption
<1> DEFINE c == ChunkSize(request.size)
<1>5. c \in Nat /\ c <= BIG /\ BIG \in Nat /\ WORD \in Nat
  BY ChunkFacts
<1> HIDE DEF c
<1>6. Plus(cache_size, c) = cache_size + c
  BY <1>4, <1>5 DEF Plus
<1>7. Abstract!Fits <=> cache_size + c <= cache_capacity
  BY <1>3 DEF Abstract!Fits, c
<1>8. Full <=> cache_size + c > cache_capacity
  BY <1>6 DEF Full, IsFullAt, c
<1> QED BY <1>4, <1>5, <1>7, <1>8

\* The abstract cache's record of a request.
LEMMA WantedIsNotNone ==
    ASSUME request \in Request
    PROVE  LET W == [key |-> request.key, chunk |-> ChunkSize(request.size)]
           IN  W # NoRequest /\ W.key = request.key /\ W.chunk = ChunkSize(request.size)
  BY NoRequestAssumption, ChunkFacts DEF NoRequestAssumption, Request

\* A hit, a FIFO2 second chance: the abstract cache does not notice.
LEMMA ReorderingStutters ==
    ASSUME IInv, IInv', UNCHANGED <<cache_capacity, request>>, KeysOf(list') = KeysOf(list),
           \A j \in DOMAIN list' : \E i \in DOMAIN list :
               list'[j].key = list[i].key /\ list'[j].size = list[i].size
    PROVE  UNCHANGED Abstract!vars
<1>1. /\ list \in Seq(Node) /\ KeysDistinct(list)
      /\ list' \in Seq(Node) /\ KeysDistinct(list')
  BY DEF IInv, TypeOK, MapMatchesList
<1>2. Resident(list') = [k \in KeysOf(list') |-> Resident(list)[k]]
  BY <1>1, ResidentKept
<1>3. Resident(list') = Resident(list)
  BY <1>2 DEF Resident
<1> QED BY <1>3 DEF Abstract!vars, Resident, PositionOf

\* A node moved to the front is still the node it was.
LEMMA FrontedNodes ==
    ASSUME NEW N, NEW s \in Seq(N), NEW i \in 1 .. Len(s), NEW n, NEW t,
           n.key = s[i].key, n.size = s[i].size, IsFronted(N, s, i, n, t)
    PROVE  \A j \in DOMAIN t : \E x \in DOMAIN s : t[j].key = s[x].key /\ t[j].size = s[x].size
<1> SUFFICES ASSUME NEW j \in DOMAIN t
             PROVE  \E x \in DOMAIN s : t[j].key = s[x].key /\ t[j].size = s[x].size
  OBVIOUS
<1>1. /\ DOMAIN t = 1 .. Len(s) /\ DOMAIN s = 1 .. Len(s) /\ Len(s) \in Nat /\ t[1] = n
      /\ \A x \in 2 .. Len(s) : t[x] = IF x <= i THEN s[x - 1] ELSE s[x]
  BY DEF IsFronted
<1>2. CASE j = 1
  BY <1>1, <1>2
<1>3. CASE j # 1
  <2>1. j \in 2 .. Len(s) /\ j - 1 \in 1 .. Len(s) /\ j \in 1 .. Len(s)
    BY <1>1, <1>3
  <2>2. t[j] = s[j - 1] \/ t[j] = s[j]
    BY <1>1, <2>1
  <2> QED BY <1>1, <2>1, <2>2
<1> QED BY <1>2, <1>3

\* An eviction is one of the abstract cache's.
LEMMA EvictEvicts ==
    ASSUME IInv, IInv', EvictTail
    PROVE  Abstract!Evict
<1>1. /\ list \in Seq(Node) /\ KeysDistinct(list) /\ list # << >>
      /\ list' \in Seq(Node) /\ KeysDistinct(list') /\ list' = Front(list)
      /\ request \in Request /\ request # NoRequest /\ Full /\ UNCHANGED <<cache_capacity, request>>
  BY DEF IInv, TypeOK, MapMatchesList, EvictTail
<1>2. /\ KeysOf(list') = KeysOf(list) \ {Last(list).key} /\ Len(list) \in Nat
      /\ Len(list') = Len(list) - 1 /\ \A j \in 1 .. Len(list) - 1 : list'[j] = list[j]
      /\ Last(list) = list[Len(list)] /\ 0 < Len(list)
  BY <1>1, FrontNode
<1>3. \A j \in DOMAIN list' : j \in DOMAIN list /\ list'[j] = list[j]
  BY <1>1, <1>2
<1>4. Resident(list') = [k \in KeysOf(list') |-> Resident(list)[k]]
  BY <1>1, <1>3, ResidentKept
<1>5. Last(list).key \in KeysOf(list) /\ DOMAIN Resident(list) = KeysOf(list)
  BY <1>1, <1>2 DEF KeysOf, Resident
<1>6. \E victim \in DOMAIN Resident(list) :
        Resident(list') = [k \in DOMAIN Resident(list) \ {victim} |-> Resident(list)[k]]
  BY <1>2, <1>4, <1>5
<1>7. ~Abstract!Fits
  BY <1>1, FitsIffNotFull
<1>8. (IF request = NoRequest THEN NoRequest
       ELSE [key |-> request.key, chunk |-> ChunkSize(request.size)]) # NoRequest
  BY <1>1, WantedIsNotNone
<1> QED
  BY <1>1, <1>6, <1>7, <1>8 DEF Abstract!Evict, Resident, PositionOf

\* An insertion fills the abstract cache's miss.
LEMMA InsertFills ==
    ASSUME IInv, IInv', InsertNode
    PROVE  Abstract!Fill
<1> DEFINE n == NewNode(request)
           W == [key |-> request.key, chunk |-> ChunkSize(request.size)]
<1>1. /\ list \in Seq(Node) /\ KeysDistinct(list) /\ request # NoRequest /\ ~Full
      /\ list' \in Seq(Node) /\ KeysDistinct(list') /\ list' = <<n>> \o list
      /\ request \in Request /\ request' = NoRequest /\ cache_capacity' = cache_capacity
      /\ request.key \notin KeysOf(list)
  BY DEF IInv, TypeOK, MapMatchesList, InsertOnlyAbsent, InsertNode
<1>2. n \in Node /\ n.key = request.key /\ n.size = request.size
  BY <1>1 DEF NewNode, Node, Request
<1> HIDE DEF n
<1>3. /\ Len(list') = Len(list) + 1 /\ KeysOf(list') = KeysOf(list) \union {request.key}
      /\ list'[1] = n /\ \A i \in 1 .. Len(list) : list'[i + 1] = list[i]
  BY <1>1, <1>2, ConsNode
<1>4. Resident(list')[request.key] = ChunkSize(request.size)
  <2>1. 1 \in DOMAIN list'
    BY <1>1, <1>3
  <2>2. Resident(list')[list'[1].key] = ChunkSize(list'[1].size)
    BY <2>1, <1>1, ResidentFacts
  <2> QED BY <2>2, <1>2, <1>3
<1>5. ASSUME NEW k \in KeysOf(list)
      PROVE  Resident(list')[k] = Resident(list)[k]
  <2>1. PICK i \in DOMAIN list : list[i].key = k
    BY DEF KeysOf
  <2>2. i + 1 \in DOMAIN list' /\ list'[i + 1] = list[i]
    BY <1>1, <1>3
  <2>3. Resident(list')[list'[i + 1].key] = ChunkSize(list'[i + 1].size)
    BY <2>2, <1>1, ResidentFacts
  <2>4. Resident(list)[list[i].key] = ChunkSize(list[i].size)
    BY <1>1, ResidentFacts
  <2> QED BY <2>1, <2>2, <2>3, <2>4
<1>6. Resident(list') = [k \in DOMAIN Resident(list) \union {request.key} |->
                           IF k = request.key THEN ChunkSize(request.size)
                           ELSE Resident(list)[k]]
  <2>1. DOMAIN Resident(list) = KeysOf(list) /\ DOMAIN Resident(list') = KeysOf(list')
    BY DEF Resident
  <2>2. Resident(list') = [k \in KeysOf(list') |-> Resident(list')[k]]
    BY DEF Resident
  <2> HIDE DEF Resident
  <2>3. \A k \in KeysOf(list') :
            Resident(list')[k] = IF k = request.key THEN ChunkSize(request.size)
                                 ELSE Resident(list)[k]
    BY <1>3, <1>4, <1>5
  <2> QED BY <1>3, <2>1, <2>2, <2>3
<1>7. Abstract!Fits
  BY <1>1, FitsIffNotFull
<1>8. W # NoRequest /\ W.key = request.key /\ W.chunk = ChunkSize(request.size)
  BY <1>1, WantedIsNotNone
<1>9. request.key \notin DOMAIN Resident(list)
  BY <1>1 DEF Resident
<1> DEFINE V == IF request = NoRequest THEN NoRequest ELSE W
<1>10. V # NoRequest /\ V.key = request.key /\ V.chunk = ChunkSize(request.size)
  BY <1>1, <1>8
<1> HIDE DEF W
<1>11. /\ V.key \notin DOMAIN Resident(list)
       /\ Resident(list') = [k \in DOMAIN Resident(list) \union {V.key} |->
                               IF k = V.key THEN V.chunk ELSE Resident(list)[k]]
  <2> HIDE DEF V, Resident
  <2> QED BY <1>6, <1>9, <1>10
<1>12. (IF request' = NoRequest THEN NoRequest
        ELSE [key |-> request'.key, chunk |-> ChunkSize(request'.size)]) = NoRequest
  BY <1>1
<1> QED
  BY <1>1, <1>7, <1>10, <1>11, <1>12, Zenon DEF Abstract!Fill, Resident, PositionOf, V, W

\* A miss is one of the abstract cache's.
LEMMA MissMisses ==
    ASSUME IInv, NEW k \in Key, NEW s \in Size, GetMiss(k, s)
    PROVE  ChunkSize(s) \in Abstract!Chunk /\ Abstract!Miss(k, ChunkSize(s))
<1>1. /\ request = NoRequest /\ k \notin KeysOf(list) /\ request' = [key |-> k, size |-> s]
      /\ UNCHANGED <<list, cache_capacity>>
  BY DEF IInv, MapMatchesList, GetMiss
<1>2. request' # NoRequest /\ request'.key = k /\ request'.size = s
  BY <1>1, NoRequestAssumption DEF NoRequestAssumption, Request
<1>3. ChunkSize(s) \in Abstract!Chunk
  BY ChunkFacts DEF Abstract!Chunk
<1> QED BY <1>1, <1>2, <1>3 DEF Abstract!Miss, PositionOf

\* LRU, FIFO and FIFO2 are demand-filled caches that evict only while the object
\* asked for does not fit: their initial states are the abstract cache's, and
\* each step of theirs is one of its steps or changes nothing of it.
THEOREM StepsImplementAbstractCache == Spec => Abstract!Init /\ [][Abstract!Next]_Abstract!vars
<1>1. Init => Abstract!Init
  <2> SUFFICES ASSUME Init PROVE Abstract!Init
    OBVIOUS
  <2>1. KeysOf(list) = {}
    BY DEF Init, KeysOf
  <2>2. [k \in KeysOf(list) |-> ChunkSize(list[PositionOf(k)].size)] = [k \in {} |-> BIG]
    BY <2>1
  <2> QED BY <2>2 DEF Init, Abstract!Init
<1>2. ASSUME IInv, IInv', [Next]_vars PROVE [Abstract!Next]_Abstract!vars
  <2>1. ASSUME NEW k \in Key, GetHitLRU(k) PROVE UNCHANGED Abstract!vars
    <3> DEFINE i == PositionOf(k)
    <3>1. list \in Seq(Node) /\ i \in 1 .. Len(list) /\ list[i].key = k
      BY <1>2, <2>1, PositionFacts DEF IInv, TypeOK, GetHitLRU
    <3>2. list[i] \in Node
      BY <3>1
    <3>3. IsFronted(Node, list, i, list[i], list')
      BY <2>1, <3>1, <3>2, RemovedToFront DEF GetHitLRU, Promoted
    <3>4. UNCHANGED <<cache_map, cache_capacity, request>>
      BY <2>1 DEF GetHitLRU
    <3> HIDE DEF i
    <3>5. \A j \in DOMAIN list' : \E x \in DOMAIN list :
            list'[j].key = list[x].key /\ list'[j].size = list[x].size
      BY <3>1, <3>3, FrontedNodes
    <3> QED BY <1>2, <3>4, <3>5, ReorderingStutters DEF IInv, MapMatchesList
  <2>2. ASSUME NEW k \in Key, GetHitFIFO2(k) PROVE UNCHANGED Abstract!vars
    <3>1. list \in Seq(Node) /\ PositionOf(k) \in 1 .. Len(list)
      BY <1>2, <2>2, PositionFacts DEF IInv, TypeOK, GetHitFIFO2
    <3>2. \A j \in DOMAIN list : list[j] \in Node
      BY <3>1
    <3>3. list' = [list EXCEPT ![PositionOf(k)].flag = TRUE]
      BY <2>2 DEF GetHitFIFO2, Flagged
    <3>4. DOMAIN list' = DOMAIN list /\ \A j \in DOMAIN list :
            list'[j].key = list[j].key /\ list'[j].size = list[j].size
      BY <3>2, <3>3 DEF Node
    <3>5. UNCHANGED <<cache_map, cache_capacity, request>>
      BY <2>2 DEF GetHitFIFO2
    <3> QED BY <1>2, <3>4, <3>5, ReorderingStutters DEF IInv, MapMatchesList
  <2>3. CASE RotateTail
    <3> DEFINE m == Spared(Last(list))
    <3>1. /\ list \in Seq(Node) /\ list # << >> /\ KeysDistinct(list)
          /\ list' = <<m>> \o Front(list)
      BY <1>2, <2>3 DEF IInv, TypeOK, MapMatchesList, RotateTail
    <3>2. /\ Front(list) \in Seq(Node) /\ Len(list) \in Nat /\ 0 < Len(list)
          /\ Last(list) = list[Len(list)] /\ Last(list) \in Node
          /\ Len(Front(list)) = Len(list) - 1
          /\ \A i \in 1 .. Len(list) - 1 : Front(list)[i] = list[i]
      BY <3>1, FrontNode
    <3>3. m \in Node /\ m.key = Last(list).key /\ m.size = Last(list).size
      BY <3>2 DEF Spared, Node
    <3> HIDE DEF m
    <3>4. Len(list) \in 1 .. Len(list) /\ IsWithout(Node, list, Len(list), Front(list))
      BY <3>2 DEF IsWithout
    <3>5. IsFronted(Node, list, Len(list), m, list')
      BY <3>1, <3>3, <3>4, FrontedFacts
    <3> DEFINE i == Len(list)
    <3>6. list \in Seq(Node) /\ i \in 1 .. Len(list) /\ IsFronted(Node, list, i, m, list')
          /\ m.key = list[i].key /\ m.size = list[i].size
      BY <3>1, <3>2, <3>3, <3>4, <3>5
    <3> HIDE DEF i
    <3>8. \A j \in DOMAIN list' : \E x \in DOMAIN list :
            list'[j].key = list[x].key /\ list'[j].size = list[x].size
      BY <3>6, FrontedNodes
    <3>7. UNCHANGED <<cache_map, cache_capacity, request>>
      BY <2>3 DEF RotateTail
    <3> QED BY <1>2, <3>8, <3>7, ReorderingStutters DEF IInv, MapMatchesList
  <2>4. ASSUME UNCHANGED vars PROVE UNCHANGED Abstract!vars
    BY <2>4 DEF vars, Abstract!vars, PositionOf
  <2>4a. ASSUME NEW k \in Key, GetHitFIFO(k) PROVE UNCHANGED Abstract!vars
    BY <2>4, <2>4a DEF GetHitFIFO
  <2>5. ASSUME NEW k \in Key, NEW s \in Size, GetMiss(k, s) PROVE Abstract!Next
    BY <1>2, <2>5, MissMisses DEF Abstract!Next
  <2>6. CASE EvictTail
    BY <1>2, <2>6, EvictEvicts DEF Abstract!Next
  <2>7. CASE InsertNode
    BY <1>2, <2>7, InsertFills DEF Abstract!Next
  <2> QED
    BY <1>2, <2>1, <2>2, <2>3, <2>4, <2>4a, <2>5, <2>6, <2>7 DEF Next, Get, Insert
<1> QED BY <1>1, <1>2, Invariance, PTL DEF Spec

-----------------------------------------------------------------------------
(* Days *)

\* The shape of the state that outlives or surrounds the cache.
DailyTypeOK ==
    /\ phase \in {"off", "load", "run", "save"}
    /\ phase # "off" => day \in Day
    /\ input \in Seq(Node)
    /\ checkpoint \in [Day -> Seq(Node) \union {NoFile}]
    /\ image \in [Day -> Seq(Node)]
    /\ saved \subseteq Day

\* Between two calls there is no cache.
OffIsEmpty == phase = "off" => list = << >> /\ order = << >> /\ request = NoRequest

\* A checkpoint file is the beginning of the list its save started from.
FilesAreSound ==
    \A d \in Day :
        /\ KeysDistinct(image[d])
        /\ checkpoint[d] # NoFile => Begins(checkpoint[d], image[d])
        /\ d \in saved => checkpoint[d] = image[d]

\* While Save() runs, the file and the list together are the list it began with.
SaveSplits ==
    phase = "save" =>
        /\ day \notin saved /\ request = NoRequest /\ checkpoint[day] # NoFile
        /\ Len(image[day]) = Len(checkpoint[day]) + Len(list)
        /\ \A i \in 1 .. Len(list) : list[i] = image[day][Len(checkpoint[day]) + i]

\* The lines Load() reads: those of the day before, if it has a file.
Source == IF day - 1 \in Day /\ checkpoint[day - 1] # NoFile THEN checkpoint[day - 1] ELSE << >>

Read == Len(Source) - Len(input)

\* The first n lines of C hold the list, in order.
HeldInOrder(C, n) ==
    \E kept \in [1 .. Len(list) -> 1 .. n] :
        /\ \A i \in 1 .. Len(list) : list[i] = C[kept[i]]
        /\ \A i, j \in 1 .. Len(list) : i < j => kept[i] < kept[j]

\* While Load() runs, the lines not read are the last ones, the list is some of
\* those read, in order, and all of them if all lines fit.
LoadSplits ==
    phase = "load" =>
        /\ request = NoRequest /\ Len(order) = Len(list)
        /\ Len(input) <= Len(Source)
        /\ \A j \in 1 .. Len(input) : input[j] = Source[Read + j]
        /\ HeldInOrder(Source, Read)
        /\ Bytes(Source) <= cache_capacity =>
              Len(list) = Read /\ \A i \in 1 .. Read : list[i] = Source[i]

\* The inductive invariant.
DailyInv ==
    /\ IInv /\ DailyTypeOK /\ OffIsEmpty /\ FilesAreSound /\ SaveSplits /\ LoadSplits
-----------------------------------------------------------------------------
\* The lines Load() reads are a list of distinct nodes.
LEMMA SourceFacts ==
    ASSUME DailyTypeOK, FilesAreSound
    PROVE  Source \in Seq(Node) /\ KeysDistinct(Source)
<1>1. CASE day - 1 \in Day /\ checkpoint[day - 1] # NoFile
  <2>1. /\ checkpoint[day - 1] \in Seq(Node) /\ image[day - 1] \in Seq(Node)
        /\ Begins(checkpoint[day - 1], image[day - 1]) /\ KeysDistinct(image[day - 1])
    BY <1>1 DEF DailyTypeOK, FilesAreSound
  <2> QED
    BY <2>1, <1>1, BeginsDistinct DEF Source
<1>2. CASE ~(day - 1 \in Day /\ checkpoint[day - 1] # NoFile)
  BY <1>2 DEF Source, KeysDistinct
<1> QED
  BY <1>1, <1>2

\* An empty cache is consistent.
LEMMA EmptyCache ==
    ASSUME name' \in Algorithms, cache_capacity' \in Capacities,
           list' = << >>, cache_map' = {}, cache_size' = 0, request' = NoRequest,
           order' = << >>, used' = {}
    PROVE  IInv'
<1>1. cache_capacity' \in Nat /\ 0 <= cache_capacity' /\ 0 \in Word
  BY BaseAssumption DEF BaseAssumption, Word
<1>2. TypeOK'
  BY <1>1 DEF TypeOK
<1>3. KeysOf(list') = {} /\ KeysDistinct(list') /\ Bytes(list') = 0
  BY BytesEmpty DEF KeysOf, KeysDistinct
<1>4. (MapMatchesList /\ SizeMatchesList /\ WithinCapacity /\ InsertOnlyAbsent)'
  BY <1>1, <1>3 DEF MapMatchesList, SizeMatchesList, WithinCapacity, InsertOnlyAbsent
<1>5. (OrderDistinct /\ StoredIsMostRecent /\ UsedAreFlagged)'
  BY DEF OrderDistinct, IsInjective, StoredIsMostRecent, UsedAreFlagged
<1> QED
  BY <1>2, <1>4, <1>5 DEF IInv

\* Nothing is simulated yet and there is no file.
LEMMA DailyInitInv == DailyInit => DailyInv
<1> SUFFICES ASSUME DailyInit PROVE DailyInv
  OBVIOUS
<1>1. IInv
  BY InitIInv DEF DailyInit
<1>2. DailyTypeOK
  BY DEF DailyInit, DailyTypeOK
<1>3. OffIsEmpty
  BY DEF DailyInit, Init, OffIsEmpty
<1>4. FilesAreSound
  BY DEF DailyInit, FilesAreSound, KeysDistinct
<1>5. SaveSplits /\ LoadSplits
  BY DEF DailyInit, SaveSplits, LoadSplits
<1> QED
  BY <1>1, <1>2, <1>3, <1>4, <1>5 DEF DailyInv

\* The end of a call: what it leaves is on the disk.
LEMMA DestroyedKeeps ==
    ASSUME DailyInv, Destroyed, FilesAreSound',
           checkpoint' \in [Day -> Seq(Node) \union {NoFile}], image' = image, saved' \subseteq Day
    PROVE  DailyInv'
<1>1. IInv'
  BY EmptyCache DEF Destroyed, DailyInv, IInv, TypeOK
<1>2. phase' = "off" /\ input' = << >> /\ list' = << >> /\ order' = << >> /\ request' = NoRequest
  BY DEF Destroyed
<1>3. DailyTypeOK'
  BY <1>2 DEF DailyInv, DailyTypeOK
<1>4. OffIsEmpty' /\ SaveSplits' /\ LoadSplits'
  BY <1>2 DEF OffIsEmpty, SaveSplits, LoadSplits
<1> QED
  BY <1>1, <1>3, <1>4 DEF DailyInv

\* A call starts with an empty cache and nothing read.
LEMMA StartKeeps ==
    ASSUME DailyInv, NEW d \in Day, NEW c \in Capacities, StartDay(d, c)
    PROVE  DailyInv'
<1>1. /\ list = << >> /\ order = << >> /\ request = NoRequest /\ cache_capacity' = c
      /\ UNCHANGED <<name, list, cache_map, cache_size, request, order, used, disk>>
      /\ day' = d /\ phase' = "load"
      /\ input' = IF d - 1 \in Day /\ checkpoint[d - 1] # NoFile THEN checkpoint[d - 1] ELSE << >>
  BY DEF StartDay, DailyInv, OffIsEmpty
<1>2. IInv'
  <2>1. cache_size = 0
    BY <1>1, BytesEmpty DEF DailyInv, IInv, SizeMatchesList
  <2>2. cache_size' <= cache_capacity'
    BY <1>1, <2>1, BaseAssumption DEF BaseAssumption
  <2> QED
    BY <1>1, <2>2 DEF DailyInv, IInv, TypeOK, MapMatchesList, SizeMatchesList, WithinCapacity,
                      InsertOnlyAbsent, OrderDistinct, StoredIsMostRecent, UsedAreFlagged
<1>3. DailyTypeOK'
  <2>1. input' \in Seq(Node)
    BY <1>1 DEF DailyInv, DailyTypeOK
  <2> QED
    BY <1>1, <2>1 DEF DailyInv, DailyTypeOK, disk
<1>4. FilesAreSound'
  BY <1>1 DEF DailyInv, FilesAreSound, disk
<1>5. input' = Source' /\ Source' \in Seq(Node)
  BY <1>1, <1>3 DEF Source, disk, DailyTypeOK
<1>6. LoadSplits'
  <2>1. Read' = 0 /\ Len(input') = Len(Source') /\ Len(Source') \in Nat
    BY <1>5 DEF Read
  <2>2. \A j \in 1 .. Len(input') : input'[j] = Source'[Read' + j]
    BY <2>1, <1>5
  <2>3. HeldInOrder(Source, Read)'
    <3>1. list' = << >> /\ Len(list') = 0
      BY <1>1
    <3>2. [i \in {} |-> 0] \in [1 .. Len(list') -> 1 .. Read']
      BY <3>1
    <3> QED
      BY <3>1, <3>2 DEF HeldInOrder
  <2>4. Len(list') = 0 /\ Len(order') = 0 /\ request' = NoRequest
    BY <1>1
  <2> QED
    BY <2>1, <2>2, <2>3, <2>4 DEF LoadSplits
<1>7. OffIsEmpty' /\ SaveSplits'
  BY <1>1 DEF OffIsEmpty, SaveSplits
<1> QED
  BY <1>2, <1>3, <1>4, <1>6, <1>7 DEF DailyInv
\* The line Load() reads next is a node that is not in the cache.
LEMMA ReadFacts ==
    ASSUME DailyInv, ReadLine
    PROVE  /\ Source \in Seq(Node) /\ KeysDistinct(Source) /\ Read \in Nat
           /\ Read + 1 <= Len(Source) /\ Head(input) = Source[Read + 1]
           /\ Head(input) \in Node /\ Head(input).key \notin KeysOf(list)
           /\ input' = Tail(input) /\ input' \in Seq(Node) /\ Len(input') <= Len(Source)
           /\ Len(Source) - Len(input') = Read + 1
           /\ \A j \in 1 .. Len(input') : input'[j] = Source[Read + 1 + j]
<1> DEFINE C == Source
           n == Read
<1>1. C \in Seq(Node) /\ KeysDistinct(C)
  BY SourceFacts DEF DailyInv
<1>2. phase = "load" /\ input # << >> /\ input' = Tail(input) /\ input \in Seq(Node)
  BY DEF ReadLine, DailyInv, DailyTypeOK
<1>3. /\ Len(input) <= Len(C) /\ \A j \in 1 .. Len(input) : input[j] = C[n + j]
      /\ HeldInOrder(C, n)
  BY <1>2 DEF DailyInv, LoadSplits
<1>4. /\ Len(input) \in Nat /\ 0 < Len(input) /\ Len(C) \in Nat
      /\ Tail(input) \in Seq(Node) /\ Len(Tail(input)) = Len(input) - 1
      /\ \A j \in 1 .. Len(input) - 1 : Tail(input)[j] = input[j + 1]
      /\ Head(input) = input[1] /\ Head(input) \in Node
  BY <1>1, <1>2
<1>5. n \in Nat /\ n + 1 <= Len(C) /\ n = Len(C) - Len(input)
  BY <1>3, <1>4 DEF Read
<1>6. Head(input) = C[n + 1]
  BY <1>3, <1>4
<1>7. \A j \in 1 .. Len(Tail(input)) : Tail(input)[j] = C[n + 1 + j]
  <2> TAKE j \in 1 .. Len(Tail(input))
  <2>1. j \in 1 .. Len(input) - 1 /\ j + 1 \in 1 .. Len(input) /\ n + (j + 1) = n + 1 + j
    BY <1>4, <1>5
  <2>2. Tail(input)[j] = input[j + 1] /\ input[j + 1] = C[n + (j + 1)]
    BY <2>1, <1>3, <1>4
  <2> QED
    BY <2>1, <2>2
<1>8. Head(input).key \notin KeysOf(list)
  <2> SUFFICES ASSUME NEW i \in DOMAIN list, list[i].key = Head(input).key
               PROVE  FALSE
    BY DEF KeysOf
  <2>1. i \in 1 .. Len(list)
    BY DEF DailyInv, IInv, TypeOK
  <2>2. PICK kept \in [1 .. Len(list) -> 1 .. n] : \A j \in 1 .. Len(list) : list[j] = C[kept[j]]
    BY <1>3 DEF HeldInOrder
  <2>3. kept[i] \in 1 .. n /\ C[kept[i]].key = C[n + 1].key
    BY <2>1, <2>2, <1>6
  <2>4. kept[i] \in DOMAIN C /\ n + 1 \in DOMAIN C /\ kept[i] # n + 1
    BY <2>3, <1>1, <1>4, <1>5
  <2> QED
    BY <2>3, <2>4, <1>1 DEF KeysDistinct
<1>9. Len(C) - Len(Tail(input)) = n + 1 /\ Len(Tail(input)) <= Len(C)
  BY <1>3, <1>4, <1>5
<1> QED
  BY <1>1, <1>2, <1>4, <1>5, <1>6, <1>7, <1>8, <1>9

\* Reading a line leaves the disk and the call alone.
LEMMA ReadFrame ==
    ASSUME DailyInv, ReadLine, UNCHANGED <<name, cache_capacity, request, phase, day, disk>>
    PROVE  DailyTypeOK' /\ OffIsEmpty' /\ FilesAreSound' /\ SaveSplits' /\ Source' = Source
           /\ Read' = Read + 1
<1>1. phase = "load" /\ phase' = "load" /\ day' = day
      /\ checkpoint' = checkpoint /\ image' = image /\ saved' = saved
  BY DEF ReadLine, disk
<1>2. input' \in Seq(Node) /\ Len(Source) - Len(input') = Read + 1
  BY ReadFacts
<1>3. DailyTypeOK'
  BY <1>1, <1>2 DEF DailyInv, DailyTypeOK
<1>4. FilesAreSound'
  BY <1>1 DEF DailyInv, FilesAreSound
<1>5. OffIsEmpty' /\ SaveSplits'
  BY <1>1 DEF OffIsEmpty, SaveSplits
<1>6. Source' = Source
  BY <1>1 DEF Source
<1>7. Read' = Read + 1
  BY <1>2, <1>6 DEF Read
<1> QED
  BY <1>3, <1>4, <1>5, <1>6, <1>7

\* Push() refuses a line that does not fit: then not all lines fit.
LEMMA SkipKeeps ==
    ASSUME DailyInv, SkipLine
    PROVE  DailyInv'
<1> DEFINE C == Source
           n == Read
           x == Head(input)
<1>1. ReadLine /\ UNCHANGED <<vars, phase, day, disk>>
  BY DEF SkipLine
<1>2. /\ UNCHANGED <<name, list, cache_map, cache_size, cache_capacity, request, order, used>>
      /\ UNCHANGED <<name, cache_capacity, request, phase, day, disk>>
  BY <1>1 DEF vars
<1>3. DailyTypeOK' /\ OffIsEmpty' /\ FilesAreSound' /\ SaveSplits' /\ C' = C /\ n' = n + 1
  BY <1>1, <1>2, ReadFrame
<1>4. /\ C \in Seq(Node) /\ n \in Nat /\ n + 1 <= Len(C) /\ x = C[n + 1]
      /\ x \in Node /\ x.key \notin KeysOf(list) /\ Len(input') <= Len(C)
      /\ \A j \in 1 .. Len(input') : input'[j] = C[n + 1 + j]
  BY <1>1, ReadFacts
<1>5. IInv'
  BY <1>2, NextKeeps DEF DailyInv, vars
<1>6. LoadSplits
  BY DEF DailyInv
<1>7. phase = "load"
  BY <1>1 DEF ReadLine
<1>8. HeldInOrder(C, n)'
  <2>1. PICK kept \in [1 .. Len(list) -> 1 .. n] :
          /\ \A i \in 1 .. Len(list) : list[i] = C[kept[i]]
          /\ \A i, j \in 1 .. Len(list) : i < j => kept[i] < kept[j]
    BY <1>6, <1>7 DEF LoadSplits, HeldInOrder
  <2>2. 1 .. n \subseteq 1 .. n + 1
    BY <1>4
  <2>3. kept \in [1 .. Len(list) -> 1 .. n + 1]
    BY <2>2
  <2>4. list' = list
    BY <1>2
  <2> QED
    BY <2>1, <2>3, <2>4, <1>3 DEF HeldInOrder
<1>9. ~(Bytes(C) <= cache_capacity)
  <2> SUFFICES ASSUME Bytes(C) <= cache_capacity PROVE FALSE
    OBVIOUS
  <2>1. list \in Seq(Node) /\ KeysDistinct(list) /\ cache_size = Bytes(list)
    BY DEF DailyInv, IInv, TypeOK, MapMatchesList, SizeMatchesList
  <2>2. Len(list) = n /\ \A i \in 1 .. n : list[i] = C[i]
    BY <1>6, <1>7 DEF LoadSplits
  <2> DEFINE t == Append(list, x)
  <2>3. /\ t \in Seq(Node) /\ Len(t) = n + 1 /\ t[n + 1] = x /\ \A i \in 1 .. n : t[i] = list[i]
        /\ Bytes(t) = Bytes(list) + ChunkSize(x.size)
    BY <2>1, <2>2, <1>4, AppendNode
  <2>4. \A i \in 1 .. Len(t) : t[i] = C[i]
    BY <2>2, <2>3, <1>4
  <2> HIDE DEF t, C, x, n
  <2>5. Len(t) <= Len(C)
    BY <2>3, <1>4
  <2>6. Bytes(t) <= Bytes(C)
    BY <2>3, <2>4, <2>5, <1>4, BytesPrefix
  <2>7. Bytes(t) \in Nat /\ Bytes(C) \in Nat /\ Bytes(list) \in Nat
    BY <2>1, <2>3, <1>4, BytesType
  <2>8. cache_capacity \in Nat /\ cache_capacity + BIG < WORD
    BY BaseAssumption DEF BaseAssumption, DailyInv, IInv, TypeOK
  <2>9. ChunkSize(x.size) \in Nat
    BY ChunkFacts
  <2>10. Plus(cache_size, ChunkSize(x.size)) > cache_capacity
    BY DEF SkipLine, IsFullAt, x
  <2>11. cache_size + ChunkSize(x.size) <= cache_capacity
    BY <2>1, <2>3, <2>6, <2>7, <2>8, <2>9
  <2> QED
    BY <2>1, <2>7, <2>8, <2>9, <2>10, <2>11, ChunkFacts DEF Plus
<1>10. LoadSplits'
  <2>1. request' = NoRequest /\ Len(order') = Len(list') /\ cache_capacity' = cache_capacity
    BY <1>2, <1>6, <1>7 DEF LoadSplits
  <2>2. \A j \in 1 .. Len(input') : input'[j] = C'[n' + j]
    BY <1>3, <1>4
  <2> QED
    BY <2>1, <2>2, <1>3, <1>4, <1>8, <1>9 DEF LoadSplits
<1> QED
  BY <1>3, <1>5, <1>10 DEF DailyInv
\* Push() leaves the books and the history right.
LEMMA PushKeepsBooks ==
    ASSUME DailyInv, PushLine
    PROVE  /\ IInv'
           /\ Len(list') = Len(list) + 1 /\ list'[Len(list) + 1] = Head(input)
           /\ \A i \in 1 .. Len(list) : list'[i] = list[i]
           /\ Len(order') = Len(list')
<1> DEFINE x == Head(input)
           k == Head(input).key
           m == Len(list)
<1>1. /\ x \in Node /\ k \notin KeysOf(list)
      /\ ReadLine
  BY ReadFacts DEF PushLine
<1>2. /\ list \in Seq(Node) /\ KeysDistinct(list) /\ cache_map = KeysOf(list) /\ m \in Nat
      /\ cache_size = Bytes(list) /\ cache_size <= cache_capacity /\ cache_map \in SUBSET Key
      /\ order \in Seq(Key) /\ IsInjective(order) /\ used \in SUBSET Key
      /\ \A i \in DOMAIN list : list[i].key = order[i]
  BY DEF DailyInv, IInv, TypeOK, MapMatchesList, SizeMatchesList, WithinCapacity, OrderDistinct,
         StoredIsMostRecent
<1>3. request = NoRequest /\ Len(order) = m
  BY <1>1 DEF DailyInv, LoadSplits, ReadLine
<1>4. /\ ~IsFullAt(cache_size, cache_capacity, ChunkSize(x.size))
      /\ list' = Append(list, x) /\ cache_map' = cache_map \union {k}
      /\ cache_size' = Plus(cache_size, ChunkSize(x.size))
      /\ order' = Append(order, k)
      /\ used' = IF x.flag THEN used \union {k} ELSE used
      /\ UNCHANGED <<name, cache_capacity, request>>
  BY DEF PushLine, PushedBack, Loaded, SizeLoaded
<1>5. k \in Key /\ x.flag \in BOOLEAN
  BY <1>1 DEF Node
<1> HIDE DEF x, k, m
<1>6. /\ list' \in Seq(Node) /\ Len(list') = m + 1
      /\ list'[m + 1] = x /\ \A i \in 1 .. m : list'[i] = list[i]
      /\ KeysDistinct(list')
      /\ KeysOf(list') = KeysOf(list) \cup {k}
      /\ Bytes(list') = Bytes(list) + ChunkSize(x.size)
  BY <1>1, <1>2, <1>4, AppendNode DEF k, m, x
<1>7. order' \in Seq(Key) /\ Len(order') = m + 1 /\ order'[m + 1] = k
      /\ \A i \in 1 .. m : order'[i] = order[i]
  BY <1>2, <1>3, <1>4, <1>5
<1>8. \A i \in 1 .. m : order[i] \in KeysOf(list)
  BY <1>2 DEF KeysOf, m
<1>9. cache_size' = Bytes(list') /\ cache_size' <= cache_capacity' /\ cache_size' \in Word
  <2>1. cache_capacity \in Nat /\ cache_capacity + BIG < WORD
    BY BaseAssumption DEF BaseAssumption, DailyInv, IInv, TypeOK
  <2>2. ChunkSize(x.size) \in Nat /\ ChunkSize(x.size) <= BIG
    BY ChunkFacts
  <2>3. Bytes(list) \in Nat
    BY <1>2, BytesType
  <2>4. WORD \in Nat /\ BIG \in Nat
    BY ChunkFacts
  <2>5. Plus(cache_size, ChunkSize(x.size)) = cache_size + ChunkSize(x.size)
    BY <1>2, <2>1, <2>2, <2>3, <2>4 DEF Plus
  <2>6. cache_size + ChunkSize(x.size) <= cache_capacity
    BY <1>4, <2>5, <2>1, <2>2, <2>3, <1>2 DEF IsFullAt
  <2>7. cache_size' = Bytes(list) + ChunkSize(x.size) /\ cache_size' <= cache_capacity
    BY <1>2, <1>4, <2>5, <2>6
  <2> QED
    BY <2>1, <2>2, <2>3, <2>4, <2>7, <1>4, <1>6 DEF Word
<1>10. TypeOK'
  BY <1>2, <1>4, <1>5, <1>6, <1>7, <1>9 DEF TypeOK, DailyInv, IInv
<1>11. (MapMatchesList /\ SizeMatchesList /\ WithinCapacity /\ InsertOnlyAbsent)'
  BY <1>2, <1>3, <1>4, <1>6, <1>9
     DEF MapMatchesList, SizeMatchesList, WithinCapacity, InsertOnlyAbsent
<1>12. OrderDistinct'
  <2>1. SUFFICES ASSUME NEW i \in 1 .. m + 1, NEW j \in 1 .. m + 1, order'[i] = order'[j]
                 PROVE  i = j
    BY <1>2, <1>7 DEF OrderDistinct, IsInjective
  <2>2. \A h \in 1 .. m : order'[h] \in KeysOf(list) /\ order'[h] # k
    BY <1>1, <1>7, <1>8 DEF k
  <2>3. CASE i = m + 1 \/ j = m + 1
    BY <2>1, <2>2, <2>3, <1>7, <1>2
  <2>4. CASE i \in 1 .. m /\ j \in 1 .. m
    <3>1. order[i] = order[j] /\ i \in DOMAIN order /\ j \in DOMAIN order
      BY <2>1, <2>4, <1>2, <1>3, <1>7
    <3> QED
      BY <3>1, <1>2 DEF IsInjective
  <2> QED
    BY <2>3, <2>4, <1>2
<1>13. StoredIsMostRecent'
  <2>1. DOMAIN list' = 1 .. m + 1 /\ \A i \in 1 .. m : i \in DOMAIN list
    BY <1>2, <1>6 DEF m
  <2>2. \A i \in 1 .. m : list'[i].key = order'[i]
    BY <2>1, <1>2, <1>6, <1>7
  <2>3. list'[m + 1].key = order'[m + 1]
    BY <1>6, <1>7 DEF k, x
  <2> QED
    BY <2>1, <2>2, <2>3, <1>2, <1>6, <1>7 DEF StoredIsMostRecent
<1>14. UsedAreFlagged'
  <2> SUFFICES ASSUME name' = "FIFO2" PROVE UsedAreFlagged'
    BY DEF UsedAreFlagged
  <2>1. used \subseteq KeysOf(list) /\ \A i \in DOMAIN list : list[i].key \in used => list[i].flag
    BY <1>4 DEF UsedAreFlagged, DailyInv, IInv
  <2>2. used' \subseteq KeysOf(list')
    BY <2>1, <1>4, <1>6
  <2>3. ASSUME NEW i \in DOMAIN list', list'[i].key \in used'
        PROVE  list'[i].flag
    <3>1. i \in 1 .. m \/ i = m + 1
      BY <1>2, <1>6
    <3>2. CASE i \in 1 .. m
      <4>1. list'[i] = list[i] /\ i \in DOMAIN list
        BY <3>2, <1>6, <1>2 DEF m
      <4>2. list[i].key # k
        BY <4>1, <1>1 DEF KeysOf, k
      <4> QED
        BY <4>1, <4>2, <2>1, <2>3, <1>4
    <3>3. CASE i = m + 1
      <4>1. list'[i] = x /\ x.key = k /\ k \notin used
        BY <3>3, <1>6, <2>1, <1>1 DEF k, x
      <4>2. k \in used'
        BY <4>1, <2>3
      <4> QED
        BY <4>1, <4>2, <1>4
    <3> QED
      BY <3>1, <3>2, <3>3
  <2> QED
    BY <2>2, <2>3 DEF UsedAreFlagged
<1>15. IInv'
  BY <1>10, <1>11, <1>12, <1>13, <1>14 DEF IInv
<1> QED
  BY <1>6, <1>7, <1>15 DEF m, x

\* Push() takes the line to the back of the list.
LEMMA PushKeeps ==
    ASSUME DailyInv, PushLine
    PROVE  DailyInv'
<1> DEFINE C == Source
           n == Read
           m == Len(list)
<1>1. ReadLine /\ UNCHANGED <<name, cache_capacity, request, phase, day, disk>>
  BY DEF PushLine
<1>2. DailyTypeOK' /\ OffIsEmpty' /\ FilesAreSound' /\ SaveSplits' /\ C' = C /\ n' = n + 1
  BY <1>1, ReadFrame
<1>3. /\ IInv' /\ Len(list') = m + 1 /\ list'[m + 1] = Head(input)
      /\ \A i \in 1 .. m : list'[i] = list[i]
      /\ Len(order') = Len(list')
  BY PushKeepsBooks
<1>4. /\ n \in Nat /\ n + 1 <= Len(C) /\ Head(input) = C[n + 1] /\ Len(input') <= Len(C)
      /\ \A j \in 1 .. Len(input') : input'[j] = C[n + 1 + j]
  BY <1>1, ReadFacts
<1>5. /\ request = NoRequest /\ HeldInOrder(C, n)
      /\ Bytes(C) <= cache_capacity => m = n /\ \A i \in 1 .. n : list[i] = C[i]
  BY <1>1 DEF DailyInv, LoadSplits, ReadLine
<1>6. m \in Nat
  BY DEF DailyInv, IInv, TypeOK
<1> HIDE DEF C, n, m
<1>7. HeldInOrder(C, n)'
  <2>1. PICK kept \in [1 .. m -> 1 .. n] :
          /\ \A i \in 1 .. m : list[i] = C[kept[i]]
          /\ \A i, j \in 1 .. m : i < j => kept[i] < kept[j]
    BY <1>5 DEF HeldInOrder, m
  <2> DEFINE more == [i \in 1 .. m + 1 |-> IF i = m + 1 THEN n + 1 ELSE kept[i]]
  <2>2. \A i \in 1 .. m + 1 : i = m + 1 \/ i \in 1 .. m
    BY <1>6
  <2>3. \A i \in 1 .. m : kept[i] \in 1 .. n /\ i # m + 1 /\ i \in 1 .. m + 1
    BY <2>1, <1>6
  <2>4. /\ more[m + 1] = n + 1
        /\ \A i \in 1 .. m : more[i] = kept[i]
    BY <2>3, <1>6
  <2>5. more \in [1 .. m + 1 -> 1 .. n + 1]
    BY <2>2, <2>3, <1>4
  <2> HIDE DEF more
  <2>6. \A i \in 1 .. m + 1 : list'[i] = C[more[i]]
    BY <2>1, <2>2, <2>4, <1>3, <1>4
  <2>7. \A i, j \in 1 .. m + 1 : i < j => more[i] < more[j]
    <3> SUFFICES ASSUME NEW i \in 1 .. m + 1, NEW j \in 1 .. m + 1, i < j
                 PROVE  more[i] < more[j]
      OBVIOUS
    <3>1. i \in 1 .. m
      BY <1>6
    <3>2. CASE j = m + 1
      BY <3>1, <3>2, <2>3, <2>4, <1>4
    <3>3. CASE j \in 1 .. m
      BY <3>1, <3>3, <2>1, <2>4
    <3> QED
      BY <3>2, <3>3, <2>2
  <2>8. /\ more \in [1 .. Len(list') -> 1 .. n']
        /\ \A i \in 1 .. Len(list') : list'[i] = C'[more[i]]
        /\ \A i, j \in 1 .. Len(list') : i < j => more[i] < more[j]
    BY <2>5, <2>6, <2>7, <1>2, <1>3
  <2> QED
    BY <2>8 DEF HeldInOrder
<1>8. Bytes(C) <= cache_capacity =>
          Len(list') = n + 1 /\ \A i \in 1 .. n + 1 : list'[i] = C[i]
  <2> SUFFICES ASSUME Bytes(C) <= cache_capacity
               PROVE  Len(list') = n + 1 /\ \A i \in 1 .. n + 1 : list'[i] = C[i]
    OBVIOUS
  <2>1. m = n /\ \A i \in 1 .. n : list[i] = C[i]
    BY <1>5
  <2>2. \A i \in 1 .. n + 1 : i = n + 1 \/ i \in 1 .. n
    BY <1>4
  <2> QED
    BY <2>1, <2>2, <1>3, <1>4
<1>9. LoadSplits'
  <2>1. request' = NoRequest /\ Len(order') = Len(list') /\ cache_capacity' = cache_capacity
    BY <1>1, <1>3, <1>5
  <2>2. Len(input') <= Len(Source') /\ \A j \in 1 .. Len(input') : input'[j] = Source'[Read' + j]
    BY <1>2, <1>4 DEF C, n
  <2>3. HeldInOrder(Source, Read)'
    BY <1>7 DEF C, n
  <2>4. Bytes(Source') <= cache_capacity' =>
          Len(list') = Read' /\ \A i \in 1 .. Read' : list'[i] = Source'[i]
    BY <2>1, <1>2, <1>8 DEF C, n
  <2> QED
    BY <2>1, <2>2, <2>3, <2>4 DEF LoadSplits
<1> QED
  BY <1>2, <1>3, <1>9 DEF DailyInv
\* The last line is read; get() and insert() run on the cache in between.
LEMMA RunKeeps ==
    ASSUME DailyInv, LoadDone \/ RunGet \/ RunInsert
    PROVE  DailyInv'
<1>1. /\ [Next]_vars /\ phase' = "run" /\ phase # "off"
      /\ UNCHANGED <<day, input, disk>>
  BY DEF LoadDone, RunGet, RunInsert, Next, process
<1>2. IInv'
  BY <1>1, NextKeeps DEF DailyInv
<1>3. DailyTypeOK' /\ FilesAreSound'
  BY <1>1 DEF DailyInv, DailyTypeOK, FilesAreSound, disk
<1>4. OffIsEmpty' /\ SaveSplits' /\ LoadSplits'
  BY <1>1 DEF OffIsEmpty, SaveSplits, LoadSplits
<1> QED
  BY <1>2, <1>3, <1>4 DEF DailyInv

\* Save() opens the file: it is empty, and the list is all there is to write.
LEMMA OpenKeeps ==
    ASSUME DailyInv, OpenCheckpoint
    PROVE  DailyInv'
<1>1. /\ phase' = "save" /\ request = NoRequest /\ day \in Day
      /\ UNCHANGED <<name, list, cache_map, cache_size, cache_capacity, request, order, used>>
      /\ UNCHANGED vars /\ day' = day /\ input' = input
      /\ checkpoint' = [checkpoint EXCEPT ![day] = << >>]
      /\ image' = [image EXCEPT ![day] = list]
      /\ saved' = saved \ {day}
  BY DEF OpenCheckpoint, Truncated, vars, DailyInv, DailyTypeOK
<1>2. IInv'
  BY <1>1, NextKeeps DEF DailyInv
<1>3. list \in Seq(Node) /\ KeysDistinct(list)
  BY DEF DailyInv, IInv, TypeOK, MapMatchesList
<1>4. /\ checkpoint \in [Day -> Seq(Node) \union {NoFile}] /\ image \in [Day -> Seq(Node)]
      /\ input \in Seq(Node) /\ saved \subseteq Day
  BY DEF DailyInv, DailyTypeOK
<1>5. << >> \in Seq(Node) /\ << >> # NoFile
  <2>1. << >> \in Seq(Node)
    OBVIOUS
  <2>2. NoFile \notin Seq(Node)
    BY DailyAssumption DEF DailyAssumption
  <2> QED
    BY <2>1, <2>2
<1>6. checkpoint' \in [Day -> Seq(Node) \union {NoFile}] /\ image' \in [Day -> Seq(Node)]
  BY <1>1, <1>3, <1>4, <1>5
<1>7. DailyTypeOK'
  BY <1>1, <1>4, <1>6 DEF DailyTypeOK
<1>8. checkpoint'[day] = << >> /\ image'[day] = list
  BY <1>1, <1>4
<1>9. FilesAreSound'
  <2> SUFFICES ASSUME NEW d \in Day
               PROVE  /\ KeysDistinct(image'[d])
                      /\ checkpoint'[d] # NoFile => Begins(checkpoint'[d], image'[d])
                      /\ d \in saved' => checkpoint'[d] = image'[d]
    BY DEF FilesAreSound
  <2>1. CASE d = day
    <3>1. Begins(<< >>, list)
      BY <1>3 DEF Begins
    <3> QED
      BY <2>1, <3>1, <1>1, <1>3, <1>8
  <2>2. CASE d # day
    <3>1. checkpoint'[d] = checkpoint[d] /\ image'[d] = image[d] /\ (d \in saved' => d \in saved)
      BY <2>2, <1>1, <1>4
    <3> QED
      BY <3>1 DEF DailyInv, FilesAreSound
  <2> QED
    BY <2>1, <2>2
<1>10. SaveSplits'
  <2>1. /\ day' \notin saved' /\ request' = NoRequest /\ checkpoint'[day'] = << >> /\ list' = list
        /\ image'[day'] = list
    BY <1>1, <1>8
  <2>2. Len(<< >>) = 0 /\ Len(list) \in Nat /\ \A i \in 1 .. Len(list) : 0 + i = i
    BY <1>3
  <2> QED
    BY <2>1, <2>2, <1>5 DEF SaveSplits
<1>11. OffIsEmpty' /\ LoadSplits'
  BY <1>1 DEF OffIsEmpty, LoadSplits
<1> QED
  BY <1>2, <1>7, <1>9, <1>10, <1>11 DEF DailyInv

\* Pop() leaves the books and the history right, and its victim is the front.
LEMMA PopKeepsBooks ==
    ASSUME DailyInv, PopLine
    PROVE  /\ IInv' /\ day \in Day /\ list # << >> /\ Head(list) = list[1] /\ Head(list) \in Node
           /\ Len(list) \in Nat /\ 0 < Len(list) /\ Len(list') = Len(list) - 1
           /\ \A i \in 1 .. Len(list) - 1 : list'[i] = list[i + 1]
<1> DEFINE x == Head(list)
           k == Head(list).key
           m == Len(list)
           o == Len(order)
<1>1. /\ list \in Seq(Node) /\ KeysDistinct(list) /\ cache_map = KeysOf(list)
      /\ cache_size = Bytes(list) /\ cache_size <= cache_capacity /\ cache_map \in SUBSET Key
      /\ order \in Seq(Key) /\ IsInjective(order) /\ used \in SUBSET Key /\ cache_size \in Word
      /\ m <= o /\ \A i \in DOMAIN list : list[i].key = order[i]
  BY DEF DailyInv, IInv, TypeOK, MapMatchesList, SizeMatchesList, WithinCapacity, OrderDistinct,
         StoredIsMostRecent
<1>2. /\ phase = "save" /\ cache_size # 0
      /\ list' = Tail(list) /\ cache_map' = cache_map \ {k}
      /\ cache_size' = Minus(cache_size, ChunkSize(x.size))
      /\ order' = Tail(order) /\ used' = used \ {k}
      /\ UNCHANGED <<name, cache_capacity, request>>
  BY DEF PopLine, NothingLeft, Empty
<1>3. request = NoRequest /\ day \in Day
  BY <1>2 DEF DailyInv, SaveSplits, DailyTypeOK
<1>4. list # << >>
  BY <1>1, <1>2, BytesEmpty
<1> HIDE DEF x, k, m, o
<1>5. /\ m \in Nat /\ m > 0 /\ x = list[1] /\ x \in Node
      /\ list' \in Seq(Node) /\ Len(list') = m - 1
      /\ \A i \in 1 .. m - 1 : list'[i] = list[i + 1]
      /\ KeysDistinct(list')
      /\ KeysOf(list') = KeysOf(list) \ {k}
      /\ Bytes(list) = Bytes(list') + ChunkSize(x.size)
  BY <1>1, <1>2, <1>4, TailNode DEF k, m, x
<1>6. /\ o \in Nat /\ m <= o /\ order' \in Seq(Key) /\ Len(order') = o - 1
      /\ \A i \in 1 .. o - 1 : order'[i] = order[i + 1]
  BY <1>1, <1>2, <1>5 DEF o
<1>7. cache_size' = Bytes(list') /\ cache_size' <= cache_capacity' /\ cache_size' \in Word
  <2>1. Bytes(list') \in Nat /\ ChunkSize(x.size) \in Nat
    BY <1>5, BytesType, ChunkFacts
  <2>2. cache_size = Bytes(list') + ChunkSize(x.size)
    BY <1>1, <1>5
  <2>3. cache_size' = Bytes(list')
    BY <1>2, <2>1, <2>2 DEF Minus
  <2>4. WORD \in Nat
    BY ChunkFacts
  <2>5. cache_capacity \in Nat
    BY BaseAssumption DEF BaseAssumption, DailyInv, IInv, TypeOK
  <2> QED
    BY <2>1, <2>2, <2>3, <2>4, <2>5, <1>1, <1>2 DEF Word
<1>8. TypeOK'
  <2>1. cache_map' \in SUBSET Key /\ used' \in SUBSET Key
    BY <1>1, <1>2
  <2> QED
    BY <2>1, <1>2, <1>5, <1>6, <1>7 DEF TypeOK, DailyInv, IInv
<1>9. (MapMatchesList /\ SizeMatchesList /\ WithinCapacity /\ InsertOnlyAbsent)'
  BY <1>1, <1>2, <1>3, <1>5, <1>7
     DEF MapMatchesList, SizeMatchesList, WithinCapacity, InsertOnlyAbsent
<1>10. OrderDistinct'
  <2> SUFFICES ASSUME NEW i \in 1 .. o - 1, NEW j \in 1 .. o - 1, order'[i] = order'[j]
               PROVE  i = j
    BY <1>6 DEF OrderDistinct, IsInjective
  <2>1. i + 1 \in DOMAIN order /\ j + 1 \in DOMAIN order /\ order[i + 1] = order[j + 1]
    BY <1>1, <1>6 DEF o
  <2>2. i + 1 = j + 1
    BY <2>1, <1>1 DEF IsInjective
  <2> QED
    BY <2>2
<1>11. StoredIsMostRecent'
  <2>1. Len(list') <= Len(order')
    BY <1>5, <1>6
  <2>2. ASSUME NEW i \in DOMAIN list'
        PROVE  list'[i].key = order'[i]
    <3>1. i \in 1 .. m - 1
      BY <1>5
    <3>2. i \in 1 .. o - 1 /\ i + 1 \in 1 .. m /\ i + 1 \in DOMAIN list
      BY <3>1, <1>1, <1>5, <1>6 DEF m
    <3> QED
      BY <3>1, <3>2, <1>1, <1>5, <1>6
  <2> QED
    BY <2>1, <2>2 DEF StoredIsMostRecent
<1>12. UsedAreFlagged'
  <2> SUFFICES ASSUME name' = "FIFO2" PROVE UsedAreFlagged'
    BY DEF UsedAreFlagged
  <2>1. used \subseteq KeysOf(list) /\ \A i \in DOMAIN list : list[i].key \in used => list[i].flag
    BY <1>2 DEF UsedAreFlagged, DailyInv, IInv
  <2>2. used' \subseteq KeysOf(list')
    BY <2>1, <1>2, <1>5
  <2>3. ASSUME NEW i \in DOMAIN list', list'[i].key \in used'
        PROVE  list'[i].flag
    <3>1. i \in 1 .. m - 1 /\ i + 1 \in DOMAIN list
      BY <1>1, <1>5 DEF m
    <3>2. list'[i] = list[i + 1] /\ list[i + 1].key \in used
      BY <3>1, <1>5, <1>2, <2>3
    <3> QED
      BY <3>1, <3>2, <2>1
  <2> QED
    BY <2>2, <2>3 DEF UsedAreFlagged
<1>13. IInv'
  BY <1>8, <1>9, <1>10, <1>11, <1>12 DEF IInv
<1> QED
  BY <1>3, <1>4, <1>5, <1>13 DEF m, x

\* A line moves from the list to the file.
LEMMA PopKeeps ==
    ASSUME DailyInv, PopLine
    PROVE  DailyInv'
<1> DEFINE f == checkpoint[day]
           g == image[day]
           x == Head(list)
           m == Len(list)
<1>1. /\ IInv' /\ day \in Day /\ x = list[1] /\ x \in Node
      /\ m \in Nat /\ 0 < m /\ Len(list') = m - 1
      /\ \A i \in 1 .. m - 1 : list'[i] = list[i + 1]
  BY PopKeepsBooks
<1>2. /\ phase = "save" /\ phase' = "save" /\ day' = day /\ input' = input
      /\ checkpoint' = [checkpoint EXCEPT ![day] = Append(f, x)]
      /\ image' = image /\ saved' = saved /\ request' = request
  BY DEF PopLine, process
<1>3. /\ day \notin saved /\ request = NoRequest /\ f # NoFile
      /\ Len(g) = Len(f) + m /\ \A i \in 1 .. m : list[i] = g[Len(f) + i]
  BY <1>2 DEF DailyInv, SaveSplits
<1>4. /\ checkpoint \in [Day -> Seq(Node) \union {NoFile}] /\ image \in [Day -> Seq(Node)]
      /\ input \in Seq(Node) /\ saved \subseteq Day
  BY DEF DailyInv, DailyTypeOK
<1>5. f \in Seq(Node) /\ g \in Seq(Node)
  BY <1>1, <1>3, <1>4
<1>6. Begins(f, g) /\ KeysDistinct(g)
  BY <1>1, <1>3 DEF DailyInv, FilesAreSound
<1> HIDE DEF f, g, x, m
<1> DEFINE h == Append(f, x)
<1>7. /\ h \in Seq(Node) /\ Len(h) = Len(f) + 1 /\ Len(f) \in Nat
      /\ h[Len(f) + 1] = x /\ \A i \in 1 .. Len(f) : h[i] = f[i]
  BY <1>1, <1>5
<1>8. checkpoint'[day] = h /\ image'[day] = g
  BY <1>1, <1>2, <1>4 DEF g
<1>9. h # NoFile
  BY <1>7, DailyAssumption DEF DailyAssumption
<1>10. DailyTypeOK'
  <2>1. checkpoint' \in [Day -> Seq(Node) \union {NoFile}]
    BY <1>2, <1>4, <1>7
  <2> QED
    BY <2>1, <1>1, <1>2, <1>4 DEF DailyTypeOK
<1> HIDE DEF h
<1>11. Begins(h, g)
  <2>1. Len(h) <= Len(g)
    BY <1>1, <1>3, <1>7
  <2>2. ASSUME NEW i \in 1 .. Len(h) PROVE h[i] = g[i]
    <3>1. i \in 1 .. Len(f) \/ i = Len(f) + 1
      BY <1>7
    <3>2. CASE i \in 1 .. Len(f)
      BY <3>2, <1>6, <1>7 DEF Begins
    <3>3. CASE i = Len(f) + 1
      <4>1. 1 \in 1 .. m
        BY <1>1
      <4>2. list[1] = g[Len(f) + 1]
        BY <4>1, <1>3
      <4> QED
        BY <3>3, <4>2, <1>1, <1>7
    <3> QED
      BY <3>1, <3>2, <3>3
  <2> QED
    BY <2>1, <2>2 DEF Begins
<1>12. FilesAreSound'
  <2> SUFFICES ASSUME NEW d \in Day
               PROVE  /\ KeysDistinct(image'[d])
                      /\ checkpoint'[d] # NoFile => Begins(checkpoint'[d], image'[d])
                      /\ d \in saved' => checkpoint'[d] = image'[d]
    BY DEF FilesAreSound
  <2>1. CASE d = day
    BY <2>1, <1>2, <1>3, <1>6, <1>8, <1>11
  <2>2. CASE d # day
    <3>1. checkpoint'[d] = checkpoint[d] /\ image'[d] = image[d] /\ saved' = saved
      BY <2>2, <1>2, <1>4
    <3> QED
      BY <3>1 DEF DailyInv, FilesAreSound
  <2> QED
    BY <2>1, <2>2
<1>13. SaveSplits'
  <2>1. Len(g) = Len(h) + Len(list')
    BY <1>1, <1>3, <1>7
  <2>2. ASSUME NEW i \in 1 .. Len(list') PROVE list'[i] = g[Len(h) + i]
    <3>1. i \in 1 .. m - 1 /\ i + 1 \in 1 .. m /\ Len(f) + (i + 1) = Len(h) + i
      BY <1>1, <1>7
    <3>2. list'[i] = list[i + 1] /\ list[i + 1] = g[Len(f) + (i + 1)]
      BY <3>1, <1>1, <1>3
    <3> QED
      BY <3>1, <3>2
  <2>3. day' \notin saved' /\ request' = NoRequest /\ checkpoint'[day'] = h /\ image'[day'] = g
    BY <1>2, <1>3, <1>8
  <2> QED
    BY <2>1, <2>2, <2>3, <1>9 DEF SaveSplits
<1>14. OffIsEmpty' /\ LoadSplits'
  BY <1>2 DEF OffIsEmpty, LoadSplits
<1> QED
  BY <1>1, <1>10, <1>12, <1>13, <1>14 DEF DailyInv
\* Save() is over when the counter says so, and then the list is empty and the
\* file is the whole of it.
LEMMA SaveDoneKeeps ==
    ASSUME DailyInv, SaveDone
    PROVE  DailyInv'
<1> DEFINE f == checkpoint[day]
           g == image[day]
<1>1. /\ phase = "save" /\ cache_size = 0 /\ Destroyed
      /\ saved' = saved \union {day} /\ checkpoint' = checkpoint /\ image' = image
  BY DEF SaveDone, NothingLeft, Empty
<1>2. /\ checkpoint \in [Day -> Seq(Node) \union {NoFile}] /\ image \in [Day -> Seq(Node)]
      /\ day \in Day /\ saved \subseteq Day
  BY <1>1 DEF DailyInv, DailyTypeOK
<1>3. f # NoFile /\ Len(g) = Len(f) + Len(list)
  BY <1>1 DEF DailyInv, SaveSplits
<1>4. f \in Seq(Node) /\ g \in Seq(Node) /\ Begins(f, g)
  BY <1>2, <1>3 DEF DailyInv, FilesAreSound
<1>5. list = << >>
  <2> SUFFICES ASSUME list # << >> PROVE FALSE
    OBVIOUS
  <2>1. list \in Seq(Node) /\ KeysDistinct(list) /\ Bytes(list) = 0
    BY <1>1 DEF DailyInv, IInv, TypeOK, MapMatchesList, SizeMatchesList
  <2>2. Bytes(list) = Bytes(Tail(list)) + ChunkSize(Head(list).size) /\ Tail(list) \in Seq(Node)
    BY <2>1, TailNode
  <2>3. Bytes(Tail(list)) \in Nat
    BY <2>2, BytesType
  <2>4. ChunkSize(Head(list).size) \in Nat /\ 0 < ChunkSize(Head(list).size)
    BY ChunkFacts
  <2> QED
    BY <2>1, <2>2, <2>3, <2>4
<1> HIDE DEF f, g
<1>6. f = g
  <2>1. Len(f) = Len(g)
    BY <1>3, <1>4, <1>5
  <2> QED
    BY <2>1, <1>4 DEF Begins
<1>7. FilesAreSound'
  <2> SUFFICES ASSUME NEW d \in Day
               PROVE  /\ KeysDistinct(image[d])
                      /\ checkpoint[d] # NoFile => Begins(checkpoint[d], image[d])
                      /\ d \in saved \union {day} => checkpoint[d] = image[d]
    BY <1>1 DEF FilesAreSound
  <2>1. /\ KeysDistinct(image[d])
        /\ checkpoint[d] # NoFile => Begins(checkpoint[d], image[d])
        /\ d \in saved => checkpoint[d] = image[d]
    BY DEF DailyInv, FilesAreSound
  <2> QED
    BY <2>1, <1>6 DEF f, g
<1>8. saved' \subseteq Day
  BY <1>1, <1>2
<1> QED
  BY <1>1, <1>2, <1>7, <1>8, DestroyedKeeps

\* A call that dies while saving leaves the beginning of what it wrote.
LEMMA DiesKeeps ==
    ASSUME DailyInv, Dies
    PROVE  DailyInv'
<1>1. phase # "off" /\ Destroyed /\ image' = image /\ saved' = saved
  BY DEF Dies
<1>2. /\ checkpoint \in [Day -> Seq(Node) \union {NoFile}] /\ image \in [Day -> Seq(Node)]
      /\ day \in Day /\ saved \subseteq Day
  BY <1>1 DEF DailyInv, DailyTypeOK
<1>3. CASE phase # "save"
  <2>1. checkpoint' = checkpoint
    BY <1>3 DEF Dies
  <2>2. FilesAreSound'
    BY <2>1, <1>1 DEF DailyInv, FilesAreSound
  <2> QED
    BY <2>1, <2>2, <1>1, <1>2, DestroyedKeeps
<1>4. CASE phase = "save"
  <2> DEFINE f == checkpoint[day]
             g == image[day]
  <2>1. PICK n \in 0 .. Len(f) : checkpoint' = [checkpoint EXCEPT ![day] = SubSeq(f, 1, n)]
    BY <1>4 DEF Dies
  <2>2. f # NoFile /\ day \notin saved
    BY <1>4 DEF DailyInv, SaveSplits
  <2>3. f \in Seq(Node) /\ g \in Seq(Node) /\ Begins(f, g) /\ KeysDistinct(g)
    BY <1>2, <2>2 DEF DailyInv, FilesAreSound
  <2> HIDE DEF f, g
  <2> DEFINE h == SubSeq(f, 1, n)
  <2>4. h \in Seq(Node) /\ Len(h) = n /\ n <= Len(f) /\ \A i \in 1 .. n : h[i] = f[i]
    BY <2>3
  <2> HIDE DEF h
  <2>5. Begins(h, g)
    BY <2>3, <2>4 DEF Begins
  <2>6. checkpoint'[day] = h /\ checkpoint' \in [Day -> Seq(Node) \union {NoFile}]
    BY <2>1, <2>4, <1>2 DEF h
  <2>7. FilesAreSound'
    <3> SUFFICES ASSUME NEW d \in Day
                 PROVE  /\ KeysDistinct(image[d])
                        /\ checkpoint'[d] # NoFile => Begins(checkpoint'[d], image[d])
                        /\ d \in saved => checkpoint'[d] = image[d]
      BY <1>1 DEF FilesAreSound
    <3>1. CASE d = day
      BY <3>1, <2>2, <2>3, <2>5, <2>6 DEF g
    <3>2. CASE d # day
      <4>1. checkpoint'[d] = checkpoint[d]
        BY <3>2, <2>1, <1>2
      <4> QED
        BY <4>1 DEF DailyInv, FilesAreSound
    <3> QED
      BY <3>1, <3>2
  <2> QED
    BY <2>6, <2>7, <1>1, <1>2, DestroyedKeeps
<1> QED
  BY <1>3, <1>4

\* Every step of a call keeps the invariant.
LEMMA DailyNextKeeps == DailyInv /\ [DailyNext]_dailyVars => DailyInv'
<1> SUFFICES ASSUME DailyInv, [DailyNext]_dailyVars PROVE DailyInv'
  OBVIOUS
<1>1. CASE \E d \in Day, c \in Capacities : StartDay(d, c)
  BY <1>1, StartKeeps
<1>2. CASE Load
  BY <1>2, PushKeeps, SkipKeeps, RunKeeps DEF Load
<1>3. CASE RunGet \/ RunInsert
  BY <1>3, RunKeeps
<1>4. CASE Save
  <2>1. CASE OpenFails
    <3>1. Destroyed /\ UNCHANGED disk
      BY <2>1 DEF OpenFails
    <3>2. FilesAreSound' /\ checkpoint' \in [Day -> Seq(Node) \union {NoFile}] /\ image' = image
          /\ saved' \subseteq Day
      BY <3>1 DEF DailyInv, DailyTypeOK, FilesAreSound, disk
    <3> QED
      BY <3>1, <3>2, DestroyedKeeps
  <2> QED
    BY <1>4, <2>1, OpenKeeps, PopKeeps, SaveDoneKeeps DEF Save
<1>5. CASE Dies
  BY <1>5, DiesKeeps
<1>6. CASE UNCHANGED dailyVars
  <2>1. UNCHANGED vars /\ UNCHANGED <<phase, day, input, checkpoint, image, saved>>
    BY <1>6 DEF dailyVars, process, disk
  <2>2. UNCHANGED <<name, list, cache_map, cache_size, cache_capacity, request, order, used>>
    BY <2>1 DEF vars
  <2>3. IInv'
    BY <2>1, NextKeeps DEF DailyInv
  <2>4. DailyTypeOK' /\ OffIsEmpty' /\ FilesAreSound'
    BY <2>1, <2>2 DEF DailyInv, DailyTypeOK, OffIsEmpty, FilesAreSound
  <2>5. SaveSplits'
    BY <2>1, <2>2 DEF DailyInv, SaveSplits
  <2>6. Source' = Source /\ Read' = Read
    BY <2>1 DEF Source, Read
  <2>7. HeldInOrder(Source, Read)' <=> HeldInOrder(Source, Read)
    BY <2>2, <2>6 DEF HeldInOrder
  <2>8. LoadSplits'
    BY <2>1, <2>2, <2>6, <2>7 DEF DailyInv, LoadSplits
  <2> QED
    BY <2>3, <2>4, <2>5, <2>8 DEF DailyInv
<1> QED
  BY <1>1, <1>2, <1>3, <1>4, <1>5, <1>6 DEF DailyNext

-----------------------------------------------------------------------------
\* Through load, replay, save and death, for any days and capacities, the
\* inductive invariant holds.
THEOREM DailyInvariant == DailySpec => []DailyInv
  BY DailyInitInv, DailyNextKeeps, PTL DEF DailySpec

\* Push(), the replay and Pop() keep map, list and counter agreeing, within the
\* capacity of the call, and evict() always has a victim.
THEOREM CacheStaysConsistent == DailySpec => []CacheConsistent
<1>1. DailyInv => CacheConsistent
  <2> SUFFICES ASSUME DailyInv PROVE CacheConsistent
    OBVIOUS
  <2>1. EvictHasVictim
    BY EmptyIsNotFull DEF DailyInv, IInv, EvictHasVictim
  <2> QED
    BY <2>1 DEF DailyInv, IInv, CacheConsistent
<1> QED
  BY <1>1, DailyInvariant, PTL

\* Save() that returns has written every node, front first.
THEOREM SavesAreComplete == DailySpec => []SaveIsComplete
<1>1. DailyInv => SaveIsComplete
  BY DEF DailyInv, DailyTypeOK, FilesAreSound, SaveIsComplete
<1> QED
  BY <1>1, DailyInvariant, PTL

\* A save cut short leaves the nodes at the front of the list and nothing else.
THEOREM CrashLeavesPrefix == DailySpec => []CheckpointIsPrefix
<1>1. DailyInv => CheckpointIsPrefix
  <2> SUFFICES ASSUME DailyInv, NEW d \in Day, checkpoint[d] # NoFile
               PROVE  IsPrefix(checkpoint[d], image[d])
    BY DEF CheckpointIsPrefix
  <2>1. checkpoint[d] \in Seq(Node) /\ image[d] \in Seq(Node) /\ Begins(checkpoint[d], image[d])
    BY DEF DailyInv, DailyTypeOK, FilesAreSound
  <2> QED
    BY <2>1, PrefixFacts
<1> QED
  BY <1>1, DailyInvariant, PTL

\* Loading into a smaller cache keeps some of the lines, in their order.
THEOREM LoadsKeepOrder == DailySpec => []LoadKeepsOrder
<1>1. DailyInv => LoadKeepsOrder
  <2> SUFFICES ASSUME DailyInv, phase = "load", day - 1 \in Day, checkpoint[day - 1] # NoFile
               PROVE  \E kept \in [1 .. Len(list) -> DOMAIN checkpoint[day - 1]] :
                        /\ \A i \in DOMAIN list : list[i] = checkpoint[day - 1][kept[i]]
                        /\ \A i, j \in DOMAIN list : i < j => kept[i] < kept[j]
    BY DEF LoadKeepsOrder
  <2> DEFINE C == checkpoint[day - 1]
  <2>1. Source = C /\ C \in Seq(Node)
    BY SourceFacts DEF Source, DailyInv
  <2>2. HeldInOrder(C, Read) /\ Len(input) <= Len(C) /\ input \in Seq(Node)
    BY <2>1 DEF DailyInv, LoadSplits, DailyTypeOK
  <2>3. Read = Len(C) - Len(input)
    BY <2>1 DEF Read
  <2>4. list \in Seq(Node)
    BY DEF DailyInv, IInv, TypeOK
  <2> HIDE DEF C
  <2>5. 1 .. Read \subseteq DOMAIN C /\ DOMAIN list = 1 .. Len(list)
    BY <2>1, <2>2, <2>3, <2>4
  <2>6. PICK kept \in [1 .. Len(list) -> 1 .. Read] :
          /\ \A i \in 1 .. Len(list) : list[i] = C[kept[i]]
          /\ \A i, j \in 1 .. Len(list) : i < j => kept[i] < kept[j]
    BY <2>2 DEF HeldInOrder
  <2>7. kept \in [1 .. Len(list) -> DOMAIN C]
    BY <2>5, <2>6
  <2> QED
    BY <2>5, <2>6, <2>7 DEF C
<1> QED
  BY <1>1, DailyInvariant, PTL

\* A day that follows a complete save that fits its capacity resumes with the
\* very list that was saved: splitting a trace at midnight changes nothing.
THEOREM RestartIsTransparent == DailySpec => RestartTransparent
<1>1. DailyInv /\ [DailyNext]_dailyVars =>
        [ (phase = "load" /\ phase' = "run" /\ day - 1 \in saved
             /\ Bytes(image[day - 1]) <= cache_capacity)
          => list' = image[day - 1] ]_dailyVars
  <2> SUFFICES ASSUME DailyInv, DailyNext, phase = "load", phase' = "run", day - 1 \in saved,
                      Bytes(image[day - 1]) <= cache_capacity
               PROVE  list' = image[day - 1]
    OBVIOUS
  <2> DEFINE C == checkpoint[day - 1]
  <2>1. LoadDone
    BY DEF DailyNext, StartDay, Load, PushLine, SkipLine, RunGet, RunInsert, Save, OpenCheckpoint,
           OpenFails, PopLine, SaveDone, Dies, Destroyed, process
  <2>2. list' = list /\ input = << >>
    BY <2>1 DEF LoadDone, vars
  <2>3. day - 1 \in Day /\ C = image[day - 1] /\ C \in Seq(Node)
    BY DEF DailyInv, DailyTypeOK, FilesAreSound
  <2>4. C # NoFile
    BY <2>3, DailyAssumption DEF DailyAssumption
  <2>5. Source = C
    BY <2>3, <2>4 DEF Source
  <2>6. list \in Seq(Node)
    BY DEF DailyInv, IInv, TypeOK
  <2> HIDE DEF C
  <2>7. Read = Len(C)
    BY <2>2, <2>3, <2>5 DEF Read
  <2>8. Len(list) = Len(C) /\ \A i \in 1 .. Len(C) : list[i] = C[i]
    BY <2>3, <2>5, <2>7 DEF DailyInv, LoadSplits
  <2>9. list = C
    BY <2>3, <2>6, <2>8
  <2> QED
    BY <2>2, <2>3, <2>9
<1> QED
  BY <1>1, DailyInvariant, PTL DEF DailySpec, RestartTransparent
=============================================================================
