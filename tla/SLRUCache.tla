----------------------------- MODULE SLRUCache -----------------------------
(***************************************************************************)
(* Segmented LRU (cache/base/slru.h), the cache behind S2LRU, S3LRU and    *)
(* S4LRU: n lists of nodes.  A new node enters the lowest; a hit moves a   *)
(* node one list up; a list above the lowest that outgrows its share of    *)
(* the capacity demotes from its tail; eviction takes the tail of the      *)
(* lowest list that is not empty.  get() and insert() are loops, and an    *)
(* iteration of a loop is an action: `level` is get()'s loop variable seg, *)
(* 0 outside get(), and `request` holds the arguments of insert().         *)
(***************************************************************************)
EXTENDS CacheBase, SequencesExt

CONSTANTS
    SegmentCounts,  \* the numbers of lists a cache is configured with
    NoRequest       \* no insert() is running

\* CacheCheckpoint::CreateCache and CacheInstance build them with 2, 3 or 4.
ASSUME SegmentAssumption == SegmentCounts \subseteq {2, 3, 4}

Request == [key : Key, size : Size]
\* It is no request, nor what the abstract cache remembers of one.
ASSUME NoRequestAssumption ==
    NoRequest \notin Request \union [key : Key, chunk : {BIG, TINY}]

FIRST  == 0
FOURTH == 3
Segment == FIRST .. FOURTH
Node == [key : Key, size : Size, seg : Segment]

VARIABLES
    lists,          \* lists_, each front first
    sizes,          \* sizes_, the bytes of each list
    cache_map,      \* the keys of cache_map_; an iterator is its node's key
    cache_size,     \* Cache::cache_size_
    cache_capacity, \* Cache::cache_capacity_
    level,          \* the segment get() is demoting from, or 0
    request,        \* the arguments of the insert() that is running
    hits            \* history: the hits of each stored key since its insertion

vars == <<lists, sizes, cache_map, cache_size, cache_capacity, level, request, hits>>

-----------------------------------------------------------------------------
Segments == DOMAIN lists
Count == Cardinality(Segments)
avg_capacity == cache_capacity \div Count

Lesser(a, b) == IF a <= b THEN a ELSE b

HighestLevel == Lesser(FOURTH, Count - 1)

HighLevel(low) == Lesser(FOURTH, Lesser(low + 1, Count - 1))

SameLevel(high) == high                     \* fault: demoted to where it is
LowLevel(high) == IF high - 1 >= FIRST THEN high - 1 ELSE FIRST

\* The segment get() demotes from after `seg`.
StraightToFirst(seg) == FIRST               \* fault: only the highest is cut back
NextDown(seg) == seg - 1

\* An iterator's node: the list it is in and its position there.
SegmentOf(k)  == CHOOSE g \in Segments : k \in KeysOf(lists[g])
PositionOf(k) == CHOOSE i \in DOMAIN lists[SegmentOf(k)] : lists[SegmentOf(k)][i].key = k

Retagged(node, to) == [node EXCEPT !.seg = to]

SizesMoved(from, to, chunk) ==
    LET added == [sizes EXCEPT ![to] = Plus(@, chunk)]
    IN  [added EXCEPT ![from] = Minus(@, chunk)]

\* Move(): retag the node at position i of `from` and splice it to the front of
\* `to`, which may be `from` itself.
Move(from, to, i) ==
    LET node  == lists[from][i]
        taken == [lists EXCEPT ![from] = RemoveAt(@, i)]
    IN  /\ sizes' = SizesMoved(from, to, ChunkSize(node.size))
        /\ lists' = [taken EXCEPT ![to] = <<Retagged(node, to)>> \o @]

\* The condition of insert()'s loop.
FullForBig == IsFullAt(cache_size, cache_capacity, BIG)     \* fault: the worst case
Full == IsFullAt(cache_size, cache_capacity, ChunkSize(request.size))

Init ==
    /\ \E n \in SegmentCounts :
         /\ lists = [g \in 0 .. n - 1 |-> << >>]
         /\ sizes = [g \in 0 .. n - 1 |-> 0]
    /\ cache_map = {}
    /\ cache_size = 0
    /\ cache_capacity \in Capacities
    /\ level = 0
    /\ request = NoRequest
    /\ hits = [k \in Key |-> 0]

Idle == level = 0 /\ request = NoRequest

-----------------------------------------------------------------------------
(* get() *)

\* A hit promotes the node its iterator names, by the tag the node carries,
\* and starts the demotions from the highest list.
GetHit(k) ==
    /\ Idle
    /\ k \in cache_map
    /\ LET from == lists[SegmentOf(k)][PositionOf(k)].seg
       IN  Move(from, HighLevel(from), PositionOf(k))
    /\ level' = HighestLevel
    /\ hits' = [hits EXCEPT ![k] = Lesser(FOURTH, @ + 1)]
    /\ UNCHANGED <<cache_map, cache_size, cache_capacity, request>>

GetMiss(k, s) ==
    /\ Idle
    /\ k \notin cache_map
    /\ request' = [key |-> k, size |-> s]
    /\ UNCHANGED <<lists, sizes, cache_map, cache_size, cache_capacity, level, hits>>

Demote ==
    /\ level > 0
    /\ sizes[level] > avg_capacity
    /\ lists[level] # << >>
    /\ Move(level, LowLevel(level), Len(lists[level]))
    /\ UNCHANGED <<cache_map, cache_size, cache_capacity, level, request, hits>>

NextLevel ==
    /\ level > 0
    /\ sizes[level] <= avg_capacity
    /\ level' = NextDown(level)
    /\ UNCHANGED <<lists, sizes, cache_map, cache_size, cache_capacity, request, hits>>

-----------------------------------------------------------------------------
(* insert() *)

\* Evict(): the lowest list whose byte count is not zero loses its tail.
HighestVictim ==                            \* fault: the highest such list
    CHOOSE g \in Segments : sizes[g] > 0 /\ \A h \in Segments : h > g => sizes[h] = 0
VictimSegment ==
    CHOOSE g \in Segments : sizes[g] > 0 /\ \A h \in Segments : h < g => sizes[h] = 0

Evict ==
    /\ request # NoRequest
    /\ Full
    /\ \E g \in Segments : sizes[g] > 0
    /\ LET g     == VictimSegment
           node  == Last(lists[g])
           chunk == ChunkSize(node.size)
       IN  /\ sizes' = [sizes EXCEPT ![g] = Minus(@, chunk)]
           /\ cache_size' = Minus(cache_size, chunk)
           /\ cache_map' = cache_map \ {node.key}
           /\ lists' = [lists EXCEPT ![g] = Front(@)]
           /\ hits' = [hits EXCEPT ![node.key] = 0]
    /\ UNCHANGED <<cache_capacity, level, request>>

\* The counters and the node of an insertion.
SizesInserted(chunk) == [sizes EXCEPT ![FIRST] = Plus(@, chunk)]

InsertNode ==
    /\ request # NoRequest
    /\ ~Full
    /\ LET node == [key |-> request.key, size |-> request.size, seg |-> FIRST]
       IN  lists' = [lists EXCEPT ![FIRST] = <<node>> \o @]
    /\ sizes' = SizesInserted(ChunkSize(request.size))
    /\ cache_map' = cache_map \union {request.key}
    /\ cache_size' = Plus(cache_size, ChunkSize(request.size))
    /\ request' = NoRequest
    /\ UNCHANGED <<cache_capacity, level, hits>>

Get == \E k \in Key : GetHit(k) \/ \E s \in Size : GetMiss(k, s)

\* What the one thread inside get() or insert() does next.
Proceed == Demote \/ NextLevel \/ Evict \/ InsertNode

Next == Get \/ Proceed

Spec == Init /\ [][Next]_vars /\ WF_vars(Proceed)

-----------------------------------------------------------------------------
(* Properties *)

\* The counters of the lists added up.
Total(z) == FoldFunction(LAMBDA a, b : a + b, 0, z)

\* The parts of BooksBalance: a stored key is one node of one list, its tag says
\* which, and the map knows exactly the stored keys.
NodesWellPlaced ==
    /\ \A g \in Segments : KeysDistinct(lists[g])
    /\ \A g \in Segments : \A i \in DOMAIN lists[g] : lists[g][i].seg = g
    /\ \A g, h \in Segments : g # h => KeysOf(lists[g]) \cap KeysOf(lists[h]) = {}
    /\ cache_map = UNION { KeysOf(lists[g]) : g \in Segments }

SizesExact ==
    /\ \A g \in Segments : sizes[g] = Bytes(lists[g])
    /\ cache_size = Total(sizes)
    /\ cache_size <= cache_capacity

SharesRespected == Idle => \A g \in Segments \ {FIRST} : sizes[g] <= avg_capacity

\* A stale tag would make get() splice a node out of a list it is not in; the
\* counters are exact after every promotion and demotion, within one list or
\* between two, and cache_size_ is their sum; and between calls each list above
\* the lowest is within its share, however demotions cascade from list to list.
BooksBalance == NodesWellPlaced /\ SizesExact /\ SharesRespected

\* slru.h:21-22, "hit once -> twice -> third -> fourth": a node in list g was
\* hit at least g times since it was inserted, so an object that is never hit
\* never leaves the lowest list.
EarnedPlace == \A g \in Segments : \A i \in DOMAIN lists[g] : g <= hits[lists[g][i].key]

\* slru.h:130-139: what insert() gives up is the last node of the lowest list that
\* holds any, whatever was promoted and demoted before.  Evict() asks the byte
\* counts which list that is, and never the lists.
LowestGoesFirst ==
    [][\A k \in cache_map \ cache_map' :
        /\ Last(lists[SegmentOf(k)]).key = k
        /\ \A g \in Segments : g < SegmentOf(k) => lists[g] = << >>]_vars

\* So it is hits that decide how long a node stays.
HitsDecide == []EarnedPlace /\ LowestGoesFirst

\* get() and insert() return: the demotions and the evictions come to an end.
CallReturns == ~Idle ~> Idle

\* SLRU is a demand-filled cache that evicts no more than it must.
Abstract == INSTANCE AbstractCache WITH
    resident <- [k \in UNION { KeysOf(lists[g]) : g \in Segments } |->
                    ChunkSize(lists[SegmentOf(k)][PositionOf(k)].size)],
    wanted   <- IF request = NoRequest THEN NoRequest
                ELSE [key |-> request.key, chunk |-> ChunkSize(request.size)],
    capacity <- cache_capacity

ImplementsAbstractCache == Abstract!Spec
=============================================================================
