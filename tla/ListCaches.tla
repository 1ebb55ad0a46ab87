---------------------------- MODULE ListCaches -----------------------------
(***************************************************************************)
(* The three caches that keep their nodes in one std::list: LRUCache,      *)
(* FIFOCache and FIFO2Cache (cache/base/{lru,fifo,fifo2}.h).  They differ  *)
(* in what a hit does to the list and in what happens at its tail:         *)
(*   LRU    a hit moves the node to the front;                             *)
(*   FIFO   a hit changes nothing;                                         *)
(*   FIFO2  a hit sets the node's flag, and a flagged tail node is moved   *)
(*          to the front, its flag cleared, instead of being evicted.      *)
(* insert() is a loop: one iteration of it is one action here, `request`   *)
(* being the local state of the call.  The callers insert a key only after *)
(* get() missed it (checkpoint_replacement.h:34-40).                       *)
(***************************************************************************)
EXTENDS CacheBase, SequencesExt

CONSTANTS
    Algorithms,     \* the algorithms a run is configured with
    NoRequest       \* no insert() is running

ASSUME AlgorithmsAssumption == Algorithms \subseteq {"LRU", "FIFO", "FIFO2"}

Node    == [key : Key, size : Size, flag : BOOLEAN]
Request == [key : Key, size : Size]

\* It is no request, nor what the abstract cache remembers of one.
ASSUME NoRequestAssumption ==
    NoRequest \notin Request \union [key : Key, chunk : {BIG, TINY}]

VARIABLES
    name,           \* Cache::name_, which class this is
    list,           \* lru_, fifo_ or fifo2_, front first
    cache_map,      \* the keys of cache_map_; an iterator is its node's key
    cache_size,     \* Cache::cache_size_
    cache_capacity, \* Cache::cache_capacity_
    request,        \* the arguments of the insert() that is running
    order,          \* history: every key seen, the last one inserted, used
                    \* (LRU) or given a second chance (FIFO2) first
    used            \* history, FIFO2: the keys hit since they were inserted
                    \* or last given a second chance

vars == <<name, list, cache_map, cache_size, cache_capacity, request, order, used>>

-----------------------------------------------------------------------------
PositionOf(k) == CHOOSE i \in DOMAIN list : list[i].key = k

\* std::list::splice of the node of k to the front.
NotPromoted(k) == list      \* fault: a hit reads the node and leaves it
Promoted(k) ==
    LET i == PositionOf(k) IN <<list[i]>> \o RemoveAt(list, i)

\* A hit in FIFO2 sets the node's flag.
NotFlagged(k) == list       \* fault: the flag is never set
Flagged(k) == [list EXCEPT ![PositionOf(k)].flag = TRUE]

\* A node given a second chance.
StillFlagged(node) == node  \* fault: the flag is not used up
Spared(node) == [node EXCEPT !.flag = FALSE]

\* The node insert() constructs.
ChunkNode(r) ==             \* fault: the chunk size is stored as the size
    [key |-> r.key, size |-> ChunkSize(r.size), flag |-> FALSE]
NewNode(r) == [key |-> r.key, size |-> r.size, flag |-> FALSE]

\* What evicting a node gives back to cache_size_.
OwnSize(node) == node.size  \* fault: the object's size instead of its chunk's
Charge(node) == ChunkSize(node.size)

\* cache_map_ without k.
MapErased(k) == cache_map \ {k}

\* The history with k brought to its front.
Renewed(k) == <<k>> \o RemoveFirst(order, k)

\* The condition of insert()'s loop.
Full == IsFullAt(cache_size, cache_capacity, ChunkSize(request.size))

Empty == cache_size = 0

Init ==
    /\ name \in Algorithms
    /\ list = << >>
    /\ cache_map = {}
    /\ cache_size = 0
    /\ cache_capacity \in Capacities
    /\ request = NoRequest
    /\ order = << >>
    /\ used = {}

-----------------------------------------------------------------------------
(* get() *)

GetHitLRU(k) ==
    /\ name = "LRU"
    /\ request = NoRequest
    /\ k \in cache_map
    /\ list' = Promoted(k)
    /\ order' = Renewed(k)
    /\ UNCHANGED <<name, cache_map, cache_size, cache_capacity, request, used>>

GetHitFIFO(k) ==
    /\ name = "FIFO"
    /\ request = NoRequest
    /\ k \in cache_map
    /\ UNCHANGED vars

GetHitFIFO2(k) ==
    /\ name = "FIFO2"
    /\ request = NoRequest
    /\ k \in cache_map
    /\ list' = Flagged(k)
    /\ used' = used \union {k}
    /\ UNCHANGED <<name, cache_map, cache_size, cache_capacity, request, order>>

\* get() answers false and the caller enters insert().
GetMiss(k, s) ==
    /\ request = NoRequest
    /\ k \notin cache_map
    /\ request' = [key |-> k, size |-> s]
    /\ UNCHANGED <<name, list, cache_map, cache_size, cache_capacity, order, used>>

-----------------------------------------------------------------------------
(* insert() *)

\* The tail node may go: FIFO2 evicts only an unflagged one.
TailExpendable == name = "FIFO2" => ~Last(list).flag

\* evict(), or the branch of FIFO2's evict() that erases.
EvictTail ==
    /\ request # NoRequest
    /\ Full
    /\ list # << >>
    /\ TailExpendable
    /\ cache_size' = Minus(cache_size, Charge(Last(list)))
    /\ cache_map' = MapErased(Last(list).key)
    /\ list' = Front(list)
    /\ UNCHANGED <<name, cache_capacity, request, order, used>>

\* The branch of FIFO2's evict() that gives a flagged node a second chance.
\* cache_size_ does not change, so evict()'s own loop goes round again.
RotateTail ==
    /\ request # NoRequest
    /\ Full
    /\ list # << >>
    /\ ~TailExpendable
    /\ list' = <<Spared(Last(list))>> \o Front(list)
    /\ order' = Renewed(Last(list).key)
    /\ used' = used \ {Last(list).key}
    /\ UNCHANGED <<name, cache_map, cache_size, cache_capacity, request>>

\* The loop is over: the new node goes to the front.
InsertNode ==
    /\ request # NoRequest
    /\ ~Full
    /\ list' = <<NewNode(request)>> \o list
    /\ cache_map' = cache_map \union {request.key}
    /\ cache_size' = Plus(cache_size, ChunkSize(request.size))
    /\ order' = Renewed(request.key)
    /\ request' = NoRequest
    /\ UNCHANGED <<name, cache_capacity, used>>

Get ==
    \E k \in Key :
        GetHitLRU(k) \/ GetHitFIFO(k) \/ GetHitFIFO2(k) \/ \E s \in Size : GetMiss(k, s)

Insert == EvictTail \/ RotateTail \/ InsertNode

Next == Get \/ Insert

\* One thread runs an insert() it has entered to its end.
Spec == Init /\ [][Next]_vars /\ WF_vars(Insert)

-----------------------------------------------------------------------------
(* Properties *)

\* The shape of the state.
TypeOK ==
    /\ name \in Algorithms
    /\ list \in Seq(Node)
    /\ cache_map \in SUBSET Key
    /\ cache_size \in Word
    /\ cache_capacity \in Capacities
    /\ request \in Request \union {NoRequest}
    /\ order \in Seq(Key)
    /\ used \in SUBSET Key

\* The map and the list are two views of one set of nodes: no key is in the
\* list twice, and a key is in the map exactly when it is in the list.  A stale
\* map entry would make get() follow a dangling iterator.
MapMatchesList ==
    /\ KeysDistinct(list)
    /\ cache_map = KeysOf(list)

\* cache_size_ is the sum of the stored chunk sizes, whatever mix of big and
\* tiny chunks came and went; it is never drifting and never wraps.
SizeMatchesList == cache_size = Bytes(list)

\* The cache never holds more than it was configured for.
WithinCapacity == cache_size <= cache_capacity

\* insert() never calls evict() on an empty list: std::prev(end()) is then
\* undefined behaviour.
EvictHasVictim == (request # NoRequest /\ Full) => list # << >>

\* A key being inserted is not already stored, so that cache_map_[key] = begin()
\* never overwrites the iterator of another node.
InsertOnlyAbsent == request # NoRequest => request.key \notin KeysOf(list)

\* The three together, after any sequence of hits, misses, evictions, rotations
\* and insertions: map, list and counter are views of one set of nodes.
BooksBalance == MapMatchesList /\ SizeMatchesList /\ InsertOnlyAbsent

\* Eviction is strictly by age: what is stored is the most recent part of the
\* history, so no key outlives one that was inserted, used (LRU) or spared
\* (FIFO2) after it.
StoredIsMostRecent ==
    /\ Len(list) <= Len(order)
    /\ \A i \in DOMAIN list : list[i].key = order[i]

\* FIFO2 never drops a key that was hit since it was inserted or last spared:
\* the flag a hit sets survives every reordering until the tail consumes it.
SecondChance ==
    [][name = "FIFO2" => (KeysOf(list) \ KeysOf(list')) \cap used = {}]_vars

-----------------------------------------------------------------------------
(* Refinement of the abstract cache *)

Abstract == INSTANCE AbstractCache WITH
    resident <- [k \in KeysOf(list) |-> ChunkSize(list[PositionOf(k)].size)],
    wanted   <- IF request = NoRequest THEN NoRequest
                ELSE [key |-> request.key, chunk |-> ChunkSize(request.size)],
    capacity <- cache_capacity

\* Each policy is a demand-filled cache that evicts no more than it must, and
\* whose insert() returns: no eviction is put off for ever by second chances.
ImplementsAbstractCache == Abstract!Spec
=============================================================================
