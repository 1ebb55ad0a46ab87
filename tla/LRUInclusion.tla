--------------------------- MODULE LRUInclusion ----------------------------
(***************************************************************************)
(* Two LRU caches of different capacities replaying one trace, as the      *)
(* simulator is used: one CacheTest (simulate/replace.cc:30) per capacity, *)
(* all over the same trace files.  The trace names one size per key.       *)
(* Each cache runs its own insert(); both read the trace line by line.     *)
(***************************************************************************)
EXTENDS CacheBase, SequencesExt

CONSTANTS Algorithms, NoRequest

\* NoRequest is no request.
ASSUME PairAssumption == NoRequest \notin [key : Key, size : Size]

VARIABLES
    sizeOf,         \* the trace's size of each key
    capacity,       \* the capacities: a record [small, large]
    s_list, s_map, s_size, s_request, s_order,
    l_list, l_map, l_size, l_request, l_order

small_vars == <<s_list, s_map, s_size, s_request, s_order>>
large_vars == <<l_list, l_map, l_size, l_request, l_order>>
pair_vars == <<sizeOf, capacity, small_vars, large_vars>>

Small == INSTANCE ListCaches WITH
    name <- "LRU", list <- s_list, cache_map <- s_map, cache_size <- s_size,
    cache_capacity <- capacity.small, request <- s_request, order <- s_order, used <- {}

Large == INSTANCE ListCaches WITH
    name <- "LRU", list <- l_list, cache_map <- l_map, cache_size <- l_size,
    cache_capacity <- capacity.large, request <- l_request, order <- l_order, used <- {}

PairInit ==
    /\ sizeOf \in [Key -> Size]
    /\ capacity \in { c \in [small : Capacities, large : Capacities] : c.small < c.large }
    /\ Small!Init
    /\ Large!Init

Replaying == s_request = NoRequest /\ l_request = NoRequest

\* Both simulations read the next trace line.
ReadTrace(k) ==
    /\ UNCHANGED <<sizeOf, capacity>>
    /\ Small!GetHitLRU(k) \/ Small!GetMiss(k, sizeOf[k])
    /\ Large!GetHitLRU(k) \/ Large!GetMiss(k, sizeOf[k])

SmallInserts == UNCHANGED <<sizeOf, capacity>> /\ Small!Insert /\ UNCHANGED large_vars
LargeInserts == UNCHANGED <<sizeOf, capacity>> /\ Large!Insert /\ UNCHANGED small_vars

PairNext == (\E k \in Key : ReadTrace(k)) \/ SmallInserts \/ LargeInserts

PairSpec == PairInit /\ [][PairNext]_pair_vars

-----------------------------------------------------------------------------
\* The stack property of LRU: between two trace lines the smaller cache holds a
\* prefix of what the larger one holds, node for node, so whatever hits in the
\* smaller cache hits in the larger one and its hit ratio cannot be lower.
\* It holds with big and tiny chunks mixed as long as a key keeps its size.
SmallIsPrefixOfLarge == Replaying => IsPrefix(s_list, l_list)
=============================================================================
