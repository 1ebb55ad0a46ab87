------------------------------ MODULE MCReplay ------------------------------
(* A trace replayed: either by two LRU caches of different capacities at once *)
(* (LRUInclusion), or by one cache with its counters (CacheMetrics), in the   *)
(* variables of the smaller of the two.  `subject` says which; of the larger  *)
(* cache nothing is then asked, since its l_request is not NoRequest.         *)
EXTENDS LRUInclusion, TLC

CONSTANTS k1, k2, k3, k4, Unused

MCKey == {k1, k2, k3, k4}
KeySymmetry == Permutations(MCKey)
MCSize == {2, 3}
MCCapacities == {3, 4, 6}

CONSTANTS MaxRequests, MaxResets

VARIABLES
    subject,
    name, used, cm, total, trace, missed, resets

metrics_vars == <<name, used, cm, total, trace, missed, resets>>

Metrics == INSTANCE CacheMetrics WITH
    list <- s_list, cache_map <- s_map, cache_size <- s_size, request <- s_request,
    order <- s_order, cache_capacity <- capacity

ASSUME ReplayAssumption == Metrics!MetricsAssumption

Init ==
    \/ /\ subject = "pair"
       /\ PairInit
       /\ name = Unused /\ used = Unused /\ cm = Unused /\ total = Unused
       /\ trace = Unused /\ missed = Unused /\ resets = Unused
    \/ /\ subject = "metrics"
       /\ Metrics!MetricsInit
       /\ sizeOf = Unused
       /\ l_list = Unused /\ l_map = Unused /\ l_size = Unused /\ l_request = Unused
       /\ l_order = Unused

Next ==
    \/ subject = "pair" /\ PairNext /\ UNCHANGED <<subject, metrics_vars>>
    \/ subject = "metrics" /\ Metrics!MetricsNext /\ UNCHANGED <<subject, sizeOf, large_vars>>

Spec == Init /\ [][Next]_<<subject, pair_vars, metrics_vars>>

-----------------------------------------------------------------------------
\* cache_checkpoint.h: the object hits are those of the stack distances.
HitsAreStackDistances == subject = "metrics" => Metrics!HitsAreStackDistances

\* cache_checkpoint.h: hits, writes and bytes add up to the requests.
CountersAgree == subject = "metrics" => Metrics!CountersAgree
=============================================================================
