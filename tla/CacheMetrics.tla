---------------------------- MODULE CacheMetrics ---------------------------
(***************************************************************************)
(* Get() and Insert() of CacheCheckpoint (cache/cache_checkpoint.h) and of *)
(* CacheInstance (cache/cacheinstance.h), which count alike: a list cache  *)
(* and the counters of its hits, requests and writes, driven by the lines  *)
(* of a trace as CacheTester::RunNormal does.  CacheInstance's Reset()     *)
(* closes a period, adding it to the totals unless it was a warm-up.       *)
(***************************************************************************)
EXTENDS ListCaches

CONSTANTS
    MaxRequests,    \* bound: trace lines replayed
    MaxResets       \* bound: periods closed, none of them empty

\* What a module that instantiates this one assumes.
MetricsAssumption == MaxRequests \in Nat /\ MaxResets \in Nat

VARIABLES
    cm,             \* cm_, the CacheMetrics of the period
    total,          \* total_cm_
    trace,          \* history: the trace lines replayed
    missed,         \* history: which of them missed
    resets          \* history: the lines before each Reset(), and its argument

metricsVars == <<vars, cm, total, trace, missed, resets>>

Zeroed == [ho |-> 0, so |-> 0, wo |-> 0, hb |-> 0, sb |-> 0]

MetricsInit ==
    /\ Init
    /\ cm = Zeroed /\ total = Zeroed
    /\ trace = << >> /\ missed = {} /\ resets = << >>

Replay(k, s) ==
    /\ Len(trace) < MaxRequests
    /\ trace' = Append(trace, [key |-> k, size |-> s])
    /\ UNCHANGED <<total, resets>>

\* The counters after a hit and after a miss.
CountedHit(size) ==
    [cm EXCEPT !.ho = @ + 1, !.hb = @ + size, !.so = @ + 1, !.sb = @ + size]

CountedMiss(s) == [cm EXCEPT !.so = @ + 1, !.sb = @ + s, !.wo = @ + 1]

\* What get() leaves in Get()'s size, which it takes by reference.
SizeAsked(k, s) == s        \* fault: the request's size is left alone
SizeFound(k, s) == list[PositionOf(k)].size

RequestHit(k, s) ==
    /\ Replay(k, s)
    /\ GetHitLRU(k) \/ GetHitFIFO(k) \/ GetHitFIFO2(k)
    /\ UNCHANGED missed
    /\ cm' = CountedHit(SizeFound(k, s))

\* Get() misses, and Insert() counts the write before the cache inserts.
RequestMiss(k, s) ==
    /\ Replay(k, s)
    /\ GetMiss(k, s)
    /\ missed' = missed \union {Len(trace) + 1}
    /\ cm' = CountedMiss(s)

RunInsert == Insert /\ UNCHANGED <<cm, total, trace, missed, resets>>

Indices == DOMAIN trace

\* The lines of the period that is running, and those the totals are about.
ClosedAt(n) == IF n = 0 THEN 0 ELSE resets[n].at
Running == { i \in Indices : i > ClosedAt(Len(resets)) }
Counted ==
    UNION { { i \in Indices : ClosedAt(n - 1) < i /\ i <= ClosedAt(n) } :
              n \in { m \in DOMAIN resets : ~resets[m].warmup } }

\* The cache keeps what it holds; only the counters start again.
Reset(warmup) ==
    /\ request = NoRequest
    /\ Len(resets) < MaxResets /\ Running # {}
    /\ total' = IF warmup THEN total ELSE [c \in DOMAIN total |-> total[c] + cm[c]]
    /\ cm' = Zeroed
    /\ resets' = Append(resets, [at |-> Len(trace), warmup |-> warmup])
    /\ UNCHANGED <<vars, trace, missed>>

MetricsNext ==
    \/ \E k \in Key, s \in Size : RequestHit(k, s) \/ RequestMiss(k, s)
    \/ RunInsert
    \/ \E warmup \in BOOLEAN : Reset(warmup)

MetricsSpec == MetricsInit /\ [][MetricsNext]_metricsVars

-----------------------------------------------------------------------------
(* Reference definitions over the trace *)

\* The keys requested between i and the previous request of the same key.
ReusedAt(i) == { j \in 1 .. i - 1 : trace[j].key = trace[i].key }
Between(i) ==
    LET last == CHOOSE j \in ReusedAt(i) : \A h \in ReusedAt(i) : h <= j
    IN  { trace[h].key : h \in last + 1 .. i - 1 }

\* An LRU cache of n nodes hits exactly the requests whose key was requested
\* before, with fewer than n other keys since (Mattson's stack distance).
StackHits(n) == { i \in Indices : ReusedAt(i) # {} /\ Cardinality(Between(i)) < n }

OneChunkTrace(chunk) == \A i \in Indices : ChunkSize(trace[i].size) = chunk

\* The line whose miss stored the object that line i asks for, or stores it itself.
StoredBy(i) ==
    LET writes == { j \in missed : j <= i /\ trace[j].key = trace[i].key }
    IN  CHOOSE j \in writes : \A h \in writes : h <= j

BytesStored(lines) == MapThenSumSet(LAMBDA i : trace[StoredBy(i)].size, lines)

-----------------------------------------------------------------------------
(* Properties *)

\* On a trace of one chunk size the object hits that LRU reports, of the period
\* and in total, are those of the stack-distance definition of LRU, computed from
\* the trace alone: a Reset() forgets no block, and a warm-up leaves no hits.
HitsAreStackDistances ==
    name = "LRU" =>
        \A chunk \in {BIG, TINY} : OneChunkTrace(chunk) =>
            /\ cm.ho = Cardinality(StackHits(cache_capacity \div chunk) \intersect Running)
            /\ total.ho = Cardinality(StackHits(cache_capacity \div chunk) \intersect Counted)

\* The ratios are computed from consistent counters, of the period and of all
\* periods but warm-ups: every request is either a hit or a write, and the bytes
\* requested and the bytes hit are those of the object as its last miss stored it,
\* whatever size a later line names, through evictions and resets in between.
CountersAgree ==
    /\ cm.so = cm.ho + cm.wo /\ cm.so = Cardinality(Running)
    /\ total.so = total.ho + total.wo /\ total.so = Cardinality(Counted)
    /\ cm.sb = BytesStored(Running) /\ cm.hb = BytesStored(Running \ missed)
    /\ total.sb = BytesStored(Counted) /\ total.hb = BytesStored(Counted \ missed)
=============================================================================
