------------------------------ MODULE MQCache -------------------------------
(* MQCache (cache/base/mq.h): LRU queues by the logarithm of a block's       *)
(* number of requests, blocks not requested for life_time_ calls sinking one *)
(* queue down, and a queue of ghosts, here list Out, that remember theirs.   *)
EXTENDS PolicyLists, Integers

CONSTANTS
    NumQueues,      \* queues_.size()
    LifeTime,       \* life_time_
    MaxTime         \* bound: the calls counted by current_time_

Out == -1           \* the tag of a node in qout_
Queues == 0 .. NumQueues - 1
now == field.time

At(where) == algor = "MQ" /\ phase = where

Init ==
    /\ lists = [q \in Queues \union {Out} |-> << >>]
    /\ sizes = [cache |-> 0, out |-> 0]
    /\ field = [time |-> 0]
    /\ phase = "idle"
    /\ request = NoRequest

Resident(k) == k \in Known /\ ListOf(k) # Out

QueueNum(freq) ==
    LET log == Cardinality({ e \in 1 .. freq : 2 ^ e <= freq })
    IN  IF log < NumQueues - 1 THEN log ELSE NumQueues - 1

\* Reinsert(): one more request, and the queue for so many.
Reinserted(k) ==
    LET freq == NodeOf(k).freq + 1
        node == [NodeOf(k) EXCEPT !.freq = freq, !.expire = now + LifeTime]
    IN  [q \in DOMAIN lists |->
            (IF q = QueueNum(freq) THEN <<node>> ELSE << >>) \o Without(lists[q], k)]

\* Adjust(): of every queue but the lowest the tail, if it has expired, sinks.
\* Each is looked at before the one above it gives, so all move as one.
Sinking(ls, time) ==
    { q \in Queues \ {0} : ls[q] # << >> /\ Back(ls[q]).expire < time }
Shed(ls, time, q) == IF q \in Sinking(ls, time) THEN PopBack(ls[q]) ELSE ls[q]

\* fault: a node that sinks keeps its old expiry
AdjustedStale(ls, time) ==
    [q \in DOMAIN ls |->
        (IF q + 1 \in Sinking(ls, time) THEN <<Back(ls[q + 1])>> ELSE << >>)
        \o Shed(ls, time, q)]
Adjusted(ls, time) ==
    [q \in DOMAIN ls |->
        (IF q + 1 \in Sinking(ls, time)
         THEN <<[Back(ls[q + 1]) EXCEPT !.expire = time + LifeTime]>> ELSE << >>)
        \o Shed(ls, time, q)]

GetHit(k) ==
    /\ At("idle") /\ now < MaxTime
    /\ Resident(k)
    /\ lists' = Adjusted(Reinserted(k), now + 1)
    /\ field' = [time |-> now + 1]
    /\ UNCHANGED <<configuration, sizes, phase, request>>

-----------------------------------------------------------------------------
(* insert(): the node goes in first, then room is made, perhaps by it *)

\* The ghost's bytes are given back at the size of the request.
GetMissGhost(k, s) ==
    /\ At("idle") /\ now < MaxTime
    /\ In(k, Out)
    /\ Enter(k, s, "evict")
    /\ lists' = Reinserted(k)
    /\ sizes' = [sizes EXCEPT !.out = Minus(@, ChunkSize(s))]
    /\ UNCHANGED <<configuration, field>>

GetMiss(k, s) ==
    /\ At("idle") /\ now < MaxTime
    /\ k \notin Known
    /\ Enter(k, s, "evict")
    /\ lists' = Pushed(0, [key |-> k, size |-> s, freq |-> 1, expire |-> now + LifeTime])
    /\ UNCHANGED <<configuration, sizes, field>>

Full == At("evict") /\ IsFullAt(sizes.cache, capacity, Chunk)

\* The lowest queue that holds anything gives its tail.
NonEmpty == { q \in Queues : lists[q] # << >> }
Victim == Back(lists[Min(NonEmpty)])
GhostsLeave == Plus(sizes.out, Charge(Victim)) >= capacity

EvictGhost ==
    /\ Full /\ NonEmpty # {} /\ GhostsLeave
    /\ lists[Out] # << >>
    /\ lists' = [lists EXCEPT ![Out] = PopBack(@)]
    /\ sizes' = [sizes EXCEPT !.out = Minus(@, Charge(Back(lists[Out])))]
    /\ UNCHANGED <<configuration, field, phase, request>>

EvictToOut ==
    /\ Full /\ NonEmpty # {} /\ ~GhostsLeave
    /\ lists' = Spliced(Victim.key, Out)
    /\ sizes' = [out |-> Plus(sizes.out, Charge(Victim)),
                 cache |-> Minus(sizes.cache, Charge(Victim))]
    /\ UNCHANGED <<configuration, field, phase, request>>

InsertDone ==
    /\ At("evict") /\ ~Full
    /\ lists' = Adjusted(lists, now + 1)
    /\ field' = [time |-> now + 1]
    /\ sizes' = [sizes EXCEPT !.cache = Plus(@, Chunk)]
    /\ Leave
    /\ UNCHANGED configuration

Get == \E k \in Key : GetHit(k) \/ \E s \in sizesOf[k] : GetMissGhost(k, s) \/ GetMiss(k, s)

Next == Get \/ EvictGhost \/ EvictToOut \/ InsertDone

-----------------------------------------------------------------------------
\* While no key changes its chunk size the counts are exact, the node being
\* inserted apart, which is in a queue, or out again, before it is counted.
BooksBalance ==
    /\ EachKeyOnce
    /\ Steady =>
        /\ sizes.out = Bytes(lists[Out])
        /\ BytesIn(Queues) = sizes.cache + IF phase = "evict" THEN Chunk ELSE 0

\* Every queue is in the order of expiry, so that Adjust(), which looks at the
\* tail alone, misses no expired block; and no block is in a higher queue than
\* its number of requests ever earned it.
ExpirySorted ==
    \A q \in Queues : \A i \in DOMAIN lists[q] :
        /\ q <= QueueNum(lists[q][i].freq)
        /\ \A j \in 1 .. i - 1 : lists[q][j].expire >= lists[q][i].expire

\* Some queue has a victim, and the ghosts have one when it needs their room.
VictimExists ==
    (Steady /\ Full) => NonEmpty # {} /\ (GhostsLeave => lists[Out] # << >>)
=============================================================================
