----------------------------- MODULE LARCCache ------------------------------
(* LARCCache (cache/base/larc.h): an LRU cache that admits a key only when   *)
(* it is remembered by LARCGhost (cache/base/larcghost.h), a list of keys    *)
(* that grows with misses and shrinks with hits.                             *)
EXTENDS PolicyLists

Slots == capacity \div TINY         \* LARCGhost::cache_capacity_
ghost == field.ghost
room == field.room                  \* LARCGhost::ghost_capacity_

At(where) == algor = "LARC" /\ phase = where

Init ==
    /\ lists = [LRU |-> << >>]
    /\ sizes = [LRU |-> 0]
    /\ field = [ghost |-> << >>, room |-> Slots \div 10]
    /\ phase = "idle"
    /\ request = NoRequest

\* The targets, computed in doubles and cut off: 0.9 and 0.1 of the slots limit
\* them.  Without any room the quotient is infinite.
Grown ==
    LET top == (9 * Slots) \div 10
    IN  IF room = 0 THEN top ELSE Min({top, room + Slots \div room})
Shrunk ==
    LET rest == Slots - room
        step == (Slots + rest - 1) \div rest
    IN  Max({Slots \div 10, IF step < room THEN room - step ELSE 0})

\* The newest n keys.
Newest(n) == SubSeq(ghost, 1, Min({n, Len(ghost)}))

GetHit(k) ==
    /\ At("idle")
    /\ In(k, "LRU")
    /\ lists' = Spliced(k, "LRU")
    /\ field' = [room |-> Shrunk, ghost |-> Newest(Shrunk)]
    /\ UNCHANGED <<configuration, sizes, phase, request>>

Missed(k) == At("idle") /\ ~In(k, "LRU")

Forgotten(k) == SelectSeq(ghost, LAMBDA x : x # k)

\* admit() of a key the ghost knows: insert() follows.
Admit(k, s) ==
    /\ Missed(k)
    /\ k \in Range(ghost)
    /\ field' = [room |-> Grown, ghost |-> Forgotten(k)]
    /\ Enter(k, s, "evict")
    /\ UNCHANGED <<configuration, lists, sizes>>

\* admit() of any other: the ghost makes room for it and remembers it.
Refuse(k) ==
    /\ Missed(k)
    /\ k \notin Range(ghost)
    /\ Grown > 0
    /\ field' = [room |-> Grown, ghost |-> <<k>> \o Newest(Grown - 1)]
    /\ UNCHANGED <<configuration, lists, sizes, phase, request>>

\* fault: the chunk that is coming is not counted
FullAtCapacity == At("evict") /\ sizes.LRU >= capacity
Full == At("evict") /\ IsFullAt(sizes.LRU, capacity, Chunk)

EvictTail == Full /\ DropTail("LRU") /\ UNCHANGED <<configuration, field, phase, request>>

InsertNode ==
    /\ At("evict") /\ ~Full
    /\ lists' = Pushed("LRU", NewNode)
    /\ sizes' = [sizes EXCEPT !.LRU = Plus(@, Chunk)]
    /\ Leave
    /\ UNCHANGED <<configuration, field>>

Get == \E k \in Key : GetHit(k) \/ Refuse(k) \/ \E s \in sizesOf[k] : Admit(k, s)

Next == Get \/ EvictTail \/ InsertNode

-----------------------------------------------------------------------------
\* The count is exact, the ghost keeps within its moving capacity, and no key
\* is stored, or on its way in, and remembered as absent at once.
BooksBalance ==
    /\ EachKeyOnce
    /\ sizes.LRU = Bytes(lists.LRU)
    /\ IsInjective(ghost)
    /\ Len(ghost) <= room
    /\ Range(ghost) \cap Known = {}
    /\ phase = "evict" => request.key \notin Known \union Range(ghost)

\* Both lists have a victim when one is asked for.
VictimExists == (Full => lists.LRU # << >>) /\ Grown > 0
=============================================================================
