--------------------------- MODULE TwoQueueCache ---------------------------
(* TQCache (cache/base/2q.h): A1IN, where new nodes go first in first out;  *)
(* A1OUT, the ghosts of what left it; Am, an LRU list of what came back.    *)
(* A node's tag q, and not the list it is in, tells get() what to do.       *)
EXTENDS PolicyLists

Resident == {"AM", "A1IN"}

MaxA1in == capacity - (capacity * 95) \div 100
MaxA1out == capacity

At(where) == algor = "TQ" /\ phase = where

Init ==
    /\ lists = [l \in Resident \union {"A1OUT"} |-> << >>]
    /\ sizes = [l \in Resident \union {"A1OUT"} |-> 0]
    /\ field = [none |-> 0]
    /\ phase = "idle"
    /\ request = NoRequest

\* The node the map's iterator names carries the tag q.
Tagged(k, q) == k \in Known /\ NodeOf(k).q = q

GetHitAm(k) ==
    /\ At("idle")
    /\ Tagged(k, "AM")
    /\ lists' = Spliced(k, "AM")
    /\ UNCHANGED <<configuration, sizes, field, phase, request>>

GetHitA1in(k) ==
    /\ At("idle")
    /\ Tagged(k, "A1IN")
    /\ UNCHANGED vars

\* get() leaves in it_ the place of k's ghost, or the end of the map.
GetMiss(k, s) ==
    /\ At("idle")
    /\ ~Tagged(k, "AM") /\ ~Tagged(k, "A1IN")
    /\ Enter(k, s, IF k \in Known THEN "ghost" ELSE "new")
    /\ UNCHANGED <<configuration, lists, sizes, field>>

-----------------------------------------------------------------------------
(* insert() *)

\* The constructor's tag is A1IN, whichever list the node is made for.
TQNode == [key |-> request.key, size |-> request.size, q |-> "A1IN"]

\* k's node gets the tag of the list it is spliced to the front of.
SplicedAndTagged(k, l) ==
    [Spliced(k, l) EXCEPT ![l] = <<[NodeOf(k) EXCEPT !.q = l]>> \o Tail(@)]

Full == (At("new") \/ At("ghost")) /\ IsFullAt(Plus(sizes["AM"], sizes["A1IN"]), capacity, Chunk)

\* Which list reclaimfor() takes a tail from next.
A1inGives == sizes["A1IN"] >= MaxA1in
GhostsLeave == Plus(sizes["A1OUT"], Charge(Back(lists["A1IN"]))) >= MaxA1out
VictimList ==
    IF ~A1inGives THEN "AM"
    ELSE IF lists["A1IN"] # << >> /\ GhostsLeave THEN "A1OUT" ELSE "A1IN"

ReclaimAm == Full /\ VictimList = "AM" /\ DropTail("AM") /\ UNCHANGED <<configuration, field, phase, request>>

EvictGhost == Full /\ VictimList = "A1OUT" /\ DropTail("A1OUT") /\ UNCHANGED <<configuration, field, phase, request>>

\* fault: the ghost's bytes are not charged
Uncharged(node) == [sizes EXCEPT !["A1IN"] = Minus(@, Charge(node))]
GhostCharged(node) == Shifted("A1IN", "A1OUT", Charge(node))

A1inToGhost ==
    /\ Full /\ VictimList = "A1IN" /\ lists["A1IN"] # << >>
    /\ lists' = SplicedAndTagged(Back(lists["A1IN"]).key, "A1OUT")
    /\ sizes' = GhostCharged(Back(lists["A1IN"]))
    /\ UNCHANGED <<configuration, field, phase, request>>

\* The ghost's bytes are given back at the size of the request.
InsertPromoted ==
    /\ At("ghost") /\ ~Full
    /\ request.key \in Known
    /\ lists' = SplicedAndTagged(request.key, "AM")
    /\ sizes' = Shifted("A1OUT", "AM", Chunk)
    /\ Leave
    /\ UNCHANGED <<configuration, field>>

InsertInto(l) ==
    /\ lists' = Pushed(l, TQNode)
    /\ sizes' = [sizes EXCEPT ![l] = Plus(@, Chunk)]
    /\ Leave
    /\ UNCHANGED <<configuration, field>>

\* reclaimfor() has erased the entry it_ stands on.  The test of it_->second->q
\* reads freed memory, and sends the node to Am, where its tag is not that of
\* the list, or to A1IN.
InsertErased ==
    /\ At("ghost") /\ ~Full
    /\ request.key \notin Known
    /\ \E l \in Resident : InsertInto(l)

InsertNew == At("new") /\ ~Full /\ InsertInto("A1IN")

Get == \E k \in Key :
    GetHitAm(k) \/ GetHitA1in(k) \/ \E s \in sizesOf[k] : GetMiss(k, s)

Insert == ReclaimAm \/ EvictGhost \/ A1inToGhost \/ InsertPromoted \/ InsertErased \/ InsertNew

Next == Get \/ Insert

-----------------------------------------------------------------------------
\* A ghost is tagged as one and nothing else is.  Only in Am may a tag be wrong,
\* of a node that was made there and that get() then leaves where it is.
TagsAgree ==
    \A l \in DOMAIN lists : \A i \in DOMAIN lists[l] :
        lists[l][i].q \in (IF l = "AM" THEN {"AM", "A1IN"} ELSE {l})

\* A tag never takes a ghost for a cached object or the reverse.  While no key
\* changes its chunk size, each count is the bytes of its list, and a key is in
\* one list only, whatever erased it in the middle of a call.
BooksBalance ==
    /\ TagsAgree
    /\ Steady => EachKeyOnce /\ \A l \in DOMAIN lists : sizes[l] = Bytes(lists[l])

\* reclaimfor() then never takes the end of an empty list.
VictimExists == (Steady /\ Full) => lists[VictimList] # << >>
=============================================================================
