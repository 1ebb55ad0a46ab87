----------------------------- MODULE CLOCKCache -----------------------------
(* CLOCKCache (cache/base/clock.h): a ring of nodes, here list Ring, and a   *)
(* hand, clock_iter_.  A hit tags a node; an eviction goes round from the    *)
(* hand, takes tags away and erases the first node that has none.  Every     *)
(* node is charged chunk_size_, a parameter, whatever its size.              *)
EXTENDS PolicyLists

Ring == lists["Ring"]
chunk == field.chunk    \* chunk_size_
hand == field.hand      \* a position in Ring, one past it, or Dangling
it == field.it          \* evict()'s own iterator
Dangling == 0

At(where) == algor = "CLOCK" /\ phase = where

Init ==
    /\ lists = [l \in {"Ring"} |-> << >>]
    /\ sizes = [cache |-> 0]
    /\ \E c \in {BIG, TINY} :
         field = [chunk |-> c, hand |-> 1, it |-> 1, order |-> << >>]   \* order is a history
    /\ phase = "idle"
    /\ request = NoRequest

\* CheckRing() and NextIter(): past the last node comes the first.
CheckRing(i) == IF i = Len(Ring) + 1 THEN 1 ELSE i
NextIter(i) == CheckRing(i + 1)

Tagged(i, tag) == [lists EXCEPT !["Ring"][i].tag = tag]

GetHit(k) ==
    /\ At("idle")
    /\ In(k, "Ring")
    /\ \E i \in DOMAIN Ring : Ring[i].key = k /\ lists' = Tagged(i, TRUE)
    /\ UNCHANGED <<configuration, sizes, field, phase, request>>

GetMiss(k, s) ==
    /\ At("idle")
    /\ ~In(k, "Ring")
    /\ Enter(k, s, "insert")
    /\ UNCHANGED <<configuration, lists, sizes, field>>

Full == At("insert") /\ IsFullAt(sizes.cache, capacity, chunk)

\* The three parts of evict().
StartRound ==
    /\ Full /\ Ring # << >> /\ hand # Dangling
    /\ field' = [field EXCEPT !.hand = CheckRing(hand), !.it = CheckRing(hand)]
    /\ phase' = "round"
    /\ UNCHANGED <<configuration, lists, sizes, request>>

\* The round ends where it began, that node having lost its tag as well.
Spare ==
    /\ At("round") /\ Ring[it].tag
    /\ lists' = Tagged(it, FALSE)
    /\ field' = [field EXCEPT !.it = NextIter(it), !.order = Append(Tail(@), Ring[it].key)]
    /\ phase' = IF NextIter(it) = hand THEN "erase" ELSE "round"
    /\ UNCHANGED <<configuration, sizes, request>>

Found ==
    /\ At("round") /\ ~Ring[it].tag
    /\ field' = [field EXCEPT !.hand = it]
    /\ phase' = "erase"
    /\ UNCHANGED <<configuration, lists, sizes, request>>

\* The hand goes on before the node under `it` is erased; of one node alone the
\* next is that node itself.
AfterErase(i) == IF i > it THEN i - 1 ELSE i
HandAdvanced == IF Len(Ring) = 1 THEN Dangling ELSE AfterErase(NextIter(hand))

Erase ==
    /\ At("erase")
    /\ lists' = [lists EXCEPT !["Ring"] = Erased(@, it)]
    /\ field' = [field EXCEPT !.hand = HandAdvanced, !.it = 1, !.order = Tail(@)]
    /\ sizes' = [cache |-> Minus(sizes.cache, chunk)]
    /\ phase' = "insert"
    /\ UNCHANGED <<configuration, request>>

\* std::list::emplace puts the node before the hand, the last to be reached.
InsertNode ==
    /\ At("insert") /\ ~Full
    /\ hand # Dangling
    /\ LET node == [key |-> request.key, size |-> request.size, tag |-> FALSE]
       IN  lists' = [lists EXCEPT !["Ring"] = EmplacedAt(@, hand, node)]
    /\ field' = [field EXCEPT !.hand = hand + 1, !.order = Append(@, request.key)]
    /\ sizes' = [cache |-> Plus(sizes.cache, chunk)]
    /\ Leave
    /\ UNCHANGED configuration

Get == \E k \in Key : GetHit(k) \/ \E s \in sizesOf[k] : GetMiss(k, s)

Next == Get \/ StartRound \/ Spare \/ Found \/ Erase \/ InsertNode

-----------------------------------------------------------------------------
\* Where the next victim is looked for.
Start == CheckRing(IF phase \in {"round", "erase"} THEN it ELSE hand)

\* Read from the hand on, wherever in the list it points and whatever has been
\* erased or put in beside it, the ring is the queue of FIFO with a second
\* chance: the nodes in the order in which they came or were last spared.
BooksBalance ==
    /\ EachKeyOnce
    /\ sizes.cache = Len(Ring) * chunk
    /\ hand # Dangling =>
         field.order = [i \in DOMAIN Ring |-> Ring[1 + ((Start + i - 2) % Len(Ring))].key]

\* evict() finds a ring to go round, and the hand is never left on an erased
\* node, provided the cache has room for two.
VictimExists ==
    /\ Full => Ring # << >>
    /\ 2 * chunk <= capacity => hand # Dangling
=============================================================================
