------------------------------ MODULE ARCCache ------------------------------
(* ARCCache (cache/base/arc.h): T1 and T2 hold what was requested once and  *)
(* more than once, B1 and B2 the ghosts of each, and p_ is the target size  *)
(* of T1.  p_ is unsigned, and moves by tiny chunks whatever is inserted.   *)
(*                                                                          *)
(* Replays drive it as CacheInstance drives the other policies.             *)
EXTENDS PolicyLists

\* A trace names far fewer objects than a size_t counts big chunks.
ASSUME KeysAssumption == IsFiniteSet(Key) /\ BIG * (Cardinality(Key) + 1) < WORD

\* Gigabytes are whole chunks of either size, whose sizes are powers of two.
ASSUME WholeChunksAssumption ==
    \A c \in Capacities, chunk \in {BIG, TINY} : \E n \in 0 .. c : c = chunk * n

ASSUME NoRequestAssumption ==
    NoRequest \notin [key : Key, size : Size] \union [key : Key, chunk : {BIG, TINY}]

Resident == {"T1", "T2"}
Queue == Resident \union {"B1", "B2"}

At(where) == phase = where

\* The constructor.
Constructed ==
    /\ lists = [l \in Queue |-> << >>]
    /\ sizes = [l \in Queue |-> 0]
    /\ field = [p |-> 0, wrapped |-> FALSE]     \* wrapped is a history
    /\ phase = "idle"
    /\ request = NoRequest

Init ==
    /\ algor = "ARC"
    /\ capacity \in Capacities
    /\ sizesOf \in [Key -> SUBSET Size \ {{}}]
    /\ Constructed

L1 == Plus(sizes["T1"], sizes["B1"])
Total == Plus(L1, Plus(sizes["T2"], sizes["B2"]))

\* Move(): the node keeps the size it was stored with.
MovedTo(k, to) ==
    /\ lists' = Spliced(k, to)
    /\ sizes' = Shifted(ListOf(k), to, Charge(NodeOf(k)))

GetHit(k) ==
    /\ At("idle")
    /\ In(k, "T1") \/ In(k, "T2")
    /\ MovedTo(k, "T2")
    /\ UNCHANGED <<configuration, field, phase, request>>

GetMiss(k, s) ==
    /\ At("idle")
    /\ ~In(k, "T1") /\ ~In(k, "T2")
    /\ Enter(k, s, IF k \in Known THEN "adapt" ELSE "room")
    /\ UNCHANGED <<configuration, lists, sizes, field>>

-----------------------------------------------------------------------------
(* insert() of a ghost: p_ first *)

Theta(of, by) == LET ratio == sizes[of] \div sizes[by] IN IF ratio > 1 THEN ratio ELSE 1
Step(of, by) == Theta(of, by) * TINY
SmallerOf(a, b) == IF a < b THEN a ELSE b

AdaptUp ==
    /\ At("adapt")
    /\ In(request.key, "B1")
    /\ field' = [field EXCEPT !.p = SmallerOf(capacity, Plus(@, Step("B2", "B1")))]
    /\ phase' = "replace"
    /\ UNCHANGED <<configuration, lists, sizes, request>>

\* std::max(size_t(0), p_ - theta * chunk_size) is the difference, wrapped or not.
AdaptDown ==
    /\ At("adapt")
    /\ In(request.key, "B2")
    /\ field' = [p |-> Minus(field.p, Step("B1", "B2")),
                 wrapped |-> field.wrapped \/ Step("B1", "B2") > field.p]
    /\ phase' = "replace"
    /\ UNCHANGED <<configuration, lists, sizes, request>>

-----------------------------------------------------------------------------
(* insert() of an unknown key: room first *)

Evict(l, next) == DropTail(l) /\ phase' = next /\ UNCHANGED <<configuration, field, request>>

L1Full == At("room") /\ L1 >= capacity
L1Room == At("room") /\ L1 < capacity

\* fault: a T1 that fills the cache is taken to leave room
T1NotOver == sizes["T1"] <= capacity
T1Room == sizes["T1"] < capacity
EvictB1 == L1Full /\ T1Room /\ Evict("B1", "replace")
EvictT1 == L1Full /\ ~T1Room /\ Evict("T1", "enter")

\* fault: the ghosts grow without end
NeverTooMany == FALSE
TooMany == Total >= 2 * capacity
EvictB2 == L1Room /\ TooMany /\ Evict("B2", "replace")

\* fault: one object too many
FullPastCapacity == Total > capacity
Full == Total >= capacity
KeepGhosts ==
    /\ L1Room /\ ~TooMany
    /\ phase' = IF Full THEN "replace" ELSE "enter"
    /\ UNCHANGED <<configuration, lists, sizes, field, request>>

-----------------------------------------------------------------------------
(* Replace(), and the node *)

Threshold == IF field.p > TINY THEN field.p ELSE TINY

T1Gives ==
    /\ sizes["T1"] > 0
    /\ \/ sizes["T1"] > Threshold
       \/ In(request.key, "B2") /\ sizes["T1"] >= Threshold
VictimList == IF T1Gives THEN "T1" ELSE "T2"

Replace ==
    /\ At("replace")
    /\ lists[VictimList] # << >>
    /\ MovedTo(Back(lists[VictimList]).key, IF T1Gives THEN "B1" ELSE "B2")
    /\ phase' = "enter"
    /\ UNCHANGED <<configuration, field, request>>

EnterGhost ==
    /\ At("enter")
    /\ request.key \in Known
    /\ MovedTo(request.key, "T2")
    /\ Leave
    /\ UNCHANGED <<configuration, field>>

\* fault: the line commented out beside it
ChargedTiny(chunk) == [sizes EXCEPT !["T1"] = Plus(@, TINY)]
ChargedTo(chunk) == [sizes EXCEPT !["T1"] = Plus(@, chunk)]
EnterNew ==
    /\ At("enter")
    /\ request.key \notin Known
    /\ lists' = Pushed("T1", NewNode)
    /\ sizes' = ChargedTo(Chunk)
    /\ Leave
    /\ UNCHANGED <<configuration, field>>

Get == \E k \in Key : GetHit(k) \/ \E s \in sizesOf[k] : GetMiss(k, s)

Insert ==
    \/ AdaptUp \/ AdaptDown
    \/ EvictB1 \/ EvictT1 \/ EvictB2 \/ KeepGhosts
    \/ Replace \/ EnterGhost \/ EnterNew

Next == Get \/ Insert

Spec == Init /\ [][Next]_vars

-----------------------------------------------------------------------------
\* Whatever the sizes, each count is the bytes of its list.
BooksBalance == EachKeyOnce /\ \A l \in Queue : sizes[l] = Bytes(lists[l])

\* The published algorithm's bounds: with chunks of one size, what was requested
\* once takes no more than the capacity, ghosts included, and everything no more
\* than twice the capacity.
DirectoryBounded ==
    (Uniform /\ phase = "idle") =>
        /\ sizes["T1"] + sizes["T2"] <= capacity
        /\ sizes["T1"] + sizes["B1"] <= capacity
        /\ Total <= 2 * capacity

\* With chunks of one size, Replace() and Evict() find a victim as long as p_
\* has never been taken below zero; once it has, T2 is emptied and then asked.
VictimExists ==
    (Uniform /\ ~field.wrapped) =>
        /\ phase = "replace" => lists[VictimList] # << >>
        /\ L1Full => lists[IF T1Room THEN "B1" ELSE "T1"] # << >>
        /\ (L1Room /\ TooMany) => lists["B2"] # << >>

-----------------------------------------------------------------------------
(* Refinement of the abstract cache, when chunks are of one size *)

ResidentKeys == IF Uniform THEN KeysOf(lists["T1"]) \union KeysOf(lists["T2"]) ELSE {}

Abstract == INSTANCE AbstractCache WITH
    resident <- [k \in ResidentKeys |-> Charge(NodeOf(k))],
    wanted   <- IF ~Uniform \/ request = NoRequest THEN NoRequest
                ELSE [key |-> request.key, chunk |-> Chunk]

\* Whatever its ghosts and target do, ARC evicts only what the object asked for
\* needs, one node at a time, and never exceeds the capacity.
EvictsForRoomOnly == Abstract!Init /\ [][Abstract!Next]_(Abstract!vars)
=============================================================================
