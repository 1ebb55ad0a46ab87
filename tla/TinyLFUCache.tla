---------------------------- MODULE TinyLFUCache ----------------------------
(* TinyLFUCache (cache/base/tinylfu.h): an LRU window (tinylfu/lru.h) whose  *)
(* victims enter a two-segment main cache (tinylfu/slru.h) only if the       *)
(* sketch thinks them more frequent than what they would replace.            *)
EXTENDS PolicyLists

CONSTANTS Block, BlockOf, GroupOf, MAX, SamplesPerBlock

Filter == INSTANCE FrequencySketch WITH
    table <- field.sketch.table, size <- field.sketch.size, seen <- field.sketch.seen

WindowCapacity == Max({BIG, (capacity + 99) \div 100})
MainCapacity == capacity - WindowCapacity
SecondShare == (MainCapacity * 2) \div 10

Lists == {"window", "FIRST", "SECOND"}
NoVictim == [key |-> NoRequest, size |-> 0]

At(where) == algor = "TINYLFU" /\ phase = where

Init ==
    /\ lists = [l \in Lists |-> << >>]
    /\ sizes = [l \in Lists |-> 0]
    /\ field = [sketch |-> [table |-> [c \in Filter!Counter |-> 0], size |-> 0,
                           seen |-> [k \in Key |-> 0]],
                victim |-> NoVictim]
    /\ phase = "idle"
    /\ request = NoRequest

\* filter_.record_access(key)
Recorded(k) == [field EXCEPT !.sketch = Filter!Accessed(k)]

MovedTo(k, to) ==
    /\ lists' = Spliced(k, to)
    /\ sizes' = Shifted(ListOf(k), to, Charge(NodeOf(k)))

-----------------------------------------------------------------------------
(* get() *)

GetHitWindow(k) ==
    /\ At("idle")
    /\ In(k, "window")
    /\ lists' = Spliced(k, "window")
    /\ field' = Recorded(k)
    /\ UNCHANGED <<configuration, sizes, phase, request>>

GetHitMain(k) ==
    /\ At("idle")
    /\ In(k, "FIRST") \/ In(k, "SECOND")
    /\ MovedTo(k, "SECOND")
    /\ field' = Recorded(k)
    /\ phase' = "demote"
    /\ UNCHANGED <<configuration, request>>

SecondOver == At("demote") /\ sizes["SECOND"] > SecondShare

DemoteSecond ==
    /\ SecondOver /\ lists["SECOND"] # << >>
    /\ MovedTo(Back(lists["SECOND"]).key, "FIRST")
    /\ UNCHANGED <<configuration, field, phase, request>>

DemoteDone ==
    /\ At("demote") /\ ~SecondOver
    /\ Leave
    /\ UNCHANGED <<configuration, lists, sizes, field>>

GetMiss(k, s) ==
    /\ At("idle")
    /\ k \notin Known
    /\ field' = Recorded(k)
    /\ Enter(k, s, "window")
    /\ UNCHANGED <<configuration, lists, sizes>>

-----------------------------------------------------------------------------
(* insert() and evict() *)

WindowFull == At("window") /\ IsFullAt(sizes["window"], WindowCapacity, Chunk)
WindowVictim == Back(lists["window"])

\* victim_key() of the main cache is lists_[FIRST].back(), tested by nobody: of
\* an empty list it is whatever memory holds, and so is its frequency.
MainVictimFrequencies ==
    IF lists["FIRST"] = << >> THEN 0 .. MAX
    ELSE { Filter!Frequency(Back(lists["FIRST"]).key) }

EvictDropped ==
    /\ WindowFull
    /\ \E f \in MainVictimFrequencies : Filter!Frequency(WindowVictim.key) <= f
    /\ DropTail("window")
    /\ UNCHANGED <<configuration, field, phase, request>>

EvictAdmitted ==
    /\ WindowFull
    /\ \E f \in MainVictimFrequencies : Filter!Frequency(WindowVictim.key) > f
    /\ DropTail("window")
    /\ field' = [field EXCEPT !.victim = WindowVictim]
    /\ phase' = "main"
    /\ UNCHANGED <<configuration, request>>

MainFull ==
    At("main") /\ IsFullAt(Plus(sizes["FIRST"], sizes["SECOND"]), MainCapacity, Charge(field.victim))

MainEvict ==
    /\ MainFull
    /\ DropTail(IF sizes["FIRST"] > 0 THEN "FIRST" ELSE "SECOND")
    /\ UNCHANGED <<configuration, field, phase, request>>

MainInsert ==
    /\ At("main") /\ ~MainFull
    /\ lists' = Pushed("FIRST", field.victim)
    /\ sizes' = [sizes EXCEPT !["FIRST"] = Plus(@, Charge(field.victim))]
    /\ field' = [field EXCEPT !.victim = NoVictim]
    /\ phase' = "window"
    /\ UNCHANGED <<configuration, request>>

WindowInsert ==
    /\ At("window") /\ ~WindowFull
    /\ lists' = Pushed("window", NewNode)
    /\ sizes' = [sizes EXCEPT !["window"] = Plus(@, Chunk)]
    /\ Leave
    /\ UNCHANGED <<configuration, field>>

Get == \E k \in Key :
    GetHitWindow(k) \/ GetHitMain(k) \/ \E s \in sizesOf[k] : GetMiss(k, s)

Insert ==
    \/ DemoteSecond \/ DemoteDone
    \/ EvictDropped \/ EvictAdmitted \/ MainEvict \/ MainInsert \/ WindowInsert

Next == Get \/ Insert

-----------------------------------------------------------------------------
\* The counts are exact and no key is in window and main cache at once, nor in
\* either while it is carried from one to the other; the protected segment is
\* within its share between calls.
BooksBalance ==
    /\ EachKeyOnce
    /\ \A l \in Lists : sizes[l] = Bytes(lists[l])
    /\ phase = "main" => field.victim.key \notin Known
    /\ phase = "idle" => sizes["SECOND"] <= SecondShare

\* No eviction takes the end of an empty list, victim_key() apart.
VictimExists ==
    /\ WindowFull => lists["window"] # << >>
    /\ MainFull => lists[IF sizes["FIRST"] > 0 THEN "FIRST" ELSE "SECOND"] # << >>

\* The sketch errs upwards only, and never stops to age.
EstimatesHold == Filter!EstimatesHold
=============================================================================
