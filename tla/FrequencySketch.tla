--------------------------- MODULE FrequencySketch --------------------------
(***************************************************************************)
(* The count-min sketch of TinyLFU (cache/base/tinylfu/frequency_sketch.hpp*)
(* over detail.hpp): four small counters per key, shared with other keys,  *)
(* that saturate, and that are all halved when enough has been counted.    *)
(***************************************************************************)
EXTENDS Naturals, FiniteSets

CONSTANTS
    Key,
    Block,          \* the 64-bit words of table_
    BlockOf,        \* table_index: the block of a key's i-th counter
    GroupOf,        \* offset_multiplier: the 16-bit part its counters are in
    MAX,            \* the largest value of a counter, 15
    SamplesPerBlock \* accesses counted before a reset, per block, 10

Index == 0 .. 3

\* What a module that instantiates this one assumes.
SketchAssumption ==
    /\ BlockOf \in [Key -> [Index -> Block]]
    /\ GroupOf \in [Key -> Index]
    /\ MAX \in Nat \ {0}
    /\ IsFiniteSet(Block)
    /\ SamplesPerBlock \in Nat

VARIABLES
    table,          \* a counter's value, by its block and its place in it
    size,           \* size_
    seen            \* history: the accesses of each key, saturated and halved
                    \* as a counter of its own would be

vars == <<table, size, seen>>

Counter == Block \X (0 .. 15)

\* counter_offset, in counters: no two counters of a key are in the same place.
CounterAt(k, i) == <<BlockOf[k][i], 4 * GroupOf[k] + i>>
CountersOf(k) == { CounterAt(k, i) : i \in Index }

SamplingSize == SamplesPerBlock * Cardinality(Block)

Init ==
    /\ table = [c \in Counter |-> 0]
    /\ size = 0
    /\ seen = [k \in Key |-> 0]

\* frequency(): the least of the key's counters.
LesserOf(a, b) == IF a < b THEN a ELSE b
Count(k, i) == table[CounterAt(k, i)]
Frequency(k) ==
    LesserOf(LesserOf(Count(k, 0), Count(k, 1)), LesserOf(Count(k, 2), Count(k, 3)))
Contains(k) == Frequency(k) > 0

-----------------------------------------------------------------------------
(* record_access() *)

CanIncrement(c) == table[c] # MAX

Incremented(k) ==
    [c \in Counter |-> IF c \in CountersOf(k) /\ CanIncrement(c) THEN table[c] + 1 ELSE table[c]]

WasAdded(k) == \E c \in CountersOf(k) : CanIncrement(c)

\* fault: every counter that was increased is counted
CountedEach(k) == size + Cardinality({ c \in CountersOf(k) : CanIncrement(c) })
Counted(k) == IF WasAdded(k) THEN size + 1 ELSE size
MustReset(k) == WasAdded(k) /\ Counted(k) = SamplingSize

SeenOnceMore(k) == [seen EXCEPT ![k] = LesserOf(@ + 1, MAX)]

\* reset()
Halved(f) == [x \in DOMAIN f |-> f[x] \div 2]

Accessed(k) ==
    IF MustReset(k)
    THEN [table |-> Halved(Incremented(k)), size |-> Counted(k) \div 2, seen |-> Halved(SeenOnceMore(k))]
    ELSE [table |-> Incremented(k), size |-> Counted(k), seen |-> SeenOnceMore(k)]

RecordAccess(k) ==
    /\ table' = Accessed(k).table
    /\ size' = Accessed(k).size
    /\ seen' = Accessed(k).seen

Next == \E k \in Key : RecordAccess(k)

Spec == Init /\ [][Next]_vars

-----------------------------------------------------------------------------
TypeOK ==
    /\ table \in [Counter -> 0 .. MAX]
    /\ size \in Nat
    /\ seen \in [Key -> 0 .. MAX]

\* The estimate of a key is never below what a counter of its own would say:
\* sharing, saturating and halving only ever err upwards.
NeverUndercounts == \A k \in Key : Frequency(k) >= seen[k]

\* The `==` that starts a reset is met, and never jumped over: once past it the
\* sketch would not age again, and its counters would stay where they saturate.
ResetInTime == SamplingSize > 0 => size < SamplingSize

EstimatesHold == NeverUndercounts /\ ResetInTime
=============================================================================
