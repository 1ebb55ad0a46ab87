---------------------------- MODULE ChunkSlicing ----------------------------
(***************************************************************************)
(* ChunkParser (parse/chunk_parser.h): a line of an access log, with the   *)
(* size of a file and the byte ranges of it that were asked for, becomes   *)
(* the chunks a cache is asked for.  ParseRange (parse/parser.h) turns the *)
(* header of the request into pairs of offsets; SliceChunk cuts what lies  *)
(* before the file's last whole big chunk into big chunks, the rest into   *)
(* tiny ones.  A chunk's key is the hash of the file's name and a number.  *)
(***************************************************************************)
EXTENDS Integers, SequencesExt

CONSTANTS
    BIG, TINY, MAX_FILE_SIZE,
    FileSizes,      \* the sizes a log line can carry
    Offsets,        \* the numbers a range can be written with
    MaxRanges       \* bound: ranges in a line

\* What a module that instantiates this one assumes.
SlicingAssumption ==
    /\ TINY \in Nat \ {0} /\ BIG \in Nat \ {0} /\ BIG % TINY = 0
    /\ FileSizes \subseteq Nat /\ Offsets \subseteq Nat /\ MaxRanges \in Nat

VARIABLES
    file_size,      \* file_size_
    ranges,         \* the ranges SliceChunk has not finished, the first at work
    next,           \* big_begin and tiny_begin
    chunks,         \* chunks_
    asked           \* history: all the ranges of the line

slicingVars == <<file_size, ranges, next, chunks, asked>>

-----------------------------------------------------------------------------
(* ParseRange *)

\* "-1", "-", "-a", "a-" and "a-b".
Specs ==
    [form : {"last", "all"}, a : {0}, b : {0}]
    \union [form : {"suffix", "from"}, a : Offsets, b : {0}]
    \union [form : {"span"}, a : Offsets, b : Offsets]

ParsedSpec(spec, size) ==
    CASE spec.form = "last"   -> <<size - 1, size - 1>>
      [] spec.form = "all"    -> <<0, size - 1>>
      [] spec.form = "suffix" -> <<size - Min({size, spec.a}), size - 1>>
      [] spec.form = "from"   -> <<spec.a, size - 1>>
      [] spec.form = "span"   -> <<spec.a, Min({size - 1, spec.b})>>

ParseRange(specs, size) ==
    IF size = 0 THEN << <<0, 0>> >> ELSE [i \in DOMAIN specs |-> ParsedSpec(specs[i], size)]

\* A size beyond belief is taken for an error.
Accepted(size) == IF size > MAX_FILE_SIZE THEN 0 ELSE size

-----------------------------------------------------------------------------
(* SliceChunk, a range at a time *)

BigLast(size) == size \div BIG          \* big_last_begin
TinyLast(size) == size \div TINY        \* tiny_last_begin

Begun(range, size) ==
    [big |-> range[1] \div BIG,
     tiny |-> Max({BIG * BigLast(size), range[1]}) \div TINY]

Current == Head(ranges)
EndingShort == Current[2] \div BIG        \* fault: the last big chunk is left out
BigEnd == Current[2] \div BIG + 1
TinyEnd == Min({Current[2], file_size}) \div TINY + 1

InBig == next.big < BigLast(file_size) /\ next.big < BigEnd
InTiny == next.tiny < TinyEnd

Init ==
    /\ file_size = 0
    /\ ranges = << >> /\ next = [big |-> 0, tiny |-> 0]
    /\ chunks = << >> /\ asked = << >>

\* A range takes its turn, or the last has had it.
Turn(rest, size) ==
    /\ ranges' = rest
    /\ next' = IF rest = << >> THEN [big |-> 0, tiny |-> 0] ELSE Begun(Head(rest), size)

Lines == UNION { [1 .. n -> Specs] : n \in 1 .. MaxRanges }

\* Bound: one line, as each starts from nothing.
ParseLine ==
    /\ asked = << >>
    /\ \E size \in FileSizes, specs \in Lines :
         /\ file_size' = Accepted(size)
         /\ asked' = ParseRange(specs, Accepted(size))
         /\ Turn(asked', Accepted(size))
    /\ chunks' = << >>

\* A chunk is put down with its size and the number in its name; where it begins
\* in the file and which range it was cut for are histories.
AtWork == Len(asked) - Len(ranges) + 1
Emplaced(size, at) ==
    Append(chunks, [size |-> size, key |-> next.big, at |-> at, range |-> AtWork])

SliceBig ==
    /\ ranges # << >> /\ InBig
    /\ chunks' = Emplaced(BIG, next.big * BIG)
    /\ next' = [next EXCEPT !.big = @ + 1]
    /\ UNCHANGED <<file_size, ranges, asked>>

SliceTiny ==
    /\ ranges # << >> /\ ~InBig /\ InTiny
    /\ chunks' = Emplaced(IF next.tiny < TinyLast(file_size) THEN TINY
                          ELSE file_size - next.tiny * TINY,
                          next.tiny * TINY)
    /\ next' = [big |-> next.big + 1, tiny |-> next.tiny + 1]
    /\ UNCHANGED <<file_size, ranges, asked>>

RangeDone ==
    /\ ranges # << >> /\ ~InBig /\ ~InTiny
    /\ Turn(Tail(ranges), file_size)
    /\ UNCHANGED <<file_size, chunks, asked>>

Next == ParseLine \/ SliceBig \/ SliceTiny \/ RangeDone

Spec == Init /\ [][Next]_slicingVars

-----------------------------------------------------------------------------
(* Properties *)

\* The blocks of a file: big ones as far as they go, then tiny ones, of which
\* the last may be short; an empty file is one block.
Blocks(size) ==
    LET bigs == size \div BIG
        rest == size - bigs * BIG
        tinies == IF size = 0 THEN 1 ELSE (rest + TINY - 1) \div TINY
    IN  { [at |-> i * BIG, size |-> BIG, room |-> BIG] : i \in 0 .. bigs - 1 }
        \union { [at |-> bigs * BIG + j * TINY, size |-> Min({TINY, rest - j * TINY}),
                  room |-> TINY] : j \in 0 .. tinies - 1 }

Touched(range, size) ==
    { b \in Blocks(size) : b.at <= range[2] /\ range[1] < b.at + b.room }

CutFor(r) == { chunks[i] : i \in { j \in DOMAIN chunks : chunks[j].range = r } }

\* Whatever its ranges and however they fall on the borders between chunks, and
\* between the big and the tiny ones, a line is cut into exactly the blocks of
\* the file that its ranges touch, each with its size, range by range and from
\* the first to the last, none of them twice.
ChunksCoverRange ==
    ranges = << >> =>
        /\ \A r \in DOMAIN asked :
             { <<c.at, c.size>> : c \in CutFor(r) }
               = { <<b.at, b.size>> : b \in Touched(asked[r], file_size) }
        /\ \A i \in DOMAIN chunks : chunks[i].range \in DOMAIN asked
        /\ \A i, j \in DOMAIN chunks : i < j =>
             \/ chunks[i].range < chunks[j].range
             \/ chunks[i].range = chunks[j].range /\ chunks[i].at < chunks[j].at

\* README.md:7, "Each chunk is treated as a separate file": two chunks of a file
\* with one key are the same chunk.
ChunksAreSeparateFiles ==
    \A i, j \in DOMAIN chunks : chunks[i].key = chunks[j].key => chunks[i].at = chunks[j].at
=============================================================================
