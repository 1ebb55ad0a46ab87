------------------------------ MODULE MCTools -------------------------------
(* The parts around the caches, each by itself: `subject` says which one a   *)
(* behaviour is about.  StatisticDays runs three days in a row and prints    *)
(* with one digit of base four, so that totals do get rounded; ChunkSlicing  *)
(* has big chunks of three tiny ones of two bytes, and files of none, of     *)
(* part of a chunk, of both kinds and of whole chunks only; in Directories   *)
(* three processes make a path of three components.  Keys, sizes and chunks  *)
(* are those of the caches, whose traces the first two measure and make.     *)
EXTENDS CacheBase, TLC

CONSTANTS k1, k2, p1, p2, p3, Unused

MCKey == {k1, k2}
MCProcess == {p1, p2, p3}
KeySymmetry == Permutations(MCKey)

CONSTANTS
    Day, NoFile, BASE, PRECISION, MaxRequests, MaxCalls,                \* StatisticDays
    MAX_FILE_SIZE, FileSizes, Offsets, MaxRanges,                       \* ChunkSlicing
    Process, Depth, Before, Nobody                                      \* Directories

MCSize == {2, 3}
MCCapacities == {6}
MCDay == {1, 2, 3}
MCFileSizes == {0, 5, 9, 11, 12, 99}
MCOffsets == {0, 1, 5, 6, 8, 10, 14}

VARIABLES
    subject,
    phase, day, input, tot_stat_map, stat_map, last_tot_req, request_bytes,
    metrics, stat_file, calls, past, dumps, base, today,
    file_size, ranges, next, chunks, asked,
    pc, component, madeBy

statisticVars == <<phase, day, input, tot_stat_map, stat_map, last_tot_req, request_bytes,
                   metrics, stat_file, calls, past, dumps, base, today>>
slicingVars == <<file_size, ranges, next, chunks, asked>>
dirVars == <<pc, component, madeBy>>

Statistic == INSTANCE StatisticDays
Slicing == INSTANCE ChunkSlicing
Dirs == INSTANCE Directories

ASSUME ToolsAssumption ==
    /\ Statistic!StatisticAssumption
    /\ Slicing!SlicingAssumption
    /\ Dirs!DirectoriesAssumption

StatisticUnused ==
    /\ phase = Unused /\ day = Unused /\ input = Unused /\ tot_stat_map = Unused
    /\ stat_map = Unused /\ last_tot_req = Unused /\ request_bytes = Unused
    /\ metrics = Unused /\ stat_file = Unused /\ calls = Unused /\ past = Unused
    /\ dumps = Unused /\ base = Unused /\ today = Unused
SlicingUnused ==
    /\ file_size = Unused /\ ranges = Unused /\ next = Unused /\ chunks = Unused
    /\ asked = Unused
DirsUnused == pc = Unused /\ component = Unused /\ madeBy = Unused

Init ==
    \/ subject = "statistic" /\ Statistic!Init /\ SlicingUnused /\ DirsUnused
    \/ subject = "chunks" /\ Slicing!Init /\ StatisticUnused /\ DirsUnused
    \/ subject = "directories" /\ Dirs!Init /\ StatisticUnused /\ SlicingUnused

Next ==
    \/ subject = "statistic" /\ Statistic!Next
        /\ UNCHANGED <<subject, slicingVars, dirVars>>
    \/ subject = "chunks" /\ Slicing!Next
        /\ UNCHANGED <<subject, statisticVars, dirVars>>
    \/ subject = "directories" /\ Dirs!Next
        /\ UNCHANGED <<subject, statisticVars, slicingVars>>

Spec == Init /\ [][Next]_<<subject, statisticVars, slicingVars, dirVars>>

-----------------------------------------------------------------------------
\* max_bhr.cc: the bytes of distinct keys are those of the first request of each.
UniqueBytesExact == subject = "statistic" => Statistic!UniqueBytesExact

\* max_bhr.cc: the total of the requested bytes drifts by what is not printed of it.
RequestTotalDrifts == subject = "statistic" => Statistic!RequestTotalDrifts

\* chunk_parser.h: a line is cut into the blocks its ranges touch.
ChunksCoverRange == subject = "chunks" => Slicing!ChunksCoverRange

\* util.h, MakeDir: a process fails only over what a rival made in between.
RivalsAreToBlame == subject = "directories" => Dirs!RivalsAreToBlame

\* checkpoint_replacement.h:58: MakeDir needs no lock among the simulators.
NoLockNeeded == subject = "directories" => Dirs!NoLockNeeded
=============================================================================
