-------------------------- MODULE DailySimulation --------------------------
(***************************************************************************)
(* A series of CacheTest() calls (simulate/replace.cc), one per day: build *)
(* a cache, load the previous day's checkpoint, replay the day's trace,    *)
(* save the day's checkpoint.  CacheTester::Simulate and CacheCheckpoint   *)
(* over the list caches; disk files outlive a call, everything else dies   *)
(* with it.  Days may be simulated in any order and again, with any of the *)
(* capacities that round down to the same number of gigabytes and hence    *)
(* share the file name (replace.cc:33).  A call may die at any point.      *)
(***************************************************************************)
EXTENDS ListCaches

CONSTANTS
    Day,            \* consecutive days, as numbers
    NoFile,         \* the file does not exist
    MaxRequests,    \* bound: trace lines per day
    MaxCalls        \* bound: calls of CacheTest()

ASSUME DailyAssumption ==
    /\ Day \subseteq Nat \ {0}
    /\ MaxRequests \in Nat /\ MaxCalls \in Nat
    /\ NoFile \notin Seq(Node)

VARIABLES
    phase,          \* "off", "load", "run" or "save": where Simulate() is
    day,            \* dt, the day being simulated, or 0
    input,          \* the lines of the previous checkpoint still to be read
    checkpoint,     \* the checkpoint file of each day
    requests,       \* the trace lines read, counted for MaxRequests
    calls,          \* the calls made, counted for MaxCalls
    image,          \* history: the list as it was when a day's save began
    saved           \* history: the days whose last save ran to its end

process == <<phase, day, input, requests, calls>>
disk    == <<checkpoint, image, saved>>
dailyVars == <<vars, process, disk>>

DailyInit ==
    /\ Init
    /\ phase = "off"
    /\ day = 0
    /\ input = << >>
    /\ checkpoint = [d \in Day |-> NoFile]
    /\ requests = 0
    /\ calls = 0
    /\ image = [d \in Day |-> << >>]
    /\ saved = {}

-----------------------------------------------------------------------------
\* The cache is destroyed with the CacheTester that owns it.
Destroyed ==
    /\ list' = << >> /\ cache_map' = {} /\ cache_size' = 0 /\ request' = NoRequest
    /\ order' = << >> /\ used' = {} /\ UNCHANGED <<name, cache_capacity>>
    /\ phase' = "off" /\ input' = << >> /\ requests' = 0 /\ day' = 0 /\ UNCHANGED calls

\* CacheTest() up to Load(): the file of the day before, if it exists, is opened.
StartDay(d, capacity) ==
    /\ phase = "off"
    /\ calls < MaxCalls
    /\ calls' = calls + 1
    /\ day' = d
    /\ cache_capacity' = capacity
    /\ input' = IF d - 1 \in Day /\ checkpoint[d - 1] # NoFile THEN checkpoint[d - 1] ELSE << >>
    /\ phase' = "load"
    /\ UNCHANGED <<name, list, cache_map, cache_size, request, order, used, requests, disk>>

\* The node Push() makes of a line, and where it puts it: at the back.
LoadedUnused(line) == [line EXCEPT !.flag = FALSE]          \* fault: the flag is not read
Loaded(line) == line

PushedFront(node) == <<node>> \o list                       \* fault: emplace_front
PushedBack(node) == Append(list, node)

SizeUnchanged(line) == cache_size                           \* fault: IncreaseSize is forgotten
SizeLoaded(line) == Plus(cache_size, ChunkSize(line.size))

\* LoadCheckpoint reads a line and Push()es it.
ReadLine == phase = "load" /\ input # << >> /\ input' = Tail(input)

\* Push(): the node goes to the back.
PushLine ==
    /\ ReadLine
    /\ ~IsFullAt(cache_size, cache_capacity, ChunkSize(Head(input).size))
    /\ list' = PushedBack(Loaded(Head(input)))
    /\ cache_map' = cache_map \union {Head(input).key}
    /\ cache_size' = SizeLoaded(Head(input))
    /\ order' = Append(order, Head(input).key)
    /\ used' = IF Head(input).flag THEN used \union {Head(input).key} ELSE used
    /\ UNCHANGED <<name, cache_capacity, request, phase, day, requests, calls, disk>>

\* Push() answers false, which LoadCheckpoint ignores: later lines may still fit.
SkipLine ==
    /\ ReadLine
    /\ IsFullAt(cache_size, cache_capacity, ChunkSize(Head(input).size))
    /\ UNCHANGED <<vars, phase, day, requests, calls, disk>>

LoadDone ==
    /\ phase = "load"
    /\ input = << >>
    /\ phase' = "run"
    /\ UNCHANGED <<vars, day, input, requests, calls, disk>>

-----------------------------------------------------------------------------
(* RunNormal: Get(), and on a miss Insert(); CacheMetrics adds the counters *)

RunGet ==
    /\ phase = "run"
    /\ requests < MaxRequests
    /\ Get
    /\ requests' = requests + 1
    /\ UNCHANGED <<phase, day, input, calls, disk>>

RunInsert == phase = "run" /\ Insert /\ UNCHANGED <<process, disk>>

-----------------------------------------------------------------------------
(* Save() *)

\* What opening the checkpoint for writing leaves in it.
Appending == IF checkpoint[day] = NoFile THEN << >> ELSE checkpoint[day]    \* fault: mode app
Truncated == << >>

\* The loop of SaveCheckpoint is over.
AlmostEmpty == cache_size <= TINY       \* fault: off by one chunk
NothingLeft == Empty

\* The trace is at its end; opening the file truncates it.
OpenCheckpoint ==
    /\ phase = "run" /\ request = NoRequest
    /\ phase' = "save"
    /\ checkpoint' = [checkpoint EXCEPT ![day] = Truncated]
    /\ image' = [image EXCEPT ![day] = list]
    /\ saved' = saved \ {day}
    /\ UNCHANGED <<vars, day, input, requests, calls>>

\* Save() returns without a word when the file cannot be opened.
OpenFails ==
    /\ phase = "run" /\ request = NoRequest
    /\ Destroyed
    /\ UNCHANGED disk

\* Pop() takes the node at the front and WriteLine appends it to the file.
PopLine ==
    /\ phase = "save"
    /\ ~NothingLeft
    /\ checkpoint' = [checkpoint EXCEPT ![day] = Append(@, Head(list))]
    /\ list' = Tail(list)
    /\ cache_map' = cache_map \ {Head(list).key}
    /\ cache_size' = Minus(cache_size, ChunkSize(Head(list).size))
    /\ order' = Tail(order)
    /\ used' = used \ {Head(list).key}
    /\ UNCHANGED <<name, cache_capacity, request, process, image, saved>>

\* The writer and the cache are destroyed, CacheTest() returns.
SaveDone ==
    /\ phase = "save"
    /\ NothingLeft
    /\ saved' = saved \union {day}
    /\ Destroyed
    /\ UNCHANGED <<checkpoint, image>>

\* The call dies: killed, or PrintError exits because a trace file cannot be
\* opened (checkpoint_replacement.h:87).  Of the lines written so far a prefix
\* has left the compressor; reading such a file back yields those lines.
Dies ==
    /\ phase # "off"
    /\ Destroyed
    /\ IF phase = "save"
       THEN \E n \in 0 .. Len(checkpoint[day]) :
              checkpoint' = [checkpoint EXCEPT ![day] = SubSeq(@, 1, n)]
       ELSE UNCHANGED checkpoint
    /\ UNCHANGED <<image, saved>>

-----------------------------------------------------------------------------
Load == PushLine \/ SkipLine \/ LoadDone

Save == OpenCheckpoint \/ OpenFails \/ PopLine \/ SaveDone

DailyNext == (\E d \in Day, c \in Capacities : StartDay(d, c)) \/ Load \/ RunGet \/ RunInsert \/ Save \/ Dies

DailySpec == DailyInit /\ [][DailyNext]_dailyVars

-----------------------------------------------------------------------------
(* Properties *)

\* Loading a checkpoint of any capacity, replaying and saving keep the cache
\* consistent: the map, the list and the counters agree, within this capacity.
CacheConsistent ==
    /\ MapMatchesList
    /\ SizeMatchesList
    /\ WithinCapacity
    /\ EvictHasVictim
    /\ InsertOnlyAbsent

\* A save that was not interrupted wrote every node, in order, and counting
\* down cache_size_ emptied the cache exactly when the list ran out.
SaveIsComplete == \A d \in saved : checkpoint[d] = image[d]

\* Nodes are written most valuable first, so that even a save cut short by a
\* crash leaves a checkpoint of the most valuable nodes and nothing else.
CheckpointIsPrefix ==
    \A d \in Day : checkpoint[d] # NoFile => IsPrefix(checkpoint[d], image[d])

\* Splitting a trace at midnight changes nothing: when the previous day was
\* saved and fits the capacity, replay resumes from the very list it ended
\* with, flags included.
RestartTransparent ==
    [][ (phase = "load" /\ phase' = "run" /\ day - 1 \in saved
           /\ Bytes(image[day - 1]) <= cache_capacity)
        => list' = image[day - 1] ]_dailyVars

\* A smaller capacity keeps, of the previous day's nodes, some in their order.
LoadKeepsOrder ==
    phase = "load" /\ day - 1 \in Day /\ checkpoint[day - 1] # NoFile =>
        \E kept \in [1 .. Len(list) -> DOMAIN checkpoint[day - 1]] :
            /\ \A i \in DOMAIN list : list[i] = checkpoint[day - 1][kept[i]]
            /\ \A i, j \in DOMAIN list : i < j => kept[i] < kept[j]
=============================================================================
