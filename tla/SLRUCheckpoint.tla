--------------------------- MODULE SLRUCheckpoint --------------------------
(***************************************************************************)
(* SLRUCheckPoint (cache/checkpoint/cslru.h) under CacheTester::Simulate:  *)
(* a segmented LRU cache that is loaded from the previous day's checkpoint *)
(* line by line (Push), replays a trace, and is saved line by line (Pop).  *)
(* A file is node lines, and header lines that name the list the nodes     *)
(* after them belong to; cur_idx_ is the list Push and Pop are at.  Each   *)
(* simulated day reads the file the day before it wrote.                   *)
(***************************************************************************)
EXTENDS SLRUCache

CONSTANTS
    MaxRequests,    \* bound: trace lines per day
    MaxCalls        \* bound: days simulated

\* Capacities are gigabytes: never smaller than two big chunks.
ASSUME CheckpointAssumption ==
    /\ MaxRequests \in Nat /\ MaxCalls \in Nat
    /\ \A c \in Capacities : 2 * BIG <= c

\* A load is not stopped by the capacity, only by the end of the file.  What
\* keeps the counters from wrapping is that a trace names far fewer objects than
\* a size_t counts big chunks (2^44 of them).
ASSUME KeysAssumption == IsFiniteSet(Key) /\ BIG * (Cardinality(Key) + 1) < WORD

VARIABLES
    phase,          \* "off", "load", "run", "save", or "undefined"
    cur_idx,        \* cur_idx_
    input,          \* the lines of the previous checkpoint still to be read
    file,           \* the checkpoint being written, or the last one written
    requests, calls,\* counted for the bounds
    image,          \* history: lists as it was when the last save began
    loaded,         \* history: the bytes Push() added today
    warmFile        \* history: the last save was of a cache that was loaded

session == <<phase, cur_idx, input, file, requests, calls, image, loaded, warmFile>>
checkpointVars == <<vars, session>>

Header(g)  == [kind |-> "segment", seg |-> g]
NodeLine(node) == [kind |-> "node", key |-> node.key, size |-> node.size]

CheckpointInit ==
    /\ Init
    /\ phase = "off"
    /\ cur_idx = 0
    /\ input = << >> /\ file = << >>
    /\ requests = 0 /\ calls = 0
    /\ image = lists
    /\ loaded = 0
    /\ warmFile = FALSE

-----------------------------------------------------------------------------
\* A new CacheTester, about to load; the capacity is the day's own.
StartDay ==
    /\ phase = "off"
    /\ calls < MaxCalls
    /\ calls' = calls + 1
    /\ phase' = "load"
    /\ input' = file
    /\ cur_idx' = 0 /\ requests' = 0 /\ loaded' = 0
    /\ lists' = [g \in Segments |-> << >>]
    /\ sizes' = [g \in Segments |-> 0]
    /\ cache_map' = {} /\ cache_size' = 0 /\ level' = 0 /\ request' = NoRequest
    /\ hits' = [k \in Key |-> 0]
    /\ UNCHANGED <<cache_capacity, file, image, warmFile>>

(* Push(), one line of LoadCheckpoint *)

ReadLine(kind) ==
    /\ phase = "load"
    /\ input # << >>
    /\ Head(input).kind = kind
    /\ input' = Tail(input)

PushHeader ==
    /\ ReadLine("segment")
    /\ cur_idx' = Head(input).seg
    /\ UNCHANGED <<vars, phase, file, requests, calls, image, loaded, warmFile>>

\* What Push() does to the lists and their sizes.
PushedFront(node) == <<node>> \o lists[cur_idx]     \* fault: emplace_front
PushedBack(node) == Append(lists[cur_idx], node)

SizesLoaded(chunk) == [sizes EXCEPT ![cur_idx] = Plus(@, chunk)]

LineFits == ~IsFullAt(cache_size, cache_capacity, ChunkSize(Head(input).size))

\* The node goes to the back of the current list.  sizes_ grows; cache_size_,
\* which IsFull() looks at, does not: it is 0 throughout a load, so that every
\* line fits, whatever the capacity.
PushNode ==
    /\ ReadLine("node")
    /\ LineFits
    /\ LET node == [key |-> Head(input).key, size |-> Head(input).size, seg |-> cur_idx]
       IN  lists' = [lists EXCEPT ![cur_idx] = PushedBack(node)]
    /\ sizes' = SizesLoaded(ChunkSize(Head(input).size))
    /\ cache_map' = cache_map \union {Head(input).key}
    /\ loaded' = loaded + ChunkSize(Head(input).size)
    /\ hits' = [hits EXCEPT ![Head(input).key] = cur_idx]
    /\ UNCHANGED <<cache_size, cache_capacity, level, request>>
    /\ UNCHANGED <<phase, cur_idx, file, requests, calls, image, warmFile>>

LoadDone ==
    /\ phase = "load" /\ input = << >>
    /\ phase' = "run"
    /\ UNCHANGED <<vars, cur_idx, input, file, requests, calls, image, loaded, warmFile>>

-----------------------------------------------------------------------------
(* RunNormal *)

RunGet ==
    /\ phase = "run" /\ requests < MaxRequests
    /\ Get
    /\ requests' = requests + 1
    /\ UNCHANGED <<phase, cur_idx, input, file, calls, image, loaded, warmFile>>

RunProceed == phase = "run" /\ Proceed /\ UNCHANGED session

-----------------------------------------------------------------------------
(* SaveCheckpoint: Pop() until Empty(), that is until cache_size_ is 0 *)

StartSave ==
    /\ phase = "run" /\ Idle
    /\ phase' = "save"
    /\ file' = << >>
    /\ image' = lists
    /\ warmFile' = (loaded > 0)
    /\ UNCHANGED <<vars, cur_idx, input, requests, calls, loaded>>

Saving == phase = "save" /\ cache_size # 0
Wraps == cur_idx = Count - 1 /\ sizes[FIRST] # 0

\* The two header branches of Pop().
PopHeader ==
    /\ Saving
    /\ \/ Wraps /\ cur_idx' = 0
       \/ ~Wraps /\ cur_idx < Count /\ sizes[cur_idx] = 0 /\ cur_idx' = cur_idx + 1
    /\ file' = Append(file, Header(cur_idx'))
    /\ UNCHANGED <<vars, phase, input, requests, calls, image, loaded, warmFile>>

SizeKept(chunk) == cache_size                       \* fault: DecreaseSize is forgotten
SizePopped(chunk) == Minus(cache_size, chunk)

PopNode ==
    /\ Saving /\ ~Wraps
    /\ cur_idx < Count /\ sizes[cur_idx] # 0
    /\ LET node  == Head(lists[cur_idx])
           chunk == ChunkSize(node.size)
       IN  /\ file' = Append(file, NodeLine(node))
           /\ lists' = [lists EXCEPT ![cur_idx] = Tail(@)]
           /\ sizes' = [sizes EXCEPT ![cur_idx] = Minus(@, chunk)]
           /\ cache_map' = cache_map \ {node.key}
           /\ cache_size' = SizePopped(chunk)
           /\ hits' = [hits EXCEPT ![node.key] = 0]
    /\ UNCHANGED <<cache_capacity, level, request>>
    /\ UNCHANGED <<phase, cur_idx, input, requests, calls, image, loaded, warmFile>>

\* cur_idx_ has run past the last list: lists_[cur_idx_] is out of bounds.
PopOutOfBounds ==
    /\ Saving
    /\ cur_idx = Count
    /\ phase' = "undefined"
    /\ UNCHANGED <<vars, cur_idx, input, file, requests, calls, image, loaded, warmFile>>

SaveDone ==
    /\ phase = "save" /\ cache_size = 0
    /\ phase' = "off"
    /\ UNCHANGED <<vars, cur_idx, input, file, requests, calls, image, loaded, warmFile>>

-----------------------------------------------------------------------------
LoadStep == PushHeader \/ PushNode \/ LoadDone
SaveStep == StartSave \/ PopHeader \/ PopNode \/ PopOutOfBounds \/ SaveDone

CheckpointNext == StartDay \/ LoadStep \/ RunGet \/ RunProceed \/ SaveStep

CheckpointSpec == CheckpointInit /\ [][CheckpointNext]_checkpointVars

-----------------------------------------------------------------------------
(* Properties *)

\* The list a node line is read back into: that of the last header before it.
ReadBackInto(i) ==
    LET headers == { j \in 1 .. i : file[j].kind = "segment" }
    IN  IF headers = {} THEN FIRST
        ELSE file[CHOOSE j \in headers : \A h \in headers : h <= j].seg

NodeLines == { i \in DOMAIN file : file[i].kind = "node" }

\* On every day, warm or cold, and in the middle of a load or a save, each list
\* has exactly the nodes tagged with it, the map knows them all and the bytes
\* of each list are exact; but cache_size_ counts what this call inserted and
\* never what it loaded: it lags by exactly the loaded bytes, modulo the word.
SizeLagsByLoaded ==
    /\ NodesWellPlaced
    /\ \A g \in Segments : sizes[g] = Bytes(lists[g])
    /\ Plus(cache_size, loaded) = FoldFunction(LAMBDA a, b : a + b, 0, sizes) % WORD

\* A day that started cold is saved whole, Pop() never stepping past the last
\* list, and read back as it was, each node in its list and in its place.
ColdDayRoundTrips ==
    [][ /\ (phase = "load" /\ phase' = "run" /\ ~warmFile) => lists' = image
        /\ phase' = "undefined" => loaded > 0 ]_checkpointVars

\* checkpoint_replacement.h:71-72, "finally, save checkpoint": when the save is
\* over, every node the cache held is in the file.
SaveWritesEveryNode ==
    phase = "off" =>
        \A g \in Segments : \A i \in DOMAIN image[g] :
            \E j \in NodeLines : file[j].key = image[g][i].key

\* cslru.h:60, cur_idx_ is "used in Push and Pop, idx point to segment": Push
\* puts a line into the list Pop took it from.
LineKeepsItsSegment ==
    phase = "off" =>
        \A j \in NodeLines : file[j].key \in KeysOf(image[ReadBackInto(j)])

\* The least to expect of the two: when a save is over, nothing is missing in the
\* file, or what is there is at least in its own list.
SavesAreUsable == SaveWritesEveryNode \/ LineKeepsItsSegment
=============================================================================
