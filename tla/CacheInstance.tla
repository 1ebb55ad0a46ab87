--------------------------- MODULE CacheInstance ----------------------------
(***************************************************************************)
(* CacheInstance (cache/cacheinstance.h) driven by CacheTester             *)
(* (cache/cachereplacement.h): one cache of the algorithm asked for, which *)
(* is asked for a key, and given it if it was a miss and is admitted.      *)
(* LRU, FIFO, FIFO2, the segmented caches and ARC, which CreateCache builds*)
(* too, are ListCaches, SLRUCache and ARCCache; CLOCK, which has its line  *)
(* in CreateCache commented out, is taken along.                           *)
(***************************************************************************)
EXTENDS PolicyLists

CONSTANTS
    CapacitiesOf,   \* the capacities each algorithm is configured with
    TracesOf,       \* for each, which sizes its traces give the keys
    NumQueues, LifeTime, MaxTime,                       \* MQ
    NoFile, TraceLength,                                \* OPT
    Block, BlockOf, GroupOf, MAX, SamplesPerBlock       \* TinyLFU

InstanceAssumption ==
    /\ \A a \in DOMAIN CapacitiesOf :
        /\ CapacitiesOf[a] \subseteq Capacities
        /\ TracesOf[a] \subseteq [Key -> SUBSET Size \ {{}}]
    /\ NumQueues \in Nat \ {0} /\ LifeTime \in Nat
    /\ NoFile \notin Key
    /\ TraceLength \in Nat /\ TraceLength < WORD - 1

TQ == INSTANCE TwoQueueCache
LIRS == INSTANCE LIRSCache
MQ == INSTANCE MQCache
LARC == INSTANCE LARCCache
CLOCK == INSTANCE CLOCKCache
OPT == INSTANCE OPTCache
TINYLFU == INSTANCE TinyLFUCache

FilterAssumption == TINYLFU!Filter!SketchAssumption

-----------------------------------------------------------------------------
\* CreateCache
Init ==
    /\ algor \in DOMAIN CapacitiesOf
    /\ capacity \in CapacitiesOf[algor]
    /\ sizesOf \in TracesOf[algor]
    /\ \/ algor = "TQ" /\ TQ!Init
       \/ algor = "LIRS" /\ LIRS!Init
       \/ algor = "MQ" /\ MQ!Init
       \/ algor = "LARC" /\ LARC!Init
       \/ algor = "CLOCK" /\ CLOCK!Init
       \/ algor = "OPT" /\ OPT!Init
       \/ algor = "TINYLFU" /\ TINYLFU!Init

\* RunNormal and RunOpt, the algorithm deciding what a step of them is.
Next ==
    \/ TQ!Next \/ LIRS!Next \/ MQ!Next \/ LARC!Next \/ CLOCK!Next
    \/ OPT!Next \/ TINYLFU!Next

Spec == Init /\ [][Next]_vars

-----------------------------------------------------------------------------
(* Properties *)

\* Every list, map and byte count agrees with the others, at every step of every
\* call, under the conditions each policy states.
BooksBalance ==
    /\ algor = "TQ" => TQ!BooksBalance
    /\ algor = "LIRS" => LIRS!BooksBalance
    /\ algor = "MQ" => MQ!BooksBalance
    /\ algor = "LARC" => LARC!BooksBalance
    /\ algor = "CLOCK" => CLOCK!BooksBalance
    /\ algor = "OPT" => OPT!BooksBalance
    /\ algor = "TINYLFU" => TINYLFU!BooksBalance

\* No policy takes the end of an empty list, under the conditions it states.
VictimExists ==
    /\ algor = "TQ" => TQ!VictimExists
    /\ algor = "LIRS" => LIRS!VictimExists
    /\ algor = "MQ" => MQ!VictimExists
    /\ algor = "LARC" => LARC!VictimExists
    /\ algor = "CLOCK" => CLOCK!VictimExists
    /\ algor = "OPT" => OPT!VictimExists
    /\ algor = "TINYLFU" => TINYLFU!VictimExists

\* LIRS: a LIR block at the bottom of the stack is followed by LIR ones.
BottomStaysLIR == [][algor = "LIRS" => LIRS!BottomStays]_vars

\* MQ: the queues are in the order of expiry, and no higher than earned.
ExpirySorted == algor = "MQ" => MQ!ExpirySorted

\* OPT hits as often as any cache of its capacity could.
HitsAreOptimal == algor = "OPT" => OPT!HitsAreOptimal

\* TinyLFU's sketch errs upwards only, and is halved whenever it is due.
EstimatesHold == algor = "TINYLFU" => TINYLFU!EstimatesHold

-----------------------------------------------------------------------------
(* Refinement of the abstract cache, for the policies that evict for room *)

\* MQ inserts before it evicts, LARC and TinyLFU refuse, LIRS counts a ghost in
\* while it makes room: those promise less.
Demand ==
    \/ algor = "TQ" /\ Steady
    \/ algor = "CLOCK" /\ \A k \in Key : ChunksOf(k) = {field.chunk}
    \/ algor \in {"LARC", "OPT"}

ResidentLists ==
    IF algor = "TQ" THEN TQ!Resident ELSE DOMAIN lists

ResidentKeys == IF Demand THEN UNION { KeysOf(lists[l]) : l \in ResidentLists } ELSE {}

Abstract == INSTANCE AbstractCache WITH
    resident <- [k \in ResidentKeys |-> Charge(NodeOf(k))],
    wanted   <- IF ~Demand \/ request = NoRequest THEN NoRequest
                ELSE [key |-> request.key, chunk |-> Chunk]

\* Whatever their ghosts and targets do, these policies evict only what the
\* object asked for needs, one node at a time, and never exceed the capacity.
EvictsForRoomOnly == Abstract!Init /\ [][Abstract!Next]_(Abstract!vars)
=============================================================================
