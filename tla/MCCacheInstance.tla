-------------------------- MODULE MCCacheInstance ---------------------------
(* The policies of CacheInstance, one per behaviour: ARC in the variables of *)
(* ARCCache, any other in variables of its own, those of ARC then staying as *)
(* its constructor leaves them.  A big chunk is worth two tiny ones, and a   *)
(* size that is neither counts as tiny.                                      *)
EXTENDS ARCCache, TLC

CONSTANTS
    k1, k2, k3, k4, Unused,
    PolicyCapacities, CapacitiesOf, TracesOf, NumQueues, LifeTime, MaxTime,
    NoFile, TraceLength, Block, BlockOf, GroupOf, MAX, SamplesPerBlock

MCKey == {k1, k2, k3, k4}
MCSize == {2, 3}
MCCapacities == {2, 4}
MCPolicyCapacities == {2, 3, 4, 5, 7, 10}
MCCapacitiesOf ==
    [TQ |-> {5}, LIRS |-> {4, 7}, MQ |-> {3}, LARC |-> {3, 10},
     CLOCK |-> {2, 3, 5}, OPT |-> {4}, TINYLFU |-> {7}]

\* The first n keys are big, the others tiny: other traces of fixed sizes differ
\* from these in the names of the keys only.
Fixed(n) == [k \in Key |-> IF \E i \in 1 .. n : <<k1, k2, k3, k4>>[i] = k THEN {2} ELSE {3}]
Uniforms == { Fixed(0), Fixed(4) }
Mixes == Uniforms \union { Fixed(2) }
Changing == [Key -> {{2, 3}}]
SomeChanging == { [k \in Key |-> IF k \in {k1, k2} THEN {2, 3} ELSE {3}] }
MCTracesOf ==
    [TQ |-> Mixes \union Changing, LIRS |-> Mixes \union SomeChanging,
     MQ |-> Mixes \union SomeChanging, LARC |-> Changing, CLOCK |-> Uniforms,
     OPT |-> Mixes, TINYLFU |-> {Fixed(4), Fixed(1)}]

MCBlockOf == [k \in MCKey |->
    IF k = k1 THEN [i \in 0 .. 3 |-> 0]
    ELSE IF k = k2 THEN [i \in 0 .. 3 |-> i % 2]
    ELSE [i \in 0 .. 3 |-> 1]]
MCGroupOf == [k \in MCKey |-> IF k = k4 THEN 1 ELSE 0]

-----------------------------------------------------------------------------
VARIABLES p_capacity, p_lists, p_sizes, p_field, p_phase, p_request

arc_vars == <<capacity, lists, sizes, field, phase, request>>
policy_vars == <<p_capacity, p_lists, p_sizes, p_field, p_phase, p_request>>

Policy == INSTANCE CacheInstance WITH
    Capacities <- PolicyCapacities, capacity <- p_capacity,
    lists <- p_lists, sizes <- p_sizes, field <- p_field,
    phase <- p_phase, request <- p_request

ASSUME PoliciesAssumption ==
    /\ Policy!InstanceAssumption /\ Policy!FilterAssumption
    /\ \A c \in PolicyCapacities : c \in Nat /\ BIG <= c /\ c + BIG < WORD

AnyInit ==
    \/ /\ Init
       /\ sizesOf \in Mixes
       /\ p_capacity = 2 /\ p_lists = Unused /\ p_sizes = Unused
       /\ p_field = Unused /\ p_phase = Unused /\ p_request = Unused
    \/ /\ Policy!Init
       /\ capacity = 2 /\ Constructed

AnyNext ==
    \/ algor = "ARC" /\ Next /\ UNCHANGED policy_vars
    \/ algor # "ARC" /\ Policy!Next /\ UNCHANGED arc_vars

AnySpec == AnyInit /\ [][AnyNext]_<<vars, policy_vars>>

-----------------------------------------------------------------------------
\* CacheInstance under RunNormal and RunOpt: every list, map and byte count of the
\* policy agrees with the others, at every step of every call.
PolicyBooksBalance == Policy!BooksBalance

\* CacheInstance::Insert: no policy takes the end of an empty list.
PolicyVictimExists == Policy!VictimExists

\* LIRS: a LIR block at the bottom of the stack is followed by LIR ones.
BottomStaysLIR == Policy!BottomStaysLIR

\* MQ: the queues are in the order of expiry, and no higher than earned.
ExpirySorted == Policy!ExpirySorted

\* OPT hits as often as any cache of its capacity could.
HitsAreOptimal == Policy!HitsAreOptimal

\* TinyLFU's sketch errs upwards only, and is halved whenever enough has been
\* counted: the `==` of record_access() is never jumped over.
EstimatesHold == Policy!EstimatesHold

\* 2Q, CLOCK, LARC and OPT evict only what the object asked for needs.
PolicyEvictsForRoomOnly == Policy!EvictsForRoomOnly
=============================================================================
