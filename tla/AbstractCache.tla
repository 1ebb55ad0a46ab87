--------------------------- MODULE AbstractCache ---------------------------
(***************************************************************************)
(* What a replacement cache promises, whatever its policy:                 *)
(*   - an object enters only because it was asked for and was absent;      *)
(*   - nothing is evicted while the object asked for would still fit;      *)
(*   - the objects held never exceed the capacity;                         *)
(*   - the object asked for does get in.                                   *)
(* Which object is evicted is the policy's business, and is left open.     *)
(***************************************************************************)
EXTENDS Naturals, FiniteSets

CONSTANTS Key, BIG, TINY, Capacities, NoRequest

VARIABLES
    resident,   \* the objects held: a function from their keys to chunk sizes
    wanted,     \* the object being brought in, or NoRequest
    capacity

vars == <<resident, wanted, capacity>>

Chunk == {BIG, TINY}
Wanted == [key : Key, chunk : Chunk]

Holding(c) == { k \in DOMAIN resident : resident[k] = c }
Load == BIG * Cardinality(Holding(BIG)) + TINY * Cardinality(Holding(TINY))
Fits == Load + wanted.chunk <= capacity

Init ==
    /\ resident = [k \in {} |-> BIG]
    /\ wanted = NoRequest
    /\ capacity \in Capacities

Miss(k, c) ==
    /\ wanted = NoRequest
    /\ k \notin DOMAIN resident
    /\ wanted' = [key |-> k, chunk |-> c]
    /\ UNCHANGED <<resident, capacity>>

Evict ==
    /\ wanted # NoRequest
    /\ ~Fits
    /\ \E victim \in DOMAIN resident :
         resident' = [k \in DOMAIN resident \ {victim} |-> resident[k]]
    /\ UNCHANGED <<wanted, capacity>>

Fill ==
    /\ wanted # NoRequest
    /\ Fits
    /\ wanted.key \notin DOMAIN resident
    /\ resident' = [k \in DOMAIN resident \union {wanted.key} |->
                      IF k = wanted.key THEN wanted.chunk ELSE resident[k]]
    /\ wanted' = NoRequest
    /\ UNCHANGED capacity

Next == (\E k \in Key, c \in Chunk : Miss(k, c)) \/ Evict \/ Fill

Spec == Init /\ [][Next]_vars /\ WF_vars(Evict \/ Fill)

-----------------------------------------------------------------------------
TypeOK ==
    /\ DOMAIN resident \subseteq Key
    /\ \A k \in DOMAIN resident : resident[k] \in Chunk
    /\ wanted \in Wanted \union {NoRequest}
    /\ capacity \in Capacities

CapacityRespected == Load <= capacity

EveryMissFilled == (wanted # NoRequest) ~> (wanted = NoRequest)
=============================================================================
