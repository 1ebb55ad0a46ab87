---------------------------- MODULE PolicyProofs ----------------------------
(***************************************************************************)
(* A cache of any algorithm but the ones proved in modules of their own,   *)
(* in the variables all of them share (MCCacheInstance): which algorithm's *)
(* a step is, TinyLFU's sketch, whose estimates never undercount an access *)
(* since the last halving and which never stops to be halved, the hits of  *)
(* OPT, which no cache of its capacity exceeds, the order of MQ's queues,  *)
(* and the bottom of LIRS's stack.                                         *)
(***************************************************************************)
EXTENDS MCCacheInstance, CacheBaseProofs

-----------------------------------------------------------------------------
(* TinyLFU's sketch, in the variables of a cache of any algorithm: each of a *)
(* key's four counters, not only the least of them, is at least what a       *)
(* counter of its own would be.  Only a cache of TinyLFU has a sketch, so    *)
(* what a step of another does to its members does not matter.               *)

sketch == p_field.sketch

CountersDominate ==
    \A k \in Key : \A i \in 0 .. 3 : Policy!TINYLFU!Filter!Count(k, i) >= sketch.seen[k]

SketchInv ==
    algor = "TINYLFU" =>
        /\ "sketch" \in DOMAIN p_field
        /\ Policy!TINYLFU!Filter!TypeOK
        /\ CountersDominate
        /\ Policy!TINYLFU!Filter!ResetInTime

LEMMA SketchAssumed == Policy!TINYLFU!Filter!SketchAssumption
BY PoliciesAssumption DEF PoliciesAssumption, Policy!FilterAssumption

\* Where a counter is: its block and its place, one of sixteen.
LEMMA CounterAtType ==
    ASSUME NEW k \in Key, NEW i \in 0 .. 3
    PROVE  Policy!TINYLFU!Filter!CounterAt(k, i) \in Policy!TINYLFU!Filter!Counter
<1>1. BlockOf[k][i] \in Block
  BY SketchAssumed DEF Policy!TINYLFU!Filter!SketchAssumption, Policy!TINYLFU!Filter!Index
<1>2. GroupOf[k] \in 0 .. 3
  BY SketchAssumed DEF Policy!TINYLFU!Filter!SketchAssumption, Policy!TINYLFU!Filter!Index
<1>3. 4 * GroupOf[k] + i \in 0 .. 15
  BY <1>2
<1> QED
  BY <1>1, <1>3 DEF Policy!TINYLFU!Filter!CounterAt, Policy!TINYLFU!Filter!Counter

LEMMA WidthType == MAX \in Nat \ {0}
BY SketchAssumed DEF Policy!TINYLFU!Filter!SketchAssumption

\* Halving keeps a counter within its range, and keeps the order of two.
LEMMA HalvedType == ASSUME NEW n \in 0 .. MAX PROVE n \div 2 \in 0 .. MAX
BY WidthType

LEMMA HalvedOrder ==
    ASSUME NEW m \in Nat, NEW n \in Nat, m <= n
    PROVE  m \div 2 <= n \div 2
OBVIOUS

\* One access: what the counters, and the history, are before any halving.
LEMMA IncrementedType ==
    ASSUME Policy!TINYLFU!Filter!TypeOK, NEW k \in Key
    PROVE  Policy!TINYLFU!Filter!Incremented(k) \in [Policy!TINYLFU!Filter!Counter -> 0 .. MAX]
<1> SUFFICES ASSUME NEW c \in Policy!TINYLFU!Filter!Counter
             PROVE  (IF c \in Policy!TINYLFU!Filter!CountersOf(k) /\ Policy!TINYLFU!Filter!CanIncrement(c)
                     THEN sketch.table[c] + 1 ELSE sketch.table[c]) \in 0 .. MAX
  BY DEF Policy!TINYLFU!Filter!Incremented, sketch
<1>1. sketch.table[c] \in 0 .. MAX /\ MAX \in Nat
  BY WidthType DEF Policy!TINYLFU!Filter!TypeOK, sketch
<1>2. Policy!TINYLFU!Filter!CanIncrement(c) => sketch.table[c] + 1 \in 0 .. MAX
  BY <1>1 DEF Policy!TINYLFU!Filter!CanIncrement, sketch
<1> QED
  BY <1>1, <1>2

LEMMA SeenOnceMoreType ==
    ASSUME Policy!TINYLFU!Filter!TypeOK, NEW k \in Key
    PROVE  Policy!TINYLFU!Filter!SeenOnceMore(k) \in [Key -> 0 .. MAX]
BY WidthType DEF Policy!TINYLFU!Filter!TypeOK, Policy!TINYLFU!Filter!SeenOnceMore, Policy!TINYLFU!Filter!LesserOf

\* An access moves the counters of its key at least as far as its history.
LEMMA IncrementDominates ==
    ASSUME Policy!TINYLFU!Filter!TypeOK, CountersDominate, NEW k \in Key, NEW x \in Key, NEW i \in 0 .. 3
    PROVE  Policy!TINYLFU!Filter!Incremented(k)[Policy!TINYLFU!Filter!CounterAt(x, i)] >= Policy!TINYLFU!Filter!SeenOnceMore(k)[x]
<1> DEFINE c == Policy!TINYLFU!Filter!CounterAt(x, i)
<1>1. c \in Policy!TINYLFU!Filter!Counter
  BY CounterAtType
<1>2. sketch.table[c] \in 0 .. MAX /\ sketch.seen[x] \in 0 .. MAX /\ MAX \in Nat
  BY <1>1, WidthType DEF Policy!TINYLFU!Filter!TypeOK, sketch
<1>3. sketch.table[c] >= sketch.seen[x]
  BY DEF CountersDominate, Policy!TINYLFU!Filter!Count, sketch
<1>4. CASE x = k
  <2>1. c \in Policy!TINYLFU!Filter!CountersOf(k)
    BY <1>4 DEF Policy!TINYLFU!Filter!CountersOf, Policy!TINYLFU!Filter!Index
  <2>2. Policy!TINYLFU!Filter!SeenOnceMore(k)[x]
          = IF sketch.seen[x] + 1 < MAX THEN sketch.seen[x] + 1 ELSE MAX
    BY <1>4 DEF Policy!TINYLFU!Filter!SeenOnceMore, Policy!TINYLFU!Filter!LesserOf, Policy!TINYLFU!Filter!TypeOK, sketch
  <2>3. Policy!TINYLFU!Filter!Incremented(k)[c]
          = IF sketch.table[c] # MAX THEN sketch.table[c] + 1 ELSE sketch.table[c]
    BY <1>1, <2>1 DEF Policy!TINYLFU!Filter!Incremented, Policy!TINYLFU!Filter!CanIncrement, sketch
  <2> QED
    BY <1>2, <1>3, <2>2, <2>3
<1>5. CASE x # k
  <2>1. Policy!TINYLFU!Filter!SeenOnceMore(k)[x] = sketch.seen[x]
    BY <1>5 DEF Policy!TINYLFU!Filter!SeenOnceMore, Policy!TINYLFU!Filter!TypeOK, sketch
  <2>2. Policy!TINYLFU!Filter!Incremented(k)[c] >= sketch.table[c]
    BY <1>1, <1>2 DEF Policy!TINYLFU!Filter!Incremented, sketch
  <2> QED
    BY <1>2, <1>3, <2>1, <2>2, IncrementedType, SeenOnceMoreType, <1>1
<1> QED
  BY <1>4, <1>5

\* The number of accesses from one reset to the next is a number.
LEMMA SamplingSizeType == Policy!TINYLFU!Filter!SamplingSize \in Nat
<1>1. IsFiniteSet(Block)
  BY SketchAssumed DEF Policy!TINYLFU!Filter!SketchAssumption, Policy!TINYLFU!Filter!IsFiniteSet, IsFiniteSet
<1>2. Policy!TINYLFU!Filter!Cardinality(Block) = Cardinality(Block)
  BY DEF Policy!TINYLFU!Filter!Cardinality, Cardinality
<1>3. Cardinality(Block) \in Nat /\ SamplesPerBlock \in Nat
  BY <1>1, FS_CardinalityType, SketchAssumed DEF Policy!TINYLFU!Filter!SketchAssumption
<1> QED
  BY <1>2, <1>3 DEF Policy!TINYLFU!Filter!SamplingSize

\* What record_access() leaves is a sketch with counters in range, each still no
\* less than its keys deserve, and with its next reset ahead.
LEMMA AccessKeeps ==
    ASSUME Policy!TINYLFU!Filter!TypeOK, CountersDominate, Policy!TINYLFU!Filter!ResetInTime, NEW k \in Key
    PROVE  /\ Policy!TINYLFU!Filter!Accessed(k).table \in [Policy!TINYLFU!Filter!Counter -> 0 .. MAX]
           /\ Policy!TINYLFU!Filter!Accessed(k).size \in Nat
           /\ Policy!TINYLFU!Filter!Accessed(k).seen \in [Key -> 0 .. MAX]
           /\ \A x \in Key : \A i \in 0 .. 3 :
                Policy!TINYLFU!Filter!Accessed(k).table[Policy!TINYLFU!Filter!CounterAt(x, i)] >= Policy!TINYLFU!Filter!Accessed(k).seen[x]
           /\ Policy!TINYLFU!Filter!SamplingSize > 0 => Policy!TINYLFU!Filter!Accessed(k).size < Policy!TINYLFU!Filter!SamplingSize
<1> DEFINE new == Policy!TINYLFU!Filter!Accessed(k)
           inc == Policy!TINYLFU!Filter!Incremented(k)
           once == Policy!TINYLFU!Filter!SeenOnceMore(k)
           n == Policy!TINYLFU!Filter!Counted(k)
<1>1. inc \in [Policy!TINYLFU!Filter!Counter -> 0 .. MAX] /\ once \in [Key -> 0 .. MAX]
  BY IncrementedType, SeenOnceMoreType
<1>2. sketch.size \in Nat /\ n \in Nat /\ n \div 2 \in Nat
  BY DEF Policy!TINYLFU!Filter!TypeOK, Policy!TINYLFU!Filter!Counted, sketch
<1>3. \A x \in Key : \A i \in 0 .. 3 : inc[Policy!TINYLFU!Filter!CounterAt(x, i)] >= once[x]
  BY IncrementDominates
<1>4. Policy!TINYLFU!Filter!SamplingSize > 0 => n <= Policy!TINYLFU!Filter!SamplingSize
  BY <1>2, SamplingSizeType DEF Policy!TINYLFU!Filter!ResetInTime, Policy!TINYLFU!Filter!Counted, sketch
<1>5. CASE Policy!TINYLFU!Filter!MustReset(k)
  <2>1. /\ new.table = [c \in Policy!TINYLFU!Filter!Counter |-> inc[c] \div 2]
        /\ new.seen = [x \in Key |-> once[x] \div 2]
        /\ new.size = n \div 2
    BY <1>1, <1>5 DEF Policy!TINYLFU!Filter!Accessed, Policy!TINYLFU!Filter!Halved
  <2>2. new.table \in [Policy!TINYLFU!Filter!Counter -> 0 .. MAX] /\ new.seen \in [Key -> 0 .. MAX]
    BY <1>1, <2>1, HalvedType
  <2>3. ASSUME NEW x \in Key, NEW i \in 0 .. 3
        PROVE  new.table[Policy!TINYLFU!Filter!CounterAt(x, i)] >= new.seen[x]
    <3>1. Policy!TINYLFU!Filter!CounterAt(x, i) \in Policy!TINYLFU!Filter!Counter
      BY CounterAtType
    <3>2. inc[Policy!TINYLFU!Filter!CounterAt(x, i)] \in Nat /\ once[x] \in Nat
      BY <1>1, <3>1, WidthType
    <3>3. once[x] \div 2 <= inc[Policy!TINYLFU!Filter!CounterAt(x, i)] \div 2
      BY <1>3, <3>2, HalvedOrder
    <3> QED
      BY <2>1, <3>1, <3>2, <3>3
  <2>4. Policy!TINYLFU!Filter!SamplingSize > 0 => n \div 2 < Policy!TINYLFU!Filter!SamplingSize
    BY <1>2, <1>4, SamplingSizeType
  <2> QED
    BY <1>2, <2>1, <2>2, <2>3, <2>4
<1>6. CASE ~Policy!TINYLFU!Filter!MustReset(k)
  <2>1. new.table = inc /\ new.size = n /\ new.seen = once
    BY <1>6 DEF Policy!TINYLFU!Filter!Accessed
  <2>2. Policy!TINYLFU!Filter!SamplingSize > 0 => n < Policy!TINYLFU!Filter!SamplingSize
    <3>1. CASE Policy!TINYLFU!Filter!WasAdded(k)
      BY <1>2, <1>4, <1>6, <3>1, SamplingSizeType DEF Policy!TINYLFU!Filter!MustReset
    <3>2. CASE ~Policy!TINYLFU!Filter!WasAdded(k)
      BY <3>2 DEF Policy!TINYLFU!Filter!Counted, Policy!TINYLFU!Filter!ResetInTime, sketch
    <3> QED
      BY <3>1, <3>2
  <2> QED
    BY <1>1, <1>2, <1>3, <2>1, <2>2
<1> QED
  BY <1>5, <1>6

-----------------------------------------------------------------------------
\* Whose step it is: every action of a policy asks for its algorithm.
LEMMA TQSteps == Policy!TQ!Next => algor = "TQ" /\ algor' = algor
<1> DEFINE Ours == algor = "TQ" /\ algor' = algor
<1>1. ASSUME NEW k, NEW s,
             Policy!TQ!GetHitAm(k) \/ Policy!TQ!GetHitA1in(k) \/ Policy!TQ!GetMiss(k, s)
      PROVE  Ours
  BY <1>1 DEF Policy!TQ!GetHitAm, Policy!TQ!GetHitA1in, Policy!TQ!GetMiss,
              Policy!TQ!At, Policy!TQ!vars, Policy!TQ!configuration
<1>2. Policy!TQ!Full => algor = "TQ"
  BY DEF Policy!TQ!Full, Policy!TQ!At
<1>3. Policy!TQ!ReclaimAm \/ Policy!TQ!EvictGhost \/ Policy!TQ!A1inToGhost => Ours
  BY <1>2 DEF Policy!TQ!ReclaimAm, Policy!TQ!EvictGhost, Policy!TQ!A1inToGhost,
              Policy!TQ!configuration
<1>4. Policy!TQ!InsertPromoted \/ Policy!TQ!InsertErased \/ Policy!TQ!InsertNew => Ours
  BY DEF Policy!TQ!InsertPromoted, Policy!TQ!InsertErased, Policy!TQ!InsertNew,
         Policy!TQ!InsertInto, Policy!TQ!At, Policy!TQ!configuration
<1> QED
  BY <1>1, <1>3, <1>4 DEF Policy!TQ!Next, Policy!TQ!Get, Policy!TQ!Insert

LEMMA LIRSSteps == Policy!LIRS!Next => algor = "LIRS" /\ algor' = algor
BY Zenon DEF Policy!LIRS!At, Policy!LIRS!Full, Policy!LIRS!Get, Policy!LIRS!Insert,
       Policy!LIRS!Next, Policy!LIRS!GetHitLIR, Policy!LIRS!GetHitHIR,
       Policy!LIRS!GetHitQ, Policy!LIRS!GetMiss, Policy!LIRS!GetMissGhost,
       Policy!LIRS!DemoteBottom, Policy!LIRS!DemoteDone,
       Policy!LIRS!EvictTail, Policy!LIRS!InsertGhost, Policy!LIRS!InsertNew,
       Policy!LIRS!configuration

LEMMA MQSteps == Policy!MQ!Next => algor = "MQ" /\ algor' = algor
BY Zenon DEF Policy!MQ!At, Policy!MQ!Full, Policy!MQ!Get, Policy!MQ!Next,
       Policy!MQ!GetHit, Policy!MQ!GetMissGhost, Policy!MQ!GetMiss,
       Policy!MQ!EvictGhost, Policy!MQ!EvictToOut, Policy!MQ!InsertDone,
       Policy!MQ!configuration

LEMMA LARCSteps == Policy!LARC!Next => algor = "LARC" /\ algor' = algor
BY Zenon DEF Policy!LARC!At, Policy!LARC!Full, Policy!LARC!Missed, Policy!LARC!Get,
       Policy!LARC!Next, Policy!LARC!GetHit, Policy!LARC!Refuse,
       Policy!LARC!Admit, Policy!LARC!EvictTail, Policy!LARC!InsertNode,
       Policy!LARC!configuration

LEMMA CLOCKSteps == Policy!CLOCK!Next => algor = "CLOCK" /\ algor' = algor
BY Zenon DEF Policy!CLOCK!At, Policy!CLOCK!Full, Policy!CLOCK!Get,
       Policy!CLOCK!Next, Policy!CLOCK!GetHit, Policy!CLOCK!GetMiss,
       Policy!CLOCK!StartRound, Policy!CLOCK!Spare, Policy!CLOCK!Found,
       Policy!CLOCK!Erase, Policy!CLOCK!InsertNode,
       Policy!CLOCK!configuration

LEMMA TINYLFUSteps == Policy!TINYLFU!Next => algor = "TINYLFU" /\ algor' = algor
BY DEF Policy!TINYLFU!At, Policy!TINYLFU!WindowFull, Policy!TINYLFU!MainFull,
       Policy!TINYLFU!SecondOver, Policy!TINYLFU!Get, Policy!TINYLFU!Insert,
       Policy!TINYLFU!Next, Policy!TINYLFU!GetHitWindow,
       Policy!TINYLFU!GetHitMain, Policy!TINYLFU!GetMiss,
       Policy!TINYLFU!DemoteSecond, Policy!TINYLFU!DemoteDone,
       Policy!TINYLFU!EvictDropped, Policy!TINYLFU!EvictAdmitted,
       Policy!TINYLFU!MainEvict, Policy!TINYLFU!MainInsert,
       Policy!TINYLFU!WindowInsert, Policy!TINYLFU!configuration

LEMMA OPTSteps == Policy!OPT!Next => algor = "OPT" /\ algor' = algor
BY Zenon DEF Policy!OPT!At, Policy!OPT!Full, Policy!OPT!Reading, Policy!OPT!Get,
       Policy!OPT!Next, Policy!OPT!SkipLine, Policy!OPT!GetHit,
       Policy!OPT!GetMiss, Policy!OPT!EvictFirst, Policy!OPT!InsertNode,
       Policy!OPT!configuration

LEMMA ARCSteps == Next => algor' = algor
BY DEF Next, Get, Insert, GetHit, GetMiss, AdaptUp, AdaptDown, EvictB1, EvictT1, EvictB2,
       Evict, KeepGhosts, Replace, EnterGhost, EnterNew, configuration

LEMMA SameAlgorithm == AnyNext => algor' = algor
BY ARCSteps, TQSteps, LIRSSteps, MQSteps, LARCSteps, CLOCKSteps, OPTSteps, TINYLFUSteps
   DEF AnyNext, Policy!Next

LEMMA OnlyItsSteps == ASSUME algor = "TINYLFU", Policy!Next PROVE Policy!TINYLFU!Next
BY TQSteps, LIRSSteps, MQSteps, LARCSteps, CLOCKSteps, OPTSteps DEF Policy!Next

\* A step of TinyLFU leaves the sketch as it is, or records an access.
LEMMA SketchStep ==
    ASSUME Policy!TINYLFU!Next, "sketch" \in DOMAIN p_field
    PROVE  /\ "sketch" \in DOMAIN p_field'
           /\ sketch' = sketch \/ \E k \in Key : sketch' = Policy!TINYLFU!Filter!Accessed(k)
<1>1. ASSUME NEW k \in Key, p_field' = Policy!TINYLFU!Recorded(k)
      PROVE  "sketch" \in DOMAIN p_field' /\ sketch' = Policy!TINYLFU!Filter!Accessed(k)
  BY <1>1 DEF Policy!TINYLFU!Recorded, sketch
<1>2. ASSUME p_field' = p_field
      PROVE  "sketch" \in DOMAIN p_field' /\ sketch' = sketch
  BY <1>2 DEF sketch
<1>3. ASSUME NEW v, p_field' = [p_field EXCEPT !.victim = v]
      PROVE  "sketch" \in DOMAIN p_field' /\ sketch' = sketch
  BY <1>3 DEF sketch
<1>4. ASSUME NEW k \in Key, Policy!TINYLFU!GetHitWindow(k) PROVE p_field' = Policy!TINYLFU!Recorded(k)
  BY <1>4 DEF Policy!TINYLFU!GetHitWindow
<1>5. ASSUME NEW k \in Key, Policy!TINYLFU!GetHitMain(k) PROVE p_field' = Policy!TINYLFU!Recorded(k)
  BY <1>5 DEF Policy!TINYLFU!GetHitMain
<1>6. ASSUME NEW k \in Key, NEW s, Policy!TINYLFU!GetMiss(k, s) PROVE p_field' = Policy!TINYLFU!Recorded(k)
  BY <1>6 DEF Policy!TINYLFU!GetMiss
<1>7. Policy!TINYLFU!DemoteSecond \/ Policy!TINYLFU!DemoteDone => p_field' = p_field
  BY DEF Policy!TINYLFU!DemoteSecond, Policy!TINYLFU!DemoteDone
<1>8. Policy!TINYLFU!EvictDropped \/ Policy!TINYLFU!MainEvict \/ Policy!TINYLFU!WindowInsert => p_field' = p_field
  BY DEF Policy!TINYLFU!EvictDropped, Policy!TINYLFU!MainEvict, Policy!TINYLFU!WindowInsert
<1>9. Policy!TINYLFU!EvictAdmitted => \E v : p_field' = [p_field EXCEPT !.victim = v]
  BY Zenon DEF Policy!TINYLFU!EvictAdmitted
<1>10. Policy!TINYLFU!MainInsert => \E v : p_field' = [p_field EXCEPT !.victim = v]
  BY Zenon DEF Policy!TINYLFU!MainInsert
<1>11. Policy!TINYLFU!Get => \E k \in Key : p_field' = Policy!TINYLFU!Recorded(k)
  BY <1>4, <1>5, <1>6 DEF Policy!TINYLFU!Get
<1>12. Policy!TINYLFU!Insert => p_field' = p_field \/ \E v : p_field' = [p_field EXCEPT !.victim = v]
  BY <1>7, <1>8, <1>9, <1>10 DEF Policy!TINYLFU!Insert
<1> QED
  BY <1>1, <1>2, <1>3, <1>11, <1>12 DEF Policy!TINYLFU!Next

LEMMA SketchInitially == AnyInit => SketchInv
<1> SUFFICES ASSUME AnyInit, algor = "TINYLFU"
             PROVE  /\ "sketch" \in DOMAIN p_field
                    /\ Policy!TINYLFU!Filter!TypeOK /\ CountersDominate /\ Policy!TINYLFU!Filter!ResetInTime
  BY DEF SketchInv
<1>1. Policy!TINYLFU!Init
  BY DEF AnyInit, Init, Policy!Init
<1>2. /\ "sketch" \in DOMAIN p_field
      /\ sketch.table = [c \in Policy!TINYLFU!Filter!Counter |-> 0]
      /\ sketch.size = 0
      /\ sketch.seen = [k \in Key |-> 0]
  BY <1>1 DEF Policy!TINYLFU!Init, sketch
<1>3. Policy!TINYLFU!Filter!TypeOK
  BY <1>2, WidthType DEF Policy!TINYLFU!Filter!TypeOK, sketch
<1>4. CountersDominate
  BY <1>2, CounterAtType DEF CountersDominate, Policy!TINYLFU!Filter!Count, sketch
<1>5. Policy!TINYLFU!Filter!ResetInTime
  BY <1>2 DEF Policy!TINYLFU!Filter!ResetInTime, sketch
<1> QED
  BY <1>2, <1>3, <1>4, <1>5

LEMMA SketchUnchanged ==
    ASSUME Policy!TINYLFU!Filter!TypeOK, CountersDominate, Policy!TINYLFU!Filter!ResetInTime, sketch' = sketch
    PROVE  Policy!TINYLFU!Filter!TypeOK' /\ CountersDominate' /\ Policy!TINYLFU!Filter!ResetInTime'
<1>1. Policy!TINYLFU!Filter!TypeOK'
  BY DEF Policy!TINYLFU!Filter!TypeOK, Policy!TINYLFU!Filter!Counter, sketch
<1>2. CountersDominate'
  BY Zenon DEF CountersDominate, Policy!TINYLFU!Filter!Count, Policy!TINYLFU!Filter!CounterAt, sketch
<1>3. Policy!TINYLFU!Filter!ResetInTime'
  BY DEF Policy!TINYLFU!Filter!ResetInTime, Policy!TINYLFU!Filter!SamplingSize, sketch
<1> QED
  BY <1>1, <1>2, <1>3

LEMMA SketchAccessed ==
    ASSUME Policy!TINYLFU!Filter!TypeOK, CountersDominate, Policy!TINYLFU!Filter!ResetInTime,
           NEW k \in Key, sketch' = Policy!TINYLFU!Filter!Accessed(k)
    PROVE  Policy!TINYLFU!Filter!TypeOK' /\ CountersDominate' /\ Policy!TINYLFU!Filter!ResetInTime'
<1>1. Policy!TINYLFU!Filter!TypeOK'
  BY AccessKeeps DEF Policy!TINYLFU!Filter!TypeOK, Policy!TINYLFU!Filter!Counter, sketch
<1>2. CountersDominate'
  BY AccessKeeps, Zenon DEF CountersDominate, Policy!TINYLFU!Filter!Count, Policy!TINYLFU!Filter!CounterAt, sketch
<1>3. Policy!TINYLFU!Filter!ResetInTime'
  BY AccessKeeps DEF Policy!TINYLFU!Filter!ResetInTime, Policy!TINYLFU!Filter!SamplingSize, sketch
<1> QED
  BY <1>1, <1>2, <1>3

LEMMA SketchPreserved ==
    SketchInv /\ [AnyNext]_<<vars, policy_vars>> => SketchInv'
<1> SUFFICES ASSUME SketchInv, [AnyNext]_<<vars, policy_vars>>, algor' = "TINYLFU"
             PROVE  SketchInv'
  BY DEF SketchInv
<1>1. ASSUME UNCHANGED <<vars, policy_vars>> PROVE SketchInv'
  <2>1. algor = "TINYLFU" /\ p_field' = p_field /\ sketch' = sketch
    BY <1>1 DEF vars, configuration, policy_vars, sketch
  <2> QED
    BY <2>1, SketchUnchanged DEF SketchInv
<1>2. ASSUME AnyNext PROVE SketchInv'
  <2>1. algor = "TINYLFU"
    BY <1>2, SameAlgorithm
  <2>2. Policy!TINYLFU!Next
    BY <1>2, <2>1, OnlyItsSteps DEF AnyNext
  <2>3. /\ "sketch" \in DOMAIN p_field
        /\ Policy!TINYLFU!Filter!TypeOK /\ CountersDominate /\ Policy!TINYLFU!Filter!ResetInTime
    BY <2>1 DEF SketchInv
  <2>4. /\ "sketch" \in DOMAIN p_field'
        /\ sketch' = sketch \/ \E k \in Key : sketch' = Policy!TINYLFU!Filter!Accessed(k)
    BY <2>2, <2>3, SketchStep
  <2>5. Policy!TINYLFU!Filter!TypeOK' /\ CountersDominate' /\ Policy!TINYLFU!Filter!ResetInTime'
    BY <2>3, <2>4, SketchUnchanged, SketchAccessed
  <2> QED
    BY <2>4, <2>5 DEF SketchInv
<1> QED
  BY <1>1, <1>2

\* A cache of TinyLFU has a sketch of its kind: no counter passes MAX, which is
\* what keeps one four-bit counter from carrying into the next, and the test
\* `size_ == sampling_size()` that ages the counters is never jumped over.
THEOREM SketchInvariant == AnySpec => []SketchInv
<1> QED
  BY SketchInitially, SketchPreserved, PTL DEF AnySpec

\* frequency() never tells less than a counter of the key's own would: sharing,
\* saturation at 15 and the halving of all counters only err upwards.  And the
\* counters are halved whenever enough has been counted: no access takes size_
\* past the sampling size it is compared with by ==.
THEOREM EstimatesAlwaysHold == AnySpec => []EstimatesHold
<1>1. SketchInv => EstimatesHold
  <2> SUFFICES ASSUME SketchInv, algor = "TINYLFU"
               PROVE  Policy!TINYLFU!Filter!NeverUndercounts /\ Policy!TINYLFU!Filter!ResetInTime
    BY DEF EstimatesHold, Policy!EstimatesHold, Policy!TINYLFU!EstimatesHold,
           Policy!TINYLFU!Filter!EstimatesHold
  <2>1. Policy!TINYLFU!Filter!ResetInTime
    BY DEF SketchInv
  <2>2. ASSUME NEW k \in Key
        PROVE  Policy!TINYLFU!Filter!Frequency(k) >= sketch.seen[k]
    <3>1. \A i \in 0 .. 3 : Policy!TINYLFU!Filter!Count(k, i) >= sketch.seen[k]
      BY DEF SketchInv, CountersDominate
    <3> QED
      BY <3>1 DEF Policy!TINYLFU!Filter!Frequency, Policy!TINYLFU!Filter!LesserOf
  <2> QED
    BY <2>1, <2>2 DEF Policy!TINYLFU!Filter!NeverUndercounts, sketch
<1> QED
  BY <1>1, SketchInvariant, PTL

-----------------------------------------------------------------------------
(* OPT, in the same variables, over traces of objects of one chunk size.     *)

tree == p_lists.rbtree

\* The members of a cache of OPT, every object charged u.
OPTTyped(u) ==
    /\ u \in {BIG, TINY} /\ UNION { Policy!OPT!ChunksOf(k) : k \in Key } = {u}
    /\ sizesOf \in [Key -> SUBSET Size]
    /\ p_capacity \in Nat /\ BIG <= p_capacity /\ p_capacity + BIG < WORD
    /\ p_lists = [rbtree |-> tree] /\ p_sizes = [cache |-> Len(tree) * u]
    /\ p_field = [trace |-> p_field.trace, line |-> p_field.line, word |-> p_field.line, hits |-> p_field.hits]
    /\ p_field.line \in 1 .. TraceLength + 1
    /\ DueTrace(p_field.trace, TraceLength, p_capacity \div u, NoFile, WORD - 1)
    /\ \A i \in DOMAIN tree : ChunkSize(tree[i].size) = u

\* Nothing is lost yet, if line `at` may still ask for what the tree holds.
OPTServed(u, at) ==
    Served(p_field.trace, TraceLength, p_capacity \div u, NoFile, WORD - 1,
           at, p_field.line, p_field.hits, tree)

\* Between two lines, and while room is made for what the last one missed.
OPTIdle(u) == p_phase = "idle" /\ p_request = NoRequest /\ OPTServed(u, p_field.line)

OPTInserting(u) ==
    /\ p_phase = "insert" /\ p_field.line > 1
    /\ p_request \in DueNode /\ ChunkSize(p_request.size) = u
    /\ p_request.key = p_field.trace[p_field.line - 1] /\ p_request.key \notin KeysOf(tree)
    /\ IsDue(p_field.trace, TraceLength, WORD - 1, p_field.line, p_request.key, p_request.next)
    /\ OPTServed(u, p_field.line - 1)

OPTState(u) == OPTTyped(u) /\ (OPTIdle(u) \/ OPTInserting(u))

OPTInv == (algor = "OPT" /\ Policy!OPT!Uniform) => \E u \in {BIG, TINY} : OPTState(u)

\* What the instance's helpers are.
LEMMA OPTHelpers ==
    /\ \A x, y : Policy!OPT!Plus(x, y) = Plus(x, y) /\ Policy!OPT!Minus(x, y) = Minus(x, y)
    /\ \A x : Policy!OPT!ChunkSize(x) = ChunkSize(x)
    /\ \A s : Policy!OPT!KeysOf(s) = KeysOf(s)
<1>1. \A x, y : Policy!OPT!Plus(x, y) = Plus(x, y) /\ Policy!OPT!Minus(x, y) = Minus(x, y)
  BY DEF Policy!OPT!Plus, Plus, Policy!OPT!Minus, Minus
<1>2. \A x : Policy!OPT!ChunkSize(x) = ChunkSize(x)
  BY DEF Policy!OPT!ChunkSize, ChunkSize
<1>3. \A s : Policy!OPT!KeysOf(s) = KeysOf(s)
  BY DEF Policy!OPT!KeysOf, KeysOf
<1> QED BY <1>1, <1>2, <1>3

\* A node taken out.
LEMMA OPTRemoves == \A s, i : Policy!OPT!Erased(s, i) = RemoveAt(s, i)
BY DEF Policy!OPT!Erased, RemoveAt

\* A node put in.
LEMMA OPTEmplaces == \A s, e : Policy!OPT!Emplaced(s, e) = InOrder(s, e)
BY DEF Policy!OPT!Emplaced, InOrder, Policy!OPT!EmplacedAt, InsertAt, Policy!OPT!Min, Min

\* The node of a key that is in the tree.
LEMMA OPTNode ==
    ASSUME p_lists = [rbtree |-> tree], KeysDistinct(tree), NEW p \in DOMAIN tree
    PROVE  /\ Policy!OPT!NodeOf(tree[p].key) = tree[p]
           /\ Policy!OPT!Without(tree, tree[p].key) = RemoveAt(tree, p)
<1>1. (CHOOSE i \in DOMAIN tree : tree[i].key = tree[p].key) = p
  BY DEF KeysDistinct
<1>2. Policy!OPT!ListOf(tree[p].key) = "rbtree"
  BY DEF Policy!OPT!ListOf, Policy!OPT!In, Policy!OPT!KeysOf
<1>3. p_lists["rbtree"] = tree
  BY DEF tree
<1>4. tree[p].key \in Policy!OPT!KeysOf(tree)
  BY DEF Policy!OPT!KeysOf
<1> QED BY <1>1, <1>2, <1>3, <1>4, OPTRemoves, Zenon DEF Policy!OPT!NodeOf, Policy!OPT!Without

\* Every request is charged the one chunk.
LEMMA OPTChunk ==
    ASSUME NEW u, OPTTyped(u)
    PROVE  /\ u \in Nat \ {0} /\ u <= BIG /\ BIG \in Nat /\ WORD \in Nat
           /\ \A k \in Key : \A z \in sizesOf[k] : z \in Size /\ ChunkSize(z) = u
<1>1. u \in Nat \ {0} /\ u <= BIG /\ BIG \in Nat /\ WORD \in Nat
  BY ChunkFacts DEF OPTTyped
<1>2. ASSUME NEW k \in Key, NEW z \in sizesOf[k] PROVE z \in Size /\ ChunkSize(z) = u
  <2>1. Policy!OPT!ChunkSize(z) \in Policy!OPT!ChunksOf(k)
    BY DEF Policy!OPT!ChunksOf
  <2>2. Policy!OPT!ChunkSize(z) \in UNION { Policy!OPT!ChunksOf(x) : x \in Key }
    BY <2>1
  <2>3. ChunkSize(z) = u
    BY <2>2, OPTHelpers DEF OPTTyped
  <2>4. z \in Size
    BY DEF OPTTyped
  <2> QED BY <2>3, <2>4
<1> QED BY <1>1, <1>2

\* A cache of chunks of size u is full when it has as many as it has room for.
LEMMA OPTFull ==
    ASSUME NEW u, OPTTyped(u), Len(tree) \in Nat, Len(tree) <= p_capacity \div u
    PROVE  /\ Policy!OPT!IsFullAt(Len(tree) * u, p_capacity, u) <=> Len(tree) = p_capacity \div u
           /\ Plus(Len(tree) * u, u) = (Len(tree) + 1) * u
           /\ Len(tree) > 0 => Minus(Len(tree) * u, u) = (Len(tree) - 1) * u
<1> DEFINE l == Len(tree)
           c == p_capacity \div u
<1>1. u \in Nat \ {0} /\ u <= BIG /\ BIG \in Nat /\ WORD \in Nat
  BY OPTChunk
<1>2. p_capacity \in Nat /\ p_capacity + BIG < WORD /\ l \in Nat /\ l <= c
  BY DEF OPTTyped
<1> HIDE DEF l
<1>3. /\ c \in Nat /\ (l <= c <=> l * u <= p_capacity)
      /\ l * u \in Nat /\ (l + 1) * u = l * u + u
      /\ l > 0 => l * u = (l - 1) * u + u
  BY <1>1, <1>2, SlotsFacts
<1>4. l + 1 <= c <=> (l + 1) * u <= p_capacity
  <2>1. l + 1 \in Nat
    BY <1>2
  <2> QED BY <2>1, <1>1, <1>2, SlotsFacts
<1> DEFINE x == l * u
           y == (l + 1) * u
           z == (l - 1) * u
<1>5. x \in Nat /\ x <= p_capacity /\ y = x + u /\ (l > 0 => x = z + u) /\ (l + 1 <= c <=> y <= p_capacity)
  BY <1>2, <1>3, <1>4
<1>6. l > 0 => z \in Nat
  <2> SUFFICES ASSUME l > 0 PROVE z \in Nat
    OBVIOUS
  <2>1. l - 1 \in Nat
    BY <1>2
  <2> QED BY <2>1, <1>1, SlotsFacts
<1> HIDE DEF x, y, z, c
<1>7. Plus(x, u) = y
  BY <1>1, <1>2, <1>5 DEF Plus
<1>8. l > 0 => Minus(x, u) = z
  BY <1>1, <1>2, <1>5, <1>6 DEF Minus
<1>9. Policy!OPT!IsFullAt(x, p_capacity, u) <=> y > p_capacity
  BY <1>7, OPTHelpers DEF Policy!OPT!IsFullAt
<1>10. y > p_capacity <=> l = c
  BY <1>1, <1>2, <1>3, <1>5
<1> QED BY <1>7, <1>8, <1>9, <1>10 DEF l, x, y, z, c

\* What a step has to do to the members.
OPTBecomes(u, s, i, h) ==
    /\ OPTTyped(u) /\ p_capacity' = p_capacity /\ sizesOf' = sizesOf
    /\ p_lists' = [rbtree |-> s] /\ p_sizes' = [cache |-> Len(s) * u]
    /\ \A j \in DOMAIN s : ChunkSize(s[j].size) = u
    /\ p_field' = [trace |-> p_field.trace, line |-> i, word |-> i, hits |-> h]
    /\ i \in 1 .. TraceLength + 1

\* It is a cache of OPT again, with this tree, line and count of hits.
LEMMA OPTTypedKept ==
    ASSUME NEW u, NEW s, NEW i, NEW h, OPTBecomes(u, s, i, h)
    PROVE  /\ OPTTyped(u)' /\ tree' = s
           /\ p_field'.trace = p_field.trace /\ p_field'.line = i /\ p_field'.hits = h
<1> USE DEF OPTBecomes
<1>1. tree' = s
  BY DEF tree
<1>2. p_field'.trace = p_field.trace /\ p_field'.line = i /\ p_field'.hits = h
  OBVIOUS
<1>3. \A k : Policy!OPT!ChunksOf(k)' = Policy!OPT!ChunksOf(k)
  BY DEF Policy!OPT!ChunksOf, Policy!OPT!ChunkSize
<1>4. UNION { Policy!OPT!ChunksOf(k)' : k \in Key } = UNION { Policy!OPT!ChunksOf(k) : k \in Key }
  BY <1>3
<1>5. /\ u \in {BIG, TINY} /\ UNION { Policy!OPT!ChunksOf(k)' : k \in Key } = {u}
      /\ sizesOf' \in [Key -> SUBSET Size]
      /\ p_capacity' \in Nat /\ BIG <= p_capacity' /\ p_capacity' + BIG < WORD
      /\ DueTrace(p_field.trace, TraceLength, p_capacity' \div u, NoFile, WORD - 1)
  BY <1>4, Zenon DEF OPTTyped
<1>6. /\ p_lists' = [rbtree |-> tree'] /\ p_sizes' = [cache |-> Len(tree') * u]
      /\ \A j \in DOMAIN tree' : ChunkSize(tree'[j].size) = u
  BY <1>1
<1>7. p_field' = [trace |-> p_field'.trace, line |-> p_field'.line, word |-> p_field'.line, hits |-> p_field'.hits]
      /\ p_field'.line \in 1 .. TraceLength + 1
  BY <1>2
<1>8. DueTrace(p_field'.trace, TraceLength, p_capacity' \div u, NoFile, WORD - 1)
  BY <1>2, <1>5
<1>9. OPTTyped(u)'
  BY <1>5, <1>6, <1>7, <1>8 DEF OPTTyped
<1> QED BY <1>1, <1>2, <1>9

\* The tree of such a cache, and that a step which leaves it alone keeps it.
LEMMA OPTSameTree ==
    ASSUME NEW u, OPTTyped(u), p_lists' = p_lists, p_sizes' = p_sizes
    PROVE  /\ p_lists' = [rbtree |-> tree] /\ p_sizes' = [cache |-> Len(tree) * u]
           /\ \A j \in DOMAIN tree : ChunkSize(tree[j].size) = u
BY DEF OPTTyped

\* The two files are read in step.
LEMMA OPTInStep == ASSUME NEW u, OPTTyped(u) PROVE Policy!OPT!word = p_field.line
BY DEF OPTTyped, Policy!OPT!word

\* A line whose file is empty is passed over.
LEMMA OPTSkips ==
    ASSUME NEW u, OPTTyped(u), OPTIdle(u), Policy!OPT!SkipLine
    PROVE  OPTTyped(u)' /\ OPTIdle(u)'
<1> DEFINE t == p_field.trace
           i == p_field.line
           h == p_field.hits
           c == p_capacity \div u
<1>1. /\ t[i] = NoFile /\ i <= TraceLength /\ p_phase = "idle"
      /\ p_field' = [p_field EXCEPT !.line = i + 1, !.word = i + 1, !.hits = @ + 0]
      /\ p_capacity' = p_capacity /\ sizesOf' = sizesOf
      /\ p_lists' = p_lists /\ p_sizes' = p_sizes /\ p_phase' = p_phase /\ p_request' = p_request
  BY OPTInStep, Zenon
     DEF Policy!OPT!SkipLine, Policy!OPT!Reading, Policy!OPT!At, Policy!OPT!Advanced,
         Policy!OPT!WordAfter, Policy!OPT!configuration, Policy!OPT!trace, Policy!OPT!line
<1>2. i \in 1 .. TraceLength + 1 /\ TraceLength \in Nat /\ DueTrace(t, TraceLength, c, NoFile, WORD - 1)
  BY DEF OPTTyped, DueTrace, IsTrace
<1>3. Served(t, TraceLength, c, NoFile, WORD - 1, i, i, h, tree) /\ h \in Nat
  BY DEF OPTIdle, OPTServed, Served
<1>4. p_field' = [trace |-> t, line |-> i + 1, word |-> i + 1, hits |-> h]
  <2>1. h + 0 = h
    BY <1>3
  <2> QED BY <1>1, <2>1, Zenon DEF OPTTyped
<1>5. i \in 1 .. TraceLength /\ i + 1 \in 1 .. TraceLength + 1
  BY <1>1, <1>2
<1>6. Served(t, TraceLength, c, NoFile, WORD - 1, i + 1, i + 1, h, tree)
  BY <1>1, <1>2, <1>3, <1>5, ServedSkip
<1>7. /\ p_lists' = [rbtree |-> tree] /\ p_sizes' = [cache |-> Len(tree) * u]
      /\ \A j \in DOMAIN tree : ChunkSize(tree[j].size) = u
  BY <1>1, OPTSameTree
<1>8. /\ OPTTyped(u)' /\ tree' = tree
      /\ p_field'.trace = t /\ p_field'.line = i + 1 /\ p_field'.hits = h
  <2>1. OPTBecomes(u, tree, i + 1, h)
    BY <1>1, <1>4, <1>5, <1>7, Zenon DEF OPTBecomes
  <2> QED BY <2>1, OPTTypedKept
<1> HIDE DEF t, i, h
<1>9. OPTIdle(u)'
  BY <1>1, <1>6, <1>8 DEF OPTIdle, OPTServed
<1> QED BY <1>8, <1>9

\* The position read with a line is of the next line that asks for the same.
LEMMA OPTNextPos ==
    ASSUME NEW u, OPTTyped(u), NEW i \in 1 .. TraceLength
    PROVE  /\ Policy!OPT!NextPos(i) \in Nat
           /\ IsDue(p_field.trace, TraceLength, WORD - 1, i + 1, p_field.trace[i], Policy!OPT!NextPos(i))
<1> DEFINE t == p_field.trace
<1>1. DueTrace(t, TraceLength, p_capacity \div u, NoFile, WORD - 1)
  BY DEF OPTTyped
<1>2. Policy!OPT!NextPos(i) = NextOf(t, TraceLength, WORD - 1, i)
  BY DEF Policy!OPT!NextPos, Policy!OPT!OUT_OF_TRACE, Policy!OPT!Min, Min, Policy!OPT!trace, NextOf
<1> HIDE DEF t
<1>3. /\ NextOf(t, TraceLength, WORD - 1, i) \in Nat
      /\ IsDue(t, TraceLength, WORD - 1, i + 1, t[i], NextOf(t, TraceLength, WORD - 1, i))
  BY <1>1, NextIsDue
<1> QED BY <1>2, <1>3 DEF t

\* A hit: the node is taken out of the tree and put in again where it belongs.
LEMMA OPTHits ==
    ASSUME NEW u, OPTTyped(u), OPTIdle(u), NEW k \in Key, Policy!OPT!GetHit(k)
    PROVE  OPTTyped(u)' /\ OPTIdle(u)'
<1> DEFINE t == p_field.trace
           i == p_field.line
           h == p_field.hits
           c == p_capacity \div u
           e == [Policy!OPT!NodeOf(k) EXCEPT !.next = Policy!OPT!NextPos(i)]
<1>1. /\ t[i] = k /\ i <= TraceLength /\ p_phase = "idle" /\ k \in KeysOf(tree)
      /\ p_lists' = [rbtree |-> InOrder(Policy!OPT!Without(tree, k), e)]
      /\ p_field' = [p_field EXCEPT !.line = i + 1, !.word = i + 1, !.hits = @ + 1]
      /\ p_capacity' = p_capacity /\ sizesOf' = sizesOf
      /\ p_sizes' = p_sizes /\ p_phase' = p_phase /\ p_request' = p_request
  BY OPTEmplaces, OPTHelpers, OPTInStep, Zenon
     DEF Policy!OPT!GetHit, Policy!OPT!Reading, Policy!OPT!At, Policy!OPT!Advanced,
         Policy!OPT!WordAfter, Policy!OPT!In,
         Policy!OPT!configuration, Policy!OPT!trace, Policy!OPT!line, tree
<1>2. i \in 1 .. TraceLength + 1 /\ TraceLength \in Nat /\ DueTrace(t, TraceLength, c, NoFile, WORD - 1)
  BY DEF OPTTyped, DueTrace, IsTrace
<1>3. /\ Served(t, TraceLength, c, NoFile, WORD - 1, i, i, h, tree) /\ h \in Nat
      /\ tree \in Seq(DueNode) /\ KeysDistinct(tree)
  BY DEF OPTIdle, OPTServed, Served, IsTree
<1>4. p_field' = [trace |-> t, line |-> i + 1, word |-> i + 1, hits |-> h + 1]
  BY <1>1, Zenon DEF OPTTyped
<1>5. i \in 1 .. TraceLength /\ i + 1 \in 1 .. TraceLength + 1
  BY <1>1, <1>2
<1>6. PICK p \in DOMAIN tree : k = tree[p].key
  BY <1>1 DEF KeysOf
<1>7. p \in 1 .. Len(tree) /\ tree[p] \in DueNode
  BY <1>3
<1>8. Policy!OPT!NodeOf(k) = tree[p] /\ Policy!OPT!Without(tree, k) = RemoveAt(tree, p)
  BY <1>3, <1>6, OPTNode DEF OPTTyped
<1>9. /\ Policy!OPT!NextPos(i) \in Nat
      /\ IsDue(t, TraceLength, WORD - 1, i + 1, t[i], Policy!OPT!NextPos(i))
  BY <1>5, OPTNextPos
<1>10. e \in DueNode /\ e.key = t[i] /\ e.next = Policy!OPT!NextPos(i) /\ e.size = tree[p].size
  BY <1>1, <1>6, <1>7, <1>8, <1>9 DEF DueNode
<1> HIDE DEF e
<1> DEFINE s2 == InOrder(RemoveAt(tree, p), e)
<1>11. /\ Served(t, TraceLength, c, NoFile, WORD - 1, i + 1, i + 1, h + 1, s2)
       /\ Len(s2) = Len(tree)
       /\ \A j \in DOMAIN s2 : s2[j] = e \/ \E x \in DOMAIN tree : s2[j] = tree[x]
  <2> HIDE DEF t, i, h, c
  <2> QED BY <1>1, <1>2, <1>3, <1>5, <1>6, <1>7, <1>9, <1>10, ServedHit
<1>12. p_lists' = [rbtree |-> s2]
  BY <1>1, <1>8
<1> HIDE DEF s2
<1>13. \A j \in DOMAIN s2 : ChunkSize(s2[j].size) = u
  <2>1. \A x \in DOMAIN tree : ChunkSize(tree[x].size) = u
    BY DEF OPTTyped
  <2> QED BY <2>1, <1>6, <1>10, <1>11
<1>14. p_sizes' = [cache |-> Len(s2) * u]
  BY <1>1, <1>11 DEF OPTTyped
<1>15. /\ OPTTyped(u)' /\ tree' = s2
       /\ p_field'.trace = t /\ p_field'.line = i + 1 /\ p_field'.hits = h + 1
  <2>1. OPTBecomes(u, s2, i + 1, h + 1)
    BY <1>1, <1>4, <1>5, <1>12, <1>13, <1>14, Zenon DEF OPTBecomes
  <2> QED BY <2>1, OPTTypedKept
<1> HIDE DEF t, i, h
<1>16. OPTIdle(u)'
  BY <1>1, <1>11, <1>15 DEF OPTIdle, OPTServed
<1> QED BY <1>15, <1>16

\* A miss: the position goes with the request.
LEMMA OPTMisses ==
    ASSUME NEW u, OPTTyped(u), OPTIdle(u), NEW k \in Key, NEW s \in sizesOf[k], Policy!OPT!GetMiss(k, s)
    PROVE  OPTTyped(u)' /\ OPTInserting(u)'
<1> DEFINE t == p_field.trace
           i == p_field.line
           h == p_field.hits
           c == p_capacity \div u
           next == Policy!OPT!NextPos(i)
<1>1. /\ t[i] = k /\ i <= TraceLength /\ k \notin KeysOf(tree)
      /\ p_phase' = "insert" /\ p_request' = [key |-> k, size |-> s, next |-> next]
      /\ p_field' = [p_field EXCEPT !.line = i + 1, !.word = i + 1, !.hits = @ + 0]
      /\ p_capacity' = p_capacity /\ sizesOf' = sizesOf /\ p_lists' = p_lists /\ p_sizes' = p_sizes
  BY OPTHelpers, OPTInStep, Zenon
     DEF Policy!OPT!GetMiss, Policy!OPT!Reading, Policy!OPT!At, Policy!OPT!Advanced,
         Policy!OPT!WordAfter, Policy!OPT!In,
         Policy!OPT!configuration, Policy!OPT!trace, Policy!OPT!line, tree
<1>2. i \in 1 .. TraceLength + 1 /\ TraceLength \in Nat /\ DueTrace(t, TraceLength, c, NoFile, WORD - 1)
  BY DEF OPTTyped, DueTrace, IsTrace
<1>3. Served(t, TraceLength, c, NoFile, WORD - 1, i, i, h, tree) /\ h \in Nat
  BY DEF OPTIdle, OPTServed, Served
<1>4. p_field' = [trace |-> t, line |-> i + 1, word |-> i + 1, hits |-> h]
  <2>1. h + 0 = h
    BY <1>3
  <2> QED BY <1>1, <2>1, Zenon DEF OPTTyped
<1>5. i \in 1 .. TraceLength /\ i + 1 \in 1 .. TraceLength + 1 /\ (i + 1) - 1 = i /\ i + 1 > 1
  BY <1>1, <1>2
<1>6. next \in Nat /\ IsDue(t, TraceLength, WORD - 1, i + 1, t[i], next)
  BY <1>5, OPTNextPos
<1>7. s \in Size /\ ChunkSize(s) = u
  BY OPTChunk
<1>8. Served(t, TraceLength, c, NoFile, WORD - 1, i, i + 1, h, tree)
  <2> HIDE DEF t, i, h, c
  <2> QED BY <1>1, <1>2, <1>3, <1>5, ServedMiss
<1> HIDE DEF next
<1>9. /\ p_request'.key = k /\ p_request'.size = s /\ p_request'.next = next
      /\ p_request' \in DueNode
  BY <1>1, <1>6, <1>7 DEF DueNode
<1>10. /\ p_lists' = [rbtree |-> tree] /\ p_sizes' = [cache |-> Len(tree) * u]
       /\ \A j \in DOMAIN tree : ChunkSize(tree[j].size) = u
  BY <1>1, OPTSameTree
<1>11. /\ OPTTyped(u)' /\ tree' = tree
       /\ p_field'.trace = t /\ p_field'.line = i + 1 /\ p_field'.hits = h
  <2>1. OPTBecomes(u, tree, i + 1, h)
    BY <1>1, <1>4, <1>5, <1>10, Zenon DEF OPTBecomes
  <2> QED BY <2>1, OPTTypedKept
<1> HIDE DEF t, i, h
<1>12. OPTInserting(u)'
  BY <1>1, <1>5, <1>6, <1>7, <1>8, <1>9, <1>11 DEF OPTInserting, OPTServed
<1> QED BY <1>11, <1>12

\* What the running insert() has to do with the line read last.
LEMMA OPTAsked ==
    ASSUME NEW u, OPTTyped(u), OPTInserting(u)
    PROVE  /\ p_field.line - 1 \in 1 .. TraceLength /\ (p_field.line - 1) + 1 = p_field.line
           /\ p_field.trace[p_field.line - 1] \in Key \ KeysOf(tree)
           /\ p_field.hits \in Nat /\ tree \in Seq(DueNode) /\ Len(tree) \in Nat
           /\ Len(tree) <= p_capacity \div u
           /\ DueTrace(p_field.trace, TraceLength, p_capacity \div u, NoFile, WORD - 1)
<1>1. p_field.line \in 1 .. TraceLength + 1 /\ TraceLength \in Nat /\ p_field.line > 1
  BY DEF OPTTyped, OPTInserting, DueTrace, IsTrace
<1>2. /\ p_field.hits \in Nat /\ tree \in Seq(DueNode) /\ Len(tree) \in Nat
      /\ Len(tree) <= p_capacity \div u
  BY DEF OPTInserting, OPTServed, Served, IsTree
<1>3. p_field.trace[p_field.line - 1] \in Key \ KeysOf(tree)
  BY DEF OPTInserting, DueNode
<1> QED BY <1>1, <1>2, <1>3 DEF OPTTyped

\* The object asked for, and all that is held, is charged the one chunk.
LEMMA OPTChunks ==
    ASSUME NEW u, OPTTyped(u), OPTInserting(u)
    PROVE  /\ Policy!OPT!Chunk = u /\ p_sizes.cache = Len(tree) * u
           /\ \A x \in DOMAIN tree : Policy!OPT!Charge(tree[x]) = u
BY OPTHelpers DEF OPTTyped, OPTInserting, Policy!OPT!Chunk, Policy!OPT!Charge

\* Making room: what goes is what is asked for last.
LEMMA OPTEvicts ==
    ASSUME NEW u, OPTTyped(u), OPTInserting(u), Policy!OPT!EvictFirst
    PROVE  OPTTyped(u)' /\ OPTInserting(u)'
<1> DEFINE t == p_field.trace
           i == p_field.line - 1
           h == p_field.hits
           c == p_capacity \div u
           r == Tail(tree)
<1>1. /\ Policy!OPT!IsFullAt(p_sizes.cache, p_capacity, Policy!OPT!Chunk) /\ tree # << >>
      /\ p_sizes' = [cache |-> Minus(p_sizes.cache, Policy!OPT!Charge(Head(tree)))]
      /\ p_lists' = [rbtree |-> r]
      /\ p_capacity' = p_capacity /\ sizesOf' = sizesOf
      /\ p_field' = p_field /\ p_phase' = p_phase /\ p_request' = p_request
  BY OPTHelpers DEF Policy!OPT!EvictFirst, Policy!OPT!Full, Policy!OPT!At, Policy!OPT!configuration, tree
<1>2. /\ i \in 1 .. TraceLength /\ i + 1 = p_field.line
      /\ t[i] \in Key \ KeysOf(tree)
      /\ h \in Nat /\ tree \in Seq(DueNode) /\ Len(tree) \in Nat /\ Len(tree) <= c
      /\ DueTrace(t, TraceLength, c, NoFile, WORD - 1)
  BY OPTAsked
<1>3. Len(tree) > 0 /\ Head(tree) = tree[1] /\ 1 \in DOMAIN tree
  BY <1>1, <1>2
<1>4. Policy!OPT!Chunk = u /\ p_sizes.cache = Len(tree) * u /\ Policy!OPT!Charge(Head(tree)) = u
  BY <1>3, OPTChunks
<1>5. Len(tree) = c /\ Minus(Len(tree) * u, u) = (Len(tree) - 1) * u
  BY <1>1, <1>2, <1>3, <1>4, OPTFull
<1>6. Served(t, TraceLength, c, NoFile, WORD - 1, i, i + 1, h, tree)
  BY <1>2 DEF OPTInserting, OPTServed
<1>7. /\ Served(t, TraceLength, c, NoFile, WORD - 1, i, i + 1, h, r)
      /\ Len(r) = Len(tree) - 1 /\ t[i] \notin KeysOf(r)
      /\ \A j \in DOMAIN r : \E x \in DOMAIN tree : r[j] = tree[x]
  <2> HIDE DEF t, i, h, c
  <2> QED BY <1>2, <1>5, <1>6, ServedEvict
<1>8. tree' = r /\ p_lists' = [rbtree |-> tree'] /\ p_sizes' = [cache |-> Len(tree') * u]
  BY <1>1, <1>4, <1>5, <1>7 DEF tree
<1> HIDE DEF r
<1>9. \A j \in DOMAIN r : ChunkSize(r[j].size) = u
  BY <1>7 DEF OPTTyped
<1>10. OPTTyped(u)'
  BY <1>1, <1>8, <1>9, Zenon DEF OPTTyped, Policy!OPT!ChunksOf, Policy!OPT!ChunkSize
<1> QED BY <1>1, <1>2, <1>7, <1>8, <1>10 DEF OPTInserting, OPTServed

\* Where there is room, the object goes in.
LEMMA OPTInserts ==
    ASSUME NEW u, OPTTyped(u), OPTInserting(u), Policy!OPT!InsertNode
    PROVE  OPTTyped(u)' /\ OPTIdle(u)'
<1> DEFINE t == p_field.trace
           i == p_field.line - 1
           h == p_field.hits
           c == p_capacity \div u
           s2 == InOrder(tree, p_request)
<1>1. /\ ~ Policy!OPT!IsFullAt(p_sizes.cache, p_capacity, Policy!OPT!Chunk)
      /\ p_sizes' = [cache |-> Plus(p_sizes.cache, Policy!OPT!Chunk)]
      /\ p_lists' = [rbtree |-> s2]
      /\ p_request' = NoRequest /\ p_phase' = "idle"
      /\ p_capacity' = p_capacity /\ sizesOf' = sizesOf /\ p_field' = p_field
  BY OPTHelpers, OPTEmplaces
     DEF Policy!OPT!InsertNode, Policy!OPT!Full, Policy!OPT!At, Policy!OPT!Leave, Policy!OPT!configuration, tree
<1>2. /\ i \in 1 .. TraceLength /\ i + 1 = p_field.line
      /\ t[i] \in Key \ KeysOf(tree)
      /\ h \in Nat /\ tree \in Seq(DueNode) /\ Len(tree) \in Nat /\ Len(tree) <= c
      /\ DueTrace(t, TraceLength, c, NoFile, WORD - 1)
  BY OPTAsked
<1>3. Policy!OPT!Chunk = u /\ p_sizes.cache = Len(tree) * u
  BY OPTChunks
<1>4. Len(tree) < c /\ Plus(Len(tree) * u, u) = (Len(tree) + 1) * u
  <2>1. Len(tree) # c /\ Plus(Len(tree) * u, u) = (Len(tree) + 1) * u
    BY <1>1, <1>2, <1>3, OPTFull
  <2>2. c \in Nat
    BY <1>2 DEF DueTrace, IsTrace
  <2> HIDE DEF c
  <2> QED BY <1>2, <2>1, <2>2
<1>5. Served(t, TraceLength, c, NoFile, WORD - 1, i, i + 1, h, tree)
  BY <1>2 DEF OPTInserting, OPTServed
<1>6. /\ p_request \in DueNode /\ p_request.key = t[i] /\ ChunkSize(p_request.size) = u
      /\ IsDue(t, TraceLength, WORD - 1, i + 1, t[i], p_request.next)
  BY <1>2 DEF OPTInserting
<1>7. /\ Served(t, TraceLength, c, NoFile, WORD - 1, i + 1, i + 1, h, s2)
      /\ Len(s2) = Len(tree) + 1
      /\ \A j \in DOMAIN s2 : s2[j] = p_request \/ \E x \in DOMAIN tree : s2[j] = tree[x]
  <2> DEFINE e == p_request
  <2>1. /\ e \in DueNode /\ e.key = t[i] /\ IsDue(t, TraceLength, WORD - 1, i + 1, t[i], e.next)
        /\ s2 = InOrder(tree, e)
    BY <1>6
  <2> HIDE DEF t, i, h, c, e, s2
  <2>2. LET r == InOrder(tree, e)
        IN  /\ Served(t, TraceLength, c, NoFile, WORD - 1, i + 1, i + 1, h, r)
            /\ Len(r) = Len(tree) + 1
            /\ \A j \in DOMAIN r : r[j] = e \/ \E x \in DOMAIN tree : r[j] = tree[x]
    <3>1. HasRoom(t, TraceLength, c, NoFile, WORD - 1, i, h, tree, e)
      BY <1>2, <1>4, <1>5, <2>1 DEF HasRoom
    <3> QED BY <3>1, ServedInsert
  <2> QED BY <2>1, <2>2 DEF e
<1>8. tree' = s2 /\ p_lists' = [rbtree |-> tree'] /\ p_sizes' = [cache |-> Len(tree') * u]
  BY <1>1, <1>3, <1>4, <1>7 DEF tree
<1> HIDE DEF s2
<1>9. \A j \in DOMAIN s2 : ChunkSize(s2[j].size) = u
  BY <1>6, <1>7 DEF OPTTyped
<1>10. OPTTyped(u)'
  BY <1>1, <1>8, <1>9, Zenon DEF OPTTyped, Policy!OPT!ChunksOf, Policy!OPT!ChunkSize
<1> QED BY <1>1, <1>2, <1>7, <1>8, <1>10 DEF OPTIdle, OPTServed

\* A step of OPT is one of these.
LEMMA OPTStep ==
    ASSUME NEW u, OPTState(u), Policy!OPT!Next
    PROVE  OPTState(u)'
<1>1. "idle" # "insert"
  OBVIOUS
<1>2. OPTTyped(u) /\ (OPTIdle(u) \/ OPTInserting(u))
  BY DEF OPTState
<1>3. p_phase = "idle" => OPTIdle(u)
  BY <1>1, <1>2 DEF OPTInserting
<1>4. p_phase = "insert" => OPTInserting(u)
  BY <1>1, <1>2 DEF OPTIdle
<1>5. CASE Policy!OPT!SkipLine
  <2>1. OPTIdle(u)
    BY <1>3, <1>5 DEF Policy!OPT!SkipLine, Policy!OPT!Reading, Policy!OPT!At
  <2> QED BY <2>1, <1>2, <1>5, OPTSkips DEF OPTState
<1>6. ASSUME NEW k \in Key, Policy!OPT!GetHit(k) PROVE OPTState(u)'
  <2>1. OPTIdle(u)
    BY <1>3, <1>6 DEF Policy!OPT!GetHit, Policy!OPT!Reading, Policy!OPT!At
  <2> QED BY <2>1, <1>2, <1>6, OPTHits DEF OPTState
<1>7. ASSUME NEW k \in Key, NEW s \in sizesOf[k], Policy!OPT!GetMiss(k, s) PROVE OPTState(u)'
  <2>1. OPTIdle(u)
    BY <1>3, <1>7 DEF Policy!OPT!GetMiss, Policy!OPT!Reading, Policy!OPT!At
  <2> QED BY <2>1, <1>2, <1>7, OPTMisses DEF OPTState
<1>8. CASE Policy!OPT!EvictFirst
  <2>1. OPTInserting(u)
    BY <1>4, <1>8 DEF Policy!OPT!EvictFirst, Policy!OPT!Full, Policy!OPT!At
  <2> QED BY <2>1, <1>2, <1>8, OPTEvicts DEF OPTState
<1>9. CASE Policy!OPT!InsertNode
  <2>1. OPTInserting(u)
    BY <1>4, <1>9 DEF Policy!OPT!InsertNode, Policy!OPT!At
  <2> QED BY <2>1, <1>2, <1>9, OPTInserts DEF OPTState
<1> QED BY <1>5, <1>6, <1>7, <1>8, <1>9 DEF Policy!OPT!Next, Policy!OPT!Get

\* Objects of one chunk size are all of the big one or all of the tiny one.
LEMMA OneChunk ==
    ASSUME Policy!OPT!Uniform, sizesOf \in [Key -> SUBSET Size]
    PROVE  \E u \in {BIG, TINY} : UNION { Policy!OPT!ChunksOf(k) : k \in Key } = {u}
<1> DEFINE C == UNION { Policy!OPT!ChunksOf(k) : k \in Key }
<1>1. Cardinality(C) = 1
  BY DEF Policy!OPT!Uniform, Policy!OPT!Cardinality, Cardinality
<1>2. C \subseteq {BIG, TINY}
  <2> SUFFICES ASSUME NEW k \in Key, NEW z \in sizesOf[k] PROVE Policy!OPT!ChunkSize(z) \in {BIG, TINY}
    BY DEF Policy!OPT!ChunksOf
  <2> QED BY DEF Policy!OPT!ChunkSize
<1> HIDE DEF C
<1>3. IsFiniteSet({BIG, TINY})
  <2>1. IsFiniteSet({BIG}) /\ {BIG, TINY} = {BIG} \union {TINY}
    BY FS_Singleton
  <2> QED BY <2>1, FS_AddElement
<1>4. IsFiniteSet(C)
  BY <1>2, <1>3, FS_Subset
<1>5. PICK x : C = {x}
  BY <1>1, <1>4, FS_Singleton, Zenon
<1> QED BY <1>2, <1>5 DEF C

\* Nothing is read and nothing is held: the optimum is ahead.
LEMMA OPTInitially == AnyInit => OPTInv
<1> SUFFICES ASSUME AnyInit, algor = "OPT", Policy!OPT!Uniform
             PROVE  \E u \in {BIG, TINY} : OPTState(u)
  BY DEF OPTInv
<1>1. Policy!Init
  BY DEF AnyInit, Init
<1>2. /\ algor \in DOMAIN CapacitiesOf /\ p_capacity \in CapacitiesOf[algor]
      /\ sizesOf \in TracesOf[algor] /\ Policy!OPT!Init
  BY <1>1 DEF Policy!Init
<1>3. /\ CapacitiesOf[algor] \subseteq PolicyCapacities
      /\ TracesOf[algor] \subseteq [Key -> SUBSET Size \ {{}}]
      /\ NoFile \notin Key /\ TraceLength \in Nat /\ TraceLength < WORD - 1
  BY <1>2, PoliciesAssumption DEF PoliciesAssumption, Policy!InstanceAssumption
<1>4. p_capacity \in Nat /\ BIG <= p_capacity /\ p_capacity + BIG < WORD
  BY <1>2, <1>3, PoliciesAssumption DEF PoliciesAssumption
<1>5. sizesOf \in [Key -> SUBSET Size]
  BY <1>2, <1>3
<1>6. PICK u \in {BIG, TINY} : UNION { Policy!OPT!ChunksOf(k) : k \in Key } = {u}
  BY <1>5, OneChunk
<1>7. PICK t \in [1 .. TraceLength -> Key \union {NoFile}] : p_field = [trace |-> t, line |-> 1, word |-> 1, hits |-> 0]
  BY <1>2 DEF Policy!OPT!Init
<1>8. p_lists = [rbtree |-> << >>] /\ p_sizes = [cache |-> 0] /\ p_phase = "idle" /\ p_request = NoRequest
  BY <1>2 DEF Policy!OPT!Init
<1>9. tree = << >> /\ Len(tree) = 0
  BY <1>8 DEF tree
<1>10. p_field.trace = t /\ p_field.line = 1 /\ p_field.hits = 0
  BY <1>7
<1>11. u \in Nat /\ u > 0 /\ u <= BIG /\ BIG \in Nat /\ WORD \in Nat /\ Len(tree) * u = 0
  BY <1>9, ChunkFacts
<1>12. p_capacity \div u \in Nat /\ p_capacity \div u > 0
  <2>1. 1 * u <= p_capacity /\ u \in Nat \ {0}
    BY <1>4, <1>11
  <2>2. 1 <= p_capacity \div u /\ p_capacity \div u \in Nat
    BY <2>1, <1>4, SlotsFacts
  <2> DEFINE q == p_capacity \div u
  <2>3. 1 <= q /\ q \in Nat
    BY <2>2
  <2> HIDE DEF q
  <2>4. q \in Nat /\ q > 0
    BY <2>3
  <2> QED BY <2>4 DEF q
<1>13. DueTrace(t, TraceLength, p_capacity \div u, NoFile, WORD - 1)
  <2>1. WORD - 1 \in Nat /\ WORD - 1 > TraceLength
    BY <1>3, <1>11
  <2>2. \A i \in 1 .. TraceLength : t[i] \in Key \union {NoFile}
    OBVIOUS
  <2> QED BY <2>1, <2>2, <1>3, <1>12 DEF DueTrace, IsTrace
<1>14. Served(t, TraceLength, p_capacity \div u, NoFile, WORD - 1, 1, 1, 0, tree)
  BY <1>9, <1>13, ServedFirst
<1>15. 1 \in 1 .. TraceLength + 1
  BY <1>3
<1>16. p_sizes = [cache |-> Len(tree) * u]
  BY <1>8, <1>11
<1>17. OPTTyped(u)
  BY <1>4, <1>5, <1>6, <1>7, <1>8, <1>9, <1>10, <1>13, <1>15, <1>16 DEF OPTTyped
<1>18. OPTIdle(u)
  BY <1>8, <1>10, <1>14 DEF OPTIdle, OPTServed
<1> QED BY <1>17, <1>18 DEF OPTState

\* No other policy moves a cache of OPT.
LEMMA OnlyOPTSteps == ASSUME algor = "OPT", Policy!Next PROVE Policy!OPT!Next
BY TQSteps, LIRSSteps, MQSteps, LARCSteps, CLOCKSteps, TINYLFUSteps DEF Policy!Next

\* Nor does any step lose it: OPT's own by the lemmas above, and no other is taken.
LEMMA OPTPreserved ==
    OPTInv /\ [AnyNext]_<<vars, policy_vars>> => OPTInv'
<1> SUFFICES ASSUME OPTInv, [AnyNext]_<<vars, policy_vars>>, algor' = "OPT", Policy!OPT!Uniform'
             PROVE  \E u \in {BIG, TINY} : OPTState(u)'
  BY DEF OPTInv
<1>1. ASSUME sizesOf' = sizesOf PROVE Policy!OPT!Uniform
  BY <1>1 DEF Policy!OPT!Uniform, Policy!OPT!ChunksOf, Policy!OPT!ChunkSize
<1>2. CASE UNCHANGED <<vars, policy_vars>>
  <2>1. /\ algor = "OPT" /\ sizesOf' = sizesOf /\ p_capacity' = p_capacity /\ p_lists' = p_lists
        /\ p_sizes' = p_sizes /\ p_field' = p_field /\ p_phase' = p_phase /\ p_request' = p_request
    BY <1>2 DEF vars, configuration, policy_vars
  <2>2. PICK u \in {BIG, TINY} : OPTState(u)
    BY <2>1, <1>1 DEF OPTInv
  <2>3. OPTBecomes(u, tree, p_field.line, p_field.hits)
    BY <2>1, <2>2 DEF OPTBecomes, OPTState, OPTTyped
  <2>4. OPTTyped(u)' /\ tree' = tree
    BY <2>3, OPTTypedKept
  <2>5. OPTIdle(u)' \/ OPTInserting(u)'
    BY <2>1, <2>2, <2>4 DEF OPTState, OPTIdle, OPTInserting, OPTServed
  <2> QED BY <2>4, <2>5 DEF OPTState
<1>3. CASE AnyNext
  <2>1. algor = "OPT"
    BY <1>3, SameAlgorithm
  <2>2. Policy!OPT!Next
    BY <1>3, <2>1, OnlyOPTSteps DEF AnyNext
  <2>3. sizesOf' = sizesOf
    BY <2>2, Zenon DEF Policy!OPT!Next, Policy!OPT!Get, Policy!OPT!SkipLine, Policy!OPT!GetHit, Policy!OPT!GetMiss,
                Policy!OPT!EvictFirst, Policy!OPT!InsertNode, Policy!OPT!configuration
  <2>4. PICK u \in {BIG, TINY} : OPTState(u)
    BY <2>1, <2>3, <1>1 DEF OPTInv
  <2> QED BY <2>2, <2>4, OPTStep
<1> QED BY <1>2, <1>3

\* The optimum HitsAreOptimal compares with is what the lemmas above are about.
LEMMA OPTBest ==
    ASSUME NEW u, OPTTyped(u)
    PROVE  Valued(Policy!OPT!Best, p_field.trace, TraceLength, p_capacity \div u, NoFile)
<1>1. Policy!OPT!Slots = p_capacity \div u
  <2>1. (CHOOSE c \in UNION { Policy!OPT!ChunksOf(k) : k \in Key } : TRUE) = u
    BY DEF OPTTyped
  <2> QED BY <2>1, Zenon DEF Policy!OPT!Slots
<1> DEFINE t == p_field.trace
           c == p_capacity \div u
<1>2. Policy!OPT!Best = CHOOSE B : B = BestStep(t, TraceLength, c, NoFile, B)
  BY <1>1 DEF Policy!OPT!Best, Policy!OPT!Max, Policy!OPT!Cardinality, Max, Cardinality,
              Policy!OPT!trace, BestStep, Gain
<1>3. IsTrace(t, TraceLength, c, NoFile)
  BY DEF OPTTyped, DueTrace
<1> HIDE DEF t, c
<1> QED BY <1>2, <1>3, BestChosen DEF t, c

\* OPT hits as often as any cache of its capacity could: evicting what is asked
\* for last is a best choice each time, whichever trace, capacity and order of equals.
THEOREM OPTIsOptimal == AnySpec => []HitsAreOptimal
<1>1. OPTInv => HitsAreOptimal
  <2> SUFFICES ASSUME OPTInv, algor = "OPT", Policy!OPT!Uniform, p_field.line > TraceLength
               PROVE  p_field.hits = Policy!OPT!Best[1][{}]
    BY DEF HitsAreOptimal, Policy!HitsAreOptimal, Policy!OPT!HitsAreOptimal, Policy!OPT!line
  <2>1. PICK u \in {BIG, TINY} : OPTState(u)
    BY DEF OPTInv
  <2>2. OPTTyped(u) /\ (OPTIdle(u) \/ OPTInserting(u))
    BY <2>1 DEF OPTState
  <2> DEFINE t == p_field.trace
             c == p_capacity \div u
  <2>3. DueTrace(t, TraceLength, c, NoFile, WORD - 1) /\ Valued(Policy!OPT!Best, t, TraceLength, c, NoFile)
    BY <2>2, OPTBest DEF OPTTyped
  <2>4. p_field.line = TraceLength + 1 /\ TraceLength \in Nat
    BY <2>2 DEF OPTTyped, DueTrace, IsTrace
  <2>5. CASE OPTIdle(u)
    <3>1. Served(t, TraceLength, c, NoFile, WORD - 1, TraceLength + 1, TraceLength + 1, p_field.hits, tree)
      BY <2>4, <2>5 DEF OPTIdle, OPTServed
    <3> HIDE DEF t, c
    <3> QED BY <3>1, <2>3, ServedAll
  <2>6. CASE OPTInserting(u)
    <3>1. TraceLength > 0 /\ (TraceLength + 1) - 1 = TraceLength
      BY <2>4, <2>6 DEF OPTInserting
    <3>2. t[TraceLength] \in Key \ KeysOf(tree)
      BY <2>2, <2>4, <2>6, <3>1, OPTAsked
    <3>3. Served(t, TraceLength, c, NoFile, WORD - 1, TraceLength, TraceLength + 1, p_field.hits, tree)
      BY <2>4, <2>6, <3>1 DEF OPTInserting, OPTServed
    <3> HIDE DEF t, c
    <3> QED BY <3>1, <3>2, <3>3, <2>3, ServedAll
  <2> QED BY <2>2, <2>5, <2>6
<1> QED
  BY <1>1, OPTInitially, OPTPreserved, PTL DEF AnySpec

-----------------------------------------------------------------------------
(* MQ: its queues are in the order of expiry, whatever was called.  A node   *)
(* enters a queue at the front, expiring a life time from now, when nothing  *)
(* in a queue expires later; and it leaves from anywhere.                    *)

\* A node that has earned queue q; any has earned the list of ghosts.
MQNode(q) ==
    [key : Key, size : Size, freq : { f \in Nat : q <= Policy!MQ!QueueNum(f) }, expire : Nat]

\* The lists of a cache of MQ, in which nothing expires after top.
MQLists(ls, top) ==
    /\ ls = [q \in Policy!MQ!Queues \union {-1} |-> ls[q]]
    /\ ls[-1] \in Seq(MQNode(-1))
    /\ \A q \in Policy!MQ!Queues : Expiring(ls[q], MQNode(q), top)

MQInv ==
    algor = "MQ" =>
        /\ sizesOf \in [Key -> SUBSET Size]
        /\ p_field.time \in Nat
        /\ MQLists(p_lists, p_field.time + LifeTime)

LEMMA MQAssumed == NumQueues \in Nat \ {0} /\ LifeTime \in Nat
BY PoliciesAssumption DEF PoliciesAssumption, Policy!InstanceAssumption

\* What the instance's helpers are.
LEMMA MQHelpers ==
    /\ \A s, i : Policy!MQ!Erased(s, i) = RemoveAt(s, i)
    /\ \A s : Policy!MQ!KeysOf(s) = KeysOf(s)
    /\ \A s : Policy!MQ!PopBack(s) = Front(s) /\ Policy!MQ!Back(s) = Last(s)
    /\ Policy!MQ!Out = -1
<1>1. \A s, i : Policy!MQ!Erased(s, i) = RemoveAt(s, i)
  BY DEF Policy!MQ!Erased, RemoveAt
<1>2. \A s : Policy!MQ!KeysOf(s) = KeysOf(s)
  BY DEF Policy!MQ!KeysOf, KeysOf
<1>3. \A s : Policy!MQ!PopBack(s) = Front(s) /\ Policy!MQ!Back(s) = Last(s)
  BY DEF Policy!MQ!PopBack, Policy!MQ!Back, Front, Last
<1> QED BY <1>1, <1>2, <1>3 DEF Policy!MQ!Out

\* A number of requests earns a queue.
LEMMA MQEarned ==
    ASSUME NEW f \in Nat
    PROVE  Policy!MQ!QueueNum(f) \in Policy!MQ!Queues
<1> DEFINE S == { e \in 1 .. f : 2 ^ e <= f }
<1>1. IsFiniteSet(1 .. f)
  BY FS_Interval
<1>2. S \subseteq 1 .. f
  OBVIOUS
<1>3. Cardinality(S) \in Nat
  BY <1>1, <1>2, FS_Subset, FS_CardinalityType
<1>4. Policy!MQ!QueueNum(f) = IF Cardinality(S) < NumQueues - 1 THEN Cardinality(S) ELSE NumQueues - 1
  BY DEF Policy!MQ!QueueNum, Policy!MQ!Cardinality, Cardinality
<1> HIDE DEF S
<1> QED BY <1>3, <1>4, MQAssumed DEF Policy!MQ!Queues

\* The queues' numbers, and what a node of a queue is.
LEMMA MQNodes ==
    /\ \A q \in Policy!MQ!Queues : q \in Nat /\ q # -1
    /\ \A q, r \in Policy!MQ!Queues : r <= q => MQNode(q) \subseteq MQNode(r)
    /\ \A q \in Policy!MQ!Queues : MQNode(q) \subseteq MQNode(-1)
    /\ 0 \in Policy!MQ!Queues
<1>1. \A q \in Policy!MQ!Queues : q \in Nat /\ q # -1
  BY MQAssumed DEF Policy!MQ!Queues
<1>2. 0 \in Policy!MQ!Queues
  BY MQAssumed DEF Policy!MQ!Queues
<1>3. ASSUME NEW q \in Policy!MQ!Queues, NEW r \in Policy!MQ!Queues \union {-1}, r <= q
      PROVE  MQNode(q) \subseteq MQNode(r)
  <2>1. ASSUME NEW f \in Nat, q <= Policy!MQ!QueueNum(f) PROVE r <= Policy!MQ!QueueNum(f)
    <3>1. Policy!MQ!QueueNum(f) \in Nat /\ q \in Nat /\ r \in Nat \union {-1}
      BY <1>1, MQEarned
    <3> HIDE DEF Policy!MQ!QueueNum
    <3> QED BY <3>1, <2>1, <1>3
  <2> QED BY <2>1 DEF MQNode
<1>4. \A q \in Policy!MQ!Queues : -1 <= q
  BY <1>1
<1> QED BY <1>1, <1>2, <1>3, <1>4

\* A list without a node is as well typed, and as well ordered.
LEMMA MQWithout ==
    ASSUME NEW ls, NEW top, MQLists(ls, top), NEW k
    PROVE  /\ Policy!MQ!Without(ls[-1], k) \in Seq(MQNode(-1))
           /\ \A q \in Policy!MQ!Queues : Expiring(Policy!MQ!Without(ls[q], k), MQNode(q), top)
<1>1. ASSUME NEW s, NEW N, s \in Seq(N)
      PROVE  \/ Policy!MQ!Without(s, k) = s
             \/ \E i \in 1 .. Len(s) : Policy!MQ!Without(s, k) = RemoveAt(s, i)
  <2>1. CASE k \in KeysOf(s)
    <3>1. \E i \in DOMAIN s : s[i].key = k
      BY <2>1 DEF KeysOf
    <3>2. (CHOOSE i \in DOMAIN s : s[i].key = k) \in DOMAIN s
      BY <3>1
    <3>3. DOMAIN s = 1 .. Len(s)
      BY <1>1
    <3> QED BY <2>1, <3>2, <3>3, MQHelpers, Zenon DEF Policy!MQ!Without
  <2>2. CASE k \notin KeysOf(s)
    BY <2>2, MQHelpers DEF Policy!MQ!Without
  <2> QED BY <2>1, <2>2
<1>2. Policy!MQ!Without(ls[-1], k) \in Seq(MQNode(-1))
  <2>1. ls[-1] \in Seq(MQNode(-1))
    BY DEF MQLists
  <2>2. CASE Policy!MQ!Without(ls[-1], k) = ls[-1]
    BY <2>1, <2>2
  <2>3. CASE \E i \in 1 .. Len(ls[-1]) : Policy!MQ!Without(ls[-1], k) = RemoveAt(ls[-1], i)
    BY <2>1, <2>3, RemoveAtFacts DEF IsWithout
  <2> QED BY <2>1, <2>2, <2>3, <1>1
<1>3. ASSUME NEW q \in Policy!MQ!Queues
      PROVE  Expiring(Policy!MQ!Without(ls[q], k), MQNode(q), top)
  <2>1. Expiring(ls[q], MQNode(q), top)
    BY DEF MQLists
  <2>2. ls[q] \in Seq(MQNode(q))
    BY <2>1 DEF Expiring
  <2>3. CASE \E i \in 1 .. Len(ls[q]) : Policy!MQ!Without(ls[q], k) = RemoveAt(ls[q], i)
    BY <2>1, <2>3, ExpiringRemoved
  <2> QED BY <2>1, <2>2, <2>3, <1>1
<1> QED BY <1>2, <1>3

\* A known key has a node, in whichever list.
LEMMA MQNodeOf ==
    ASSUME NEW top, MQLists(p_lists, top), NEW k \in Policy!MQ!Known
    PROVE  /\ Policy!MQ!NodeOf(k) \in MQNode(-1)
           /\ Policy!MQ!ListOf(k) \in Policy!MQ!Queues \union {-1}
<1>1. DOMAIN p_lists = Policy!MQ!Queues \union {-1}
  BY DEF MQLists
<1>2. \E l \in DOMAIN p_lists : Policy!MQ!In(k, l)
  BY DEF Policy!MQ!Known, Policy!MQ!In
<1>3. PICK l \in DOMAIN p_lists : l = Policy!MQ!ListOf(k) /\ Policy!MQ!In(k, l)
  BY <1>2 DEF Policy!MQ!ListOf
<1>4. p_lists[l] \in Seq(MQNode(-1))
  <2>1. CASE l = -1
    BY <2>1 DEF MQLists
  <2>2. CASE l # -1
    <3>1. l \in Policy!MQ!Queues
      BY <1>1, <2>2
    <3>2. p_lists[l] \in Seq(MQNode(l)) /\ MQNode(l) \subseteq MQNode(-1)
      BY <3>1, MQNodes DEF MQLists, Expiring
    <3> HIDE DEF MQNode
    <3> QED BY <3>2
  <2> QED BY <2>1, <2>2
<1>5. PICK i \in DOMAIN p_lists[l] : i = CHOOSE j \in DOMAIN p_lists[l] : p_lists[l][j].key = k
  BY <1>3 DEF Policy!MQ!In, Policy!MQ!KeysOf
<1>6. p_lists[l][i] \in MQNode(-1)
  BY <1>4, <1>5
<1> QED BY <1>1, <1>3, <1>5, <1>6 DEF Policy!MQ!NodeOf

\* Reinsert(): the node goes to the queue it has earned by now, to expire last.
LEMMA MQReinserts ==
    ASSUME MQInv, algor = "MQ", NEW k \in Policy!MQ!Known
    PROVE  MQLists(Policy!MQ!Reinserted(k), p_field.time + LifeTime)
<1> DEFINE top == p_field.time + LifeTime
           old == Policy!MQ!NodeOf(k)
           freq == old.freq + 1
           node == [old EXCEPT !.freq = freq, !.expire = top]
           new == Policy!MQ!Reinserted(k)
<1>1. MQLists(p_lists, top) /\ top \in Nat
  BY MQAssumed DEF MQInv
<1>2. old \in MQNode(-1)
  BY <1>1, MQNodeOf
<1>3. freq \in Nat /\ Policy!MQ!QueueNum(freq) \in Policy!MQ!Queues
  BY <1>2, MQEarned DEF MQNode
<1>4. node \in MQNode(Policy!MQ!QueueNum(freq)) /\ node.expire = top
  <2>1. old \in [key : Key, size : Size, freq : Nat, expire : Nat]
    BY <1>2 DEF MQNode
  <2>2. Policy!MQ!QueueNum(freq) <= Policy!MQ!QueueNum(freq)
    BY <1>3, MQNodes
  <2>3. freq \in { f \in Nat : Policy!MQ!QueueNum(freq) <= Policy!MQ!QueueNum(f) }
    BY <1>3, <2>2
  <2> HIDE DEF freq, top
  <2> QED BY <2>1, <2>3, <1>1, Zenon DEF MQNode
<1>5. DOMAIN p_lists = Policy!MQ!Queues \union {-1}
  BY <1>1 DEF MQLists
<1>6. new = [q \in Policy!MQ!Queues \union {-1} |->
               (IF q = Policy!MQ!QueueNum(freq) THEN <<node>> ELSE << >>) \o Policy!MQ!Without(p_lists[q], k)]
  BY <1>5 DEF Policy!MQ!Reinserted, Policy!MQ!now
<1> HIDE DEF new, node, freq, top, old
<1>7. new[-1] \in Seq(MQNode(-1))
  <2>1. -1 # Policy!MQ!QueueNum(freq)
    BY <1>3, MQNodes
  <2>2. new[-1] = << >> \o Policy!MQ!Without(p_lists[-1], k)
    BY <1>6, <2>1
  <2>3. Policy!MQ!Without(p_lists[-1], k) \in Seq(MQNode(-1))
    BY <1>1, MQWithout, Zenon
  <2> QED BY <2>2, <2>3
<1>8. ASSUME NEW q \in Policy!MQ!Queues
      PROVE  Expiring(new[q], MQNode(q), top)
  <2>1. Expiring(Policy!MQ!Without(p_lists[q], k), MQNode(q), top)
    BY <1>1, MQWithout, Zenon
  <2>2. CASE q = Policy!MQ!QueueNum(freq)
    <3>1. new[q] = <<node>> \o Policy!MQ!Without(p_lists[q], k)
      BY <1>6, <2>2
    <3> QED BY <2>1, <2>2, <3>1, <1>1, <1>4, ExpiringCons
  <2>3. CASE q # Policy!MQ!QueueNum(freq)
    <3>1. new[q] = << >> \o Policy!MQ!Without(p_lists[q], k)
      BY <1>6, <2>3
    <3>2. new[q] = Policy!MQ!Without(p_lists[q], k)
      BY <2>1, <3>1 DEF Expiring
    <3> QED BY <2>1, <3>2
  <2> QED BY <2>2, <2>3
<1>9. new = [q \in Policy!MQ!Queues \union {-1} |-> new[q]]
  BY <1>6
<1> QED BY <1>7, <1>8, <1>9 DEF MQLists, new, top

\* Adjust(): a node that sinks expires a life time from now, after any other.
LEMMA MQAdjusts ==
    ASSUME NEW ls, NEW t \in Nat, MQLists(ls, t + LifeTime)
    PROVE  MQLists(Policy!MQ!Adjusted(ls, t + 1), t + 1 + LifeTime)
<1> DEFINE before == t + LifeTime
           top == t + 1 + LifeTime
           new == Policy!MQ!Adjusted(ls, t + 1)
           sinking == Policy!MQ!Sinking(ls, t + 1)
           sunk(q) == [Last(ls[q + 1]) EXCEPT !.expire = top]
           shed(q) == Policy!MQ!Shed(ls, t + 1, q)
<1>1. before \in Nat /\ top \in Nat /\ before <= top
  BY MQAssumed
<1>2. DOMAIN ls = Policy!MQ!Queues \union {-1}
  BY DEF MQLists
<1>3. new = [q \in Policy!MQ!Queues \union {-1} |->
               (IF q + 1 \in sinking THEN <<sunk(q)>> ELSE << >>) \o shed(q)]
  BY <1>2, MQHelpers DEF Policy!MQ!Adjusted
<1>4. \A q \in sinking : q \in Policy!MQ!Queues /\ q # 0 /\ ls[q] # << >>
  BY DEF Policy!MQ!Sinking
<1>5. \A q : shed(q) = IF q \in sinking THEN Front(ls[q]) ELSE ls[q]
  BY MQHelpers DEF Policy!MQ!Shed
<1>6. ASSUME NEW q \in Policy!MQ!Queues
      PROVE  Expiring(ls[q], MQNode(q), before)
  BY DEF MQLists
<1> HIDE DEF new, sinking, sunk, shed, before, top
<1>7. ASSUME NEW q \in Policy!MQ!Queues
      PROVE  Expiring(shed(q), MQNode(q), top)
  <2>1. CASE q \in sinking
    <3>1. Expiring(Front(ls[q]), MQNode(q), before)
      BY <1>4, <1>6, <2>1, ExpiringFront
    <3>2. Expiring(Front(ls[q]), MQNode(q), top)
      BY <1>1, <3>1, ExpiringLater
    <3> QED BY <1>5, <2>1, <3>2
  <2>2. CASE q \notin sinking
    <3>1. Expiring(ls[q], MQNode(q), top)
      BY <1>1, <1>6, ExpiringLater
    <3> QED BY <1>5, <2>2, <3>1
  <2> QED BY <2>1, <2>2
<1>8. ASSUME NEW q \in Policy!MQ!Queues, q + 1 \in sinking
      PROVE  sunk(q) \in MQNode(q) /\ sunk(q).expire = top
  <2>1. q + 1 \in Policy!MQ!Queues /\ ls[q + 1] # << >>
    BY <1>4, <1>8
  <2>2. Last(ls[q + 1]) \in MQNode(q + 1)
    BY <2>1, <1>6, ExpiringFront, Zenon
  <2>3. q <= q + 1
    BY MQNodes
  <2>4. Last(ls[q + 1]) \in MQNode(q)
    BY <2>1, <2>2, <2>3, MQNodes
  <2> QED BY <1>1, <2>4 DEF MQNode, sunk
<1>9. ASSUME NEW q \in Policy!MQ!Queues
      PROVE  Expiring(new[q], MQNode(q), top)
  <2>1. CASE q + 1 \in sinking
    <3>1. new[q] = <<sunk(q)>> \o shed(q)
      BY <1>3, <2>1
    <3> QED BY <1>1, <1>7, <1>8, <2>1, <3>1, ExpiringCons
  <2>2. CASE q + 1 \notin sinking
    <3>1. new[q] = << >> \o shed(q)
      BY <1>3, <2>2, Zenon
    <3>2. new[q] = shed(q)
      BY <1>7, <3>1 DEF Expiring
    <3> QED BY <1>7, <3>2
  <2> QED BY <2>1, <2>2
<1>10. new[-1] \in Seq(MQNode(-1))
  <2>1. -1 + 1 = 0
    OBVIOUS
  <2>2. -1 \notin sinking /\ -1 + 1 \notin sinking
    BY <1>4, <2>1, MQNodes
  <2>3. shed(-1) = ls[-1] /\ new[-1] = << >> \o shed(-1)
    BY <1>3, <1>5, <2>2, Zenon
  <2>4. ls[-1] \in Seq(MQNode(-1))
    BY DEF MQLists
  <2> QED BY <2>3, <2>4
<1>11. new = [q \in Policy!MQ!Queues \union {-1} |-> new[q]]
  BY <1>3
<1> QED BY <1>9, <1>10, <1>11 DEF MQLists, new, top

\* What the lists, the clock and the trace have to be after a step.
MQBecomes(ls, t) ==
    /\ sizesOf' = sizesOf /\ p_field'.time = t /\ t \in Nat
    /\ p_lists' = ls /\ MQLists(ls, t + LifeTime)

LEMMA MQKept == ASSUME MQInv, algor = "MQ", NEW ls, NEW t, MQBecomes(ls, t) PROVE MQInv'
<1>1. MQLists(p_lists, p_field.time + LifeTime)' <=> MQLists(ls, t + LifeTime)
  BY DEF MQBecomes, MQLists, Expiring, MQNode, Policy!MQ!QueueNum, Policy!MQ!Queues, Policy!MQ!Cardinality
<1> QED BY <1>1 DEF MQInv, MQBecomes

\* get(): a hit, a request for a ghost, a request for what is unknown.
LEMMA MQGets ==
    ASSUME MQInv, algor = "MQ", Policy!MQ!Get
    PROVE  MQInv'
<1>1. PICK k \in Key : Policy!MQ!GetHit(k)
         \/ \E s \in sizesOf[k] : Policy!MQ!GetMissGhost(k, s) \/ Policy!MQ!GetMiss(k, s)
  BY DEF Policy!MQ!Get
<1>2. p_field.time \in Nat /\ MQLists(p_lists, p_field.time + LifeTime)
  BY DEF MQInv
<1>3. CASE Policy!MQ!GetHit(k)
  <2>1. k \in Policy!MQ!Known
    BY <1>3 DEF Policy!MQ!GetHit, Policy!MQ!Resident
  <2>2. MQLists(Policy!MQ!Reinserted(k), p_field.time + LifeTime)
    BY <2>1, MQReinserts
  <2>3. MQLists(Policy!MQ!Adjusted(Policy!MQ!Reinserted(k), p_field.time + 1), p_field.time + 1 + LifeTime)
    BY <1>2, <2>2, MQAdjusts
  <2>4. MQBecomes(Policy!MQ!Adjusted(Policy!MQ!Reinserted(k), p_field.time + 1), p_field.time + 1)
    BY <1>2, <1>3, <2>3 DEF MQBecomes, Policy!MQ!GetHit, Policy!MQ!now, Policy!MQ!configuration
  <2> QED BY <2>4, MQKept
<1>4. CASE \E s \in sizesOf[k] : Policy!MQ!GetMissGhost(k, s)
  <2>1. k \in Policy!MQ!Known
    <3>1. Policy!MQ!In(k, -1) /\ -1 \in DOMAIN p_lists
      BY <1>2, <1>4, MQHelpers DEF Policy!MQ!GetMissGhost, MQLists
    <3> QED BY <3>1 DEF Policy!MQ!Known, Policy!MQ!In
  <2>2. MQLists(Policy!MQ!Reinserted(k), p_field.time + LifeTime)
    BY <2>1, MQReinserts
  <2>3. MQBecomes(Policy!MQ!Reinserted(k), p_field.time)
    BY <1>2, <1>4, <2>2 DEF MQBecomes, Policy!MQ!GetMissGhost, Policy!MQ!configuration
  <2> QED BY <2>3, MQKept
<1>5. CASE \E s \in sizesOf[k] : Policy!MQ!GetMiss(k, s)
  <2> DEFINE top == p_field.time + LifeTime
  <2>1. PICK s \in sizesOf[k] : Policy!MQ!GetMiss(k, s)
    BY <1>5
  <2> DEFINE node == [key |-> k, size |-> s, freq |-> 1, expire |-> top]
             new == [p_lists EXCEPT ![0] = <<node>> \o @]
  <2>2. top \in Nat /\ s \in Size
    BY <1>2, MQAssumed DEF MQInv
  <2>3. node \in MQNode(0) /\ node.expire = top
    <3>1. 0 <= Policy!MQ!QueueNum(1)
      BY MQEarned, MQNodes
    <3>2. 1 \in { f \in Nat : 0 <= Policy!MQ!QueueNum(f) }
      BY <3>1
    <3> HIDE DEF top
    <3> QED BY <2>2, <3>2 DEF MQNode
  <2>4. /\ p_lists = [q \in Policy!MQ!Queues \union {-1} |-> p_lists[q]]
        /\ 0 \in Policy!MQ!Queues /\ 0 # -1
    BY <1>2, MQNodes DEF MQLists
  <2>5. /\ new = [q \in Policy!MQ!Queues \union {-1} |-> new[q]]
        /\ new[0] = <<node>> \o p_lists[0]
        /\ \A q \in Policy!MQ!Queues \union {-1} : q # 0 => new[q] = p_lists[q]
    BY <2>4, Zenon
  <2>6. p_lists' = new
    BY <2>1 DEF Policy!MQ!GetMiss, Policy!MQ!Pushed, Policy!MQ!now
  <2> HIDE DEF new, node, top
  <2>7. Expiring(new[0], MQNode(0), top)
    <3>1. Expiring(p_lists[0], MQNode(0), top)
      BY <1>2, <2>4 DEF MQLists, top
    <3> QED BY <2>2, <2>3, <2>5, <3>1, ExpiringCons, Zenon
  <2>8. ASSUME NEW q \in Policy!MQ!Queues, q # 0 PROVE Expiring(new[q], MQNode(q), top)
    <3>1. Expiring(p_lists[q], MQNode(q), top)
      BY <1>2 DEF MQLists, top
    <3> QED BY <2>5, <2>8, <3>1, Zenon
  <2>9. new[-1] \in Seq(MQNode(-1))
    BY <1>2, <2>4, <2>5, Zenon DEF MQLists
  <2>10. MQLists(new, top)
    BY <2>5, <2>7, <2>8, <2>9 DEF MQLists
  <2>11. MQBecomes(new, p_field.time)
    BY <1>2, <2>1, <2>6, <2>10 DEF MQBecomes, top, Policy!MQ!GetMiss, Policy!MQ!configuration
  <2> QED BY <2>11, MQKept
<1> QED BY <1>1, <1>3, <1>4, <1>5

\* evict(): the last ghost leaves, or a victim becomes one.
LEMMA MQEvicts ==
    ASSUME MQInv, algor = "MQ", Policy!MQ!EvictGhost \/ Policy!MQ!EvictToOut
    PROVE  MQInv'
<1> DEFINE top == p_field.time + LifeTime
<1>1. p_field.time \in Nat /\ MQLists(p_lists, top) /\ top \in Nat
  BY MQAssumed DEF MQInv
<1>2. /\ p_lists = [q \in Policy!MQ!Queues \union {-1} |-> p_lists[q]]
      /\ DOMAIN p_lists = Policy!MQ!Queues \union {-1}
      /\ p_lists[-1] \in Seq(MQNode(-1)) /\ \A q \in Policy!MQ!Queues : q # -1
  BY <1>1, MQNodes DEF MQLists
<1>3. CASE Policy!MQ!EvictGhost
  <2> DEFINE new == [p_lists EXCEPT ![-1] = Front(@)]
  <2>1. p_lists' = new /\ p_lists[-1] # << >>
    BY <1>3, MQHelpers, Zenon DEF Policy!MQ!EvictGhost
  <2>2. /\ new = [q \in Policy!MQ!Queues \union {-1} |-> new[q]]
        /\ new[-1] = Front(p_lists[-1])
        /\ \A q \in Policy!MQ!Queues : new[q] = p_lists[q]
    BY <1>2
  <2> HIDE DEF new, top
  <2>3. new[-1] \in Seq(MQNode(-1))
    BY <1>2, <2>1, <2>2, FrontFacts
  <2>4. MQLists(new, top)
    BY <1>1, <2>2, <2>3 DEF MQLists
  <2>5. MQBecomes(new, p_field.time)
    BY <1>1, <1>3, <2>1, <2>4 DEF MQBecomes, top, Policy!MQ!EvictGhost, Policy!MQ!configuration
  <2> QED BY <2>5, MQKept
<1>4. CASE Policy!MQ!EvictToOut
  <2> DEFINE k == Policy!MQ!Victim.key
             new == Policy!MQ!Spliced(k, -1)
             S == Policy!MQ!NonEmpty
  <2>1. p_lists' = new /\ S # {}
    BY <1>4, MQHelpers DEF Policy!MQ!EvictToOut
  <2>2. k \in Policy!MQ!Known
    <3>1. S \subseteq Nat /\ S \subseteq Policy!MQ!Queues /\ \A q \in S : p_lists[q] # << >>
      BY MQNodes DEF Policy!MQ!NonEmpty
    <3> HIDE DEF S
    <3>2. \E x \in S : \A y \in S : x <= y
      BY <2>1, <3>1, SetHasMinimum
    <3>3. Policy!MQ!Min(S) \in S
      BY <3>2 DEF Policy!MQ!Min
    <3>4. PICK q \in S : q = Policy!MQ!Min(S)
      BY <3>3
    <3>5. p_lists[q] \in Seq(MQNode(q)) /\ p_lists[q] # << >> /\ q \in DOMAIN p_lists
      BY <1>1, <1>2, <3>1, Zenon DEF MQLists, Expiring
    <3>6. Len(p_lists[q]) \in DOMAIN p_lists[q] /\ Last(p_lists[q]) = p_lists[q][Len(p_lists[q])]
      BY <3>5 DEF Last
    <3>7. Policy!MQ!Victim = Last(p_lists[q])
      BY <3>4, MQHelpers DEF Policy!MQ!Victim, S
    <3> QED BY <3>5, <3>6, <3>7 DEF Policy!MQ!Known, Policy!MQ!KeysOf
  <2>3. Policy!MQ!NodeOf(k) \in MQNode(-1)
    BY <1>1, <2>2, MQNodeOf
  <2> HIDE DEF k
  <2>4. new = [q \in Policy!MQ!Queues \union {-1} |->
                (IF q = -1 THEN <<Policy!MQ!NodeOf(k)>> ELSE << >>) \o Policy!MQ!Without(p_lists[q], k)]
    BY <1>2 DEF Policy!MQ!Spliced
  <2> HIDE DEF new, top
  <2>5. new[-1] \in Seq(MQNode(-1))
    <3>1. Policy!MQ!Without(p_lists[-1], k) \in Seq(MQNode(-1))
      BY <1>1, MQWithout, Zenon
    <3>2. new[-1] = <<Policy!MQ!NodeOf(k)>> \o Policy!MQ!Without(p_lists[-1], k)
      BY <2>4
    <3> QED BY <2>3, <3>1, <3>2
  <2>6. ASSUME NEW q \in Policy!MQ!Queues PROVE Expiring(new[q], MQNode(q), top)
    <3>1. Expiring(Policy!MQ!Without(p_lists[q], k), MQNode(q), top)
      BY <1>1, MQWithout, Zenon
    <3>2. new[q] = << >> \o Policy!MQ!Without(p_lists[q], k)
      BY <1>2, <2>4, Zenon
    <3>3. new[q] = Policy!MQ!Without(p_lists[q], k)
      BY <3>1, <3>2 DEF Expiring
    <3> QED BY <3>1, <3>3
  <2>7. MQLists(new, top)
    BY <2>4, <2>5, <2>6 DEF MQLists
  <2>8. MQBecomes(new, p_field.time)
    BY <1>1, <1>4, <2>1, <2>7 DEF MQBecomes, top, Policy!MQ!EvictToOut, Policy!MQ!configuration
  <2> QED BY <2>8, MQKept
<1> QED BY <1>3, <1>4

LEMMA MQStep == ASSUME MQInv, algor = "MQ", Policy!MQ!Next PROVE MQInv'
<1>1. CASE Policy!MQ!InsertDone
  <2>1. p_field.time \in Nat /\ MQLists(p_lists, p_field.time + LifeTime)
    BY DEF MQInv
  <2>2. MQLists(Policy!MQ!Adjusted(p_lists, p_field.time + 1), p_field.time + 1 + LifeTime)
    BY <2>1, MQAdjusts
  <2>3. MQBecomes(Policy!MQ!Adjusted(p_lists, p_field.time + 1), p_field.time + 1)
    BY <1>1, <2>1, <2>2 DEF MQBecomes, Policy!MQ!InsertDone, Policy!MQ!now, Policy!MQ!configuration
  <2> QED BY <2>3, MQKept
<1> QED BY <1>1, MQGets, MQEvicts DEF Policy!MQ!Next

\* A cache of MQ is built empty.
LEMMA MQInitially == AnyInit => MQInv
<1> SUFFICES ASSUME AnyInit, algor = "MQ" PROVE MQInv
  BY DEF MQInv
<1>1. algor \in DOMAIN CapacitiesOf /\ sizesOf \in TracesOf[algor] /\ Policy!MQ!Init
  BY DEF AnyInit, Init, Policy!Init
<1>2. sizesOf \in [Key -> SUBSET Size]
  BY <1>1, PoliciesAssumption DEF PoliciesAssumption, Policy!InstanceAssumption
<1>3. p_field.time = 0 /\ p_lists = [q \in Policy!MQ!Queues \union {-1} |-> << >>]
  BY <1>1, MQHelpers DEF Policy!MQ!Init
<1>4. \A q \in Policy!MQ!Queues \union {-1} : p_lists[q] = << >>
  BY <1>3
<1>5. p_lists = [q \in Policy!MQ!Queues \union {-1} |-> p_lists[q]]
  BY <1>3
<1>6. p_lists[-1] \in Seq(MQNode(-1))
  <2>1. p_lists[-1] = << >>
    BY <1>4
  <2>2. \A N : << >> \in Seq(N)
    OBVIOUS
  <2> QED BY <2>1, <2>2
<1>7. MQLists(p_lists, p_field.time + LifeTime)
  BY <1>4, <1>5, <1>6, ExpiringNothing, Zenon DEF MQLists
<1> QED BY <1>2, <1>3, <1>7 DEF MQInv

LEMMA MQPreserved == MQInv /\ [AnyNext]_<<vars, policy_vars>> => MQInv'
<1> SUFFICES ASSUME MQInv, [AnyNext]_<<vars, policy_vars>>, algor' = "MQ" PROVE MQInv'
  BY DEF MQInv
<1>1. CASE UNCHANGED <<vars, policy_vars>>
  <2>1. algor = "MQ" /\ sizesOf' = sizesOf /\ p_lists' = p_lists /\ p_field' = p_field
    BY <1>1 DEF vars, configuration, policy_vars
  <2>2. MQBecomes(p_lists, p_field.time)
    BY <2>1 DEF MQBecomes, MQInv
  <2> QED BY <2>1, <2>2, MQKept
<1>2. CASE AnyNext
  <2>1. algor = "MQ"
    BY <1>2, SameAlgorithm
  <2>2. Policy!MQ!Next
    BY <1>2, <2>1, TQSteps, LIRSSteps, LARCSteps, CLOCKSteps, OPTSteps, TINYLFUSteps DEF AnyNext, Policy!Next
  <2> QED BY <2>1, <2>2, MQStep
<1> QED BY <1>1, <1>2

\* Adjust() may look at the tail alone: every queue is in the order of expiry,
\* however reinsertion, sinking and eviction follow each other, and no block is
\* in a higher queue than its requests have earned it.
THEOREM QueuesStaySorted == AnySpec => []ExpirySorted
<1>1. MQInv => ExpirySorted
  <2> SUFFICES ASSUME MQInv, algor = "MQ", NEW q \in Policy!MQ!Queues, NEW i \in DOMAIN p_lists[q]
               PROVE  /\ q <= Policy!MQ!QueueNum(p_lists[q][i].freq)
                      /\ \A j \in 1 .. i - 1 : p_lists[q][j].expire >= p_lists[q][i].expire
    BY DEF ExpirySorted, Policy!ExpirySorted, Policy!MQ!ExpirySorted
  <2>1. Expiring(p_lists[q], MQNode(q), p_field.time + LifeTime)
    BY DEF MQInv, MQLists
  <2>2. p_lists[q] \in Seq(MQNode(q)) /\ i \in 1 .. Len(p_lists[q])
    BY <2>1 DEF Expiring
  <2>3. p_lists[q][i] \in MQNode(q)
    BY <2>2
  <2> QED BY <2>1, <2>2, <2>3 DEF Expiring, MQNode
<1> QED
  BY <1>1, MQInitially, MQPreserved, PTL DEF AnySpec

-----------------------------------------------------------------------------
(* LIRS: once a LIR block is at the bottom of the stack the bottom stays LIR, *)
(* until the stack is empty.  What makes this so: the queue has no LIR block, *)
(* so that the victim is not the bottom; no ghost of the stack is in the      *)
(* queue, so that one which becomes LIR is in no list; and what insert() is   *)
(* bringing in is in neither.                                                 *)

LIRSState(s, q, m, at, call) ==
    /\ StackQueue(s, q, m)
    /\ at = "new" => call.key \notin DOMAIN m
    /\ at = "ghost" => call.key \in DOMAIN m \ ToSet(s) /\ m[call.key].lir

LIRSInv ==
    algor = "LIRS" =>
        /\ DOMAIN p_lists = {"S", "Q"} /\ "node" \in DOMAIN p_field
        /\ LIRSState(p_lists.S, p_lists.Q, p_field.node, p_phase, p_request)

\* What the instance's helpers are.
LEMMA LIRSHelpers ==
    /\ \A s : Policy!LIRS!Range(s) = ToSet(s)
    /\ \A s : Policy!LIRS!PopBack(s) = Front(s) /\ Policy!LIRS!Back(s) = Last(s)
    /\ \A s, k : Policy!LIRS!Detached(s, k) = RemoveFirst(s, k)
    /\ \A s, m : Policy!LIRS!Pruned(s, m) = UpToLast(s, LIRIn(s, m))
<1>1. \A s : Policy!LIRS!Range(s) = ToSet(s)
  BY DEF Policy!LIRS!Range, ToSet
<1>2. \A s : Policy!LIRS!PopBack(s) = Front(s) /\ Policy!LIRS!Back(s) = Last(s)
  BY DEF Policy!LIRS!PopBack, Policy!LIRS!Back, Front, Last
<1>3. \A s, k : Policy!LIRS!Detached(s, k) = RemoveFirst(s, k)
  BY DEF Policy!LIRS!Detached, RemoveFirst, SelectInSeq, Policy!LIRS!Erased, RemoveAt,
         Policy!LIRS!Min, Min
<1>4. ASSUME NEW s, NEW m PROVE Policy!LIRS!Pruned(s, m) = UpToLast(s, LIRIn(s, m))
  <2>1. \A i \in DOMAIN s : s[i] \in LIRIn(s, m) <=> m[s[i]].lir
    BY DEF LIRIn, ToSet
  <2>2. { i \in DOMAIN s : s[i] \in LIRIn(s, m) } = { i \in DOMAIN s : m[s[i]].lir }
    BY <2>1
  <2>3. \A M : Policy!LIRS!Max(M) = Max(M)
    BY DEF Policy!LIRS!Max, Max
  <2> QED BY <2>2, <2>3, Zenon DEF Policy!LIRS!Pruned, UpToLast
<1> QED BY <1>1, <1>2, <1>3, <1>4

\* The lists and the blocks after a step.
LIRSBecomes(s, q, m) ==
    /\ DOMAIN p_lists' = {"S", "Q"} /\ "node" \in DOMAIN p_field'
    /\ p_lists'.S = s /\ p_lists'.Q = q /\ p_field'.node = m

LEMMA LIRSKept ==
    ASSUME NEW s, NEW q, NEW m, LIRSBecomes(s, q, m), LIRSState(s, q, m, p_phase', p_request'),
           BottomKept(p_lists.S, p_field.node, s, m)
    PROVE  LIRSInv' /\ Policy!LIRS!BottomStays
<1>1. LIRSInv'
  BY DEF LIRSInv, LIRSBecomes
<1>2. Policy!LIRS!BottomLIR = BottomIsLIR(p_lists.S, p_field.node)
  BY LIRSHelpers DEF Policy!LIRS!BottomLIR, BottomIsLIR, Policy!LIRS!S, Policy!LIRS!node
<1>3. Policy!LIRS!BottomLIR' = BottomIsLIR(s, m)
  BY DEF Policy!LIRS!BottomLIR, BottomIsLIR, Policy!LIRS!S, Policy!LIRS!node, LIRSBecomes, Policy!LIRS!Back, Last
<1> QED BY <1>1, <1>2, <1>3 DEF Policy!LIRS!BottomStays, BottomKept, Policy!LIRS!S, LIRSBecomes

\* The blocks left over when lists s and q are cut to t and q.
LIRSLeft(s, q, m, t) == ToSet(t) \union ToSet(q) \union (DOMAIN m \ (ToSet(s) \union ToSet(q)))

LEMMA LIRSStacks ==
    ASSUME NEW s, NEW q, NEW m, NEW misled, Policy!LIRS!Stack(s, q, m, misled)
    PROVE  LET t == UpToLast(s, LIRIn(s, m))
           IN  LIRSBecomes(t, q, KnownOf(m, LIRSLeft(s, q, m, t)))
<1> DEFINE t == UpToLast(s, LIRIn(s, m))
<1>1. Policy!LIRS!Pruned(s, m) = t
  BY LIRSHelpers
<1> HIDE DEF t
<1>2. /\ p_lists' = [S |-> t, Q |-> q]
      /\ p_field' = [node |-> [k \in LIRSLeft(s, q, m, t) |-> m[k]], misled |-> misled]
  BY <1>1, LIRSHelpers DEF Policy!LIRS!Stack, LIRSLeft
<1>3. LIRSBecomes(t, q, KnownOf(m, LIRSLeft(s, q, m, t)))
  BY <1>2 DEF LIRSBecomes, KnownOf
<1> QED BY <1>3 DEF t

\* get(): hits.
LEMMA LIRSHits ==
    ASSUME LIRSInv, algor = "LIRS", NEW k,
           Policy!LIRS!GetHitLIR(k) \/ Policy!LIRS!GetHitHIR(k) \/ Policy!LIRS!GetHitQ(k)
    PROVE  LIRSInv' /\ Policy!LIRS!BottomStays
<1> DEFINE s == p_lists.S
           q == p_lists.Q
           m == p_field.node
<1>1. /\ StackQueue(s, q, m) /\ DOMAIN p_lists = {"S", "Q"} /\ "node" \in DOMAIN p_field
      /\ Policy!LIRS!S = s /\ Policy!LIRS!Q = q /\ Policy!LIRS!node = m
      /\ Policy!LIRS!Stored = DOMAIN m
  BY DEF LIRSInv, LIRSState, Policy!LIRS!S, Policy!LIRS!Q, Policy!LIRS!node, Policy!LIRS!Stored
<1>2. CASE Policy!LIRS!GetHitLIR(k)
  <2> DEFINE u == <<k>> \o RemoveFirst(s, k)
             t == UpToLast(u, LIRIn(u, m))
             L == LIRSLeft(u, q, m, t)
  <2>1. k \in DOMAIN m /\ m[k].lir /\ p_phase' = p_phase /\ p_phase = "idle"
    BY <1>1, <1>2 DEF Policy!LIRS!GetHitLIR, Policy!LIRS!At
  <2>2. StackQueue(u, q, m)
    BY <1>1, <2>1, LIRToFront
  <2>3. LIRSBecomes(t, q, KnownOf(m, L))
    <3>1. Policy!LIRS!Stack(u, q, m, p_field.misled)
      BY <1>1, <1>2, LIRSHelpers DEF Policy!LIRS!GetHitLIR, Policy!LIRS!Attached
    <3> HIDE DEF s, q, m, u
    <3> QED BY <3>1, LIRSStacks
  <2> HIDE DEF s, q, m, u
  <2>4. Prunable(u, q, m)
    BY <2>2 DEF Prunable, StackQueue
  <2>5. ToSet(t) \subseteq ToSet(u) /\ ToSet(u) \subseteq DOMAIN m /\ ToSet(q) \subseteq DOMAIN m
    BY <2>2, UnrepeatedUpToLast, UnrepeatedTypes DEF StackQueue
  <2>6. ToSet(t) \subseteq L /\ ToSet(q) \subseteq L /\ L \subseteq DOMAIN m
    <3> HIDE DEF t
    <3> QED BY <2>5 DEF LIRSLeft
  <2> HIDE DEF L
  <2>7. StackQueue(t, q, KnownOf(m, L)) /\ (BottomIsLIR(t, KnownOf(m, L)) \/ t = << >>)
    BY <2>4, <2>6, PruneKeeps
  <2> HIDE DEF t
  <2>8. LIRSState(t, q, KnownOf(m, L), p_phase', p_request') /\ BottomKept(s, m, t, KnownOf(m, L))
    BY <2>1, <2>7 DEF LIRSState, BottomKept
  <2> QED BY <2>3, <2>8, LIRSKept DEF s, m
<1>3. CASE Policy!LIRS!GetHitHIR(k)
  <2> DEFINE t == <<k>> \o RemoveFirst(s, k)
             p == RemoveFirst(q, k)
             n == [m EXCEPT ![k].lir = TRUE]
  <2>1. k \in DOMAIN m /\ ~m[k].lir /\ p_phase' = "demote"
    BY <1>1, <1>3 DEF Policy!LIRS!GetHitHIR, Policy!LIRS!At
  <2>2. StackQueue(t, p, n) /\ BottomKept(s, m, t, n)
    BY <1>1, <2>1, HIRPromoted
  <2>3. LIRSBecomes(t, p, n)
    BY <1>1, <1>3, LIRSHelpers DEF Policy!LIRS!GetHitHIR, Policy!LIRS!Attached, LIRSBecomes
  <2> HIDE DEF s, m, t, p, n
  <2>4. LIRSState(t, p, n, p_phase', p_request')
    BY <2>1, <2>2 DEF LIRSState
  <2> QED BY <2>2, <2>3, <2>4, LIRSKept DEF s, m
<1>4. CASE Policy!LIRS!GetHitQ(k)
  <2> DEFINE t == <<k>> \o s
             p == <<k>> \o RemoveFirst(q, k)
  <2>1. /\ k \in DOMAIN m /\ ~m[k].lir /\ m[k].in /\ k \notin ToSet(s)
        /\ p_phase' = p_phase /\ p_phase = "idle"
    BY <1>1, <1>4, LIRSHelpers DEF Policy!LIRS!GetHitQ, Policy!LIRS!At
  <2>2. StackQueue(t, p, m) /\ BottomKept(s, m, t, m)
    BY <1>1, <2>1, HIRRenewed
  <2>3. LIRSBecomes(t, p, m)
    BY <1>1, <1>4, LIRSHelpers DEF Policy!LIRS!GetHitQ, Policy!LIRS!Attached, LIRSBecomes
  <2> HIDE DEF s, m, t, p
  <2>4. LIRSState(t, p, m, p_phase', p_request')
    BY <2>1, <2>2 DEF LIRSState
  <2> QED BY <2>2, <2>3, <2>4, LIRSKept DEF s, m
<1> QED BY <1>2, <1>3, <1>4

\* get(): misses.
LEMMA LIRSMisses ==
    ASSUME LIRSInv, algor = "LIRS", NEW k, NEW z,
           Policy!LIRS!GetMiss(k, z) \/ Policy!LIRS!GetMissGhost(k, z)
    PROVE  LIRSInv' /\ Policy!LIRS!BottomStays
<1> DEFINE s == p_lists.S
           q == p_lists.Q
           m == p_field.node
<1>1. /\ StackQueue(s, q, m) /\ DOMAIN p_lists = {"S", "Q"} /\ "node" \in DOMAIN p_field
      /\ Policy!LIRS!S = s /\ Policy!LIRS!Q = q /\ Policy!LIRS!node = m
      /\ Policy!LIRS!Stored = DOMAIN m
  BY DEF LIRSInv, LIRSState, Policy!LIRS!S, Policy!LIRS!Q, Policy!LIRS!node, Policy!LIRS!Stored
<1>2. CASE Policy!LIRS!GetMiss(k, z)
  <2>1. k \notin DOMAIN m /\ p_phase' = "new" /\ p_request'.key = k
    BY <1>1, <1>2 DEF Policy!LIRS!GetMiss, Policy!LIRS!Enter
  <2>2. LIRSBecomes(s, q, m)
    BY <1>1, <1>2 DEF Policy!LIRS!GetMiss, LIRSBecomes
  <2> HIDE DEF s, q, m
  <2>3. LIRSState(s, q, m, p_phase', p_request')
    BY <1>1, <2>1 DEF LIRSState
  <2>4. BottomKept(s, m, s, m)
    BY DEF BottomKept
  <2> QED BY <2>2, <2>3, <2>4, LIRSKept DEF s, m
<1>3. CASE Policy!LIRS!GetMissGhost(k, z)
  <2> DEFINE t == RemoveFirst(s, k)
             n == [m EXCEPT ![k] = [size |-> z, in |-> TRUE, lir |-> TRUE]]
  <2>1. /\ k \in ToSet(s) /\ ~m[k].lir /\ ~m[k].in
        /\ p_phase' = "ghost" /\ p_request'.key = k
    BY <1>1, <1>3, LIRSHelpers DEF Policy!LIRS!GetMissGhost, Policy!LIRS!Enter
  <2>2. /\ StackQueue(t, q, n) /\ BottomKept(s, m, t, n)
        /\ k \in DOMAIN n \ ToSet(t) /\ n[k].lir
    BY <1>1, <2>1, GhostTaken
  <2>3. LIRSBecomes(t, q, n)
    BY <1>1, <1>3, LIRSHelpers DEF Policy!LIRS!GetMissGhost, Policy!LIRS!LirBlock, LIRSBecomes
  <2> HIDE DEF s, q, m, t, n
  <2>4. LIRSState(t, q, n, p_phase', p_request')
    BY <2>1, <2>2 DEF LIRSState
  <2> QED BY <2>2, <2>3, <2>4, LIRSKept DEF s, m
<1> QED BY <1>2, <1>3

\* demote().
LEMMA LIRSDemotes ==
    ASSUME LIRSInv, algor = "LIRS", Policy!LIRS!DemoteBottom \/ Policy!LIRS!DemoteDone
    PROVE  LIRSInv' /\ Policy!LIRS!BottomStays
<1> DEFINE s == p_lists.S
           q == p_lists.Q
           m == p_field.node
<1>1. /\ LIRSState(s, q, m, p_phase, p_request)
      /\ DOMAIN p_lists = {"S", "Q"} /\ "node" \in DOMAIN p_field
      /\ Policy!LIRS!S = s /\ Policy!LIRS!Q = q /\ Policy!LIRS!node = m
  BY DEF LIRSInv, Policy!LIRS!S, Policy!LIRS!Q, Policy!LIRS!node
<1>2. CASE Policy!LIRS!DemoteDone
  <2>1. p_phase' = "idle"
    BY <1>2 DEF Policy!LIRS!DemoteDone, Policy!LIRS!Leave
  <2>2. LIRSBecomes(s, q, m)
    BY <1>1, <1>2 DEF Policy!LIRS!DemoteDone, LIRSBecomes
  <2> HIDE DEF s, q, m
  <2>3. LIRSState(s, q, m, p_phase', p_request')
    BY <1>1, <2>1 DEF LIRSState
  <2>4. BottomKept(s, m, s, m)
    BY DEF BottomKept
  <2> QED BY <2>2, <2>3, <2>4, LIRSKept DEF s, m
<1>3. CASE Policy!LIRS!DemoteBottom
  <2> DEFINE k == Last(s)
             u == <<k>> \o q
             o == [m EXCEPT ![k].lir = FALSE]
             t == UpToLast(s, LIRIn(s, o))
             L == LIRSLeft(s, u, o, t)
             n == KnownOf(o, L)
  <2>1. /\ s # << >> /\ k \notin ToSet(q)
        /\ p_phase' = p_phase /\ p_request' = p_request
    BY <1>1, <1>3, LIRSHelpers DEF Policy!LIRS!DemoteBottom, Policy!LIRS!MustDemote
  <2>2. LIRSBecomes(t, u, n)
    <3>1. PICK misled : Policy!LIRS!Stack(s, u, o, misled)
      BY <1>1, <1>3, LIRSHelpers, Zenon DEF Policy!LIRS!DemoteBottom, Policy!LIRS!Attached
    <3> HIDE DEF s, u, o
    <3> QED BY <3>1, LIRSStacks
  <2> HIDE DEF s, q, m
  <2>3. StackQueue(s, q, m)
    BY <1>1 DEF LIRSState
  <2>4. k \in ToSet(s) /\ ToSet(s) \subseteq DOMAIN m /\ ToSet(q) \subseteq DOMAIN m
    BY <2>1, <2>3, UnrepeatedTypes DEF StackQueue
  <2>5. ToSet(u) = ToSet(q) \union {k}
    BY <2>1, <2>3, <2>4, UnrepeatedCons DEF StackQueue
  <2>6. /\ DOMAIN o = DOMAIN m /\ \A x \in DOMAIN m : x # k => o[x] = m[x]
    BY <2>3, <2>4, KnownSet DEF StackQueue
  <2>7. ToSet(t) \subseteq ToSet(s)
    BY <2>3, UnrepeatedUpToLast DEF StackQueue
  <2> HIDE DEF k, u, o, t
  <2>8. ToSet(t) \subseteq L /\ ToSet(u) \subseteq L /\ L \subseteq DOMAIN m
    BY <2>4, <2>5, <2>6, <2>7 DEF LIRSLeft
  <2>9. StackQueue(t, u, n) /\ (BottomIsLIR(t, n) \/ t = << >>)
    <3> HIDE DEF L, n
    <3>1. /\ o = [m EXCEPT ![Last(s)].lir = FALSE] /\ t = UpToLast(s, LIRIn(s, o))
          /\ n = KnownOf(o, L) /\ u = <<Last(s)>> \o q /\ k = Last(s)
      BY DEF o, t, n, u, k
    <3> QED BY <2>1, <2>3, <2>8, <3>1, BottomDemoted, Zenon
  <2>10. DOMAIN n = L /\ \A x \in L : n[x] = o[x]
    BY DEF KnownOf
  <2>11. \A x \in DOMAIN m \ ToSet(s) : m[x].lir => x \in DOMAIN n \ ToSet(t) /\ n[x].lir
    <3> SUFFICES ASSUME NEW x \in DOMAIN m \ ToSet(s), m[x].lir
                 PROVE  x \in DOMAIN n \ ToSet(t) /\ n[x].lir
      OBVIOUS
    <3>1. x # k /\ x \notin ToSet(q) /\ x \notin ToSet(t)
      BY <2>3, <2>4, <2>7 DEF StackQueue
    <3>2. x \in L
      BY <2>5, <2>6, <3>1 DEF LIRSLeft
    <3> QED BY <2>6, <2>10, <3>1, <3>2
  <2> HIDE DEF L, n
  <2>12. LIRSState(t, u, n, p_phase', p_request')
    BY <1>1, <2>1, <2>8, <2>9, <2>10, <2>11 DEF LIRSState
  <2>13. BottomKept(s, m, t, n)
    BY <2>9 DEF BottomKept
  <2> QED BY <2>2, <2>12, <2>13, LIRSKept DEF s, m
<1> QED BY <1>2, <1>3

\* evict().
LEMMA LIRSEvicts ==
    ASSUME LIRSInv, algor = "LIRS", Policy!LIRS!EvictTail
    PROVE  LIRSInv' /\ Policy!LIRS!BottomStays
<1> DEFINE s == p_lists.S
           q == p_lists.Q
           m == p_field.node
           k == Last(q)
           n == WithoutTail(s, m, k)
<1>1. /\ LIRSState(s, q, m, p_phase, p_request)
      /\ DOMAIN p_lists = {"S", "Q"} /\ "node" \in DOMAIN p_field
      /\ Policy!LIRS!S = s /\ Policy!LIRS!Q = q /\ Policy!LIRS!node = m
      /\ Policy!LIRS!Stored = DOMAIN m
  BY DEF LIRSInv, Policy!LIRS!S, Policy!LIRS!Q, Policy!LIRS!node, Policy!LIRS!Stored
<1>2. q # << >> /\ p_phase' = p_phase /\ p_request' = p_request
  BY <1>1 DEF Policy!LIRS!EvictTail
<1>3. LIRSBecomes(s, Front(q), n)
  <2>1. p_lists' = [p_lists EXCEPT !.Q = Front(@)]
    BY LIRSHelpers DEF Policy!LIRS!EvictTail
  <2>2. p_field' = [p_field EXCEPT !.node = n]
    BY <1>1, LIRSHelpers, Zenon DEF Policy!LIRS!EvictTail, Policy!LIRS!Ghost, Policy!LIRS!LirBlock, WithoutTail
  <2> HIDE DEF n
  <2> QED BY <1>1, <2>1, <2>2 DEF LIRSBecomes
<1> HIDE DEF s, q, m
<1>4. StackQueue(s, q, m)
  BY <1>1 DEF LIRSState
<1>5. n = WithoutTail(s, m, Last(q)) /\ DOMAIN n \subseteq DOMAIN m
  BY DEF WithoutTail
<1> HIDE DEF n, k
<1>6. /\ StackQueue(s, Front(q), n) /\ BottomKept(s, m, s, n)
      /\ \A x \in DOMAIN m : m[x].lir => x \in DOMAIN n /\ n[x] = m[x]
  BY <1>2, <1>4, <1>5, TailEvicted
<1>7. LIRSState(s, Front(q), n, p_phase', p_request')
  BY <1>1, <1>2, <1>5, <1>6 DEF LIRSState
<1> QED BY <1>3, <1>6, <1>7, LIRSKept DEF s, m

\* insert(), once there is room.
LEMMA LIRSInserts ==
    ASSUME LIRSInv, algor = "LIRS", Policy!LIRS!InsertGhost \/ Policy!LIRS!InsertNew
    PROVE  LIRSInv' /\ Policy!LIRS!BottomStays
<1> DEFINE s == p_lists.S
           q == p_lists.Q
           m == p_field.node
           k == p_request.key
           t == <<k>> \o s
<1>1. /\ LIRSState(s, q, m, p_phase, p_request)
      /\ DOMAIN p_lists = {"S", "Q"} /\ "node" \in DOMAIN p_field
      /\ Policy!LIRS!node = m /\ Policy!LIRS!Stored = DOMAIN m
  BY DEF LIRSInv, Policy!LIRS!node, Policy!LIRS!Stored
<1>2. p_phase' = "idle"
  BY Zenon DEF Policy!LIRS!InsertGhost, Policy!LIRS!InsertNew, Policy!LIRS!Leave
<1>3. CASE Policy!LIRS!InsertGhost
  <2>1. k \in DOMAIN m \ ToSet(s) /\ m[k].lir
    BY <1>1, <1>3 DEF LIRSState, Policy!LIRS!InsertGhost, Policy!LIRS!At
  <2>2. LIRSBecomes(t, q, m)
    BY <1>1, <1>3 DEF Policy!LIRS!InsertGhost, Policy!LIRS!Attached, LIRSBecomes
  <2> HIDE DEF s, q, m, k
  <2>3. StackQueue(t, q, m) /\ BottomKept(s, m, t, m)
    BY <1>1, <2>1, GhostInserted DEF LIRSState
  <2> HIDE DEF t
  <2>4. LIRSState(t, q, m, p_phase', p_request')
    BY <1>2, <2>3 DEF LIRSState
  <2> QED BY <2>2, <2>3, <2>4, LIRSKept DEF s, m
<1>4. CASE Policy!LIRS!InsertNew
  <2> DEFINE u == <<k>> \o q
             z == p_request.size
             n == [x \in DOMAIN m \union {k} |->
                     IF x = k THEN [size |-> z, in |-> TRUE, lir |-> FALSE] ELSE m[x]]
  <2>1. k \notin DOMAIN m
    BY <1>1, <1>4 DEF LIRSState, Policy!LIRS!InsertNew, Policy!LIRS!At
  <2>2. LIRSBecomes(t, u, n)
    <3>1. p_lists' = [l \in DOMAIN p_lists |-> <<k>> \o p_lists[l]]
      BY <1>4 DEF Policy!LIRS!InsertNew, Policy!LIRS!Attached
    <3>2. p_field' = [p_field EXCEPT !.node = n]
      BY <1>1, <1>4 DEF Policy!LIRS!InsertNew, Policy!LIRS!LirBlock
    <3> HIDE DEF n, k
    <3> QED BY <1>1, <3>1, <3>2 DEF LIRSBecomes
  <2> HIDE DEF s, q, m, k, z
  <2>3. StackQueue(t, u, n) /\ BottomKept(s, m, t, n)
    <3>1. StackQueue(s, q, m)
      BY <1>1 DEF LIRSState
    <3> QED BY <2>1, <3>1, NewInserted
  <2> HIDE DEF t, u, n
  <2>4. LIRSState(t, u, n, p_phase', p_request')
    BY <1>2, <2>3 DEF LIRSState
  <2> QED BY <2>2, <2>3, <2>4, LIRSKept DEF s, m
<1> QED BY <1>3, <1>4

LEMMA LIRSStep ==
    ASSUME LIRSInv, algor = "LIRS", Policy!LIRS!Next
    PROVE  LIRSInv' /\ Policy!LIRS!BottomStays
<1>1. CASE Policy!LIRS!Get
  <2>1. PICK k \in Key :
          \/ Policy!LIRS!GetHitLIR(k) \/ Policy!LIRS!GetHitHIR(k) \/ Policy!LIRS!GetHitQ(k)
          \/ \E z \in sizesOf[k] : Policy!LIRS!GetMiss(k, z) \/ Policy!LIRS!GetMissGhost(k, z)
    BY <1>1 DEF Policy!LIRS!Get
  <2> QED BY <2>1, LIRSHits, LIRSMisses
<1>2. CASE Policy!LIRS!Insert
  BY <1>2, LIRSDemotes, LIRSEvicts, LIRSInserts DEF Policy!LIRS!Insert
<1> QED BY <1>1, <1>2 DEF Policy!LIRS!Next

\* A cache of LIRS is built empty.
LEMMA LIRSInitially == AnyInit => LIRSInv
<1> SUFFICES ASSUME AnyInit, algor = "LIRS" PROVE LIRSInv
  BY DEF LIRSInv
<1>1. Policy!LIRS!Init
  BY DEF AnyInit, Init, Policy!Init
<1>2. /\ p_lists = [l \in {"S", "Q"} |-> << >>] /\ p_phase = "idle"
      /\ p_field = [node |-> [k \in {} |-> 0], misled |-> FALSE]
  BY <1>1 DEF Policy!LIRS!Init
<1>3. /\ DOMAIN p_lists = {"S", "Q"} /\ p_lists.S = << >> /\ p_lists.Q = << >>
      /\ "node" \in DOMAIN p_field /\ p_field.node = [k \in {} |-> 0]
  BY <1>2
<1>4. StackQueue(<< >>, << >>, [k \in {} |-> 0])
  <2> DEFINE m == [k \in {} |-> 0]
  <2>1. DOMAIN m = {}
    OBVIOUS
  <2>2. BlocksKnown(m)
    BY DEF BlocksKnown
  <2> HIDE DEF m
  <2> QED BY <2>1, <2>2, UnrepeatedNothing DEF StackQueue
<1>5. LIRSState(<< >>, << >>, [k \in {} |-> 0], "idle", p_request)
  BY <1>4 DEF LIRSState
<1> QED BY <1>2, <1>3, <1>5 DEF LIRSInv

LEMMA LIRSPreserved ==
    LIRSInv /\ [AnyNext]_<<vars, policy_vars>>
        => LIRSInv' /\ (algor = "LIRS" => Policy!LIRS!BottomStays)
<1> SUFFICES ASSUME LIRSInv, [AnyNext]_<<vars, policy_vars>>
             PROVE  LIRSInv' /\ (algor = "LIRS" => Policy!LIRS!BottomStays)
  OBVIOUS
<1>1. algor' = algor
  BY SameAlgorithm DEF vars, configuration
<1>2. CASE algor # "LIRS"
  BY <1>1, <1>2 DEF LIRSInv
<1>3. CASE algor = "LIRS" /\ UNCHANGED <<vars, policy_vars>>
  <2>1. /\ p_lists' = p_lists /\ p_field' = p_field /\ p_phase' = p_phase
        /\ p_request' = p_request
    BY <1>3 DEF policy_vars
  <2>2. LIRSBecomes(p_lists.S, p_lists.Q, p_field.node)
    BY <1>3, <2>1 DEF LIRSBecomes, LIRSInv
  <2>3. LIRSState(p_lists.S, p_lists.Q, p_field.node, p_phase', p_request')
    BY <1>3, <2>1 DEF LIRSInv
  <2>4. BottomKept(p_lists.S, p_field.node, p_lists.S, p_field.node)
    BY DEF BottomKept
  <2> QED BY <2>2, <2>3, <2>4, LIRSKept
<1>4. CASE algor = "LIRS" /\ AnyNext
  <2>1. Policy!LIRS!Next
    BY <1>4, TQSteps, MQSteps, LARCSteps, CLOCKSteps, OPTSteps, TINYLFUSteps DEF AnyNext, Policy!Next
  <2> QED BY <1>4, <2>1, LIRSStep
<1> QED BY <1>2, <1>3, <1>4

\* demote() may take the bottom of the stack for a LIR block: once one is there,
\* every call of get(), demote(), evict() and insert() leaves one there, or no
\* stack at all.
THEOREM BottomAlwaysLIR == AnySpec => BottomStaysLIR
<1>1. LIRSInv /\ [AnyNext]_<<vars, policy_vars>>
        => [algor = "LIRS" => Policy!LIRS!BottomStays]_(Policy!vars)
  BY LIRSPreserved
<1>2. AnySpec => []LIRSInv
  BY LIRSInitially, LIRSPreserved, PTL DEF AnySpec
<1> QED
  BY <1>1, <1>2, PTL DEF AnySpec, BottomStaysLIR, Policy!BottomStaysLIR
=============================================================================
