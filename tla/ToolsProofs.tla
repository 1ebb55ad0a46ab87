----------------------------- MODULE ToolsProofs ----------------------------
(***************************************************************************)
(* Proofs about the parts around the caches.  For any processes and any    *)
(* depth of the path, a simulator that fails to make a directory fails     *)
(* over one that a rival made in between, and not all of them fail.  For   *)
(* any traces, any days in any order and deaths in any dump, the bytes of  *)
(* distinct keys are those of the first request of each, and the total of  *)
(* the requests drifts by half a printed unit a file at most.  For any     *)
(* sizes of files and chunks and any headers, a line is cut into the       *)
(* chunks that its ranges touch.                                           *)
(***************************************************************************)
EXTENDS MCTools, CacheBaseProofs

-----------------------------------------------------------------------------
(* Directories *)

Component == 1 .. Depth
Exists(i) == madeBy[i] # Nobody

DirTypes ==
    /\ pc \in [Process -> {"save", "makedir", "test", "create", "open", "failed", "dead"}]
    /\ component \in [Process -> Component]
    /\ madeBy \in [Component -> Process \union {Before, Nobody}]

\* A directory is in one that is there.
Rooted == \A i, j \in Component : i < j /\ Exists(j) => Exists(i)

\* What a process has left behind in MakeDir's loop is there, and all of it is
\* once the process is through.
BehindIsThere ==
    \A p \in Process :
        /\ \A i \in Component : i < component[p] => Exists(i)
        /\ pc[p] = "open" => \A i \in Component : Exists(i)

\* A component that was missing, and no longer is, was made by a rival.
MadeByRivals ==
    \A p \in Process :
        /\ pc[p] = "create" => madeBy[component[p]] \in {Nobody} \union (Process \ {p})
        /\ pc[p] = "failed" => madeBy[component[p]] \in Process \ {p}

\* A process is beyond what it has made.
BeyondItsOwn ==
    \A p \in Process : \A i \in Component : madeBy[i] = p =>
        \/ pc[p] \in {"test", "create", "failed"} /\ i < component[p]
        \/ pc[p] \in {"open", "dead"}

\* The inductive invariant.
DirInv == DirTypes /\ Rooted /\ BehindIsThere /\ MadeByRivals /\ BeyondItsOwn

\* The path has a last component, and there is a process.
LEMMA DirFacts ==
    /\ Depth \in Nat /\ Depth > 0 /\ Depth \in Component
    /\ Before \notin Process /\ Nobody \notin Process /\ Before # Nobody /\ Process # {}
BY ToolsAssumption DEF ToolsAssumption, Dirs!DirectoriesAssumption, Component

\* Before anybody runs, some beginning of the path is there.
LEMMA DirInit == Dirs!Init => DirInv
<1> SUFFICES ASSUME Dirs!Init PROVE DirInv
  OBVIOUS
<1>1. PICK n \in 0 .. Depth :
        madeBy = [i \in Component |-> IF i <= n THEN Before ELSE Nobody]
  BY DEF Dirs!Init, Dirs!Component, Component
<1>2. pc = [p \in Process |-> "save"] /\ component = [p \in Process |-> 1]
  BY DEF Dirs!Init
<1>3. DirTypes
  BY <1>1, <1>2, DirFacts DEF DirTypes, Component
<1>4. Rooted
  BY <1>1, DirFacts DEF Rooted, Exists, Component
<1>5. \A i \in Component : madeBy[i] \notin Process
  BY <1>1, DirFacts
<1>6. BehindIsThere
  BY <1>2 DEF BehindIsThere, Component
<1> QED
  BY <1>2, <1>3, <1>4, <1>5, <1>6 DEF DirInv, MadeByRivals, BeyondItsOwn

\* A process steps from where it is to somewhere else, and nobody else moves.
LEMMA GoesFacts ==
    ASSUME DirTypes, NEW p \in Process, NEW from, NEW to, Dirs!Goes(p, from, to)
    PROVE  pc[p] = from /\ pc'[p] = to /\ \A q \in Process : q # p => pc'[q] = pc[q]
BY DEF Dirs!Goes, DirTypes

\* The tests of Save and of MakeDir: if the last component is there, all are.
LEMMA TestPathKeeps ==
    ASSUME DirInv, NEW p \in Process, Dirs!TestPath(p)
    PROVE  DirInv'
<1>1. UNCHANGED <<component, madeBy>>
  BY DEF Dirs!TestPath
<1>2. PICK to \in {"open", "makedir", "test"} :
        /\ pc[p] \in {"save", "makedir"} /\ pc' = [pc EXCEPT ![p] = to]
        /\ to = "open" => Exists(Depth)
  BY DEF Dirs!TestPath, Dirs!Goes, Dirs!PathExists, Exists
<1>3. pc'[p] = to /\ \A q \in Process : q # p => pc'[q] = pc[q]
  BY <1>2 DEF DirInv, DirTypes
<1>4. \A i \in Component : madeBy[i] # p
  BY <1>2 DEF DirInv, BeyondItsOwn
<1>5. DirTypes' /\ Rooted'
  BY <1>1, <1>2 DEF DirInv, DirTypes, Rooted, Exists
<1>6. to = "open" => \A i \in Component : Exists(i)
  <2>1. \A i \in Component : i # Depth => i < Depth
    BY DirFacts DEF Component
  <2> QED BY <2>1, <1>2, DirFacts DEF DirInv, Rooted
<1>7. BehindIsThere'
  BY <1>1, <1>3, <1>6 DEF DirInv, BehindIsThere, Exists
<1>8. MadeByRivals' /\ BeyondItsOwn'
  BY <1>1, <1>3, <1>4 DEF DirInv, MadeByRivals, BeyondItsOwn
<1> QED
  BY <1>5, <1>7, <1>8 DEF DirInv

\* On to the next component, which is beyond one that is there.
LEMMA AdvanceFacts ==
    ASSUME DirInv, NEW p \in Process, NEW from, Dirs!Advance(p, from)
    PROVE  /\ pc[p] = from /\ pc'[p] \in {"test", "open"}
           /\ \A q \in Process : q # p => pc'[q] = pc[q] /\ component'[q] = component[q]
           /\ pc' \in [Process -> {"save", "makedir", "test", "create", "open", "failed", "dead"}]
           /\ component' \in [Process -> Component]
           /\ pc'[p] = "open" => component[p] = Depth
           /\ pc'[p] = "test" => component'[p] = component[p] + 1
           /\ component'[p] \in {component[p], component[p] + 1}
<1>1. DirTypes /\ component[p] \in 1 .. Depth
  BY DEF DirInv, DirTypes, Component
<1>2. CASE component[p] < Depth
  <2>1. Dirs!Goes(p, from, "test") /\ component' = [component EXCEPT ![p] = component[p] + 1]
    BY <1>2 DEF Dirs!Advance
  <2>2. component[p] + 1 \in Component
    BY <1>1, <1>2, DirFacts DEF Component
  <2> QED
    BY <2>1, <2>2, <1>1, GoesFacts DEF DirTypes, Dirs!Goes
<1>3. CASE ~(component[p] < Depth)
  <2>1. Dirs!Goes(p, from, "open") /\ component' = component
    BY <1>3 DEF Dirs!Advance
  <2>2. component[p] = Depth
    BY <1>1, <1>3, DirFacts
  <2> QED
    BY <2>1, <2>2, <1>1, GoesFacts DEF DirTypes, Dirs!Goes
<1> QED BY <1>2, <1>3

\* So it is whether the process found the component it leaves or has made it.
LEMMA AdvanceKeeps ==
    ASSUME DirInv, NEW p \in Process, NEW from \in {"test", "create"}, Dirs!Advance(p, from),
           \/ madeBy' = madeBy /\ Exists(component[p])
           \/ ~Exists(component[p]) /\ madeBy' = [madeBy EXCEPT ![component[p]] = p]
    PROVE  DirInv'
<1> DEFINE c == component[p]
<1>1. DirTypes /\ c \in Component /\ pc[p] = from
  BY AdvanceFacts DEF DirInv, DirTypes
<1> HIDE DEF c
<1>2. /\ \A i \in Component : i # c => madeBy'[i] = madeBy[i]
      /\ madeBy'[c] # Nobody /\ madeBy'[c] \in {madeBy[c], p}
      /\ madeBy' \in [Component -> Process \union {Before, Nobody}]
      /\ madeBy[c] = Nobody \/ madeBy'[c] = madeBy[c]
  BY <1>1, DirFacts DEF DirTypes, Exists, c
<1>3. DirTypes'
  BY <1>2, AdvanceFacts DEF DirTypes
<1>4. \A i \in Component : i <= c => Exists(i)'
  <2>1. \A i \in Component : i < c => Exists(i)
    BY DEF DirInv, BehindIsThere, c
  <2>2. \A i \in Component : i <= c => i < c \/ i = c
    BY <1>1 DEF Component
  <2> QED BY <2>1, <2>2, <1>1, <1>2 DEF Exists
<1>5. \A i \in Component : Exists(i) => Exists(i)'
  BY <1>2 DEF Exists
<1>6. Rooted'
  <2> SUFFICES ASSUME NEW i \in Component, NEW j \in Component, i < j, Exists(j)'
               PROVE  Exists(i)'
    BY DEF Rooted
  <2>1. CASE j = c
    BY <2>1, <1>4 DEF Component
  <2>2. CASE j # c
    BY <2>2, <1>2, <1>5 DEF DirInv, Rooted, Exists
  <2> QED BY <2>1, <2>2
<1>7. \A q \in Process : q # p => pc'[q] = pc[q] /\ component'[q] = component[q]
  BY AdvanceFacts
<1>8. /\ pc'[p] \in {"test", "open"}
      /\ pc'[p] = "open" => c = Depth
      /\ pc'[p] = "test" => component'[p] = c + 1
      /\ component'[p] \in {c, c + 1}
  BY AdvanceFacts DEF c
<1>9. BehindIsThere'
  <2>1. \A i \in Component : i < component'[p] => Exists(i)'
    BY <1>8, <1>4, <1>1 DEF Component
  <2>2. pc'[p] = "open" => \A i \in Component : Exists(i)'
    BY <1>8, <1>4 DEF Component
  <2> QED
    BY <2>1, <2>2, <1>5, <1>7 DEF DirInv, BehindIsThere
<1>10. MadeByRivals'
  <2> SUFFICES ASSUME NEW q \in Process
               PROVE  /\ pc'[q] = "create" => madeBy'[component'[q]] \in {Nobody} \union (Process \ {q})
                      /\ pc'[q] = "failed" => madeBy'[component'[q]] \in Process \ {q}
    BY DEF MadeByRivals
  <2>1. CASE q = p
    BY <2>1, <1>8
  <2>2. CASE q # p
    <3>1. component[q] \in Component /\ pc'[q] = pc[q] /\ component'[q] = component[q]
      BY <2>2, <1>7, <1>1 DEF DirTypes
    <3> QED
      BY <3>1, <2>2, <1>2, DirFacts DEF DirInv, MadeByRivals
  <2> QED BY <2>1, <2>2
<1>11. BeyondItsOwn'
  <2> SUFFICES ASSUME NEW q \in Process, NEW i \in Component, madeBy'[i] = q
               PROVE  \/ pc'[q] \in {"test", "create", "failed"} /\ i < component'[q]
                      \/ pc'[q] \in {"open", "dead"}
    BY DEF BeyondItsOwn
  <2>1. CASE madeBy[i] = q
    <3>1. \/ pc[q] \in {"test", "create", "failed"} /\ i < component[q]
          \/ pc[q] \in {"open", "dead"}
      BY <2>1 DEF DirInv, BeyondItsOwn
    <3>2. CASE q # p
      BY <3>1, <3>2, <1>7
    <3>3. CASE q = p
      BY <3>1, <3>3, <1>8, <1>1 DEF c, Component
    <3> QED BY <3>2, <3>3
  <2>2. CASE madeBy[i] # q
    <3>1. i = c /\ q = p
      BY <2>2, <1>2
    <3> QED BY <3>1, <1>8, <1>1 DEF Component
  <2> QED BY <2>1, <2>2
<1> QED
  BY <1>3, <1>6, <1>9, <1>10, <1>11 DEF DirInv

\* A component is tested: missing, it will be created, else the next is looked at.
LEMMA TestComponentKeeps ==
    ASSUME DirInv, NEW p \in Process, Dirs!TestComponent(p)
    PROVE  DirInv'
<1>1. madeBy' = madeBy /\ DirTypes
  BY DEF Dirs!TestComponent, DirInv
<1>2. CASE Dirs!Missing(component[p])
  <2>1. Dirs!Goes(p, "test", "create") /\ component' = component
    BY <1>2 DEF Dirs!TestComponent
  <2>2. pc[p] = "test" /\ pc'[p] = "create" /\ \A q \in Process : q # p => pc'[q] = pc[q]
    BY <2>1, <1>1, GoesFacts
  <2>3. madeBy[component[p]] = Nobody
    BY <1>2 DEF Dirs!Missing, Dirs!PathExists
  <2>4. DirTypes' /\ Rooted'
    BY <1>1, <2>1 DEF DirInv, DirTypes, Rooted, Exists, Dirs!Goes
  <2>5. BehindIsThere'
    BY <1>1, <2>1, <2>2 DEF DirInv, BehindIsThere, Exists
  <2>6. MadeByRivals'
    BY <1>1, <2>1, <2>2, <2>3 DEF DirInv, MadeByRivals
  <2>7. BeyondItsOwn'
    BY <1>1, <2>1, <2>2 DEF DirInv, BeyondItsOwn
  <2> QED BY <2>4, <2>5, <2>6, <2>7 DEF DirInv
<1>3. CASE ~Dirs!Missing(component[p])
  <2>1. Dirs!Advance(p, "test") /\ Exists(component[p])
    BY <1>3 DEF Dirs!TestComponent, Dirs!Missing, Dirs!PathExists, Exists
  <2> QED BY <2>1, <1>1, AdvanceKeeps
<1> QED BY <1>2, <1>3

\* The component is made.
LEMMA CreateKeeps ==
    ASSUME DirInv, NEW p \in Process, Dirs!Create(p)
    PROVE  DirInv'
BY AdvanceKeeps DEF Dirs!Create, Dirs!PathExists, Exists

\* It is there already, and the process ends; or it ends for a reason of its own.
LEMMA StopKeeps ==
    ASSUME DirInv, NEW p \in Process, Dirs!CreateFails(p) \/ Dirs!Dies(p)
    PROVE  DirInv'
<1>1. UNCHANGED <<component, madeBy>> /\ DirTypes
  BY DEF Dirs!CreateFails, Dirs!Dies, DirInv
<1>2. PICK to \in {"failed", "dead"} :
        /\ pc' = [pc EXCEPT ![p] = to]
        /\ to = "failed" => pc[p] = "create" /\ Exists(component[p])
  BY DEF Dirs!CreateFails, Dirs!Dies, Dirs!Goes, Dirs!PathExists, Exists
<1>3. pc'[p] = to /\ \A q \in Process : q # p => pc'[q] = pc[q]
  BY <1>1, <1>2 DEF DirTypes
<1>4. DirTypes' /\ Rooted'
  BY <1>1, <1>2 DEF DirInv, DirTypes, Rooted, Exists
<1>5. BehindIsThere'
  BY <1>1, <1>3 DEF DirInv, BehindIsThere, Exists
<1>6. MadeByRivals'
  BY <1>1, <1>2, <1>3 DEF DirInv, MadeByRivals, Exists
<1>7. BeyondItsOwn'
  BY <1>1, <1>2, <1>3 DEF DirInv, BeyondItsOwn
<1> QED BY <1>4, <1>5, <1>6, <1>7 DEF DirInv

\* Every step keeps the invariant.
LEMMA DirNext == DirInv /\ [Dirs!Next]_dirVars => DirInv'
<1> SUFFICES ASSUME DirInv, [Dirs!Next]_dirVars PROVE DirInv'
  OBVIOUS
<1>1. CASE UNCHANGED dirVars
  BY <1>1 DEF dirVars, DirInv, DirTypes, Rooted, BehindIsThere, MadeByRivals, BeyondItsOwn, Exists
<1>2. CASE Dirs!Next
  BY <1>2, TestPathKeeps, TestComponentKeeps, CreateKeeps, StopKeeps DEF Dirs!Next
<1> QED BY <1>1, <1>2

\* If all had failed, the one that failed deepest in the path did over a component
\* that another made, which then was deeper when it failed.
LEMMA SomeSurvive == DirInv => \E p \in Process : pc[p] # "failed"
<1> SUFFICES ASSUME DirInv, \A p \in Process : pc[p] = "failed" PROVE FALSE
  OBVIOUS
<1> DEFINE S == { component[p] : p \in Process }
<1>1. S \in SUBSET Nat /\ S # {} /\ \A x \in S : x <= Depth
  BY DirFacts DEF DirInv, DirTypes, Component
<1>2. PICK m \in S : \A x \in S : x <= m
  <2> HIDE DEF S
  <2> QED BY <1>1, DirFacts, SetHasMaximum
<1>3. PICK p \in Process : component[p] = m
  BY <1>2
<1>4. PICK q \in Process : madeBy[component[p]] = q
  BY DEF DirInv, MadeByRivals
<1>5. component[p] \in Component
  BY DEF DirInv, DirTypes
<1>6. component[p] < component[q]
  BY <1>4, <1>5 DEF DirInv, BeyondItsOwn
<1>7. component[q] <= m /\ m \in Nat /\ component[q] \in Nat
  BY <1>1, <1>2
<1> QED BY <1>3, <1>6, <1>7

\* MakeDir and Save by any number of processes, on a path of any depth: who fails
\* has a rival to blame, who opens its checkpoint finds its directory, and somebody
\* is not stopped.
THEOREM RivalsAlwaysToBlame == Spec => []RivalsAreToBlame
<1> DEFINE I == subject = "directories" => DirInv
<1>1. Init => I
  BY DirInit DEF Init
<1>2. I /\ [Next]_<<subject, statisticVars, slicingVars, dirVars>> => I'
  <2> SUFFICES ASSUME I, [Next]_<<subject, statisticVars, slicingVars, dirVars>>,
                      subject' = "directories"
               PROVE  DirInv'
    OBVIOUS
  <2>1. subject = "directories" /\ [Dirs!Next]_dirVars
    BY DEF Next
  <2> QED BY <2>1, DirNext
<1>3. I => RivalsAreToBlame
  BY SomeSurvive DEF RivalsAreToBlame, Dirs!RivalsAreToBlame, DirInv, MadeByRivals,
     BehindIsThere, Exists, Dirs!PathExists, Dirs!Component, Component
<1> QED
  BY <1>1, <1>2, <1>3, PTL DEF Spec

-----------------------------------------------------------------------------
(* The statistics *)

\* What a trace line carries.
Line == [key : Key, size : Size]

FirstLines(t) == Statistic!FirstOfItsKey(t)

\* A map names the keys of t, with the sizes they were first asked for with.
Mirrors(map, t) ==
    /\ DOMAIN map = { t[i].key : i \in 1 .. Len(t) }
    /\ \A i \in FirstLines(t) : map[t[i].key] = t[i].size

\* Sizes and days are numbers.
LEMMA SizesAreNumbers == Size \subseteq Nat /\ Day \subseteq Nat
BY ToolsAssumption DEF ToolsAssumption, Statistic!StatisticAssumption

\* So is the size a line carries.
LEMMA SizesOfLines ==
    ASSUME NEW t \in Seq(Line), NEW i \in 1 .. Len(t)
    PROVE  t[i].size \in Nat
<1>1. t[i] \in Line
  OBVIOUS
<1> QED BY <1>1, SizesAreNumbers DEF Line

\* The first lines are those whose key none before has.
LEMMA FirstLinesAre ==
    ASSUME NEW t \in Seq(Line)
    PROVE  FirstLines(t) = { i \in 1 .. Len(t) : \A j \in 1 .. i - 1 : t[j].key # t[i].key }
BY DEF FirstLines, Statistic!FirstOfItsKey

\* Every key has a first line.
LEMMA KeyHasFirst ==
    ASSUME NEW t \in Seq(Line), NEW i \in 1 .. Len(t)
    PROVE  \E f \in FirstLines(t) : t[f].key = t[i].key
<1> DEFINE S == { j \in 1 .. Len(t) : t[j].key = t[i].key }
<1>1. S \in SUBSET Nat /\ i \in S
  OBVIOUS
<1>2. PICK f \in S : \A j \in S : f <= j
  <2> HIDE DEF S
  <2> QED BY <1>1, SetHasMinimum
<1>3. f \in FirstLines(t)
  BY <1>2, FirstLinesAre
<1> QED BY <1>2, <1>3

\* What the code adds up is a sum over the keys of the map; what is claimed of it
\* is one over the lines.
LEMMA BytesAreSum ==
    ASSUME NEW map, IsFiniteSet(DOMAIN map), \A k \in DOMAIN map : map[k] \in Nat
    PROVE  Statistic!Bytes(map) = SumOf(map, DOMAIN map)
<1> DEFINE S == DOMAIN map
<1>1. Statistic!Bytes(map) = (CHOOSE f : f = SumStep(map, S, f))[S]
  BY Zenon DEF Statistic!Bytes, Statistic!FoldFunction, Statistic!FoldFunctionOnSet,
     Statistic!MapThenFoldSet, SumStep
<1> QED BY <1>1, FoldIsSum

\* So is what lines asked for.
LEMMA AskedIsSum ==
    ASSUME NEW t \in Seq(Line), NEW S \in SUBSET (1 .. Len(t))
    PROVE  Statistic!Asked(t, S) = SumOf([i \in 1 .. Len(t) |-> t[i].size], S)
<1> DEFINE v == [i \in 1 .. Len(t) |-> t[i].size]
           Step(f) == [s \in SUBSET S |->
                         IF s = {} THEN 0
                         ELSE t[CHOOSE x \in s : TRUE].size + f[s \ {CHOOSE x \in s : TRUE}]]
<1>1. Statistic!Asked(t, S) = (CHOOSE f : f = Step(f))[S]
  BY Zenon DEF Statistic!Asked, Statistic!FoldFunctionOnSet, Statistic!MapThenFoldSet
<1>2. ASSUME NEW f PROVE Step(f) = SumStep(v, S, f)
  <2>1. ASSUME NEW s \in SUBSET S, s # {}
        PROVE  t[CHOOSE x \in s : TRUE].size = v[CHOOSE x \in s : TRUE]
    <3>1. (CHOOSE x \in s : TRUE) \in s
      BY <2>1
    <3>2. (CHOOSE x \in s : TRUE) \in 1 .. Len(t)
      BY <3>1
    <3> QED BY <3>2
  <2> HIDE DEF v
  <2> QED BY <2>1 DEF SumStep
<1>3. IsFiniteSet(S) /\ \A x \in S : v[x] \in Nat
  <2>1. IsFiniteSet(1 .. Len(t))
    BY FS_Interval
  <2>2. \A i \in 1 .. Len(t) : v[i] \in Nat
    BY SizesOfLines
  <2>3. IsFiniteSet(S)
    BY <2>1, FS_Subset
  <2> HIDE DEF v
  <2> QED BY <2>1, <2>2, <2>3
<1> HIDE DEF v, Step
<1>4. (CHOOSE f : f = Step(f)) = (CHOOSE f : f = SumStep(v, S, f))
  BY <1>2
<1>5. Statistic!Asked(t, S) = SumOf(v, S)
  BY <1>1, <1>3, <1>4, FoldIsSum
<1> QED BY <1>5 DEF v

\* With the map of a trace both sums are the same.
LEMMA MirrorBytes ==
    ASSUME NEW t \in Seq(Line), NEW map, Mirrors(map, t)
    PROVE  Statistic!Bytes(map) = Statistic!Asked(t, FirstLines(t))
<1> DEFINE v == [i \in 1 .. Len(t) |-> t[i].size]
           S == FirstLines(t)
           T == DOMAIN map
           f == [i \in S |-> t[i].key]
<1>1. S \in SUBSET (1 .. Len(t)) /\ IsFiniteSet(S) /\ \A x \in S : v[x] \in Nat
  <2>1. S \in SUBSET (1 .. Len(t)) /\ IsFiniteSet(1 .. Len(t))
    BY FirstLinesAre, FS_Interval
  <2>2. \A i \in 1 .. Len(t) : v[i] \in Nat
    BY SizesOfLines
  <2>3. IsFiniteSet(S)
    BY <2>1, FS_Subset
  <2> HIDE DEF v
  <2> QED BY <2>1, <2>2, <2>3
<1>2. f \in [S -> T]
  BY FirstLinesAre DEF Mirrors
<1>3. \A y \in T : \E x \in S : f[x] = y
  BY KeyHasFirst DEF Mirrors
<1>4. \A x, y \in S : f[x] = f[y] => x = y
  <2> SUFFICES ASSUME NEW x \in S, NEW y \in S, t[x].key = t[y].key PROVE x = y
    OBVIOUS
  <2>1. x \in 1 .. Len(t) /\ y \in 1 .. Len(t) /\ ~(x < y) /\ ~(y < x)
    BY FirstLinesAre
  <2> QED BY <2>1
<1>5. \A x \in S : v[x] = map[f[x]]
  BY FirstLinesAre DEF Mirrors
<1>6. \A y \in T : map[y] \in Nat
  <2> HIDE DEF f, v
  <2> QED BY <1>1, <1>3, <1>5
<1>7. IsFiniteSet(T)
  <2>1. f \in Surjection(S, T)
    BY <1>2, <1>3 DEF Surjection
  <2> HIDE DEF f, S, T
  <2> QED BY <1>1, <2>1, FS_Surjection
<1>8. Statistic!Bytes(map) = SumOf(map, T)
  BY <1>6, <1>7, BytesAreSum
<1>9. Statistic!Asked(t, S) = SumOf(v, S)
  BY <1>1, AskedIsSum
<1> HIDE DEF v, S, T, f
<1>10. SumOf(v, S) = SumOf(map, T)
  <2>1. \A x \in S : v[x] \in Nat
    BY <1>1
  <2>2. IsFiniteSet(S)
    BY <1>1
  <2>3. Renames(f, S, v, T, map)
    BY <1>2, <1>3, <1>4, <1>5 DEF Renames
  <2> QED
    BY <2>1, <2>2, <2>3, <1>6, <1>7, SumRenamed
<1> QED BY <1>8, <1>9, <1>10 DEF S

\* A line more, in the map and in the trace.
LEMMA MirrorsGrow ==
    ASSUME NEW t \in Seq(Line), NEW map, Mirrors(map, t), NEW k \in Key, NEW s \in Size,
           NEW u, u = Append(t, [key |-> k, size |-> s])
    PROVE  Mirrors(Statistic!FirstSeen(map, k, s), u)
<1> DEFINE map2 == Statistic!FirstSeen(map, k, s)
           n == Len(t) + 1
<1>1. /\ u \in Seq(Line) /\ Len(u) = n /\ n \in Nat
      /\ \A i \in 1 .. Len(t) : u[i] = t[i]
      /\ u[n] = [key |-> k, size |-> s]
  BY DEF Line
<1>2. 1 .. n = 1 .. Len(t) \union {n}
  OBVIOUS
<1>3. /\ DOMAIN map2 = DOMAIN map \union {k}
      /\ \A j \in DOMAIN map : map2[j] = map[j]
      /\ k \notin DOMAIN map => map2[k] = s
  BY DEF Statistic!FirstSeen
<1>4. DOMAIN map2 = { u[i].key : i \in 1 .. Len(u) }
  <2>1. { u[i].key : i \in 1 .. Len(u) } = { u[i].key : i \in 1 .. Len(t) } \union {k}
    BY <1>1, <1>2
  <2>2. { u[i].key : i \in 1 .. Len(t) } = { t[i].key : i \in 1 .. Len(t) }
    BY <1>1
  <2> QED BY <2>1, <2>2, <1>3 DEF Mirrors
<1>5. ASSUME NEW i \in FirstLines(u) PROVE map2[u[i].key] = u[i].size
  <2>1. i \in 1 .. n /\ \A j \in 1 .. i - 1 : u[j].key # u[i].key
    BY <1>1, FirstLinesAre
  <2>2. CASE i \in 1 .. Len(t)
    <3>1. \A j \in 1 .. i - 1 : t[j].key # t[i].key
      BY <2>1, <2>2, <1>1
    <3>2. i \in FirstLines(t)
      BY <3>1, <2>2, FirstLinesAre
    <3>3. t[i].key \in DOMAIN map
      BY <2>2 DEF Mirrors
    <3> QED BY <3>2, <3>3, <2>2, <1>1, <1>3 DEF Mirrors
  <2>3. CASE i = n
    <3>1. \A j \in 1 .. Len(t) : t[j].key # k
      BY <2>1, <2>3, <1>1
    <3>2. k \notin DOMAIN map
      BY <3>1 DEF Mirrors
    <3> QED BY <3>2, <2>3, <1>1, <1>3
  <2> QED BY <2>1, <2>2, <2>3, <1>2
<1> HIDE DEF map2
<1> QED BY <1>4, <1>5 DEF Mirrors, map2

StatTypes ==
    /\ today \in Seq(Line) /\ base \in Seq(Line) /\ past \in [Day -> Seq(Line)]
    /\ DOMAIN stat_file = Day
    /\ phase # "off" => day \in Day

\* A file that is whole stands for the lines handed down with it.
FilesMirror ==
    \A d \in Day : stat_file[d] # NoFile /\ ~stat_file[d].torn => Mirrors(stat_file[d].map, past[d])

\* Until the load there is nothing in memory; then the maps are what was read.
MemoryMirrors ==
    /\ phase \in {"off", "load"} =>
         /\ base = << >> /\ today = << >>
         /\ tot_stat_map = Statistic!Nothing /\ stat_map = Statistic!Nothing
    /\ phase = "load" => input = NoFile \/ (day - 1 \in Day /\ input = stat_file[day - 1])
    /\ phase \in {"read", "dump"} => Mirrors(tot_stat_map, base \o today) /\ Mirrors(stat_map, today)
    /\ phase = "dump" =>
         /\ metrics.uniq = Statistic!Bytes(stat_map)
         /\ metrics.tot_uniq = Statistic!Bytes(tot_stat_map)

\* The inductive invariant.
StatInv == StatTypes /\ FilesMirror /\ MemoryMirrors

\* No map for no trace.
LEMMA NothingMirrors == Mirrors(Statistic!Nothing, << >>)
<1>1. DOMAIN Statistic!Nothing = {}
  BY DEF Statistic!Nothing
<1>2. Len(<< >>) = 0 /\ FirstLines(<< >>) = {}
  BY DEF FirstLines, Statistic!FirstOfItsKey
<1> QED BY <1>1, <1>2 DEF Mirrors

\* Before the first day.
LEMMA StatInit == Statistic!Init => StatInv
<1> SUFFICES ASSUME Statistic!Init PROVE StatInv
  OBVIOUS
<1>1. StatTypes
  BY DEF Statistic!Init, StatTypes
<1>2. FilesMirror /\ MemoryMirrors
  BY DEF Statistic!Init, FilesMirror, MemoryMirrors
<1> QED BY <1>1, <1>2 DEF StatInv

\* Before the first line is read.
LEMMA LoadKeeps ==
    ASSUME StatInv,
           \/ \E d \in Day : Statistic!StartDay(d)
           \/ Statistic!LoadNothing \/ Statistic!LoadFile \/ Statistic!LoadLoops
    PROVE  StatInv'
<1>1. CASE \E d \in Day : Statistic!StartDay(d)
  <2>1. PICK d \in Day : Statistic!StartDay(d)
    BY <1>1
  <2>2. UNCHANGED <<metrics, tot_stat_map, stat_map, last_tot_req, request_bytes, base, today,
                    stat_file, past, dumps>>
    BY <2>1 DEF Statistic!StartDay, Statistic!memory, Statistic!disk
  <2>3. /\ phase = "off" /\ phase' = "load" /\ day' = d
        /\ input' = IF d - 1 \in Day THEN stat_file[d - 1] ELSE NoFile
    BY <2>1 DEF Statistic!StartDay
  <2> QED
    BY <2>2, <2>3 DEF StatInv, StatTypes, FilesMirror, MemoryMirrors
<1>2. CASE Statistic!LoadNothing
  <2>1. /\ phase = "load" /\ phase' = "read"
        /\ UNCHANGED <<day, tot_stat_map, stat_map, base, today, stat_file, past>>
    BY <1>2 DEF Statistic!LoadNothing, Statistic!memory, Statistic!disk
  <2>2. base \o today = << >> /\ today = << >>
    BY <2>1 DEF StatInv, MemoryMirrors
  <2> QED
    BY <2>1, <2>2, NothingMirrors DEF StatInv, StatTypes, FilesMirror, MemoryMirrors
<1>3. CASE Statistic!LoadFile
  <2>1. /\ phase = "load" /\ phase' = "read" /\ input # NoFile /\ ~input.torn
        /\ tot_stat_map' = input.map /\ base' = past[day - 1]
        /\ UNCHANGED <<day, stat_map, today, stat_file, past>>
    BY <1>3 DEF Statistic!LoadFile, Statistic!LoopOver, Statistic!disk
  <2>2. day - 1 \in Day /\ input = stat_file[day - 1] /\ today = << >>
    BY <2>1 DEF StatInv, MemoryMirrors
  <2>3. base' \in Seq(Line) /\ base' \o today' = base'
    BY <2>1, <2>2, ConcatEmptySeq DEF StatInv, StatTypes
  <2>4. Mirrors(tot_stat_map', base') /\ Mirrors(stat_map', today')
    BY <2>1, <2>2, NothingMirrors DEF StatInv, FilesMirror, MemoryMirrors
  <2> QED
    BY <2>1, <2>2, <2>3, <2>4 DEF StatInv, StatTypes, FilesMirror, MemoryMirrors
<1>4. CASE Statistic!LoadLoops
  <2>1. /\ phase \in {"load", "looping"} /\ phase' = "looping"
        /\ UNCHANGED <<day, base, today, stat_file, past>>
    BY <1>4 DEF Statistic!LoadLoops, Statistic!disk
  <2> QED
    BY <2>1 DEF StatInv, StatTypes, FilesMirror, MemoryMirrors
<1> QED BY <1>1, <1>2, <1>3, <1>4

\* A line is read, and the day is reported.
LEMMA ReadKeeps ==
    ASSUME StatInv, NEW k \in Key, NEW s \in Size, Statistic!ReadLine(k, s)
    PROVE  StatInv'
<1> DEFINE e == [key |-> k, size |-> s]
<1>1. /\ phase = "read" /\ phase' = "read" /\ today' = Append(today, e)
      /\ tot_stat_map' = Statistic!FirstSeen(tot_stat_map, k, s)
      /\ stat_map' = Statistic!FirstSeen(stat_map, k, s)
      /\ UNCHANGED <<day, base, stat_file, past>>
  BY DEF Statistic!ReadLine, Statistic!disk
<1>2. today \in Seq(Line) /\ base \in Seq(Line) /\ e \in Line
  BY DEF StatInv, StatTypes, Line
<1> HIDE DEF e
<1>3. /\ base \o today \in Seq(Line) /\ Append(today, e) \in Seq(Line)
      /\ base \o Append(today, e) = Append(base \o today, e)
  BY <1>2
<1>4. Mirrors(tot_stat_map', base' \o today') /\ Mirrors(stat_map', today')
  BY <1>1, <1>2, <1>3, MirrorsGrow DEF StatInv, MemoryMirrors, e
<1> QED
  BY <1>1, <1>3, <1>4 DEF StatInv, StatTypes, FilesMirror, MemoryMirrors

\* The reports are sums over the maps.
LEMMA ReportKeeps ==
    ASSUME StatInv, Statistic!Report
    PROVE  StatInv'
<1>1. /\ phase = "read" /\ phase' = "dump"
      /\ metrics'.uniq = Statistic!Bytes(stat_map) /\ metrics'.tot_uniq = Statistic!Bytes(tot_stat_map)
      /\ UNCHANGED <<day, tot_stat_map, stat_map, base, today, stat_file, past>>
  BY DEF Statistic!Report, Statistic!memory, Statistic!disk
<1> QED
  BY <1>1 DEF StatInv, StatTypes, FilesMirror, MemoryMirrors

\* The call is over: the file of the day is written, in part, or not at all.
LEMMA OverKeeps ==
    ASSUME StatInv, \/ Statistic!Dump \/ Statistic!OpenFails \/ Statistic!DiesDumping \/ Statistic!Dies
    PROVE  StatInv'
<1>1. /\ phase' = "off" /\ base' = << >> /\ today' = << >>
      /\ tot_stat_map' = Statistic!Nothing /\ stat_map' = Statistic!Nothing
  BY DEF Statistic!Dump, Statistic!OpenFails, Statistic!DiesDumping, Statistic!Dies, Statistic!Over
<1>2. CASE UNCHANGED <<stat_file, past>>
  BY <1>1, <1>2 DEF StatInv, StatTypes, FilesMirror, MemoryMirrors
<1>3. CASE Statistic!Dump \/ Statistic!DiesDumping
  <2>1. phase = "dump" /\ past' = [past EXCEPT ![day] = base \o today]
    BY <1>3 DEF Statistic!Dump, Statistic!DiesDumping, Statistic!HandedDown
  <2>2. PICK file : /\ stat_file' = [stat_file EXCEPT ![day] = file]
                    /\ ~file.torn => file.map = tot_stat_map
    <3>1. CASE Statistic!Dump
      <4> DEFINE file == [req |-> Statistic!Printed(metrics.tot_req), map |-> tot_stat_map, torn |-> FALSE]
      <4>1. stat_file' = [stat_file EXCEPT ![day] = file]
        BY <3>1 DEF Statistic!Dump
      <4>2. file.map = tot_stat_map
        OBVIOUS
      <4> HIDE DEF file
      <4> QED BY <4>1, <4>2
    <3>2. CASE Statistic!DiesDumping
      <4>1. PICK written \in SUBSET DOMAIN tot_stat_map :
              stat_file' = [stat_file EXCEPT ![day] =
                              [req |-> Statistic!Printed(metrics.tot_req), torn |-> TRUE,
                               map |-> [k \in written |-> tot_stat_map[k]]]]
        BY <3>2 DEF Statistic!DiesDumping
      <4> DEFINE file == [req |-> Statistic!Printed(metrics.tot_req), torn |-> TRUE,
                          map |-> [k \in written |-> tot_stat_map[k]]]
      <4>2. file.torn = TRUE
        OBVIOUS
      <4>3. stat_file' = [stat_file EXCEPT ![day] = file]
        BY <4>1
      <4> HIDE DEF file
      <4> QED BY <4>2, <4>3
    <3> QED BY <1>3, <3>1, <3>2
  <2>3. day \in Day /\ base \o today \in Seq(Line) /\ Mirrors(tot_stat_map, base \o today)
    BY <2>1 DEF StatInv, StatTypes, MemoryMirrors
  <2>4. FilesMirror'
    <3> SUFFICES ASSUME NEW d \in Day, stat_file'[d] # NoFile, ~stat_file'[d].torn
                 PROVE  Mirrors(stat_file'[d].map, past'[d])
      BY DEF FilesMirror
    <3>1. CASE d = day
      BY <3>1, <2>1, <2>2, <2>3 DEF StatInv, StatTypes
    <3>2. CASE d # day
      BY <3>2, <2>1, <2>2 DEF StatInv, StatTypes, FilesMirror
    <3> QED BY <3>1, <3>2
  <2>5. StatTypes'
    BY <1>1, <2>1, <2>2, <2>3 DEF StatInv, StatTypes
  <2> QED
    BY <1>1, <2>4, <2>5 DEF StatInv, MemoryMirrors
<1> QED
  BY <1>2, <1>3 DEF Statistic!OpenFails, Statistic!Dies, Statistic!disk

\* Every step keeps the invariant.
LEMMA StatNext == StatInv /\ [Statistic!Next]_statisticVars => StatInv'
<1> SUFFICES ASSUME StatInv, [Statistic!Next]_statisticVars PROVE StatInv'
  OBVIOUS
<1>1. CASE UNCHANGED statisticVars
  BY <1>1 DEF statisticVars, StatInv, StatTypes, FilesMirror, MemoryMirrors
<1>2. CASE Statistic!Next
  BY <1>2, LoadKeeps, ReadKeeps, ReportKeeps, OverKeeps DEF Statistic!Next
<1> QED BY <1>1, <1>2

\* The bytes of distinct keys reported are those of the first line of each, for
\* any traces, days run in any order and again, and deaths in any dump.
THEOREM UniqueBytesAlwaysExact == Spec => []UniqueBytesExact
<1> DEFINE I == subject = "statistic" => StatInv
<1>1. Init => I
  BY StatInit DEF Init
<1>2. I /\ [Next]_<<subject, statisticVars, slicingVars, dirVars>> => I'
  <2> SUFFICES ASSUME I, [Next]_<<subject, statisticVars, slicingVars, dirVars>>,
                      subject' = "statistic"
               PROVE  StatInv'
    OBVIOUS
  <2>1. subject = "statistic" /\ [Statistic!Next]_statisticVars
    BY DEF Next
  <2> QED BY <2>1, StatNext
<1>3. I => UniqueBytesExact
  <2> SUFFICES ASSUME StatInv, phase = "dump"
               PROVE  /\ metrics.uniq = Statistic!Asked(today, FirstLines(today))
                      /\ metrics.tot_uniq = Statistic!Asked(base \o today, FirstLines(base \o today))
    BY DEF UniqueBytesExact, Statistic!UniqueBytesExact, FirstLines
  <2>1. today \in Seq(Line) /\ base \o today \in Seq(Line)
    BY DEF StatInv, StatTypes
  <2> QED
    BY <2>1, MirrorBytes DEF StatInv, MemoryMirrors
<1> QED
  BY <1>1, <1>2, <1>3, PTL DEF Spec

-----------------------------------------------------------------------------
(* Printed totals: powers of the base *)

\* The powers up to the n-th.
IsPowers(n, p) ==
    /\ p \in [0 .. n -> Nat]
    /\ p[0] = 1
    /\ \A i \in 0 .. n - 1 : p[i + 1] = BASE * p[i]

LEMMA BaseFacts == BASE \in Nat /\ BASE > 1 /\ PRECISION \in Nat /\ PRECISION > 0
BY ToolsAssumption DEF ToolsAssumption, Statistic!StatisticAssumption

\* What a power is multiplied by.
LEMMA TimesBase ==
    \A a \in Nat : BASE * a \in Nat /\ (a > 0 => BASE * a > a)
<1> SUFFICES ASSUME NEW a \in Nat PROVE BASE * a \in Nat /\ (a > 0 => BASE * a > a)
  OBVIOUS
<1>1. PICK b \in Nat : BASE = b + 2
  <2>1. BASE - 2 \in Nat /\ BASE = (BASE - 2) + 2
    BY BaseFacts
  <2> QED BY <2>1
<1>2. BASE * a = b * a + a + a /\ b * a \in Nat
  BY <1>1
<1> QED BY <1>2

\* They exist, ...
LEMMA PowersExist == \A n \in Nat : \E p : IsPowers(n, p)
<1> DEFINE Bad == { n \in Nat : ~ \E p : IsPowers(n, p) }
<1>1. SUFFICES ASSUME Bad # {} PROVE FALSE
  OBVIOUS
<1>2. PICK n \in Bad : \A m \in Bad : n <= m
  <2>1. Bad \in SUBSET Nat
    OBVIOUS
  <2> HIDE DEF Bad
  <2> QED BY <1>1, <2>1, SetHasMinimum
<1>3. n \in Nat /\ ~ \E p : IsPowers(n, p)
  BY <1>2
<1>4. CASE n = 0
  <2> DEFINE p == [i \in 0 .. 0 |-> 1]
  <2>1. p \in [0 .. 0 -> Nat] /\ p[0] = 1
    OBVIOUS
  <2>2. \A i \in 0 .. 0 - 1 : FALSE
    OBVIOUS
  <2> HIDE DEF p
  <2>3. IsPowers(0, p)
    BY <2>1, <2>2 DEF IsPowers
  <2> QED BY <2>3, <1>3, <1>4
<1>5. CASE n # 0
  <2>1. n - 1 \in Nat /\ n - 1 \notin Bad
    BY <1>2, <1>3, <1>5
  <2>2. PICK p : IsPowers(n - 1, p)
    BY <2>1
  <2> DEFINE q == [i \in 0 .. n |-> IF i = n THEN BASE * p[n - 1] ELSE p[i]]
  <2>3. p \in [0 .. n - 1 -> Nat] /\ BASE * p[n - 1] \in Nat
    <3>1. p \in [0 .. n - 1 -> Nat] /\ n - 1 \in 0 .. n - 1
      BY <2>1, <2>2 DEF IsPowers
    <3>2. p[n - 1] \in Nat
      BY <3>1
    <3> QED BY <3>1, <3>2, TimesBase
  <2>4. q \in [0 .. n -> Nat]
    BY <1>3, <2>3
  <2>5. q[0] = 1
    BY <1>3, <1>5, <2>2 DEF IsPowers
  <2>6. ASSUME NEW i \in 0 .. n - 1 PROVE q[i + 1] = BASE * q[i]
    <3>1. CASE i = n - 1
      <4>1. i + 1 = n /\ i # n /\ n \in 0 .. n /\ i \in 0 .. n
        BY <1>3, <3>1
      <4> QED BY <4>1, <3>1
    <3>2. CASE i # n - 1
      <4>1. i \in 0 .. (n - 1) - 1 /\ i + 1 \in 0 .. n /\ i + 1 # n /\ i # n /\ i \in 0 .. n
        BY <1>3, <3>2
      <4>2. p[i + 1] = BASE * p[i]
        BY <4>1, <2>2 DEF IsPowers
      <4> QED BY <4>1, <4>2
    <3> QED BY <3>1, <3>2
  <2> HIDE DEF q
  <2>7. IsPowers(n, q)
    BY <2>4, <2>5, <2>6 DEF IsPowers
  <2> QED BY <2>7, <1>3
<1> QED BY <1>4, <1>5

\* ... and there is one way to follow them.
LEMMA PowersAgree ==
    \A m, n \in Nat : \A p, q : IsPowers(m, p) /\ IsPowers(n, q) =>
        \A i \in Nat : i <= m /\ i <= n => p[i] = q[i]
<1> SUFFICES ASSUME NEW m \in Nat, NEW n \in Nat, NEW p, NEW q, IsPowers(m, p), IsPowers(n, q)
             PROVE  \A i \in Nat : i <= m /\ i <= n => p[i] = q[i]
  OBVIOUS
<1> DEFINE Bad == { i \in Nat : i <= m /\ i <= n /\ p[i] # q[i] }
<1>1. SUFFICES ASSUME Bad # {} PROVE FALSE
  OBVIOUS
<1>2. PICK i \in Bad : \A j \in Bad : i <= j
  <2>1. Bad \in SUBSET Nat
    OBVIOUS
  <2> HIDE DEF Bad
  <2> QED BY <1>1, <2>1, SetHasMinimum
<1>3. i \in Nat /\ i # 0
  BY <1>2 DEF IsPowers
<1>4. i - 1 \in Nat /\ i - 1 \notin Bad /\ i - 1 <= m /\ i - 1 <= n
  BY <1>2, <1>3
<1>5. p[i - 1] = q[i - 1]
  BY <1>4
<1>6. i - 1 \in 0 .. m - 1 /\ i - 1 \in 0 .. n - 1 /\ (i - 1) + 1 = i
  BY <1>2, <1>3
<1>7. p[i] = BASE * p[i - 1] /\ q[i] = BASE * q[i - 1]
  BY <1>6 DEF IsPowers
<1> QED BY <1>2, <1>5, <1>7

\* The recursion has a solution, and it is what the definition chooses.
LEMMA PowerStep ==
    Statistic!Power = [n \in Nat |-> IF n = 0 THEN 1 ELSE BASE * Statistic!Power[n - 1]]
<1> DEFINE Step(f) == [n \in Nat |-> IF n = 0 THEN 1 ELSE BASE * f[n - 1]]
           up(n) == CHOOSE p : IsPowers(n, p)
           g == [n \in Nat |-> up(n)[n]]
<1>1. \A n \in Nat : IsPowers(n, up(n))
  BY PowersExist
<1> HIDE DEF up
<1>2. ASSUME NEW n \in Nat PROVE g[n] = IF n = 0 THEN 1 ELSE BASE * g[n - 1]
  <2>1. CASE n = 0
    BY <2>1, <1>1 DEF IsPowers
  <2>2. CASE n # 0
    <3>1. n - 1 \in Nat /\ n - 1 \in 0 .. n - 1 /\ (n - 1) + 1 = n
      BY <2>2
    <3>2. up(n)[n] = BASE * up(n)[n - 1]
      BY <1>1, <3>1 DEF IsPowers
    <3>3. up(n)[n - 1] = up(n - 1)[n - 1]
      BY <1>1, <3>1, PowersAgree
    <3> QED BY <2>2, <3>1, <3>2, <3>3
  <2> QED BY <2>1, <2>2
<1>3. g = Step(g)
  <2> HIDE DEF g
  <2>1. g = [n \in Nat |-> g[n]]
    BY DEF g
  <2> QED BY <1>2, <2>1
<1>4. Statistic!Power = CHOOSE f : f = Step(f)
  BY Zenon DEF Statistic!Power
<1> HIDE DEF Step, g
<1>5. Statistic!Power = Step(Statistic!Power)
  BY <1>3, <1>4
<1> QED BY <1>5 DEF Step

LEMMA PowerFacts ==
    /\ Statistic!Power[0] = 1
    /\ \A n \in Nat : Statistic!Power[n + 1] = BASE * Statistic!Power[n]
<1>1. \A n \in Nat : n + 1 \in Nat /\ n + 1 # 0 /\ (n + 1) - 1 = n
  OBVIOUS
<1>2. \A n \in Nat : Statistic!Power[n] = IF n = 0 THEN 1 ELSE BASE * Statistic!Power[n - 1]
  BY PowerStep
<1> QED BY <1>1, <1>2

\* A power is larger than its exponent.
LEMMA PowerGrows ==
    \A n \in Nat : Statistic!Power[n] \in Nat /\ Statistic!Power[n] > n
<1> DEFINE P(n) == Statistic!Power[n]
           Bad == { n \in Nat : ~(P(n) \in Nat /\ P(n) > n) }
<1>0. P(0) = 1 /\ \A n \in Nat : P(n + 1) = BASE * P(n)
  BY PowerFacts
<1> HIDE DEF P
<1>1. SUFFICES ASSUME Bad # {} PROVE FALSE
  BY DEF P
<1>2. PICK n \in Bad : \A m \in Bad : n <= m
  <2>1. Bad \in SUBSET Nat
    OBVIOUS
  <2> HIDE DEF Bad
  <2> QED BY <1>1, <2>1, SetHasMinimum
<1>3. n \in Nat /\ n # 0
  BY <1>0, <1>2
<1>4. n - 1 \in Nat /\ (n - 1) + 1 = n /\ n - 1 \notin Bad
  BY <1>2, <1>3
<1>5. P(n - 1) \in Nat /\ P(n - 1) > n - 1 /\ P(n) = BASE * P(n - 1)
  BY <1>0, <1>4
<1>6. P(n) \in Nat /\ P(n) > P(n - 1)
  BY <1>4, <1>5, TimesBase
<1> QED BY <1>2, <1>3, <1>5, <1>6

\* Powers are in the order of their exponents, ...
LEMMA PowerOrder ==
    \A m, n \in Nat : m <= n => Statistic!Power[m] <= Statistic!Power[n]
<1> DEFINE P(n) == Statistic!Power[n]
<1>0. \A n \in Nat : P(n) \in Nat /\ P(n) > 0 /\ P(n + 1) = BASE * P(n)
  BY PowerFacts, PowerGrows
<1> HIDE DEF P
<1> SUFFICES ASSUME NEW m \in Nat PROVE \A n \in Nat : m <= n => P(m) <= P(n)
  BY DEF P
<1> DEFINE Bad == { n \in Nat : m <= n /\ ~(P(m) <= P(n)) }
<1>1. SUFFICES ASSUME Bad # {} PROVE FALSE
  OBVIOUS
<1>2. PICK n \in Bad : \A j \in Bad : n <= j
  <2>1. Bad \in SUBSET Nat
    OBVIOUS
  <2> HIDE DEF Bad
  <2> QED BY <1>1, <2>1, SetHasMinimum
<1>3. n \in Nat /\ m <= n /\ m # n
  BY <1>0, <1>2
<1>4. n - 1 \in Nat /\ (n - 1) + 1 = n /\ m <= n - 1 /\ n - 1 \notin Bad
  BY <1>2, <1>3
<1>5. P(m) <= P(n - 1) /\ P(n) = BASE * P(n - 1)
  BY <1>0, <1>4
<1>6. P(n) > P(n - 1)
  BY <1>0, <1>4, <1>5, TimesBase
<1> QED BY <1>0, <1>2, <1>3, <1>4, <1>5, <1>6

\* ... and multiply by adding them.
LEMMA PowerOfSum ==
    \A m, n \in Nat : Statistic!Power[m + n] = Statistic!Power[m] * Statistic!Power[n]
<1> DEFINE P(n) == Statistic!Power[n]
<1>0. P(0) = 1 /\ \A n \in Nat : P(n) \in Nat /\ P(n + 1) = BASE * P(n)
  BY PowerFacts, PowerGrows
<1> HIDE DEF P
<1> SUFFICES ASSUME NEW m \in Nat PROVE \A n \in Nat : P(m + n) = P(m) * P(n)
  BY DEF P
<1> DEFINE Bad == { n \in Nat : P(m + n) # P(m) * P(n) }
<1>1. SUFFICES ASSUME Bad # {} PROVE FALSE
  OBVIOUS
<1>2. PICK n \in Bad : \A j \in Bad : n <= j
  <2>1. Bad \in SUBSET Nat
    OBVIOUS
  <2> HIDE DEF Bad
  <2> QED BY <1>1, <2>1, SetHasMinimum
<1>3. n \in Nat /\ n # 0
  <2>1. m + 0 = m /\ P(m) * 1 = P(m)
    BY <1>0
  <2> QED BY <1>0, <1>2, <2>1
<1>4. n - 1 \in Nat /\ (n - 1) + 1 = n /\ m + (n - 1) \in Nat /\ (m + (n - 1)) + 1 = m + n
      /\ n - 1 \notin Bad
  BY <1>2, <1>3
<1>5. P(m + n) = BASE * P(m + (n - 1)) /\ P(n) = BASE * P(n - 1)
      /\ P(m + (n - 1)) = P(m) * P(n - 1)
  BY <1>0, <1>4
<1>6. \A a, b, c \in Nat : a * (b * c) = b * (a * c)
  OBVIOUS
<1>7. P(m) \in Nat /\ P(n - 1) \in Nat /\ BASE \in Nat
  BY <1>0, <1>4, BaseFacts
<1>8. BASE * (P(m) * P(n - 1)) = P(m) * (BASE * P(n - 1))
  BY <1>6, <1>7
<1> QED BY <1>2, <1>5, <1>8

\* The unit is a power, the least that leaves no more than the digits there are.
LEMMA UnitFacts ==
    \A x \in Nat : \E e \in Nat :
        /\ Statistic!Unit(x) = Statistic!Power[e]
        /\ x < Statistic!Power[e + PRECISION]
        /\ \A f \in Nat : f < e => x >= Statistic!Power[f + PRECISION]
<1> SUFFICES ASSUME NEW x \in Nat
             PROVE  \E e \in Nat :
                        /\ Statistic!Unit(x) = Statistic!Power[e]
                        /\ x < Statistic!Power[e + PRECISION]
                        /\ \A f \in Nat : f < e => x >= Statistic!Power[f + PRECISION]
  OBVIOUS
<1> DEFINE P(n) == Statistic!Power[n]
           S == { e \in Nat : x < P(e + PRECISION) }
           Fits(e) == x < P(e + PRECISION) /\ \A f \in 0 .. e - 1 : x >= P(f + PRECISION)
<1>0. \A n \in Nat : P(n) \in Nat /\ P(n) > n
  BY PowerGrows
<1>1. Statistic!Unit(x) = P(CHOOSE e \in 0 .. x : Fits(e))
  BY Zenon DEF Statistic!Unit
<1> HIDE DEF P
<1>2. S \in SUBSET Nat /\ x \in S
  <2>1. x + PRECISION \in Nat /\ x + PRECISION >= x
    BY BaseFacts
  <2> QED BY <2>1, <1>0
<1>3. PICK e \in S : \A f \in S : e <= f
  <2> HIDE DEF S
  <2> QED BY <1>2, SetHasMinimum
<1>4. e \in 0 .. x /\ Fits(e)
  <2>1. e \in Nat /\ e <= x
    BY <1>2, <1>3
  <2>2. ASSUME NEW f \in 0 .. e - 1 PROVE x >= P(f + PRECISION)
    <3>1. f \in Nat /\ f \notin S /\ f + PRECISION \in Nat
      BY <2>1, <1>3, BaseFacts
    <3>2. P(f + PRECISION) \in Nat
      BY <3>1, <1>0
    <3> QED BY <3>1, <3>2
  <2> QED BY <2>1, <2>2, <1>3
<1> DEFINE c == CHOOSE e2 \in 0 .. x : Fits(e2)
<1>5. c \in 0 .. x /\ Fits(c)
  <2> HIDE DEF Fits
  <2> QED BY <1>4
<1> HIDE DEF c
<1>6. c \in Nat /\ x < P(c + PRECISION) /\ \A f \in Nat : f < c => x >= P(f + PRECISION)
  <2>1. c \in Nat /\ \A f \in Nat : f < c => f \in 0 .. c - 1
    BY <1>5
  <2> QED BY <1>5, <2>1
<1>7. Statistic!Unit(x) = P(c)
  BY <1>1 DEF c
<1> QED BY <1>6, <1>7 DEF P

LEMMA UnitType == \A x \in Nat : Statistic!Unit(x) \in Nat /\ Statistic!Unit(x) > 0
BY UnitFacts, PowerGrows

\* What is no less is printed in no smaller units.
LEMMA UnitOrder ==
    \A x, y \in Nat : x <= y => Statistic!Unit(x) <= Statistic!Unit(y)
<1> SUFFICES ASSUME NEW x \in Nat, NEW y \in Nat, x <= y
             PROVE  Statistic!Unit(x) <= Statistic!Unit(y)
  OBVIOUS
<1>1. PICK e \in Nat : /\ Statistic!Unit(x) = Statistic!Power[e]
                       /\ \A f \in Nat : f < e => x >= Statistic!Power[f + PRECISION]
  BY UnitFacts
<1>2. PICK f \in Nat : /\ Statistic!Unit(y) = Statistic!Power[f]
                       /\ y < Statistic!Power[f + PRECISION]
  BY UnitFacts
<1>3. f + PRECISION \in Nat /\ Statistic!Power[f + PRECISION] \in Nat
  BY BaseFacts, PowerGrows
<1>4. ~(f < e)
  BY <1>1, <1>2, <1>3
<1>5. Statistic!Power[e] <= Statistic!Power[f]
  BY <1>4, PowerOrder
<1> QED BY <1>1, <1>2, <1>5

\* Rounding to a multiple of a unit: by half a unit at most, and not past a multiple.
LEMMA DivisionFacts ==
    \A x, u \in Nat : u > 0 =>
        /\ x \div u \in Nat /\ x % u \in Nat /\ x % u < u
        /\ x = ((x \div u) * u) + (x % u)
OBVIOUS

LEMMA PrintedFacts ==
    \A x \in Nat :
        LET p == Statistic!Printed(x)
            u == Statistic!Unit(x)
        IN  /\ p \in Nat /\ 2 * (p - x) <= u /\ 2 * (x - p) <= u
            /\ \A z \in Nat : u * z <= x => u * z <= p
<1> SUFFICES ASSUME NEW x \in Nat
             PROVE  LET p == Statistic!Printed(x)
                        u == Statistic!Unit(x)
                    IN  /\ p \in Nat /\ 2 * (p - x) <= u /\ 2 * (x - p) <= u
                        /\ \A z \in Nat : u * z <= x => u * z <= p
  OBVIOUS
<1> DEFINE u == Statistic!Unit(x)
           q == x \div u
           r == x % u
           p == Statistic!Printed(x)
<1>1. u \in Nat /\ u > 0
  BY UnitType
<1>2. p = IF 2 * r < u \/ (2 * r = u /\ q % 2 = 0) THEN q * u ELSE (q + 1) * u
  BY DEF Statistic!Printed
<1> HIDE DEF u, p
<1>3. q \in Nat /\ r \in Nat /\ r < u /\ x = q * u + r
  BY <1>1, DivisionFacts
<1> HIDE DEF q, r
<1>4. q * u \in Nat /\ (q + 1) * u = q * u + u
  BY <1>1, <1>3
<1>5. p = q * u \/ p = q * u + u
  BY <1>2, <1>4
<1>6. p \in Nat /\ 2 * (p - x) <= u /\ 2 * (x - p) <= u
  <2> DEFINE w == q * u
  <2>1. w \in Nat /\ x = w + r /\ (p = IF 2 * r < u \/ (2 * r = u /\ q % 2 = 0) THEN w ELSE w + u)
    BY <1>2, <1>3, <1>4
  <2> HIDE DEF w
  <2> QED BY <2>1, <1>1, <1>3
<1>7. ASSUME NEW z \in Nat, u * z <= x PROVE u * z <= p
  <2>1. z <= q
    <3> SUFFICES ASSUME z > q PROVE FALSE
      BY <1>3
    <3>1. PICK y \in Nat : z = q + 1 + y
      <4>1. z - q - 1 \in Nat /\ z = q + 1 + (z - q - 1)
        BY <1>3
      <4> QED BY <4>1
    <3>2. u * z = q * u + u + u * y /\ u * y \in Nat
      BY <3>1, <1>1, <1>3
    <3> QED BY <3>2, <1>7, <1>1, <1>3, <1>4
  <2>2. PICK y \in Nat : q = z + y
    <3>1. q - z \in Nat /\ q = z + (q - z)
      BY <2>1, <1>3
    <3> QED BY <3>1
  <2>3. q * u = u * z + u * y /\ u * y \in Nat /\ u * z \in Nat
    BY <2>2, <1>1
  <2> QED BY <2>3, <1>5, <1>4, <1>1
<1> QED BY <1>6, <1>7 DEF p, u

\* A printed total has not come down in its units.
LEMMA PrintedUnit == \A x \in Nat : Statistic!Unit(x) <= Statistic!Unit(Statistic!Printed(x))
<1> SUFFICES ASSUME NEW x \in Nat PROVE Statistic!Unit(x) <= Statistic!Unit(Statistic!Printed(x))
  OBVIOUS
<1> DEFINE p == Statistic!Printed(x)
<1>1. p \in Nat /\ \A z \in Nat : Statistic!Unit(x) * z <= x => Statistic!Unit(x) * z <= p
  BY PrintedFacts
<1> HIDE DEF p
<1>2. PICK e \in Nat : /\ Statistic!Unit(x) = Statistic!Power[e]
                       /\ \A f \in Nat : f < e => x >= Statistic!Power[f + PRECISION]
  BY UnitFacts
<1>3. PICK g \in Nat : /\ Statistic!Unit(p) = Statistic!Power[g]
                       /\ p < Statistic!Power[g + PRECISION]
  BY <1>1, UnitFacts
<1>4. e <= g
  <2> SUFFICES ASSUME g < e PROVE FALSE
    OBVIOUS
  <2> DEFINE d == PRECISION - 1
  <2>1. d \in Nat /\ e - 1 \in Nat /\ (e - 1) + PRECISION = e + d /\ e - 1 < e
    BY BaseFacts
  <2> HIDE DEF d
  <2>2. Statistic!Power[e + d] = Statistic!Power[e] * Statistic!Power[d] /\ Statistic!Power[d] \in Nat
    BY <2>1, PowerOfSum, PowerGrows
  <2>3. x >= Statistic!Power[e + d]
    BY <1>2, <2>1
  <2>4. e + d \in Nat /\ Statistic!Power[e + d] \in Nat
    BY <2>1, PowerGrows
  <2>5. Statistic!Power[e + d] <= p
    BY <1>1, <1>2, <2>2, <2>3, <2>4
  <2>6. g + PRECISION \in Nat /\ g + PRECISION <= e + d
    BY <2>1, BaseFacts
  <2>7. Statistic!Power[g + PRECISION] <= Statistic!Power[e + d] /\ Statistic!Power[g + PRECISION] \in Nat
    BY <2>6, <2>4, PowerOrder, PowerGrows
  <2> QED BY <1>1, <1>3, <2>4, <2>5, <2>7
<1>5. Statistic!Power[e] <= Statistic!Power[g]
  BY <1>4, PowerOrder
<1> QED BY <1>2, <1>3, <1>5 DEF p

-----------------------------------------------------------------------------
(* The total of the requested bytes *)

Total(t) == Statistic!Asked(t, DOMAIN t)

\* What a line more adds to the total.
LEMMA TotalNothing == Total(<< >>) = 0
<1>1. << >> \in Seq(Line) /\ Len(<< >>) = 0 /\ DOMAIN << >> = {} /\ {} \in SUBSET (1 .. Len(<< >>))
  OBVIOUS
<1> QED BY <1>1, AskedIsSum, SumNothing DEF Total

LEMMA TotalGrows ==
    ASSUME NEW t \in Seq(Line), NEW e \in Line
    PROVE  Total(t) \in Nat /\ Total(Append(t, e)) = Total(t) + e.size
<1> DEFINE u == Append(t, e)
           v == [i \in 1 .. Len(t) |-> t[i].size]
           w == [i \in 1 .. Len(u) |-> u[i].size]
           S == 1 .. Len(t)
           T == 1 .. Len(u)
           n == Len(t) + 1
<1>1. /\ u \in Seq(Line) /\ Len(u) = n /\ n \in Nat /\ n \in T /\ n \notin S
      /\ T \ {n} = S /\ S \in SUBSET T /\ u[n] = e /\ \A i \in S : u[i] = t[i]
      /\ DOMAIN t = S /\ DOMAIN u = T
  OBVIOUS
<1> HIDE DEF u, n
<1>2. (\A i \in S : v[i] \in Nat) /\ \A i \in T : w[i] \in Nat
  BY <1>1, SizesOfLines
<1>3. IsFiniteSet(S) /\ IsFiniteSet(T)
  BY <1>1, FS_Interval
<1>4. Total(t) = SumOf(v, S) /\ Total(u) = SumOf(w, T)
  BY <1>1, AskedIsSum DEF Total
<1>5. w[n] = e.size /\ \A i \in S : v[i] = w[i]
  BY <1>1
<1> HIDE DEF v, w, S, T
<1>6. SumOf(w, T) = w[n] + SumOf(w, S)
  <2>1. SumOf(w, T) = w[n] + SumOf(w, T \ {n})
    <3>1. IsFiniteSet(T) /\ (\A i \in T : w[i] \in Nat) /\ n \in T
      BY <1>1, <1>2, <1>3
    <3> QED BY <3>1, SumOneLess
  <2> QED BY <2>1, <1>1
<1>7. SumOf(w, S) = SumOf(v, S)
  <2> DEFINE f == [i \in S |-> i]
  <2>1. f \in [S -> S] /\ (\A y \in S : \E x \in S : f[x] = y)
        /\ (\A x, y \in S : f[x] = f[y] => x = y) /\ (\A x \in S : v[x] = w[f[x]])
    BY <1>5
  <2>2. Renames(f, S, v, S, w)
    <3> HIDE DEF f
    <3> QED BY <2>1 DEF Renames
  <2>3. \A i \in S : w[i] \in Nat
    BY <1>1, <1>2
  <2> HIDE DEF f
  <2> QED BY <2>2, <2>3, <1>2, <1>3, SumRenamed
<1>8. SumOf(v, S) \in Nat
  BY <1>2, <1>3, SumFacts
<1>9. e.size \in Nat
  BY SizesAreNumbers DEF Line
<1> QED BY <1>4, <1>5, <1>6, <1>7, <1>8, <1>9 DEF u

\* No further apart than half of n.
Off(a, b, n) == 2 * (a - b) <= n /\ 2 * (b - a) <= n

\* How often the total that was loaded has been printed.
Handed == IF input = NoFile THEN 0 ELSE dumps[day - 1]

\* The strengthening of RequestTotalDrifts: half a unit per file, wherever a total
\* is kept, and the bytes of today are those of the lines read.
DriftInv ==
    /\ dumps \in [Day -> Nat]
    /\ \A d \in Day : stat_file[d] # NoFile /\ ~stat_file[d].torn =>
         /\ stat_file[d].req \in Nat
         /\ Off(stat_file[d].req, Total(past[d]), dumps[d] * Statistic!Unit(stat_file[d].req))
    /\ phase \in {"off", "load"} => last_tot_req = 0 /\ request_bytes = 0
    /\ phase \in {"read", "dump"} =>
         /\ last_tot_req \in Nat /\ request_bytes \in Nat /\ Handed \in Nat
         /\ input # NoFile => day - 1 \in Day
         /\ Total(base) \in Nat /\ Total(base \o today) = Total(base) + request_bytes
         /\ Off(last_tot_req, Total(base), Handed * Statistic!Unit(last_tot_req))
    /\ phase = "dump" => metrics.tot_req = last_tot_req + request_bytes

LEMMA TotalType == \A t \in Seq(Line) : Total(t) \in Nat
<1> SUFFICES ASSUME NEW t \in Seq(Line) PROVE Total(t) \in Nat
  OBVIOUS
<1> DEFINE v == [i \in 1 .. Len(t) |-> t[i].size]
           S == 1 .. Len(t)
<1>1. IsFiniteSet(S) /\ (\A i \in S : v[i] \in Nat) /\ S \in SUBSET S /\ DOMAIN t = S
  BY FS_Interval, SizesOfLines
<1>2. Total(t) = SumOf(v, S)
  BY <1>1, AskedIsSum DEF Total
<1> HIDE DEF v, S
<1> QED BY <1>1, <1>2, SumFacts

\* What is true of a total stays true as it grows.
LEMMA OffGrows ==
    \A a, b, c, h \in Nat : Off(a, b, h * Statistic!Unit(a)) =>
        Off(a + c, b + c, h * Statistic!Unit(a + c))
<1> SUFFICES ASSUME NEW a \in Nat, NEW b \in Nat, NEW c \in Nat, NEW h \in Nat,
                    Off(a, b, h * Statistic!Unit(a))
             PROVE  Off(a + c, b + c, h * Statistic!Unit(a + c))
  OBVIOUS
<1> DEFINE u == Statistic!Unit(a)
           w == Statistic!Unit(a + c)
<1>1. u \in Nat /\ w \in Nat /\ u <= w
  <2>1. a + c \in Nat /\ a <= a + c
    OBVIOUS
  <2> QED BY <2>1, UnitType, UnitOrder
<1> HIDE DEF u, w
<1>2. h * u <= h * w /\ h * u \in Nat /\ h * w \in Nat
  <2>1. PICK d \in Nat : w = u + d
    <3>1. w - u \in Nat /\ w = u + (w - u)
      BY <1>1
    <3> QED BY <3>1
  <2>2. h * w = h * u + h * d /\ h * d \in Nat /\ h * u \in Nat
    BY <2>1, <1>1
  <2> QED BY <2>2
<1>3. Off(a, b, h * u)
  BY DEF u
<1>4. Off(a + c, b + c, h * w)
  BY <1>2, <1>3 DEF Off
<1> QED BY <1>4 DEF w

\* Printed once more, a total is off by half a unit more.
LEMMA OffPrinted ==
    \A x, b, h \in Nat : Off(x, b, h * Statistic!Unit(x)) =>
        LET p == Statistic!Printed(x) IN Off(p, b, (h + 1) * Statistic!Unit(p))
<1> SUFFICES ASSUME NEW x \in Nat, NEW b \in Nat, NEW h \in Nat, Off(x, b, h * Statistic!Unit(x))
             PROVE  LET p == Statistic!Printed(x) IN Off(p, b, (h + 1) * Statistic!Unit(p))
  OBVIOUS
<1> DEFINE p == Statistic!Printed(x)
           u == Statistic!Unit(x)
           w == Statistic!Unit(p)
<1>1. p \in Nat /\ 2 * (p - x) <= u /\ 2 * (x - p) <= u
  BY PrintedFacts
<1>2. u \in Nat /\ w \in Nat /\ u <= w
  BY <1>1, UnitType, PrintedUnit
<1>3. Off(x, b, h * u)
  OBVIOUS
<1> HIDE DEF p, u, w
<1>4. (h + 1) * w >= h * u + u /\ h * u \in Nat /\ (h + 1) * w \in Nat
  <2>1. PICK d \in Nat : w = u + d
    <3>1. w - u \in Nat /\ w = u + (w - u)
      BY <1>2
    <3> QED BY <3>1
  <2>2. (h + 1) * w = h * u + h * d + u + d /\ h * d \in Nat /\ h * u \in Nat
    BY <2>1, <1>2
  <2> QED BY <2>2, <1>2
<1>5. Off(p, b, (h + 1) * w)
  BY <1>1, <1>2, <1>3, <1>4 DEF Off
<1> QED BY <1>5 DEF p, w

LEMMA DriftInit == Statistic!Init => DriftInv
BY DEF Statistic!Init, DriftInv

\* Before the first line is read.
LEMMA DriftLoad ==
    ASSUME StatInv, DriftInv,
           \/ \E d \in Day : Statistic!StartDay(d)
           \/ Statistic!LoadNothing \/ Statistic!LoadFile \/ Statistic!LoadLoops
    PROVE  DriftInv'
<1>0. base \in Seq(Line) /\ today \in Seq(Line)
  BY DEF StatInv, StatTypes
<1>1. CASE \E d \in Day : Statistic!StartDay(d)
  <2>1. /\ phase = "off" /\ phase' = "load"
        /\ UNCHANGED <<last_tot_req, request_bytes, stat_file, past, dumps>>
    BY <1>1 DEF Statistic!StartDay, Statistic!memory, Statistic!disk
  <2> QED BY <2>1 DEF DriftInv
<1>2. CASE Statistic!LoadNothing
  <2>1. /\ phase = "load" /\ phase' = "read" /\ input' = NoFile
        /\ UNCHANGED <<day, last_tot_req, request_bytes, base, today, stat_file, past, dumps>>
    BY <1>2 DEF Statistic!LoadNothing, Statistic!memory, Statistic!disk
  <2>2. base = << >> /\ base \o today = << >> /\ last_tot_req = 0 /\ request_bytes = 0
    BY <2>1 DEF StatInv, MemoryMirrors, DriftInv
  <2>3. Handed' = 0 /\ Statistic!Unit(0) \in Nat /\ 0 * Statistic!Unit(0) = 0
    BY <2>1, UnitType DEF Handed
  <2>4. Off(0, 0, 0)
    BY DEF Off
  <2>5. /\ last_tot_req' = 0 /\ request_bytes' = 0 /\ base' = << >> /\ base' \o today' = << >>
    BY <2>1, <2>2
  <2>6. Off(last_tot_req', Total(base'), Handed' * Statistic!Unit(last_tot_req'))
    BY <2>3, <2>4, <2>5, TotalNothing
  <2>7. Total(base') \in Nat /\ Total(base' \o today') = Total(base') + request_bytes'
    BY <2>5, TotalNothing
  <2> QED BY <2>1, <2>3, <2>5, <2>6, <2>7 DEF DriftInv, Total
<1>3. CASE Statistic!LoadFile
  <2>1. /\ phase = "load" /\ phase' = "read" /\ input # NoFile /\ ~input.torn
        /\ last_tot_req' = input.req /\ base' = past[day - 1]
        /\ UNCHANGED <<day, input, request_bytes, today, stat_file, past, dumps>>
    BY <1>3 DEF Statistic!LoadFile, Statistic!LoopOver, Statistic!disk
  <2>2. day - 1 \in Day /\ input = stat_file[day - 1] /\ today = << >> /\ request_bytes = 0
    BY <2>1 DEF StatInv, MemoryMirrors, DriftInv
  <2>3. base' \in Seq(Line) /\ base' \o today' = base'
    BY <2>1, <2>2, ConcatEmptySeq DEF StatInv, StatTypes
  <2>4. Total(base') \in Nat /\ Total(base' \o today') = Total(base') + request_bytes'
    <3>1. Total(base') \in Nat
      BY <2>3, TotalType
    <3> QED BY <3>1, <2>1, <2>2, <2>3
  <2>5. Handed' = dumps[day - 1] /\ dumps[day - 1] \in Nat
    BY <2>1, <2>2 DEF Handed, DriftInv
  <2>6. last_tot_req' \in Nat /\ Off(last_tot_req', Total(base'), Handed' * Statistic!Unit(last_tot_req'))
    BY <2>1, <2>2, <2>5 DEF DriftInv
  <2>7. phase' \notin {"off", "load", "dump"} /\ request_bytes' \in Nat
    BY <2>1, <2>2
  <2> QED BY <2>1, <2>2, <2>4, <2>5, <2>6, <2>7 DEF DriftInv, Total
<1>4. CASE Statistic!LoadLoops
  <2>1. /\ phase' = "looping" /\ UNCHANGED <<stat_file, past, dumps>>
    BY <1>4 DEF Statistic!LoadLoops, Statistic!disk
  <2> QED BY <2>1 DEF DriftInv
<1> QED BY <1>1, <1>2, <1>3, <1>4

\* A line is read, and the day is reported.
LEMMA DriftRead ==
    ASSUME StatInv, DriftInv, NEW k \in Key, NEW s \in Size, Statistic!ReadLine(k, s)
    PROVE  DriftInv'
<1> DEFINE e == [key |-> k, size |-> s]
<1>1. /\ phase = "read" /\ phase' = "read" /\ today' = Append(today, e)
      /\ request_bytes' = request_bytes + e.size
      /\ UNCHANGED <<day, input, last_tot_req, base, stat_file, past, dumps>>
  BY DEF Statistic!ReadLine, Statistic!disk
<1>2. today \in Seq(Line) /\ base \in Seq(Line) /\ e \in Line /\ e.size \in Nat
  BY SizesAreNumbers DEF StatInv, StatTypes, Line
<1> HIDE DEF e
<1>3. base \o today \in Seq(Line) /\ base' \o today' = Append(base \o today, e)
  BY <1>1, <1>2
<1>4. Total(base' \o today') = Total(base \o today) + e.size
  BY <1>2, <1>3, TotalGrows
<1>5. /\ last_tot_req \in Nat /\ request_bytes \in Nat /\ Handed \in Nat
      /\ Total(base) \in Nat /\ Total(base \o today) = Total(base) + request_bytes
      /\ Off(last_tot_req, Total(base), Handed * Statistic!Unit(last_tot_req))
  BY <1>1 DEF DriftInv
<1>6. request_bytes' \in Nat /\ Total(base' \o today') = Total(base') + request_bytes'
  BY <1>1, <1>2, <1>4, <1>5
<1>7. Handed' = Handed
  BY <1>1 DEF Handed
<1>8. Off(last_tot_req', Total(base'), Handed' * Statistic!Unit(last_tot_req'))
  BY <1>1, <1>5, <1>7
<1> QED BY <1>1, <1>5, <1>6, <1>7, <1>8 DEF DriftInv, Total

LEMMA DriftReport ==
    ASSUME StatInv, DriftInv, Statistic!Report
    PROVE  DriftInv'
<1>1. /\ phase = "read" /\ phase' = "dump" /\ metrics'.tot_req = last_tot_req + request_bytes
      /\ UNCHANGED <<day, input, last_tot_req, request_bytes, base, today, stat_file, past, dumps>>
  BY DEF Statistic!Report, Statistic!TotalRequests, Statistic!memory, Statistic!disk
<1> QED BY <1>1 DEF DriftInv, Handed, Total

\* The total that is dumped, before it is printed.
LEMMA DumpedTotal ==
    ASSUME StatInv, DriftInv, phase = "dump"
    PROVE  /\ metrics.tot_req \in Nat /\ Total(base \o today) \in Nat /\ Handed \in Nat
           /\ Off(metrics.tot_req, Total(base \o today), Handed * Statistic!Unit(metrics.tot_req))
BY OffGrows DEF DriftInv

\* The call is over: the file of the day is written, in part, or not at all.
LEMMA DriftOver ==
    ASSUME StatInv, DriftInv,
           \/ Statistic!Dump \/ Statistic!OpenFails \/ Statistic!DiesDumping \/ Statistic!Dies
    PROVE  DriftInv'
<1>1. phase' = "off" /\ last_tot_req' = 0 /\ request_bytes' = 0
  BY DEF Statistic!Dump, Statistic!OpenFails, Statistic!DiesDumping, Statistic!Dies, Statistic!Over
<1>2. CASE UNCHANGED <<stat_file, past, dumps>>
  BY <1>1, <1>2 DEF DriftInv
<1>3. CASE Statistic!Dump \/ Statistic!DiesDumping
  <2>1. /\ phase = "dump" /\ past' = [past EXCEPT ![day] = base \o today]
        /\ dumps' = [dumps EXCEPT ![day] = IF input = NoFile THEN 1 ELSE dumps[day - 1] + 1]
    BY <1>3 DEF Statistic!Dump, Statistic!DiesDumping, Statistic!HandedDown
  <2>2. PICK file : /\ stat_file' = [stat_file EXCEPT ![day] = file]
                    /\ file.req = Statistic!Printed(metrics.tot_req)
    <3>1. CASE Statistic!Dump
      <4> DEFINE file == [req |-> Statistic!Printed(metrics.tot_req), map |-> tot_stat_map, torn |-> FALSE]
      <4>1. stat_file' = [stat_file EXCEPT ![day] = file]
        BY <3>1 DEF Statistic!Dump
      <4>2. file.req = Statistic!Printed(metrics.tot_req)
        OBVIOUS
      <4> HIDE DEF file
      <4> QED BY <4>1, <4>2
    <3>2. CASE Statistic!DiesDumping
      <4>1. PICK written \in SUBSET DOMAIN tot_stat_map :
              stat_file' = [stat_file EXCEPT ![day] =
                              [req |-> Statistic!Printed(metrics.tot_req), torn |-> TRUE,
                               map |-> [k \in written |-> tot_stat_map[k]]]]
        BY <3>2 DEF Statistic!DiesDumping
      <4> DEFINE file == [req |-> Statistic!Printed(metrics.tot_req), torn |-> TRUE,
                          map |-> [k \in written |-> tot_stat_map[k]]]
      <4>2. file.req = Statistic!Printed(metrics.tot_req)
        OBVIOUS
      <4>3. stat_file' = [stat_file EXCEPT ![day] = file]
        BY <4>1
      <4> HIDE DEF file
      <4> QED BY <4>2, <4>3
    <3> QED BY <1>3, <3>1, <3>2
  <2> DEFINE x == metrics.tot_req
             p == Statistic!Printed(x)
  <2>3. /\ x \in Nat /\ Handed \in Nat /\ p \in Nat
        /\ Off(p, Total(base \o today), (Handed + 1) * Statistic!Unit(p))
    BY <2>1, DumpedTotal, PrintedFacts, OffPrinted
  <2>4. (IF input = NoFile THEN 1 ELSE dumps[day - 1] + 1) = Handed + 1
    BY DEF Handed
  <2> HIDE DEF x, p
  <2>5. day \in Day /\ DOMAIN stat_file = Day /\ DOMAIN past = Day
    BY <2>1 DEF StatInv, StatTypes
  <2>6. dumps' \in [Day -> Nat]
    <3>1. Handed + 1 \in Nat /\ dumps \in [Day -> Nat]
      BY <2>3 DEF DriftInv
    <3>2. dumps' = [dumps EXCEPT ![day] = Handed + 1]
      BY <2>1, <2>4
    <3> QED BY <3>1, <3>2
  <2>7. ASSUME NEW d \in Day, stat_file'[d] # NoFile, ~stat_file'[d].torn
        PROVE  /\ stat_file'[d].req \in Nat
               /\ Off(stat_file'[d].req, Total(past'[d]), dumps'[d] * Statistic!Unit(stat_file'[d].req))
    <3>1. CASE d = day
      <4>1. stat_file'[d].req = p /\ past'[d] = base \o today /\ dumps'[d] = Handed + 1
        BY <3>1, <2>1, <2>2, <2>4, <2>5 DEF DriftInv, p, x
      <4> QED BY <4>1, <2>3
    <3>2. CASE d # day
      <4>1. stat_file'[d] = stat_file[d] /\ past'[d] = past[d] /\ dumps'[d] = dumps[d]
        BY <3>2, <2>1, <2>2, <2>5 DEF DriftInv
      <4> QED BY <4>1, <2>7 DEF DriftInv
    <3> QED BY <3>1, <3>2
  <2> QED BY <1>1, <2>6, <2>7 DEF DriftInv, Total
<1> QED
  BY <1>2, <1>3 DEF Statistic!OpenFails, Statistic!Dies, Statistic!disk

LEMMA DriftNext == StatInv /\ DriftInv /\ [Statistic!Next]_statisticVars => DriftInv'
<1> SUFFICES ASSUME StatInv, DriftInv, [Statistic!Next]_statisticVars PROVE DriftInv'
  OBVIOUS
<1>1. CASE UNCHANGED statisticVars
  BY <1>1 DEF statisticVars, DriftInv, Handed, Total
<1>2. CASE Statistic!Next
  BY <1>2, DriftLoad, DriftRead, DriftReport, DriftOver DEF Statistic!Next
<1> QED BY <1>1, <1>2

\* The total of the requested bytes is handed from day to day in a few digits: for
\* any traces, days run in any order and again, and deaths in any dump, it is off
\* by at most half a unit of its last digit for each file it went through, in
\* any base and with any number of digits.
THEOREM RequestTotalAlwaysDrifts == Spec => []RequestTotalDrifts
<1> DEFINE I == subject = "statistic" => StatInv /\ DriftInv
<1>1. Init => I
  BY StatInit, DriftInit DEF Init
<1>2. I /\ [Next]_<<subject, statisticVars, slicingVars, dirVars>> => I'
  <2> SUFFICES ASSUME I, [Next]_<<subject, statisticVars, slicingVars, dirVars>>,
                      subject' = "statistic"
               PROVE  StatInv' /\ DriftInv'
    OBVIOUS
  <2>1. subject = "statistic" /\ [Statistic!Next]_statisticVars
    BY DEF Next
  <2> QED BY <2>1, StatNext, DriftNext
<1>3. I => RequestTotalDrifts
  <2> SUFFICES ASSUME StatInv, DriftInv, phase = "dump"
               PROVE  Statistic!RequestTotalDrifts
    BY DEF RequestTotalDrifts, Statistic!RequestTotalDrifts
  <2> DEFINE x == metrics.tot_req
             t == Total(base \o today)
             n == Handed * Statistic!Unit(x)
  <2>1. x \in Nat /\ t \in Nat /\ Off(x, t, n)
    BY DumpedTotal
  <2>2. 2 * (IF x > t THEN x - t ELSE t - x) <= n
    <3> HIDE DEF x, t, n
    <3> QED BY <2>1 DEF Off
  <2> QED BY <2>2 DEF Statistic!RequestTotalDrifts, Handed, Total
<1> QED
  BY <1>1, <1>2, <1>3, PTL DEF Spec

-----------------------------------------------------------------------------
(* Chunks: whole numbers of them *)

LEMMA ChunkSizes ==
    /\ TINY \in Nat /\ TINY > 0 /\ BIG \in Nat /\ BIG > 0
    /\ \E m \in Nat : m > 0 /\ BIG = m * TINY
<1>1. TINY \in Nat \ {0} /\ BIG \in Nat \ {0} /\ BIG % TINY = 0
  BY ToolsAssumption DEF ToolsAssumption, Slicing!SlicingAssumption
<1> DEFINE m == BIG \div TINY
<1>2. m \in Nat /\ BIG = m * TINY + 0
  BY <1>1, DivisionFacts
<1> HIDE DEF m
<1>3. BIG = m * TINY
  BY <1>1, <1>2
<1>4. m # 0
  BY <1>1, <1>3
<1> QED BY <1>1, <1>2, <1>3, <1>4

\* Multiples are in the order of the numbers they are multiples by.
LEMMA MultipleOrder ==
    \A m, n, u \in Nat : m < n => m * u + u <= n * u
<1> SUFFICES ASSUME NEW m \in Nat, NEW n \in Nat, NEW u \in Nat, m < n
             PROVE  m * u + u <= n * u
  OBVIOUS
<1>1. PICK d \in Nat : n = m + 1 + d
  <2>1. n - m - 1 \in Nat /\ n = m + 1 + (n - m - 1)
    OBVIOUS
  <2> QED BY <2>1
<1>2. n * u = m * u + u + d * u /\ d * u \in Nat /\ m * u \in Nat
  BY <1>1
<1> QED BY <1>2

\* Which multiples are within a number, and beyond it.
LEMMA MultipleWithin ==
    \A x, u, n \in Nat : u > 0 =>
        /\ x \div u \in Nat /\ n * u \in Nat
        /\ n < x \div u + 1 <=> n * u <= x
        /\ x \div u <= n <=> x < n * u + u
<1> SUFFICES ASSUME NEW x \in Nat, NEW u \in Nat, NEW n \in Nat, u > 0
             PROVE  /\ x \div u \in Nat /\ n * u \in Nat
                    /\ n < x \div u + 1 <=> n * u <= x
                    /\ x \div u <= n <=> x < n * u + u
  OBVIOUS
<1> DEFINE q == x \div u
           r == x % u
<1>1. q \in Nat /\ r \in Nat /\ r < u /\ x = (q * u) + r
  BY DivisionFacts
<1> HIDE DEF q, r
<1>2. q * u \in Nat /\ n * u \in Nat
  BY <1>1
<1>3. (n < q => n * u + u <= q * u) /\ (q < n => q * u + u <= n * u)
  BY <1>1, MultipleOrder
<1>4. n = q => n * u = q * u
  OBVIOUS
<1> DEFINE v == q * u
           w == n * u
<1>5. v \in Nat /\ w \in Nat /\ x = v + r /\ (n < q => w + u <= v) /\ (q < n => v + u <= w)
      /\ (n = q => w = v)
  BY <1>1, <1>2, <1>3, <1>4
<1> HIDE DEF v, w
<1>6. (n < q + 1 <=> w <= x) /\ (q <= n <=> x < w + u)
  BY <1>1, <1>5
<1> QED BY <1>1, <1>2, <1>6 DEF q, w

-----------------------------------------------------------------------------
(* Chunks: what a range touches *)

\* A range of a file of s bytes, as ParseRange leaves it.
IsRange(r, s) ==
    r[1] \in Nat /\ r[2] \in Nat /\ r[2] <= s /\ (s > 0 => r[2] < s)

Bigs(s) == s \div BIG
TinyFrom(r, s) == Slicing!Max({BIG * Bigs(s), r[1]}) \div TINY
TinySize(s, n) == IF n < s \div TINY THEN TINY ELSE s - n * TINY

\* The big chunks before the n-th that a range touches, and the tiny ones.
BigsBefore(r, s, n) ==
    { i \in Nat : r[1] \div BIG <= i /\ i < n /\ i < Bigs(s) /\ i < r[2] \div BIG + 1 }
TiniesBefore(r, s, n) ==
    { i \in Nat : TinyFrom(r, s) <= i /\ i < n /\ i < r[2] \div TINY + 1 }
Cut(bigs, tinies, s) ==
    { <<i * BIG, BIG>> : i \in bigs } \union { <<i * TINY, TinySize(s, i)>> : i \in tinies }

LEMMA ExtremesOfTwo ==
    \A x, y \in Int :
        /\ Slicing!Max({x, y}) = (IF x <= y THEN y ELSE x)
        /\ Slicing!Min({x, y}) = (IF x <= y THEN x ELSE y)
<1> SUFFICES ASSUME NEW x \in Int, NEW y \in Int
             PROVE  /\ Slicing!Max({x, y}) = (IF x <= y THEN y ELSE x)
                    /\ Slicing!Min({x, y}) = (IF x <= y THEN x ELSE y)
  OBVIOUS
<1>1. \A z : (z \in {x, y} /\ \A w \in {x, y} : z >= w) <=> z = (IF x <= y THEN y ELSE x)
  OBVIOUS
<1>2. \A z : (z \in {x, y} /\ \A w \in {x, y} : z <= w) <=> z = (IF x <= y THEN x ELSE y)
  OBVIOUS
<1>3. Slicing!Max({x, y}) = CHOOSE z \in {x, y} : \A w \in {x, y} : z >= w
  BY DEF Slicing!Max
<1>4. Slicing!Min({x, y}) = CHOOSE z \in {x, y} : \A w \in {x, y} : z <= w
  BY DEF Slicing!Min
<1> QED BY <1>1, <1>2, <1>3, <1>4

\* The n-th tiny chunk, counted from the beginning of the file, is one of its blocks
\* that the range touches just if SliceChunk comes by it; then its size is right.
LEMMA TinyTouched ==
    \A r, s, m, n :
        s \in Nat /\ IsRange(r, s) /\ m \in Nat /\ BIG = m * TINY /\ n \in Nat =>
            /\ (n * TINY <= r[2] /\ r[1] < n * TINY + TINY /\ Bigs(s) * m <= n)
                 <=> (TinyFrom(r, s) <= n /\ n < r[2] \div TINY + 1)
            /\ TinySize(s, n) = Slicing!Min({TINY, s - n * TINY})
<1> SUFFICES ASSUME NEW r, NEW s \in Nat, IsRange(r, s), NEW m \in Nat, BIG = m * TINY, NEW n \in Nat
             PROVE  /\ (n * TINY <= r[2] /\ r[1] < n * TINY + TINY /\ Bigs(s) * m <= n)
                         <=> (TinyFrom(r, s) <= n /\ n < r[2] \div TINY + 1)
                    /\ TinySize(s, n) = Slicing!Min({TINY, s - n * TINY})
  OBVIOUS
<1> DEFINE a == r[1]
           b == r[2]
           q == Bigs(s)
           at == n * TINY
           x == Slicing!Max({BIG * q, a})
<1>1. a \in Nat /\ b \in Nat /\ TINY \in Nat /\ TINY > 0 /\ BIG \in Nat /\ BIG > 0
  BY ChunkSizes DEF IsRange
<1>2. q \in Nat
  BY <1>1, MultipleWithin DEF Bigs
<1>3. at \in Nat /\ (n < b \div TINY + 1 <=> at <= b)
  BY <1>1, MultipleWithin
<1>4. BIG * q \in Nat /\ x \in Nat /\ x = IF BIG * q <= a THEN a ELSE BIG * q
  <2>1. BIG * q \in Nat /\ BIG * q \in Int /\ a \in Int
    BY <1>1, <1>2
  <2> QED BY <2>1, <1>1, ExtremesOfTwo
<1>5. x \div TINY <= n <=> x < at + TINY
  BY <1>1, <1>4, MultipleWithin
<1>6. BIG * q = (q * m) * TINY /\ q * m \in Nat
  BY <1>1, <1>2
<1>7. BIG * q < at + TINY <=> q * m <= n
  <2> DEFINE k == q * m
  <2>1. k \in Nat
    BY <1>6
  <2>2. (n < k => n * TINY + TINY <= k * TINY) /\ (k < n => k * TINY + TINY <= n * TINY)
    BY <2>1, <1>1, MultipleOrder
  <2>3. (k = n => k * TINY = n * TINY) /\ BIG * q = k * TINY
    BY <1>6
  <2> HIDE DEF k, at
  <2>4. at = n * TINY
    BY DEF at
  <2>5. BIG * q < at + TINY <=> k <= n
    BY <2>1, <2>2, <2>3, <2>4, <1>1, <1>3, <1>4
  <2> QED BY <2>5 DEF k
<1>8. (at <= b /\ a < at + TINY /\ q * m <= n) <=> (x \div TINY <= n /\ n < b \div TINY + 1)
  <2> HIDE DEF at, x, q, a, b
  <2>1. x < at + TINY <=> (a < at + TINY /\ BIG * q < at + TINY)
    BY <1>1, <1>3, <1>4
  <2> QED BY <2>1, <1>3, <1>5, <1>7
<1>9. TinySize(s, n) = Slicing!Min({TINY, s - n * TINY})
  <2>1. s \div TINY \in Nat /\ (s \div TINY <= n <=> s < at + TINY)
    BY <1>1, MultipleWithin
  <2>2. s - at \in Int /\ TINY \in Int
    BY <1>1, <1>3
  <2>3. Slicing!Min({TINY, s - at}) = IF TINY <= s - at THEN TINY ELSE s - at
    BY <2>2, ExtremesOfTwo
  <2>4. n < s \div TINY <=> TINY <= s - at
    <3> HIDE DEF at
    <3> QED BY <2>1, <1>1, <1>3
  <2> QED BY <2>3, <2>4 DEF TinySize
<1> QED BY <1>8, <1>9 DEF TinyFrom

Pairs(blocks) == { <<b.at, b.size>> : b \in blocks }

\* A range has been cut when its big chunks, and then its tiny ones, run out.
AllBigs(r, s, n) == ~ (n < Bigs(s) /\ n < r[2] \div BIG + 1)
AllTinies(r, n) == ~ (n < r[2] \div TINY + 1)

\* The blocks a range touches are those that SliceChunk comes by.
LEMMA TouchedAre ==
    \A r, s, n, k :
        /\ s \in Nat /\ IsRange(r, s) /\ n \in Nat /\ k \in Nat
        /\ AllBigs(r, s, n) /\ AllTinies(r, k)
        => Pairs(Slicing!Touched(r, s)) = Cut(BigsBefore(r, s, n), TiniesBefore(r, s, k), s)
<1> SUFFICES ASSUME NEW r, NEW s \in Nat, IsRange(r, s), NEW n \in Nat, NEW k \in Nat,
                    AllBigs(r, s, n), AllTinies(r, k)
             PROVE  Pairs(Slicing!Touched(r, s)) = Cut(BigsBefore(r, s, n), TiniesBefore(r, s, k), s)
  OBVIOUS
<1>1. PICK m \in Nat : m > 0 /\ BIG = m * TINY
  BY ChunkSizes
<1> DEFINE q == Bigs(s)
           rest == s - q * BIG
           tinies == IF s = 0 THEN 1 ELSE (rest + TINY - 1) \div TINY
           Big(i) == [at |-> i * BIG, size |-> BIG, room |-> BIG]
           Tiny(j) == [at |-> q * BIG + j * TINY, size |-> Slicing!Min({TINY, rest - j * TINY}),
                       room |-> TINY]
<1>2. /\ TINY \in Nat /\ TINY > 0 /\ BIG \in Nat /\ BIG > 0
      /\ r[1] \in Nat /\ r[2] \in Nat /\ r[2] <= s /\ (s > 0 => r[2] < s)
  BY ChunkSizes DEF IsRange
<1>3. q \in Nat /\ q * BIG \in Nat /\ q * m \in Nat /\ q * BIG = (q * m) * TINY /\ q * BIG <= s
  <2>1. q \in Nat /\ (q < s \div BIG + 1 <=> q * BIG <= s)
    BY <1>2, MultipleWithin DEF Bigs
  <2>2. q < s \div BIG + 1
    BY <2>1 DEF Bigs
  <2>3. q * (m * TINY) = (q * m) * TINY /\ q * m \in Nat
    BY <1>1, <1>2, <2>1
  <2> QED BY <2>1, <2>2, <2>3, <1>1, <1>2
<1>4. Slicing!Blocks(s) = { Big(i) : i \in 0 .. q - 1 } \union { Tiny(j) : j \in 0 .. tinies - 1 }
  BY DEF Slicing!Blocks, Bigs
<1>5. \A i \in Nat : i < q =>
        (i * BIG <= r[2] /\ r[1] < i * BIG + BIG <=> i \in BigsBefore(r, s, n))
  <2> SUFFICES ASSUME NEW i \in Nat, i < q
               PROVE  i * BIG <= r[2] /\ r[1] < i * BIG + BIG <=> i \in BigsBefore(r, s, n)
    OBVIOUS
  <2>1. /\ i < r[2] \div BIG + 1 <=> i * BIG <= r[2]
        /\ r[1] \div BIG <= i <=> r[1] < i * BIG + BIG
        /\ r[2] \div BIG \in Nat
    BY <1>2, MultipleWithin
  <2>2. n >= q \/ n >= r[2] \div BIG + 1
    BY <2>1, <1>3 DEF AllBigs
  <2>3. i \in BigsBefore(r, s, n) <=> r[1] \div BIG <= i /\ i < n /\ i < q /\ i < r[2] \div BIG + 1
    BY DEF BigsBefore
  <2> HIDE DEF q
  <2>4. i \in BigsBefore(r, s, n) <=> r[1] \div BIG <= i /\ i < r[2] \div BIG + 1
    BY <2>1, <2>2, <2>3, <1>3
  <2> QED BY <2>1, <2>4
<1>6. \A j \in Nat :
        /\ q * m + j \in Nat
        /\ Tiny(j).at = (q * m + j) * TINY /\ Tiny(j).room = TINY
        /\ Tiny(j).size = TinySize(s, q * m + j)
        /\ Tiny(j).at <= r[2] /\ r[1] < Tiny(j).at + Tiny(j).room
             <=> q * m + j \in TiniesBefore(r, s, k)
  <2> SUFFICES ASSUME NEW j \in Nat
               PROVE  /\ q * m + j \in Nat
                      /\ Tiny(j).at = (q * m + j) * TINY /\ Tiny(j).room = TINY
                      /\ Tiny(j).size = TinySize(s, q * m + j)
                      /\ Tiny(j).at <= r[2] /\ r[1] < Tiny(j).at + Tiny(j).room
                           <=> q * m + j \in TiniesBefore(r, s, k)
    OBVIOUS
  <2> DEFINE p == q * m
             c == p + j
  <2>1. c \in Nat /\ p \in Nat /\ p <= c
    BY <1>3
  <2>2. c * TINY = p * TINY + j * TINY /\ j * TINY \in Nat /\ c * TINY \in Nat
    <3> HIDE DEF p
    <3> QED BY <2>1, <1>2
  <2>3. q * BIG + j * TINY = c * TINY /\ rest - j * TINY = s - c * TINY
    <3> DEFINE w == q * BIG
               z == j * TINY
               y == c * TINY
    <3>1. w \in Nat /\ z \in Nat /\ y = w + z
      BY <1>3, <2>2
    <3>2. s - w - z = s - y
      <4> HIDE DEF w, z, y
      <4> QED BY <3>1
    <3> QED BY <3>1, <3>2
  <2>4. Tiny(j).at = c * TINY /\ Tiny(j).room = TINY
        /\ Tiny(j).size = Slicing!Min({TINY, s - c * TINY})
    BY <2>3
  <2>5. /\ (c * TINY <= r[2] /\ r[1] < c * TINY + TINY /\ q * m <= c)
             <=> (TinyFrom(r, s) <= c /\ c < r[2] \div TINY + 1)
        /\ TinySize(s, c) = Slicing!Min({TINY, s - c * TINY})
    <3> HIDE DEF c
    <3> QED BY <2>1, <1>1, TinyTouched
  <2>6. r[2] \div TINY \in Nat
    BY <1>2, MultipleWithin
  <2>7. c \in TiniesBefore(r, s, k) <=> TinyFrom(r, s) <= c /\ c < r[2] \div TINY + 1
    <3>1. c < r[2] \div TINY + 1 => c < k
      <4> HIDE DEF c
      <4> QED BY <2>1, <2>6 DEF AllTinies
    <3> QED BY <3>1, <2>1 DEF TiniesBefore
  <2> QED BY <2>1, <2>4, <2>5, <2>7
<1>7. \A c \in Nat : c \in TiniesBefore(r, s, k) =>
        \E j \in 0 .. tinies - 1 : c = q * m + j
  <2> SUFFICES ASSUME NEW c \in Nat, c \in TiniesBefore(r, s, k)
               PROVE  \E j \in 0 .. tinies - 1 : c = q * m + j
    OBVIOUS
  <2> DEFINE p == q * m
             j == c - p
             w == p * TINY
             z == j * TINY
  <2>1. c * TINY <= r[2] /\ p <= c
    BY <1>1, TinyTouched DEF TiniesBefore
  <2>2. j \in Nat /\ p \in Nat /\ c = p + j
    BY <2>1, <1>3
  <2>3. c * TINY = w + z /\ w \in Nat /\ z \in Nat
    <3> HIDE DEF p, j
    <3> QED BY <2>2, <1>2
  <2>4. rest = s - w /\ w <= s
    BY <1>3
  <2>5. CASE s = 0
    <3>1. z = 0
      <4> HIDE DEF w, z
      <4> QED BY <2>1, <2>3, <2>4, <2>5, <1>2
    <3>2. j = 0
      <4>1. 0 < j => 0 * TINY + TINY <= j * TINY
        BY <2>2, <1>2, MultipleOrder
      <4> HIDE DEF j
      <4> QED BY <4>1, <3>1, <2>2, <1>2
    <3> QED BY <3>2, <2>2, <2>5
  <2>6. CASE s > 0
    <3> DEFINE x == rest + TINY - 1
    <3>1. x \in Nat /\ z + TINY <= x
      <4> HIDE DEF w, z, rest
      <4> QED BY <2>1, <2>3, <2>4, <2>6, <1>2
    <3>2. (j + 1) * TINY = z + TINY
      <4> HIDE DEF j
      <4> QED BY <2>2, <1>2
    <3>3. j + 1 < x \div TINY + 1 /\ x \div TINY \in Nat
      <4> HIDE DEF x, z, j
      <4> QED BY <3>1, <3>2, <2>2, <1>2, MultipleWithin
    <3>4. j < x \div TINY
      <4> HIDE DEF x, j
      <4> QED BY <3>3, <2>2
    <3>5. j \in 0 .. tinies - 1
      <4>1. tinies = x \div TINY
        BY <2>6
      <4> HIDE DEF tinies, x, j
      <4> QED BY <4>1, <3>3, <3>4, <2>2
    <3> QED BY <3>5, <2>2
  <2> QED BY <2>5, <2>6
<1> HIDE DEF tinies
<1>8. tinies \in Int
  <2>1. rest + TINY - 1 \in Int
    BY <1>2, <1>3
  <2> QED BY <2>1, <1>2 DEF tinies
<1>9. ASSUME NEW x \in Pairs(Slicing!Touched(r, s))
      PROVE  x \in Cut(BigsBefore(r, s, n), TiniesBefore(r, s, k), s)
  <2>1. PICK b \in Slicing!Blocks(s) : b.at <= r[2] /\ r[1] < b.at + b.room /\ x = <<b.at, b.size>>
    BY DEF Pairs, Slicing!Touched
  <2>2. CASE \E i \in 0 .. q - 1 : b = Big(i)
    <3>1. PICK i \in 0 .. q - 1 : b = Big(i)
      BY <2>2
    <3>2. i \in Nat /\ i < q
      BY <1>3
    <3>3. b.at = i * BIG /\ b.size = BIG /\ b.room = BIG
      BY <3>1
    <3>4. i \in BigsBefore(r, s, n)
      BY <3>2, <3>3, <2>1, <1>5
    <3> QED BY <3>3, <3>4, <2>1 DEF Cut
  <2>3. CASE \E j \in 0 .. tinies - 1 : b = Tiny(j)
    <3>1. PICK j \in 0 .. tinies - 1 : b = Tiny(j)
      BY <2>3
    <3>2. j \in Nat
      BY <1>8
    <3> HIDE DEF Tiny
    <3>3. q * m + j \in TiniesBefore(r, s, k) /\ b.at = (q * m + j) * TINY
          /\ b.size = TinySize(s, q * m + j)
      BY <3>1, <3>2, <2>1, <1>6
    <3> QED BY <3>3, <2>1 DEF Cut
  <2> QED BY <2>1, <2>2, <2>3, <1>4
<1>10. ASSUME NEW x \in Cut(BigsBefore(r, s, n), TiniesBefore(r, s, k), s)
       PROVE  x \in Pairs(Slicing!Touched(r, s))
  <2>1. CASE \E i \in BigsBefore(r, s, n) : x = <<i * BIG, BIG>>
    <3>1. PICK i \in BigsBefore(r, s, n) : x = <<i * BIG, BIG>>
      BY <2>1
    <3>2. i \in Nat /\ i < q
      BY DEF BigsBefore
    <3>3. i \in 0 .. q - 1
      <4> HIDE DEF q
      <4> QED BY <3>2, <1>3
    <3>4. i * BIG <= r[2] /\ r[1] < i * BIG + BIG
      BY <3>2, <1>5
    <3>5. Big(i) \in Slicing!Touched(r, s)
      BY <3>3, <3>4, <1>4 DEF Slicing!Touched
    <3> QED BY <3>1, <3>5 DEF Pairs
  <2>2. CASE \E c \in TiniesBefore(r, s, k) : x = <<c * TINY, TinySize(s, c)>>
    <3>1. PICK c \in TiniesBefore(r, s, k) : x = <<c * TINY, TinySize(s, c)>>
      BY <2>2
    <3>2. PICK j \in 0 .. tinies - 1 : c = q * m + j
      BY <1>7 DEF TiniesBefore
    <3>3. j \in Nat
      BY <1>8
    <3>4. Tiny(j) \in Slicing!Blocks(s)
      BY <3>2, <1>4
    <3> HIDE DEF Tiny
    <3>5. Tiny(j) \in Slicing!Touched(r, s)
      BY <3>2, <3>3, <3>4, <1>6 DEF Slicing!Touched
    <3>6. x = <<Tiny(j).at, Tiny(j).size>>
      BY <3>1, <3>2, <3>3, <1>6
    <3> QED BY <3>5, <3>6 DEF Pairs
  <2> QED BY <2>1, <2>2 DEF Cut
<1> QED BY <1>9, <1>10

-----------------------------------------------------------------------------
(* Chunks: the line as it is cut *)

ChunkOf == [size : Int, key : Nat, at : Nat, range : Nat]
CutOf(cs, r) == { cs[i] : i \in { j \in DOMAIN cs : cs[j].range = r } }

\* The ranges of a line, of which those still to do are the last.
LineInv ==
    /\ file_size \in Nat
    /\ asked \in Seq(Nat \X Nat) /\ ranges \in Seq(Nat \X Nat) /\ Len(ranges) <= Len(asked)
    /\ \A i \in 1 .. Len(asked) : IsRange(asked[i], file_size)
    /\ \A i \in 1 .. Len(ranges) : ranges[i] = asked[Len(asked) - Len(ranges) + i]

\* What the ranges before the one at work touch is cut.
DoneInv ==
    \A r \in 1 .. Slicing!AtWork - 1 :
        Pairs(Slicing!CutFor(r)) = Pairs(Slicing!Touched(asked[r], file_size))

\* Of the one at work, what lies before the next chunk; its tiny chunks begin
\* where its big ones are done.
WorkInv ==
    ranges # << >> =>
        /\ Pairs(Slicing!CutFor(Slicing!AtWork))
             = Cut(BigsBefore(Head(ranges), file_size, next.big),
                   TiniesBefore(Head(ranges), file_size, next.tiny), file_size)
        /\ Head(ranges)[1] \div BIG <= next.big
        /\ TinyFrom(Head(ranges), file_size) <= next.tiny
        /\ next.tiny = TinyFrom(Head(ranges), file_size) \/ ~ Slicing!InBig

OrderInv ==
    /\ \A i \in 1 .. Len(chunks) :
         chunks[i].range \in 1 .. Slicing!AtWork /\ chunks[i].range <= Len(asked)
    /\ \A i, j \in 1 .. Len(chunks) : i < j =>
         \/ chunks[i].range < chunks[j].range
         \/ chunks[i].range = chunks[j].range /\ chunks[i].at < chunks[j].at

SliceInv ==
    /\ LineInv
    /\ next \in [big : Nat, tiny : Nat] /\ chunks \in Seq(ChunkOf)
    /\ DoneInv /\ WorkInv /\ OrderInv

ChunksInv == subject = "chunks" => SliceInv

LEMMA CutForIs == \A r : Slicing!CutFor(r) = CutOf(chunks, r)
BY DEF Slicing!CutFor, CutOf

LEMMA CutOfAppended ==
    \A cs \in Seq(ChunkOf), c \in ChunkOf : \A r :
        Pairs(CutOf(Append(cs, c), r))
          = Pairs(CutOf(cs, r)) \union (IF c.range = r THEN {<<c.at, c.size>>} ELSE {})
<1> SUFFICES ASSUME NEW cs \in Seq(ChunkOf), NEW c \in ChunkOf, NEW r
             PROVE  Pairs(CutOf(Append(cs, c), r))
                      = Pairs(CutOf(cs, r)) \union (IF c.range = r THEN {<<c.at, c.size>>} ELSE {})
  OBVIOUS
<1> DEFINE es == Append(cs, c)
<1>1. /\ DOMAIN cs = 1 .. Len(cs) /\ DOMAIN es = 1 .. Len(cs) + 1 /\ Len(cs) \in Nat
      /\ es[Len(cs) + 1] = c /\ \A i \in 1 .. Len(cs) : es[i] = cs[i]
  OBVIOUS
<1> HIDE DEF es
<1>2. CutOf(es, r) = CutOf(cs, r) \union (IF c.range = r THEN {c} ELSE {})
  <2>1. ASSUME NEW x \in CutOf(es, r)
        PROVE  x \in CutOf(cs, r) \union (IF c.range = r THEN {c} ELSE {})
    <3>1. PICK i \in 1 .. Len(cs) + 1 : es[i].range = r /\ x = es[i]
      BY <1>1 DEF CutOf
    <3>2. CASE i \in 1 .. Len(cs)
      BY <3>1, <3>2, <1>1 DEF CutOf
    <3>3. CASE i = Len(cs) + 1
      BY <3>1, <3>3, <1>1
    <3> QED BY <3>2, <3>3, <1>1
  <2>2. CutOf(cs, r) \subseteq CutOf(es, r)
    <3>1. \A i \in 1 .. Len(cs) : i \in 1 .. Len(cs) + 1
      BY <1>1
    <3> QED BY <3>1, <1>1 DEF CutOf
  <2>3. c.range = r => c \in CutOf(es, r)
    <3>1. Len(cs) + 1 \in 1 .. Len(cs) + 1
      BY <1>1
    <3> QED BY <3>1, <1>1 DEF CutOf
  <2> QED BY <2>1, <2>2, <2>3
<1> QED BY <1>2 DEF Pairs, es

\* What ParseRange makes of a header.
LEMMA ParsedIsRange ==
    \A spec \in Slicing!Specs, s \in Nat : s > 0 =>
        /\ Slicing!ParsedSpec(spec, s) \in Nat \X Nat
        /\ IsRange(Slicing!ParsedSpec(spec, s), s)
<1> SUFFICES ASSUME NEW spec \in Slicing!Specs, NEW s \in Nat, s > 0
             PROVE  /\ Slicing!ParsedSpec(spec, s) \in Nat \X Nat
                    /\ IsRange(Slicing!ParsedSpec(spec, s), s)
  OBVIOUS
<1> DEFINE p == Slicing!ParsedSpec(spec, s)
<1>1. SUFFICES \E x, y \in Nat : p = <<x, y>> /\ y < s
  BY DEF IsRange
<1>2. /\ spec.form \in {"last", "all", "suffix", "from", "span"}
      /\ spec.form \in {"suffix", "from", "span"} => spec.a \in Nat
      /\ spec.form = "span" => spec.b \in Nat
  <2>1. Offsets \subseteq Nat
    BY ToolsAssumption DEF ToolsAssumption, Slicing!SlicingAssumption
  <2> QED BY <2>1 DEF Slicing!Specs
<1>3. CASE spec.form = "last"
  <2>1. p = <<s - 1, s - 1>> /\ s - 1 \in Nat /\ s - 1 < s
    BY <1>3 DEF Slicing!ParsedSpec
  <2> QED BY <2>1
<1>4. CASE spec.form = "all"
  <2>1. p = <<0, s - 1>> /\ s - 1 \in Nat /\ s - 1 < s
    BY <1>4 DEF Slicing!ParsedSpec
  <2> QED BY <2>1
<1>5. CASE spec.form = "suffix"
  <2> DEFINE x == Slicing!Min({s, spec.a})
  <2>1. p = <<s - x, s - 1>>
    BY <1>5 DEF Slicing!ParsedSpec
  <2>2. x = IF s <= spec.a THEN s ELSE spec.a
    <3>1. s \in Int /\ spec.a \in Int
      BY <1>2, <1>5
    <3> QED BY <3>1, ExtremesOfTwo
  <2>3. s - x \in Nat /\ s - 1 \in Nat /\ s - 1 < s
    BY <2>2, <1>2, <1>5
  <2> QED BY <2>1, <2>3
<1>6. CASE spec.form = "from"
  <2>1. p = <<spec.a, s - 1>> /\ s - 1 \in Nat /\ s - 1 < s
    BY <1>6 DEF Slicing!ParsedSpec
  <2> QED BY <2>1, <1>2, <1>6
<1>7. CASE spec.form = "span"
  <2> DEFINE x == Slicing!Min({s - 1, spec.b})
  <2>1. p = <<spec.a, x>>
    BY <1>7 DEF Slicing!ParsedSpec
  <2>2. x = IF s - 1 <= spec.b THEN s - 1 ELSE spec.b
    <3>1. s - 1 \in Int /\ spec.b \in Int
      BY <1>2, <1>7
    <3> QED BY <3>1, ExtremesOfTwo
  <2>3. x \in Nat /\ x < s
    BY <2>2, <1>2, <1>7
  <2> QED BY <2>1, <2>3, <1>2, <1>7
<1> QED BY <1>2, <1>3, <1>4, <1>5, <1>6, <1>7

LEMMA LineParsed ==
    ASSUME Slicing!ParseLine
    PROVE  /\ file_size' \in Nat /\ asked' \in Seq(Nat \X Nat) /\ asked' # << >>
           /\ \A i \in 1 .. Len(asked') : IsRange(asked'[i], file_size')
           /\ Slicing!Turn(asked', file_size') /\ chunks' = << >>
<1>1. PICK size \in FileSizes, specs \in Slicing!Lines :
        /\ file_size' = Slicing!Accepted(size)
        /\ asked' = Slicing!ParseRange(specs, Slicing!Accepted(size))
        /\ Slicing!Turn(asked', Slicing!Accepted(size))
  BY DEF Slicing!ParseLine
<1>2. file_size' \in Nat
  BY <1>1, ToolsAssumption DEF ToolsAssumption, Slicing!SlicingAssumption, Slicing!Accepted
<1>3. PICK n \in Nat : n > 0 /\ specs \in [1 .. n -> Slicing!Specs]
  <2>1. PICK n \in 1 .. MaxRanges : specs \in [1 .. n -> Slicing!Specs]
    BY DEF Slicing!Lines
  <2>2. MaxRanges \in Nat
    BY ToolsAssumption DEF ToolsAssumption, Slicing!SlicingAssumption
  <2> QED BY <2>1, <2>2
<1>4. chunks' = << >>
  BY DEF Slicing!ParseLine
<1>5. CASE file_size' = 0
  <2>1. asked' = << <<0, 0>> >>
    BY <1>1, <1>5 DEF Slicing!ParseRange
  <2>2. asked' \in Seq(Nat \X Nat) /\ Len(asked') = 1 /\ asked'[1] = <<0, 0>> /\ asked' # << >>
    BY <2>1
  <2>3. IsRange(asked'[1], file_size')
    BY <2>2, <1>5 DEF IsRange
  <2> QED BY <2>2, <2>3, <1>1, <1>2, <1>4
<1>6. CASE file_size' # 0
  <2>1. asked' = [i \in 1 .. n |-> Slicing!ParsedSpec(specs[i], file_size')]
    BY <1>1, <1>3, <1>6 DEF Slicing!ParseRange
  <2>2. \A i \in 1 .. n : Slicing!ParsedSpec(specs[i], file_size') \in Nat \X Nat
                           /\ IsRange(Slicing!ParsedSpec(specs[i], file_size'), file_size')
    <3>1. file_size' > 0 /\ \A i \in 1 .. n : specs[i] \in Slicing!Specs
      BY <1>2, <1>3, <1>6
    <3> QED BY <3>1, <1>2, ParsedIsRange
  <2>3. asked' \in [1 .. n -> Nat \X Nat]
    BY <2>1, <2>2
  <2>4. asked' \in Seq(Nat \X Nat) /\ Len(asked') = n
    BY <2>3, <1>3
  <2>5. \A i \in 1 .. n : IsRange(asked'[i], file_size')
    BY <2>1, <2>2
  <2>6. asked' # << >>
    BY <2>4, <1>3
  <2> QED BY <2>4, <2>5, <2>6, <1>1, <1>2, <1>4
<1> QED BY <1>5, <1>6

LEMMA BigFrom ==
    \A r, s, n : s \in Nat /\ IsRange(r, s) /\ n \in Nat =>
        /\ r[1] \div BIG \in Nat /\ TinyFrom(r, s) \in Nat
        /\ r[2] \div BIG \in Nat /\ r[2] \div TINY \in Nat /\ Bigs(s) \in Nat
        /\ TinyFrom(r, s) <= n => Bigs(s) * BIG <= n * TINY
<1> SUFFICES ASSUME NEW r, NEW s \in Nat, IsRange(r, s), NEW n \in Nat
             PROVE  /\ r[1] \div BIG \in Nat /\ TinyFrom(r, s) \in Nat
                    /\ r[2] \div BIG \in Nat /\ r[2] \div TINY \in Nat /\ Bigs(s) \in Nat
                    /\ TinyFrom(r, s) <= n => Bigs(s) * BIG <= n * TINY
  OBVIOUS
<1>1. /\ TINY \in Nat /\ TINY > 0 /\ BIG \in Nat /\ BIG > 0 /\ r[1] \in Nat /\ r[2] \in Nat
  BY ChunkSizes DEF IsRange
<1>2. r[1] \div BIG \in Nat /\ r[2] \div BIG \in Nat /\ r[2] \div TINY \in Nat /\ Bigs(s) \in Nat
  BY <1>1, MultipleWithin DEF Bigs
<1> DEFINE y == BIG * Bigs(s)
           x == Slicing!Max({y, r[1]})
<1>3. y \in Nat /\ y = Bigs(s) * BIG /\ x = IF y <= r[1] THEN r[1] ELSE y
  <2>1. y \in Nat /\ y \in Int /\ r[1] \in Int /\ y = Bigs(s) * BIG
    BY <1>1, <1>2
  <2> QED BY <2>1, ExtremesOfTwo
<1>4. x \in Nat /\ y <= x
  BY <1>1, <1>3
<1>5. x \div TINY \in Nat
  BY <1>1, <1>4, MultipleWithin
<1>6. PICK m \in Nat : m > 0 /\ BIG = m * TINY
  BY ChunkSizes
<1>7. ASSUME x \div TINY <= n PROVE y <= n * TINY
  <2> DEFINE k == Bigs(s) * m
             nt == n * TINY
             kt == k * TINY
  <2>1. k \in Nat /\ y = kt /\ y \in Nat
    BY <1>1, <1>2, <1>3, <1>6
  <2>2. nt \in Nat /\ x < nt + TINY
    BY <1>1, <1>4, <1>7, MultipleWithin
  <2>3. n < k => nt + TINY <= kt
    <3> HIDE DEF k
    <3> QED BY <2>1, <1>1, MultipleOrder
  <2>4. k < n => kt + TINY <= nt
    <3> HIDE DEF k
    <3> QED BY <2>1, <1>1, MultipleOrder
  <2>5. k = n => kt = nt
    OBVIOUS
  <2> HIDE DEF k, nt, kt, x, y
  <2>6. ~ (n < k)
    BY <2>1, <2>2, <2>3, <1>1, <1>4
  <2>7. y <= nt
    BY <2>1, <2>2, <2>4, <2>5, <2>6, <1>1, <1>4
  <2> QED BY <2>7 DEF nt
<1> QED BY <1>2, <1>3, <1>5, <1>7 DEF TinyFrom

\* One more chunk of the range at work.
LEMMA OneMoreBig ==
    \A r, s, n, k : n \in Nat /\ r[1] \div BIG <= n /\ ~ AllBigs(r, s, n) =>
        Cut(BigsBefore(r, s, n + 1), TiniesBefore(r, s, k), s)
          = Cut(BigsBefore(r, s, n), TiniesBefore(r, s, k), s) \union {<<n * BIG, BIG>>}
<1> SUFFICES ASSUME NEW r, NEW s, NEW n \in Nat, NEW k, r[1] \div BIG <= n, ~ AllBigs(r, s, n)
             PROVE  Cut(BigsBefore(r, s, n + 1), TiniesBefore(r, s, k), s)
                      = Cut(BigsBefore(r, s, n), TiniesBefore(r, s, k), s) \union {<<n * BIG, BIG>>}
  OBVIOUS
<1>1. BigsBefore(r, s, n + 1) = BigsBefore(r, s, n) \union {n}
  <2>1. \A i \in Nat : i < n + 1 <=> i < n \/ i = n
    OBVIOUS
  <2> QED BY <2>1 DEF BigsBefore, AllBigs
<1> QED BY <1>1 DEF Cut

LEMMA OneMoreTiny ==
    \A r, s, n, k :
        /\ s \in Nat /\ IsRange(r, s) /\ n \in Nat /\ k \in Nat
        /\ TinyFrom(r, s) <= k /\ AllBigs(r, s, n) /\ ~ AllTinies(r, k)
        => /\ Cut(BigsBefore(r, s, n + 1), TiniesBefore(r, s, k + 1), s)
                 = Cut(BigsBefore(r, s, n), TiniesBefore(r, s, k), s)
                     \union {<<k * TINY, TinySize(s, k)>>}
           /\ AllBigs(r, s, n + 1)
<1> SUFFICES ASSUME NEW r, NEW s \in Nat, IsRange(r, s), NEW n \in Nat, NEW k \in Nat,
                    TinyFrom(r, s) <= k, AllBigs(r, s, n), ~ AllTinies(r, k)
             PROVE  /\ Cut(BigsBefore(r, s, n + 1), TiniesBefore(r, s, k + 1), s)
                          = Cut(BigsBefore(r, s, n), TiniesBefore(r, s, k), s)
                              \union {<<k * TINY, TinySize(s, k)>>}
                    /\ AllBigs(r, s, n + 1)
  OBVIOUS
<1>1. Bigs(s) \in Nat /\ r[2] \div BIG \in Nat /\ r[2] \div TINY \in Nat
  BY BigFrom
<1>2. AllBigs(r, s, n + 1)
  BY <1>1 DEF AllBigs
<1>3. BigsBefore(r, s, n + 1) = BigsBefore(r, s, n)
  <2>1. \A i \in Nat : i < n + 1 <=> i < n \/ i = n
    OBVIOUS
  <2> QED BY <2>1 DEF BigsBefore, AllBigs
<1>4. TiniesBefore(r, s, k + 1) = TiniesBefore(r, s, k) \union {k}
  <2>1. \A i \in Nat : i < k + 1 <=> i < k \/ i = k
    OBVIOUS
  <2> QED BY <2>1 DEF TiniesBefore, AllTinies
<1> QED BY <1>2, <1>3, <1>4 DEF Cut

LEMMA NothingBefore ==
    \A r, s : s \in Nat /\ IsRange(r, s) =>
        Cut(BigsBefore(r, s, r[1] \div BIG), TiniesBefore(r, s, TinyFrom(r, s)), s) = {}
<1> SUFFICES ASSUME NEW r, NEW s \in Nat, IsRange(r, s)
             PROVE  Cut(BigsBefore(r, s, r[1] \div BIG), TiniesBefore(r, s, TinyFrom(r, s)), s) = {}
  OBVIOUS
<1>1. r[1] \div BIG \in Nat /\ TinyFrom(r, s) \in Nat
  BY BigFrom
<1>2. BigsBefore(r, s, r[1] \div BIG) = {}
  BY <1>1 DEF BigsBefore
<1>3. TiniesBefore(r, s, TinyFrom(r, s)) = {}
  BY <1>1 DEF TiniesBefore
<1> QED BY <1>2, <1>3 DEF Cut

\* All the chunks cut so far begin before the next.
LEMMA CutBefore ==
    \A r, s, n, k :
        /\ s \in Nat /\ IsRange(r, s) /\ n \in Nat /\ k \in Nat
        /\ TinyFrom(r, s) <= k
        => \A x \in Cut(BigsBefore(r, s, n), TiniesBefore(r, s, k), s) :
             /\ x[1] < k * TINY
             /\ k = TinyFrom(r, s) => x[1] < n * BIG
<1> SUFFICES ASSUME NEW r, NEW s \in Nat, IsRange(r, s), NEW n \in Nat, NEW k \in Nat,
                    TinyFrom(r, s) <= k,
                    NEW x \in Cut(BigsBefore(r, s, n), TiniesBefore(r, s, k), s)
             PROVE  /\ x[1] < k * TINY
                    /\ k = TinyFrom(r, s) => x[1] < n * BIG
  OBVIOUS
<1>1. TINY \in Nat /\ TINY > 0 /\ BIG \in Nat /\ BIG > 0
  BY ChunkSizes
<1>2. CASE \E i \in BigsBefore(r, s, n) : x = <<i * BIG, BIG>>
  <2>1. PICK i \in BigsBefore(r, s, n) : x = <<i * BIG, BIG>>
    BY <1>2
  <2>2. i \in Nat /\ i < n /\ i < Bigs(s) /\ Bigs(s) \in Nat /\ x[1] = i * BIG
    BY <2>1, BigFrom DEF BigsBefore
  <2>3. i * BIG + BIG <= n * BIG /\ i * BIG + BIG <= Bigs(s) * BIG
    BY <2>2, <1>1, MultipleOrder
  <2>4. Bigs(s) * BIG <= k * TINY
    BY BigFrom
  <2> DEFINE y == i * BIG
             z == Bigs(s) * BIG
             u == n * BIG
             w == k * TINY
  <2>5. y \in Nat /\ z \in Nat /\ u \in Nat /\ w \in Nat
    BY <2>2, <1>1
  <2>6. y < u /\ y < w
    <3>1. y + BIG <= u /\ y + BIG <= z /\ z <= w
      BY <2>3, <2>4
    <3> HIDE DEF y, z, u, w
    <3> QED BY <3>1, <2>5, <1>1
  <2> QED BY <2>6, <2>2
<1>3. CASE \E i \in TiniesBefore(r, s, k) : x = <<i * TINY, TinySize(s, i)>>
  <2>1. PICK i \in TiniesBefore(r, s, k) : x = <<i * TINY, TinySize(s, i)>>
    BY <1>3
  <2>2. i \in Nat /\ i < k /\ TinyFrom(r, s) <= i /\ TinyFrom(r, s) \in Nat /\ x[1] = i * TINY
    BY <2>1, BigFrom DEF TiniesBefore
  <2>3. k # TinyFrom(r, s)
    BY <2>2
  <2> DEFINE y == i * TINY
             w == k * TINY
  <2>4. y \in Nat /\ w \in Nat /\ y + TINY <= w
    BY <2>2, <1>1, MultipleOrder
  <2>5. y < w
    <3> HIDE DEF y, w
    <3> QED BY <2>4, <1>1
  <2> QED BY <2>2, <2>3, <2>5
<1> QED BY <1>2, <1>3 DEF Cut

-----------------------------------------------------------------------------
(* Chunks: the steps *)

\* The range at work, and what is left to do of it, in the terms of the lemmas.
LEMMA AtWorkIs ==
    ASSUME LineInv, ranges # << >>
    PROVE  /\ Slicing!AtWork \in 1 .. Len(asked) /\ Head(ranges) = asked[Slicing!AtWork]
           /\ IsRange(Head(ranges), file_size)
           /\ \A n \in Nat : next.big = n => (Slicing!InBig <=> ~ AllBigs(Head(ranges), file_size, n))
           /\ \A k \in Nat : next.tiny = k => (Slicing!InTiny <=> ~ AllTinies(Head(ranges), k))
<1> DEFINE r == Head(ranges)
<1>1. /\ Len(ranges) \in Nat /\ Len(asked) \in Nat /\ Len(ranges) > 0 /\ Len(ranges) <= Len(asked)
      /\ r = ranges[1]
  BY DEF LineInv
<1>2. Slicing!AtWork = Len(asked) - Len(ranges) + 1 /\ Slicing!AtWork \in 1 .. Len(asked)
  BY <1>1 DEF Slicing!AtWork
<1>3. r = asked[Slicing!AtWork]
  <2>1. 1 \in 1 .. Len(ranges)
    BY <1>1
  <2> QED BY <2>1, <1>1, <1>2 DEF LineInv
<1>4. IsRange(r, file_size)
  BY <1>2, <1>3 DEF LineInv
<1>5. \A n \in Nat : next.big = n => (Slicing!InBig <=> ~ AllBigs(r, file_size, n))
  BY DEF Slicing!InBig, Slicing!BigLast, Slicing!BigEnd, Slicing!Current, AllBigs, Bigs
<1>6. Slicing!Min({r[2], file_size}) = r[2]
  <2>1. r[2] \in Nat /\ file_size \in Nat /\ r[2] <= file_size
    BY <1>4 DEF IsRange, LineInv
  <2>2. r[2] \in Int /\ file_size \in Int
    BY <2>1
  <2> QED BY <2>1, <2>2, ExtremesOfTwo
<1>7. \A k \in Nat : next.tiny = k => (Slicing!InTiny <=> ~ AllTinies(r, k))
  BY <1>6 DEF Slicing!InTiny, Slicing!TinyEnd, Slicing!Current, AllTinies
<1> QED BY <1>2, <1>3, <1>4, <1>5, <1>7

\* A range takes its turn with nothing cut for it.
LEMMA TurnTaken ==
    ASSUME Slicing!Turn(ranges', file_size'), LineInv',
           \A c \in Slicing!CutFor(Slicing!AtWork)' : FALSE
    PROVE  next' \in [big : Nat, tiny : Nat] /\ WorkInv'
<1>1. CASE ranges' = << >>
  <2>1. next' = [big |-> 0, tiny |-> 0]
    BY <1>1 DEF Slicing!Turn
  <2> QED BY <1>1, <2>1 DEF WorkInv
<1>2. CASE ranges' # << >>
  <2> DEFINE r == Head(ranges')
             s == file_size'
  <2>1. next' = [big |-> r[1] \div BIG, tiny |-> TinyFrom(r, s)]
    BY <1>2 DEF Slicing!Turn, Slicing!Begun, TinyFrom, Slicing!BigLast, Bigs
  <2>2. s \in Nat /\ IsRange(r, s)
    <3>1. /\ Len(ranges') \in Nat /\ Len(asked') \in Nat /\ Len(ranges') > 0
          /\ Len(ranges') <= Len(asked') /\ r = ranges'[1]
      BY <1>2 DEF LineInv
    <3>2. 1 \in 1 .. Len(ranges') /\ Len(asked') - Len(ranges') + 1 \in 1 .. Len(asked')
      BY <3>1
    <3> QED BY <3>1, <3>2 DEF LineInv
  <2>3. r[1] \div BIG \in Nat /\ TinyFrom(r, s) \in Nat
    BY <2>2, BigFrom
  <2>4. Cut(BigsBefore(r, s, r[1] \div BIG), TiniesBefore(r, s, TinyFrom(r, s)), s) = {}
    BY <2>2, NothingBefore
  <2>5. Pairs(Slicing!CutFor(Slicing!AtWork)') = {}
    BY DEF Pairs
  <2> HIDE DEF r, s
  <2>6. next'.big = r[1] \div BIG /\ next'.tiny = TinyFrom(r, s) /\ next' \in [big : Nat, tiny : Nat]
    BY <2>1, <2>3
  <2>7. r[1] \div BIG <= next'.big /\ TinyFrom(r, s) <= next'.tiny
    BY <2>3, <2>6
  <2>8. Pairs(Slicing!CutFor(Slicing!AtWork))'
          = Cut(BigsBefore(r, s, next'.big), TiniesBefore(r, s, next'.tiny), s)
    BY <2>4, <2>5, <2>6 DEF Pairs
  <2> QED BY <2>6, <2>7, <2>8 DEF WorkInv, r, s
<1> QED BY <1>1, <1>2

LEMMA SliceParse == ASSUME Slicing!ParseLine PROVE SliceInv'
<1>1. /\ file_size' \in Nat /\ asked' \in Seq(Nat \X Nat) /\ asked' # << >>
      /\ \A i \in 1 .. Len(asked') : IsRange(asked'[i], file_size')
      /\ Slicing!Turn(asked', file_size') /\ chunks' = << >>
  BY LineParsed
<1>2. ranges' = asked'
  BY <1>1 DEF Slicing!Turn
<1>3. LineInv'
  <2>1. Len(asked') \in Nat
    BY <1>1
  <2>2. \A i \in 1 .. Len(asked') : Len(asked') - Len(asked') + i = i
    BY <2>1
  <2> QED BY <1>1, <1>2, <2>1, <2>2 DEF LineInv
<1>4. \A r : Slicing!CutFor(r)' = {}
  BY <1>1 DEF Slicing!CutFor
<1>5. next' \in [big : Nat, tiny : Nat] /\ WorkInv'
  <2>1. Slicing!CutFor(Slicing!AtWork)' = {}
    BY <1>1 DEF Slicing!CutFor
  <2> QED BY <1>1, <1>2, <1>3, <2>1, TurnTaken
<1>6. Slicing!AtWork' = 1
  <2>1. Len(asked') \in Nat
    BY <1>1
  <2> QED BY <2>1, <1>2 DEF Slicing!AtWork
<1>7. DoneInv'
  BY <1>6 DEF DoneInv
<1>8. OrderInv' /\ chunks' \in Seq(ChunkOf)
  BY <1>1 DEF OrderInv
<1> QED BY <1>3, <1>5, <1>7, <1>8 DEF SliceInv

\* A chunk put down after all the others of its range.
LEMMA SlicedOrder ==
    ASSUME SliceInv, ranges # << >>, NEW size \in Int, NEW at \in Nat,
           chunks' = Slicing!Emplaced(size, at), ranges' = ranges, asked' = asked,
           \A c \in Slicing!CutFor(Slicing!AtWork) : c.at < at
    PROVE  /\ chunks' \in Seq(ChunkOf) /\ OrderInv' /\ Slicing!AtWork' = Slicing!AtWork
           /\ \A r : Pairs(CutOf(chunks', r))
                       = Pairs(CutOf(chunks, r))
                           \union (IF r = Slicing!AtWork THEN {<<at, size>>} ELSE {})
<1> DEFINE w == Slicing!AtWork
           c == [size |-> size, key |-> next.big, at |-> at, range |-> w]
           n == Len(chunks)
<1>1. w \in 1 .. Len(asked) /\ next.big \in Nat /\ chunks \in Seq(ChunkOf) /\ Len(asked) \in Nat
  BY AtWorkIs DEF SliceInv, LineInv
<1>2. chunks' = Append(chunks, c) /\ w' = w
  BY DEF Slicing!Emplaced, Slicing!AtWork
<1> HIDE DEF w
<1>3. c \in ChunkOf /\ c.range = w /\ c.at = at /\ c.size = size
  BY <1>1 DEF ChunkOf
<1> HIDE DEF c
<1>4. /\ chunks' \in Seq(ChunkOf) /\ n \in Nat /\ Len(chunks') = n + 1
      /\ chunks'[n + 1] = c /\ \A i \in 1 .. n : chunks'[i] = chunks[i]
  BY <1>1, <1>2, <1>3
<1>5. \A r : Pairs(CutOf(chunks', r))
                = Pairs(CutOf(chunks, r)) \union (IF r = w THEN {<<at, size>>} ELSE {})
  BY <1>1, <1>2, <1>3, CutOfAppended
<1>6. \A i \in 1 .. n : chunks[i].range \in 1 .. w /\ chunks[i].range <= Len(asked)
  BY DEF SliceInv, OrderInv, w
<1>7. \A i \in 1 .. n : chunks[i].range = w => chunks[i].at < at
  <2>1. \A i \in 1 .. n : chunks[i].range = w => chunks[i] \in Slicing!CutFor(w)
    BY <1>1 DEF Slicing!CutFor
  <2> QED BY <2>1 DEF w
<1> HIDE DEF n
<1>8. \A i \in 1 .. n + 1 : chunks'[i].range \in 1 .. w /\ chunks'[i].range <= Len(asked)
  <2> SUFFICES ASSUME NEW i \in 1 .. n + 1
               PROVE  chunks'[i].range \in 1 .. w /\ chunks'[i].range <= Len(asked)
    OBVIOUS
  <2>1. CASE i \in 1 .. n
    BY <2>1, <1>4, <1>6
  <2>2. CASE i = n + 1
    BY <2>2, <1>1, <1>3, <1>4
  <2> QED BY <2>1, <2>2, <1>4
<1>9. ASSUME NEW i \in 1 .. n + 1, NEW j \in 1 .. n + 1, i < j
      PROVE  \/ chunks'[i].range < chunks'[j].range
             \/ chunks'[i].range = chunks'[j].range /\ chunks'[i].at < chunks'[j].at
  <2>1. i \in 1 .. n
    BY <1>9, <1>4
  <2>2. CASE j \in 1 .. n
    <3>1. \/ chunks[i].range < chunks[j].range
          \/ chunks[i].range = chunks[j].range /\ chunks[i].at < chunks[j].at
      BY <2>1, <2>2, <1>9 DEF SliceInv, OrderInv, n
    <3> QED BY <3>1, <2>1, <2>2, <1>4
  <2>3. CASE j = n + 1
    <3>1. chunks'[j].range = w /\ chunks'[j].at = at
      BY <2>3, <1>3, <1>4
    <3>2. chunks[i].range \in 1 .. w
      BY <2>1, <1>6
    <3>3. chunks[i].range < w \/ chunks[i].range = w
      BY <3>2, <1>1
    <3> QED BY <3>1, <3>3, <2>1, <1>4, <1>7
  <2> QED BY <2>2, <2>3, <1>4
<1>10. OrderInv'
  BY <1>2, <1>4, <1>8, <1>9 DEF OrderInv, w
<1> QED BY <1>2, <1>4, <1>5, <1>10 DEF w

\* A chunk put down leaves the ranges before the one at work as they were.
LEMMA SlicedDone ==
    ASSUME SliceInv, ranges # << >>, ranges' = ranges, asked' = asked, file_size' = file_size,
           NEW x, Slicing!AtWork' = Slicing!AtWork,
           \A r : Pairs(CutOf(chunks', r))
                 = Pairs(CutOf(chunks, r)) \union (IF r = Slicing!AtWork THEN {x} ELSE {})
    PROVE  LineInv' /\ DoneInv'
<1>1. LineInv'
  BY DEF SliceInv, LineInv
<1>2. \A r : Pairs(Slicing!CutFor(r))' = Pairs(CutOf(chunks', r))
  BY DEF Slicing!CutFor, CutOf, Pairs
<1>3. \A r : Pairs(Slicing!CutFor(r)) = Pairs(CutOf(chunks, r))
  BY CutForIs
<1> DEFINE w == Slicing!AtWork
<1>4. w \in Nat /\ w' = w
  BY AtWorkIs DEF SliceInv, LineInv
<1> HIDE DEF w
<1>5. \A r \in 1 .. w - 1 : r # w
  BY <1>4
<1>6. \A r \in 1 .. w - 1 : Pairs(CutOf(chunks', r)) = Pairs(Slicing!CutFor(r))
  BY <1>3, <1>5 DEF w
<1>7. \A r \in 1 .. w - 1 : Pairs(CutOf(chunks', r)) = Pairs(Slicing!Touched(asked[r], file_size))
  BY <1>6 DEF SliceInv, DoneInv, w
<1>8. w' - 1 = w - 1
  BY <1>4
<1>9. DoneInv'
  <2> SUFFICES ASSUME NEW r \in 1 .. w' - 1
               PROVE  Pairs(Slicing!CutFor(r))' = Pairs(Slicing!Touched(asked'[r], file_size'))
    BY DEF DoneInv, w
  <2>1. r \in 1 .. w - 1
    BY <1>8
  <2> QED BY <2>1, <1>2, <1>7
<1> QED BY <1>1, <1>9

LEMMA SliceBigStep == ASSUME SliceInv, Slicing!SliceBig PROVE SliceInv'
<1> DEFINE r == Head(ranges)
           s == file_size
           n == next.big
           k == next.tiny
           w == Slicing!AtWork
<1>1. /\ ranges # << >> /\ Slicing!InBig
      /\ chunks' = Slicing!Emplaced(BIG, n * BIG) /\ next' = [next EXCEPT !.big = @ + 1]
      /\ file_size' = s /\ ranges' = ranges /\ asked' = asked
  BY DEF Slicing!SliceBig
<1>2. n \in Nat /\ k \in Nat /\ next \in [big : Nat, tiny : Nat] /\ s \in Nat
  BY DEF SliceInv, LineInv
<1>3. IsRange(r, s) /\ ~ AllBigs(r, s, n)
  BY <1>1, <1>2, AtWorkIs DEF SliceInv
<1>4. /\ Pairs(Slicing!CutFor(w)) = Cut(BigsBefore(r, s, n), TiniesBefore(r, s, k), s)
      /\ r[1] \div BIG <= n /\ k = TinyFrom(r, s)
  BY <1>1 DEF SliceInv, WorkInv
<1>5. \A c \in Slicing!CutFor(w) : c.at < n * BIG
  <2>1. TinyFrom(r, s) <= k
    BY <1>2, <1>4
  <2>2. \A x \in Pairs(Slicing!CutFor(w)) : x[1] < n * BIG
    <3> HIDE DEF r, s, n, k, w
    <3> QED BY <2>1, <1>2, <1>3, <1>4, CutBefore
  <2>3. \A c \in Slicing!CutFor(w) : <<c.at, c.size>> \in Pairs(Slicing!CutFor(w))
    BY DEF Pairs
  <2>4. \A c : <<c.at, c.size>>[1] = c.at
    OBVIOUS
  <2> HIDE DEF n, w
  <2> QED BY <2>2, <2>3, <2>4
<1>6. BIG \in Int /\ n * BIG \in Nat
  BY <1>2, ChunkSizes
<1>7. /\ chunks' \in Seq(ChunkOf) /\ OrderInv' /\ Slicing!AtWork' = w
      /\ \A i : Pairs(CutOf(chunks', i))
                = Pairs(CutOf(chunks, i)) \union (IF i = w THEN {<<n * BIG, BIG>>} ELSE {})
  BY <1>1, <1>5, <1>6, SlicedOrder
<1>8. LineInv' /\ DoneInv'
  BY <1>1, <1>7, SlicedDone
<1>9. next' \in [big : Nat, tiny : Nat] /\ next'.big = n + 1 /\ next'.tiny = k
  BY <1>1, <1>2
<1>10. WorkInv'
  <2>1. Cut(BigsBefore(r, s, n + 1), TiniesBefore(r, s, k), s)
          = Cut(BigsBefore(r, s, n), TiniesBefore(r, s, k), s) \union {<<n * BIG, BIG>>}
    <3> HIDE DEF r, s, n, k
    <3> QED BY <1>2, <1>3, <1>4, OneMoreBig
  <2>2. Pairs(Slicing!CutFor(Slicing!AtWork))' = Pairs(CutOf(chunks', w))
    BY <1>7 DEF Slicing!CutFor, CutOf, Pairs
  <2>3. Pairs(CutOf(chunks', w)) = Cut(BigsBefore(r, s, n + 1), TiniesBefore(r, s, k), s)
    BY <2>1, <1>4, <1>7, CutForIs
  <2>4. r[1] \div BIG <= n + 1 /\ TinyFrom(r, s) <= k
    <3>1. r[1] \div BIG \in Nat /\ TinyFrom(r, s) \in Nat
      <4> HIDE DEF r, s
      <4> QED BY <1>2, <1>3, BigFrom
    <3> QED BY <3>1, <1>2, <1>4
  <2> QED BY <2>2, <2>3, <2>4, <1>1, <1>4, <1>9 DEF WorkInv
<1> QED BY <1>7, <1>8, <1>9, <1>10 DEF SliceInv

LEMMA SliceTinyStep == ASSUME SliceInv, Slicing!SliceTiny PROVE SliceInv'
<1> DEFINE r == Head(ranges)
           s == file_size
           n == next.big
           k == next.tiny
           w == Slicing!AtWork
           at == k * TINY
           size == TinySize(s, k)
<1>1. /\ ranges # << >> /\ ~ Slicing!InBig /\ Slicing!InTiny
      /\ chunks' = Slicing!Emplaced(size, at) /\ next' = [big |-> n + 1, tiny |-> k + 1]
      /\ file_size' = s /\ ranges' = ranges /\ asked' = asked
  BY DEF Slicing!SliceTiny, Slicing!TinyLast, TinySize
<1>2. n \in Nat /\ k \in Nat /\ next \in [big : Nat, tiny : Nat] /\ s \in Nat
  BY DEF SliceInv, LineInv
<1>3. IsRange(r, s) /\ AllBigs(r, s, n) /\ ~ AllTinies(r, k)
  BY <1>1, <1>2, AtWorkIs DEF SliceInv
<1>4. /\ Pairs(Slicing!CutFor(w)) = Cut(BigsBefore(r, s, n), TiniesBefore(r, s, k), s)
      /\ r[1] \div BIG <= n /\ TinyFrom(r, s) <= k
  BY <1>1 DEF SliceInv, WorkInv
<1>5. \A c \in Slicing!CutFor(w) : c.at < at
  <2>1. \A x \in Pairs(Slicing!CutFor(w)) : x[1] < k * TINY
    <3> HIDE DEF r, s, n, k, w
    <3> QED BY <1>2, <1>3, <1>4, CutBefore
  <2>2. \A c \in Slicing!CutFor(w) : <<c.at, c.size>> \in Pairs(Slicing!CutFor(w))
    BY DEF Pairs
  <2>3. \A c : <<c.at, c.size>>[1] = c.at
    OBVIOUS
  <2> HIDE DEF k, w
  <2> QED BY <2>1, <2>2, <2>3 DEF at
<1>6. size \in Int /\ at \in Nat
  <2>1. TINY \in Nat /\ at \in Nat
    BY <1>2, ChunkSizes
  <2> QED BY <2>1, <1>2 DEF TinySize
<1>7. /\ chunks' \in Seq(ChunkOf) /\ OrderInv' /\ Slicing!AtWork' = w
      /\ \A i : Pairs(CutOf(chunks', i))
                = Pairs(CutOf(chunks, i)) \union (IF i = w THEN {<<at, size>>} ELSE {})
  <2> HIDE DEF size, at
  <2> QED BY <1>1, <1>5, <1>6, SlicedOrder
<1>8. LineInv' /\ DoneInv'
  BY <1>1, <1>7, SlicedDone
<1>9. next' \in [big : Nat, tiny : Nat] /\ next'.big = n + 1 /\ next'.tiny = k + 1
  BY <1>1, <1>2
<1>10. WorkInv'
  <2>1. /\ Cut(BigsBefore(r, s, n + 1), TiniesBefore(r, s, k + 1), s)
             = Cut(BigsBefore(r, s, n), TiniesBefore(r, s, k), s) \union {<<at, size>>}
        /\ AllBigs(r, s, n + 1)
    <3> HIDE DEF r, s, n, k
    <3> QED BY <1>2, <1>3, <1>4, OneMoreTiny
  <2>2. Pairs(Slicing!CutFor(Slicing!AtWork))' = Pairs(CutOf(chunks', w))
    BY <1>7 DEF Slicing!CutFor, CutOf, Pairs
  <2>3. Pairs(CutOf(chunks', w)) = Cut(BigsBefore(r, s, n + 1), TiniesBefore(r, s, k + 1), s)
    BY <2>1, <1>4, <1>7, CutForIs
  <2>4. r[1] \div BIG <= n + 1 /\ TinyFrom(r, s) <= k + 1
    <3>1. r[1] \div BIG \in Nat /\ TinyFrom(r, s) \in Nat
      <4> HIDE DEF r, s
      <4> QED BY <1>2, <1>3, BigFrom
    <3> QED BY <3>1, <1>2, <1>4
  <2>5. ~ Slicing!InBig'
    BY <2>1, <1>1, <1>9
       DEF Slicing!InBig, Slicing!BigLast, Slicing!BigEnd, Slicing!Current, AllBigs, Bigs
  <2> QED BY <2>2, <2>3, <2>4, <2>5, <1>1, <1>9 DEF WorkInv
<1> QED BY <1>7, <1>8, <1>9, <1>10 DEF SliceInv

LEMMA RangeDoneStep == ASSUME SliceInv, Slicing!RangeDone PROVE SliceInv'
<1> DEFINE r == Head(ranges)
           s == file_size
           n == next.big
           k == next.tiny
           w == Slicing!AtWork
<1>1. /\ ranges # << >> /\ ~ Slicing!InBig /\ ~ Slicing!InTiny
      /\ Slicing!Turn(Tail(ranges), s) /\ ranges' = Tail(ranges)
      /\ file_size' = s /\ chunks' = chunks /\ asked' = asked
  BY DEF Slicing!RangeDone, Slicing!Turn
<1>2. n \in Nat /\ k \in Nat /\ s \in Nat
  BY DEF SliceInv, LineInv
<1>3. /\ IsRange(r, s) /\ AllBigs(r, s, n) /\ AllTinies(r, k)
      /\ w \in 1 .. Len(asked) /\ r = asked[w]
  BY <1>1, <1>2, AtWorkIs DEF SliceInv
<1>4. Pairs(Slicing!CutFor(w)) = Pairs(Slicing!Touched(asked[w], s))
  <2>1. Pairs(Slicing!CutFor(w)) = Cut(BigsBefore(r, s, n), TiniesBefore(r, s, k), s)
    BY <1>1 DEF SliceInv, WorkInv
  <2>2. Pairs(Slicing!Touched(r, s)) = Cut(BigsBefore(r, s, n), TiniesBefore(r, s, k), s)
    <3> HIDE DEF r, s, n, k
    <3> QED BY <1>2, <1>3, TouchedAre
  <2> QED BY <2>1, <2>2, <1>3
<1>5. /\ Len(ranges) \in Nat /\ Len(asked) \in Nat /\ Len(ranges) > 0
      /\ ranges' \in Seq(Nat \X Nat) /\ Len(ranges') = Len(ranges) - 1
      /\ \A i \in 1 .. Len(ranges) - 1 : ranges'[i] = ranges[i + 1]
  BY <1>1 DEF SliceInv, LineInv
<1>6. LineInv'
  <2>1. Len(ranges') <= Len(asked')
    BY <1>1, <1>5 DEF SliceInv, LineInv
  <2>2. ASSUME NEW i \in 1 .. Len(ranges')
        PROVE  ranges'[i] = asked'[Len(asked') - Len(ranges') + i]
    <3>1. i + 1 \in 1 .. Len(ranges) /\ i \in 1 .. Len(ranges) - 1
      BY <1>5
    <3>2. ranges'[i] = asked[Len(asked) - Len(ranges) + (i + 1)]
      BY <3>1, <1>5 DEF SliceInv, LineInv
    <3>3. Len(asked) - Len(ranges) + (i + 1) = Len(asked') - Len(ranges') + i
      BY <1>1, <1>5
    <3> QED BY <3>2, <3>3, <1>1
  <2> QED BY <2>1, <2>2, <1>1, <1>5 DEF SliceInv, LineInv
<1>7. w \in Nat /\ Slicing!AtWork' = w + 1
  <2>1. w = Len(asked) - Len(ranges) + 1 /\ Slicing!AtWork' = Len(asked) - Len(ranges') + 1
    BY <1>1 DEF Slicing!AtWork
  <2> QED BY <2>1, <1>3, <1>5
<1>8. \A i : Slicing!CutFor(i)' = Slicing!CutFor(i)
  BY <1>1 DEF Slicing!CutFor
<1>9. Slicing!CutFor(w + 1) = {}
  <2>1. \A i \in 1 .. Len(chunks) : chunks[i].range \in 1 .. w
    BY DEF SliceInv, OrderInv
  <2>2. \A i \in 1 .. Len(chunks) : chunks[i].range # w + 1
    <3> HIDE DEF w
    <3> QED BY <2>1, <1>7
  <2>3. DOMAIN chunks = 1 .. Len(chunks)
    BY DEF SliceInv
  <2> QED BY <2>2, <2>3 DEF Slicing!CutFor
<1>10. next' \in [big : Nat, tiny : Nat] /\ WorkInv'
  <2>1. Slicing!CutFor(Slicing!AtWork)' = {}
    BY <1>1, <1>7, <1>9 DEF Slicing!CutFor
  <2>2. Slicing!Turn(ranges', file_size')
    BY <1>1
  <2> QED BY <2>1, <2>2, <1>6, TurnTaken
<1>11. DoneInv'
  <2> SUFFICES ASSUME NEW i \in 1 .. Slicing!AtWork' - 1
               PROVE  Pairs(Slicing!CutFor(i))' = Pairs(Slicing!Touched(asked'[i], file_size'))
    BY DEF DoneInv
  <2>1. Pairs(Slicing!CutFor(i))' = Pairs(Slicing!CutFor(i))
    BY <1>1 DEF Slicing!CutFor, Pairs
  <2>2. i \in 1 .. w
    <3> HIDE DEF w
    <3> QED BY <1>7
  <2>3. CASE i = w
    BY <2>1, <2>3, <1>1, <1>4
  <2>4. CASE i # w
    <3>1. i \in 1 .. w - 1
      <4> HIDE DEF w
      <4> QED BY <2>2, <2>4, <1>7
    <3> QED BY <3>1, <2>1, <1>1 DEF SliceInv, DoneInv
  <2> QED BY <2>3, <2>4
<1>12. OrderInv'
  <2>1. \A i \in 1 .. Len(chunks) :
          chunks[i].range \in 1 .. w /\ chunks[i].range <= Len(asked)
    BY DEF SliceInv, OrderInv
  <2>2. \A i \in 1 .. Len(chunks) : chunks[i].range \in 1 .. w + 1
    <3> HIDE DEF w
    <3> QED BY <2>1, <1>7
  <2> QED BY <2>1, <2>2, <1>1, <1>7 DEF SliceInv, OrderInv
<1>13. chunks' \in Seq(ChunkOf)
  BY <1>1 DEF SliceInv
<1> QED BY <1>6, <1>10, <1>11, <1>12, <1>13 DEF SliceInv

LEMMA ChunksInitially == Init => ChunksInv
<1> SUFFICES ASSUME Init, subject = "chunks" PROVE SliceInv
  BY DEF ChunksInv
<1>1. /\ file_size = 0 /\ ranges = << >> /\ next = [big |-> 0, tiny |-> 0]
      /\ chunks = << >> /\ asked = << >>
  BY DEF Init, Slicing!Init
<1>2. Slicing!AtWork = 1
  BY <1>1 DEF Slicing!AtWork
<1> QED
  BY <1>1, <1>2 DEF SliceInv, LineInv, DoneInv, WorkInv, OrderInv

LEMMA ChunksPreserved ==
    ChunksInv /\ [Next]_<<subject, statisticVars, slicingVars, dirVars>> => ChunksInv'
<1> SUFFICES ASSUME ChunksInv, [Next]_<<subject, statisticVars, slicingVars, dirVars>>,
                    subject' = "chunks"
             PROVE  SliceInv'
  BY DEF ChunksInv
<1>1. CASE Next
  <2>1. subject = "chunks" /\ Slicing!Next
    BY <1>1 DEF Next
  <2> QED
    BY <2>1, SliceParse, SliceBigStep, SliceTinyStep, RangeDoneStep DEF ChunksInv, Slicing!Next
<1>2. CASE UNCHANGED <<subject, statisticVars, slicingVars, dirVars>>
  <2>1. /\ subject = "chunks" /\ file_size' = file_size /\ ranges' = ranges /\ next' = next
        /\ chunks' = chunks /\ asked' = asked
    BY <1>2 DEF slicingVars
  <2>2. SliceInv
    BY <2>1 DEF ChunksInv
  <2>3. LineInv' /\ next' \in [big : Nat, tiny : Nat] /\ chunks' \in Seq(ChunkOf)
    BY <2>1, <2>2 DEF SliceInv, LineInv
  <2>4. /\ Slicing!AtWork' = Slicing!AtWork /\ Slicing!InBig' = Slicing!InBig
        /\ \A r : Pairs(Slicing!CutFor(r))' = Pairs(Slicing!CutFor(r))
    BY <2>1 DEF Pairs, Slicing!CutFor, Slicing!AtWork, Slicing!InBig, Slicing!BigLast,
                Slicing!BigEnd, Slicing!Current
  <2>5. DoneInv'
    BY <2>1, <2>2, <2>4 DEF SliceInv, DoneInv
  <2>6. WorkInv'
    <3>1. Pairs(Slicing!CutFor(Slicing!AtWork))' = Pairs(Slicing!CutFor(Slicing!AtWork))
      BY <2>1 DEF Pairs, Slicing!CutFor, Slicing!AtWork
    <3> QED BY <3>1, <2>1, <2>2, <2>4 DEF SliceInv, WorkInv
  <2>7. OrderInv'
    BY <2>1, <2>2, <2>4 DEF SliceInv, OrderInv
  <2> QED BY <2>3, <2>5, <2>6, <2>7 DEF SliceInv
<1> QED BY <1>1, <1>2

\* SliceChunk puts down exactly the blocks of the file that the ranges of a line
\* touch, range by range and in their order, none twice: for all sizes of chunks
\* and files, and all headers.
THEOREM ChunksAlwaysCover == Spec => []ChunksCoverRange
<1>1. ChunksInv => ChunksCoverRange
  <2> SUFFICES ASSUME SliceInv, ranges = << >> PROVE Slicing!ChunksCoverRange
    BY DEF ChunksInv, ChunksCoverRange, Slicing!ChunksCoverRange
  <2>1. Len(asked) \in Nat /\ DOMAIN asked = 1 .. Len(asked) /\ DOMAIN chunks = 1 .. Len(chunks)
    BY DEF SliceInv, LineInv
  <2>2. Slicing!AtWork - 1 = Len(asked)
    BY <2>1 DEF Slicing!AtWork
  <2>3. \A r \in DOMAIN asked :
          Pairs(Slicing!CutFor(r)) = Pairs(Slicing!Touched(asked[r], file_size))
    BY <2>1, <2>2 DEF SliceInv, DoneInv
  <2>4. \A i \in DOMAIN chunks : chunks[i].range \in DOMAIN asked
    <3>1. \A i \in 1 .. Len(chunks) :
            chunks[i].range \in 1 .. Slicing!AtWork /\ chunks[i].range <= Len(asked)
      BY DEF SliceInv, OrderInv
    <3> QED BY <3>1, <2>1, <2>2
  <2> QED BY <2>1, <2>3, <2>4 DEF Slicing!ChunksCoverRange, SliceInv, OrderInv, Pairs
<1> QED BY <1>1, ChunksInitially, ChunksPreserved, PTL DEF Spec
=============================================================================
