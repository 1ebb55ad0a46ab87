-------------------------- MODULE CacheBaseProofs --------------------------
(***************************************************************************)
(* Lemmas the proofs about the caches, and about what surrounds them, rest *)
(* on.  First sums over finite sets, and what the folds of the community   *)
(* modules have to do with them: a fold chooses the next element in an     *)
(* order of its own, a sum does not depend on any.  The proofs are by      *)
(* least counterexample, a subset without a smaller one, since sets of     *)
(* numbers and the subsets of a finite set are well founded.  Then lists   *)
(* of nodes and the bytes they are charged: what adding a node, dropping   *)
(* one and moving one to the front do to KeysOf, Bytes and KeysDistinct.   *)
(* Last the hits a trace allows at most, as OPTCache computes them: that   *)
(* evicting what is asked for last never loses one, by exchange.           *)
(***************************************************************************)
EXTENDS CacheBase, SequencesExt, FiniteSetTheorems, WellFoundedInduction,
        SequenceTheorems, TLAPS

\* A set of numbers has a least one.
LEMMA SetHasMinimum ==
    ASSUME NEW S \in SUBSET Nat, S # {}
    PROVE  \E m \in S : \A x \in S : m <= x
<1>1. PICK m \in S : \A y \in S : ~ (<<y, m>> \in OpToRel(<, Nat))
  BY NatLessThanWellFounded, WFMin
<1>2. ASSUME NEW y \in S, y < m PROVE FALSE
  <2>1. <<y, m>> \in Nat \X Nat
    OBVIOUS
  <2>2. <<y, m>> \in OpToRel(<, Nat)
    BY <2>1, <1>2 DEF OpToRel
  <2> QED BY <2>2, <1>1
<1>3. \A x \in S : x \in Nat /\ m \in Nat
  OBVIOUS
<1> QED BY <1>2, <1>3

\* One with a bound has a greatest one.
LEMMA SetHasMaximum ==
    ASSUME NEW S \in SUBSET Nat, S # {}, NEW n \in Nat, \A x \in S : x <= n
    PROVE  \E m \in S : \A x \in S : x <= m
<1> DEFINE T == { n - x : x \in S }
<1>1. T \in SUBSET Nat /\ T # {}
  <2>1. \A x \in S : x \in Nat /\ n - x \in Nat
    OBVIOUS
  <2> QED BY <2>1
<1>2. PICK m \in T : \A y \in T : m <= y
  <2> HIDE DEF T
  <2> QED BY <1>1, SetHasMinimum
<1>3. PICK x \in S : m = n - x
  BY <1>2
<1>4. \A z \in S : n - z \in T /\ z \in Nat
  OBVIOUS
<1>5. \A z \in S : z <= x
  BY <1>2, <1>3, <1>4
<1> QED BY <1>5

-----------------------------------------------------------------------------
\* The value a fold of MapThenSumSet gives each subset of S, in its own order,
\* and in any order: g adds up the values v of the elements.
SumStep(v, S, f) ==
    [s \in SUBSET S |-> IF s = {} THEN 0
                        ELSE v[CHOOSE x \in s : TRUE] + f[s \ {CHOOSE x \in s : TRUE}]]

IsSum(v, S, g) ==
    /\ g \in [SUBSET S -> Nat] /\ g[{}] = 0
    /\ \A s \in SUBSET S : \A x \in s : g[s] = v[x] + g[s \ {x}]

\* The sum of the values of v over S.
SumOf(v, S) == CHOOSE n \in Nat : \E g : IsSum(v, S, g) /\ n = g[S]

\* A nonempty set of subsets of a finite set has a minimal one.
LEMMA MinimalSubset ==
    ASSUME NEW S, IsFiniteSet(S), NEW B \in SUBSET SUBSET S, B # {}
    PROVE  \E s \in B : \A u \in SUBSET s : u # s => u \notin B
<1>1. FiniteSubsetsOf(S) = SUBSET S
  BY FS_FiniteSubsetsOfFinite
<1>2. PICK s \in B : \A u \in B : ~ (<<u, s>> \in StrictSubsetOrdering(S))
  BY <1>1, WFMin, FS_StrictSubsetOrderingWellFounded
<1>3. ASSUME NEW u \in SUBSET s, u # s, u \in B
      PROVE  <<u, s>> \in StrictSubsetOrdering(S)
  <2>1. u \in SUBSET S /\ s \in SUBSET S
    BY <1>3
  <2> QED
    BY <2>1, <1>3 DEF StrictSubsetOrdering
<1>4. \A u \in SUBSET s : u # s => u \notin B
  BY <1>2, <1>3
<1> QED
  BY <1>4

\* Only one function follows a fold's order.
LEMMA SumUnique ==
    ASSUME NEW S, IsFiniteSet(S), NEW v, NEW g, IsSum(v, S, g), NEW f, f = SumStep(v, S, f)
    PROVE  f = g
<1> DEFINE Bad == { s \in SUBSET S : f[s] # g[s] }
<1>0. f = [s \in SUBSET S |-> f[s]] /\ g = [s \in SUBSET S |-> g[s]]
  BY DEF SumStep, IsSum
<1>1. SUFFICES ASSUME Bad # {} PROVE FALSE
  <2>1. Bad = {} => \A s \in SUBSET S : f[s] = g[s]
    OBVIOUS
  <2> HIDE DEF Bad
  <2> QED
    BY <2>1, <1>0
<1>2. Bad \in SUBSET SUBSET S
  OBVIOUS
<1> HIDE DEF Bad
<1>3. PICK s \in Bad : \A u \in SUBSET s : u # s => u \notin Bad
  BY <1>1, <1>2, MinimalSubset
<1>4. s \in SUBSET S /\ s # {}
  <2>1. f[{}] = 0
    BY DEF SumStep
  <2> QED
    BY <2>1, <1>3 DEF IsSum, Bad
<1> DEFINE x == CHOOSE x \in s : TRUE
<1>5. x \in s
  BY <1>4
<1>6. f[s] = v[x] + f[s \ {x}]
  BY <1>4 DEF SumStep
<1> HIDE DEF x
<1>7. g[s] = v[x] + g[s \ {x}]
  BY <1>4, <1>5 DEF IsSum
<1>8. s \ {x} \notin Bad
  BY <1>3, <1>5
<1> QED
  BY <1>3, <1>4, <1>6, <1>7, <1>8 DEF Bad

\* A sum in any order is one in the fold's.
LEMMA SumIsStep ==
    ASSUME NEW S, NEW v, NEW g, IsSum(v, S, g)
    PROVE  g = SumStep(v, S, g)
<1>1. g = [s \in SUBSET S |-> g[s]] /\ g[{}] = 0
  BY DEF IsSum
<1>2. ASSUME NEW s \in SUBSET S, s # {}
      PROVE  g[s] = v[CHOOSE x \in s : TRUE] + g[s \ {CHOOSE x \in s : TRUE}]
  <2>1. (CHOOSE x \in s : TRUE) \in s
    BY <1>2
  <2> QED
    BY <2>1 DEF IsSum
<1> QED
  BY <1>1, <1>2 DEF SumStep

\* One element more.
LEMMA SumExtends ==
    ASSUME NEW S, NEW v, \A y \in S : v[y] \in Nat, NEW x \in S, NEW g, IsSum(v, S \ {x}, g)
    PROVE  \E h : IsSum(v, S, h)
<1> DEFINE h == [u \in SUBSET S |-> IF x \in u THEN v[x] + g[u \ {x}] ELSE g[u]]
<1>1. \A u \in SUBSET S : u \ {x} \in SUBSET (S \ {x}) /\ (x \notin u => u \in SUBSET (S \ {x}))
  OBVIOUS
<1>2. \A u \in SUBSET (S \ {x}) : g[u] \in Nat
  BY DEF IsSum
<1>3. h \in [SUBSET S -> Nat]
  BY <1>1, <1>2
<1>4. h[{}] = 0
  BY DEF IsSum
<1>5. ASSUME NEW s \in SUBSET S, NEW y \in s
      PROVE  h[s] = v[y] + h[s \ {y}]
  <2>1. CASE x \notin s
    BY <2>1, <1>1 DEF IsSum
  <2>2. CASE x = y
    BY <2>2, <1>1
  <2>3. CASE x \in s /\ x # y
    <3>1. (s \ {x}) \ {y} = (s \ {y}) \ {x} /\ y \in s \ {x}
      BY <2>3
    <3>2. g[s \ {x}] = v[y] + g[(s \ {x}) \ {y}]
      BY <3>1, <1>1 DEF IsSum
    <3>3. h[s] = v[x] + g[s \ {x}] /\ h[s \ {y}] = v[x] + g[(s \ {y}) \ {x}]
      BY <2>3
    <3>4. g[s \ {x}] \in Nat /\ g[(s \ {x}) \ {y}] \in Nat
      <4>1. s \ {x} \in SUBSET (S \ {x}) /\ (s \ {x}) \ {y} \in SUBSET (S \ {x})
        OBVIOUS
      <4> QED
        BY <4>1, <1>2
    <3> HIDE DEF h
    <3>5. v[y] \in Int /\ v[x] \in Int
      OBVIOUS
    <3>6. g[(s \ {x}) \ {y}] = g[(s \ {y}) \ {x}]
      BY <3>1
    <3>7. \A a, b, c, d, e, f : a \in Int /\ b \in Int /\ c \in Int /\ d = a + e /\ e = b + c
             /\ f = a + c => d = b + f
      OBVIOUS
    <3> QED
      BY <3>2, <3>3, <3>4, <3>5, <3>6, <3>7
  <2> QED
    BY <2>1, <2>2, <2>3
<1> HIDE DEF h
<1> QED
  BY <1>3, <1>4, <1>5 DEF IsSum

\* Every finite set of numbers has a sum.
LEMMA SumExists ==
    ASSUME NEW S, IsFiniteSet(S), NEW v, \A x \in S : v[x] \in Nat
    PROVE  \E g : IsSum(v, S, g)
<1> DEFINE Bad == { s \in SUBSET S : ~ \E g : IsSum(v, s, g) }
<1>1. SUFFICES ASSUME Bad # {} PROVE FALSE
  OBVIOUS
<1>2. Bad \in SUBSET SUBSET S
  OBVIOUS
<1> HIDE DEF Bad
<1>3. PICK s \in Bad : \A u \in SUBSET s : u # s => u \notin Bad
  BY <1>1, <1>2, MinimalSubset
<1>4. s \in SUBSET S /\ ~ \E g : IsSum(v, s, g)
  BY <1>3 DEF Bad
<1>5. CASE s = {}
  <2> DEFINE g == [u \in SUBSET s |-> 0]
  <2>1. SUBSET s = {{}}
    BY <1>5
  <2>2. IsSum(v, s, g)
    BY <2>1 DEF IsSum
  <2> QED
    BY <2>2, <1>4
<1>6. CASE s # {}
  <2>1. PICK x \in s : TRUE
    BY <1>6
  <2>2. s \ {x} \in SUBSET s /\ s \ {x} # s /\ s \ {x} \in SUBSET S
    BY <2>1, <1>4
  <2>3. \E g : IsSum(v, s \ {x}, g)
    BY <2>2, <1>3 DEF Bad
  <2>4. \A y \in s : v[y] \in Nat
    BY <1>4
  <2>5. \E h : IsSum(v, s, h)
    BY <2>1, <2>3, <2>4, SumExtends
  <2> QED
    BY <2>5, <1>4
<1> QED
  BY <1>5, <1>6

\* SumOf is that sum, for the set and for each of its subsets.
LEMMA SumOfIs ==
    ASSUME NEW S, IsFiniteSet(S), NEW v, \A x \in S : v[x] \in Nat, NEW g, IsSum(v, S, g)
    PROVE  /\ \A s \in SUBSET S : g[s] = SumOf(v, s) /\ g[s] \in Nat
           /\ \A f : f = SumStep(v, S, f) <=> f = g
<1>1. \A f : f = SumStep(v, S, f) <=> f = g
  <2>1. g = SumStep(v, S, g)
    BY SumIsStep
  <2>2. \A f : f = SumStep(v, S, f) => f = g
    BY SumUnique
  <2> QED
    BY <2>1, <2>2
<1>2. ASSUME NEW s \in SUBSET S
      PROVE  g[s] = SumOf(v, s) /\ g[s] \in Nat
  <2> DEFINE h == [u \in SUBSET s |-> g[u]]
  <2>1. \A u \in SUBSET s : u \in SUBSET S /\ \A x \in u : u \ {x} \in SUBSET s
    OBVIOUS
  <2>2. IsSum(v, s, h)
    <3>1. h \in [SUBSET s -> Nat] /\ h[{}] = 0
      BY <2>1 DEF IsSum
    <3>2. ASSUME NEW u \in SUBSET s, NEW x \in u PROVE h[u] = v[x] + h[u \ {x}]
      BY <2>1 DEF IsSum
    <3> HIDE DEF h
    <3> QED
      BY <3>1, <3>2 DEF IsSum
  <2>3. IsFiniteSet(s)
    BY FS_Subset
  <2>4. h[s] = g[s] /\ g[s] \in Nat
    BY DEF IsSum
  <2> HIDE DEF h
  <2>5. \A f : IsSum(v, s, f) => f = h
    <3> SUFFICES ASSUME NEW f, IsSum(v, s, f) PROVE f = h
      OBVIOUS
    <3>1. h = SumStep(v, s, h)
      BY <2>2, SumIsStep
    <3> QED
      BY <3>1, <2>3, SumUnique
  <2>6. \A m \in Nat : (\E f : IsSum(v, s, f) /\ m = f[s]) <=> m = g[s]
    BY <2>2, <2>4, <2>5
  <2> QED
    BY <2>4, <2>6 DEF SumOf
<1> QED
  BY <1>1, <1>2

\* Sums of numbers: of none, of one more, and of two sets apart.
LEMMA SumFacts ==
    ASSUME NEW S, IsFiniteSet(S), NEW v, \A x \in S : v[x] \in Nat
    PROVE  /\ SumOf(v, {}) = 0
           /\ \A s \in SUBSET S : SumOf(v, s) \in Nat
           /\ \A s \in SUBSET S : \A x \in s : SumOf(v, s) = v[x] + SumOf(v, s \ {x})
           /\ \A s, u \in SUBSET S : s \cap u = {} => SumOf(v, s \union u) = SumOf(v, s) + SumOf(v, u)
<1>1. PICK g : IsSum(v, S, g)
  BY SumExists
<1>2. \A s \in SUBSET S : g[s] = SumOf(v, s) /\ g[s] \in Nat
  BY <1>1, SumOfIs
<1>3. g[{}] = 0 /\ \A s \in SUBSET S : \A x \in s : g[s] = v[x] + g[s \ {x}]
  BY <1>1 DEF IsSum
<1>4. \A s \in SUBSET S : \A x \in s : s \ {x} \in SUBSET S
  OBVIOUS
<1>5. ASSUME NEW s \in SUBSET S
      PROVE  \A u \in SUBSET S : s \cap u = {} => g[s \union u] = g[s] + g[u]
  <2> DEFINE Bad == { u \in SUBSET S : s \cap u = {} /\ g[s \union u] # g[s] + g[u] }
  <2>1. SUFFICES ASSUME Bad # {} PROVE FALSE
    OBVIOUS
  <2>2. Bad \in SUBSET SUBSET S
    OBVIOUS
  <2> HIDE DEF Bad
  <2>3. PICK u \in Bad : \A w \in SUBSET u : w # u => w \notin Bad
    BY <2>1, <2>2, MinimalSubset
  <2>4. u \in SUBSET S /\ s \cap u = {} /\ g[s \union u] # g[s] + g[u]
    BY <2>3 DEF Bad
  <2>5. u # {}
    <3> SUFFICES ASSUME u = {} PROVE FALSE
      OBVIOUS
    <3>1. s \union u = s /\ g[s] \in Nat
      BY <1>2
    <3> QED
      BY <3>1, <2>4, <1>3
  <2>6. PICK x \in u : TRUE
    BY <2>5
  <2>7. /\ u \ {x} \in SUBSET u /\ u \ {x} # u /\ u \ {x} \in SUBSET S
        /\ s \cap (u \ {x}) = {} /\ s \union u \in SUBSET S /\ x \in s \union u
        /\ (s \union u) \ {x} = s \union (u \ {x})
    BY <2>4, <2>6
  <2>8. g[s \union (u \ {x})] = g[s] + g[u \ {x}]
    BY <2>3, <2>7 DEF Bad
  <2>9. g[s \union u] = v[x] + g[s \union (u \ {x})] /\ g[u] = v[x] + g[u \ {x}]
    BY <2>4, <2>7, <1>3
  <2>10. g[s] \in Nat /\ g[u \ {x}] \in Nat /\ v[x] \in Nat
    BY <2>4, <2>7, <1>2
  <2> QED
    BY <2>4, <2>8, <2>9, <2>10
<1>6. SumOf(v, {}) = 0
  BY <1>2, <1>3
<1>7. ASSUME NEW s \in SUBSET S, NEW x \in s
      PROVE  SumOf(v, s) = v[x] + SumOf(v, s \ {x})
  <2>1. s \ {x} \in SUBSET S
    BY <1>4
  <2>2. g[s] = SumOf(v, s) /\ g[s \ {x}] = SumOf(v, s \ {x})
    BY <2>1, <1>2
  <2> QED
    BY <2>2, <1>3
<1>8. ASSUME NEW s \in SUBSET S, NEW u \in SUBSET S, s \cap u = {}
      PROVE  SumOf(v, s \union u) = SumOf(v, s) + SumOf(v, u)
  <2>1. s \union u \in SUBSET S
    OBVIOUS
  <2>2. g[s] = SumOf(v, s) /\ g[u] = SumOf(v, u) /\ g[s \union u] = SumOf(v, s \union u)
    BY <2>1, <1>2
  <2>3. g[s \union u] = g[s] + g[u]
    BY <1>5, <1>8
  <2> QED
    BY <2>2, <2>3
<1>9. \A s \in SUBSET S : SumOf(v, s) \in Nat
  BY <1>2
<1> QED
  BY <1>6, <1>7, <1>8, <1>9

\* The same, one fact at a time: of nothing.
LEMMA SumNothing == \A v : SumOf(v, {}) = 0
<1>1. IsFiniteSet({})
  BY FS_EmptySet
<1>2. \A v : \A x \in {} : v[x] \in Nat
  OBVIOUS
<1> QED
  BY <1>1, <1>2, SumFacts

\* One element taken out.
LEMMA SumOneLess ==
    ASSUME NEW S, IsFiniteSet(S), NEW v, \A x \in S : v[x] \in Nat, NEW x \in S
    PROVE  /\ SumOf(v, S) = v[x] + SumOf(v, S \ {x})
           /\ SumOf(v, S) \in Nat /\ SumOf(v, S \ {x}) \in Nat
<1>1. PICK g : IsSum(v, S, g)
  BY SumExists
<1>2. S \in SUBSET S /\ S \ {x} \in SUBSET S
  OBVIOUS
<1>3. g[S] = SumOf(v, S) /\ g[S \ {x}] = SumOf(v, S \ {x}) /\ g[S] \in Nat /\ g[S \ {x}] \in Nat
  BY <1>1, <1>2, SumOfIs
<1>4. g[S] = v[x] + g[S \ {x}]
  BY <1>1, <1>2 DEF IsSum
<1> QED
  BY <1>3, <1>4

\* Two sets apart.
LEMMA SumUnion ==
    ASSUME NEW S, IsFiniteSet(S), NEW v, \A x \in S : v[x] \in Nat,
           NEW a \in SUBSET S, NEW b \in SUBSET S, a \cap b = {}
    PROVE  SumOf(v, a \union b) = SumOf(v, a) + SumOf(v, b)
<1>1. \A s, u \in SUBSET S : s \cap u = {} => SumOf(v, s \union u) = SumOf(v, s) + SumOf(v, u)
  BY SumFacts
<1> QED
  BY <1>1

\* What a fold of MapThenSumSet computes is the sum.
LEMMA FoldIsSum ==
    ASSUME NEW S, IsFiniteSet(S), NEW v, \A x \in S : v[x] \in Nat
    PROVE  (CHOOSE f : f = SumStep(v, S, f))[S] = SumOf(v, S)
<1>1. PICK g : IsSum(v, S, g)
  BY SumExists
<1>2. \A f : f = SumStep(v, S, f) <=> f = g
  BY <1>1, SumOfIs
<1>3. (CHOOSE f : f = SumStep(v, S, f)) = g
  BY <1>2
<1>4. S \in SUBSET S
  OBVIOUS
<1> QED
  BY <1>1, <1>3, <1>4, SumOfIs

\* f takes the elements of S to those of T, one to one, and keeps their values.
Renames(f, S, v, T, w) ==
    /\ f \in [S -> T] /\ \A x, y \in S : f[x] = f[y] => x = y
    /\ \A y \in T : \E x \in S : f[x] = y
    /\ \A x \in S : v[x] = w[f[x]]

\* Then the sums are equal.
LEMMA SumRenamed ==
    \A f, S, v, T, w :
        (/\ IsFiniteSet(S) /\ IsFiniteSet(T) /\ Renames(f, S, v, T, w)
         /\ (\A x \in S : v[x] \in Nat) /\ (\A y \in T : w[y] \in Nat))
          => SumOf(v, S) = SumOf(w, T)
<1> TAKE f, S, v, T, w
<1> HAVE /\ IsFiniteSet(S) /\ IsFiniteSet(T) /\ Renames(f, S, v, T, w)
         /\ (\A x \in S : v[x] \in Nat) /\ (\A y \in T : w[y] \in Nat)
<1> USE DEF Renames
<1> DEFINE Im(s) == { f[x] : x \in s }
           Bad == { s \in SUBSET S : SumOf(v, s) # SumOf(w, Im(s)) }
<1>1. Im(S) = T /\ \A s \in SUBSET S : Im(s) \in SUBSET T
  OBVIOUS
<1>2. Im({}) = {}
  OBVIOUS
<1>3. \A s \in SUBSET S : \A x \in s : Im(s \ {x}) = Im(s) \ {f[x]} /\ f[x] \in Im(s)
  OBVIOUS
<1> HIDE DEF Im
<1>4. SUFFICES ASSUME Bad # {} PROVE FALSE
  <2>1. S \in SUBSET S
    OBVIOUS
  <2> QED BY <2>1, <1>1
<1>5. Bad \in SUBSET SUBSET S
  OBVIOUS
<1> HIDE DEF Bad
<1>6. PICK s \in Bad : \A u \in SUBSET s : u # s => u \notin Bad
  BY <1>4, <1>5, MinimalSubset
<1>7. s \in SUBSET S /\ SumOf(v, s) # SumOf(w, Im(s))
  BY <1>6 DEF Bad
<1>8. s # {}
  BY <1>7, <1>2, SumNothing
<1>9. PICK x \in s : TRUE
  BY <1>8
<1>10. SumOf(v, s) = v[x] + SumOf(v, s \ {x})
  BY <1>7, <1>9, SumFacts
<1>11. SumOf(w, Im(s)) = w[f[x]] + SumOf(w, Im(s) \ {f[x]})
  <2>1. Im(s) \in SUBSET T /\ f[x] \in Im(s)
    BY <1>1, <1>3, <1>7
  <2> QED BY <2>1, SumFacts
<1>12. s \ {x} \in SUBSET S /\ s \ {x} \in SUBSET s /\ s \ {x} # s
  BY <1>7
<1>13. SumOf(v, s \ {x}) = SumOf(w, Im(s \ {x}))
  BY <1>6, <1>12 DEF Bad
<1> QED
  BY <1>3, <1>7, <1>10, <1>11, <1>13

-----------------------------------------------------------------------------
(* Lists of nodes *)

\* The constants are numbers with TINY < BIG, and a chunk is one of the two.
LEMMA ChunkFacts ==
    /\ BIG \in Nat /\ TINY \in Nat /\ WORD \in Nat
    /\ 0 < TINY /\ TINY < BIG /\ TINY # BIG
    /\ \A size : ChunkSize(size) \in {BIG, TINY}
  BY BaseAssumption DEF BaseAssumption, ChunkSize

\* The keys of a list are finitely many.
LEMMA KeysFinite ==
    ASSUME NEW N, NEW s \in Seq(N)
    PROVE  IsFiniteSet(KeysOf(s))
<1> DEFINE f == [i \in 1 .. Len(s) |-> s[i].key]
<1>1. f \in Surjection(1 .. Len(s), KeysOf(s))
  BY DEF Surjection, KeysOf
<1>2. IsFiniteSet(1 .. Len(s))
  BY FS_Interval
<1> HIDE DEF f
<1> QED BY <1>1, <1>2, FS_Surjection

\* So are those charged one given chunk.
LEMMA ChunkKeysFinite ==
    ASSUME NEW N, NEW s \in Seq(N), NEW c
    PROVE  /\ IsFiniteSet(KeysOfChunk(s, c))
           /\ Cardinality(KeysOfChunk(s, c)) \in Nat
<1>1. KeysOfChunk(s, c) \in SUBSET KeysOf(s)
  BY DEF KeysOfChunk, KeysOf
<1> QED BY <1>1, KeysFinite, FS_Subset, FS_CardinalityType

\* The bytes of a list are a number.
LEMMA BytesType ==
    ASSUME NEW N, NEW s \in Seq(N)
    PROVE  Bytes(s) \in Nat
<1> DEFINE b == Cardinality(KeysOfChunk(s, BIG))
           t == Cardinality(KeysOfChunk(s, TINY))
<1>1. b \in Nat /\ t \in Nat
  BY ChunkKeysFinite
<1> HIDE DEF b, t
<1>2. BIG * b + TINY * t \in Nat
  BY <1>1, ChunkFacts
<1> QED BY <1>2 DEF Bytes, b, t

\* An empty list is charged nothing.
LEMMA BytesEmpty == Bytes(<< >>) = 0
<1>1. \A c : KeysOfChunk(<< >>, c) = {}
  BY DEF KeysOfChunk
<1>2. \A c : Cardinality(KeysOfChunk(<< >>, c)) = 0
  BY <1>1, FS_EmptySet
<1>3. BIG * 0 + TINY * 0 = 0
  BY ChunkFacts
<1> QED BY <1>2, <1>3 DEF Bytes

\* Lists with the same keys in each chunk size are charged the same.
LEMMA BytesSame ==
    ASSUME NEW s, NEW t,
           \A c \in {BIG, TINY} : KeysOfChunk(t, c) = KeysOfChunk(s, c)
    PROVE  Bytes(t) = Bytes(s)
  BY DEF Bytes

\* As to the chunk size c, list t has the keys of s and the key of one object.
Grown(s, t, key, size, c) ==
    KeysOfChunk(t, c) =
        KeysOfChunk(s, c) \cup (IF ChunkSize(size) = c THEN {key} ELSE {})

\* A list with one key more is charged that key's chunk more.
LEMMA BytesGain ==
    ASSUME NEW N, NEW s \in Seq(N), NEW t \in Seq(N), NEW key, NEW size,
           key \notin KeysOf(s),
           \A c : Grown(s, t, key, size, c)
    PROVE  Bytes(t) = Bytes(s) + ChunkSize(size)
<1> DEFINE sb == Cardinality(KeysOfChunk(s, BIG))
           st == Cardinality(KeysOfChunk(s, TINY))
           tb == Cardinality(KeysOfChunk(t, BIG))
           tt == Cardinality(KeysOfChunk(t, TINY))
<1>1. sb \in Nat /\ st \in Nat
  BY ChunkKeysFinite
<1>2. \A c : key \notin KeysOfChunk(s, c)
  BY DEF KeysOfChunk, KeysOf
<1>3. \A c : IsFiniteSet(KeysOfChunk(s, c))
  BY ChunkKeysFinite
<1>4. CASE ChunkSize(size) = BIG
  <2>1. KeysOfChunk(t, BIG) = KeysOfChunk(s, BIG) \cup {key}
    BY <1>4 DEF Grown
  <2>2. KeysOfChunk(t, TINY) = KeysOfChunk(s, TINY)
    BY <1>4, ChunkFacts DEF Grown
  <2>3. tb = sb + 1 /\ tt = st
    BY <1>2, <1>3, <2>1, <2>2, FS_AddElement
  <2> HIDE DEF sb, st, tb, tt
  <2>4. BIG * tb + TINY * tt = BIG * sb + TINY * st + BIG
    BY <1>1, <2>3, ChunkFacts
  <2> QED BY <1>4, <2>4 DEF Bytes, sb, st, tb, tt
<1>5. CASE ChunkSize(size) = TINY
  <2>1. KeysOfChunk(t, TINY) = KeysOfChunk(s, TINY) \cup {key}
    BY <1>5 DEF Grown
  <2>2. KeysOfChunk(t, BIG) = KeysOfChunk(s, BIG)
    BY <1>5, ChunkFacts DEF Grown
  <2>3. tb = sb /\ tt = st + 1
    BY <1>2, <1>3, <2>1, <2>2, FS_AddElement
  <2> HIDE DEF sb, st, tb, tt
  <2>4. BIG * tb + TINY * tt = BIG * sb + TINY * st + TINY
    BY <1>1, <2>3, ChunkFacts
  <2> QED BY <1>5, <2>4 DEF Bytes, sb, st, tb, tt
<1> QED BY <1>4, <1>5, ChunkFacts

-----------------------------------------------------------------------------
\* A node put before a list that does not have its key.
LEMMA ConsNode ==
    ASSUME NEW N, NEW s \in Seq(N), NEW n \in N,
           KeysDistinct(s), n.key \notin KeysOf(s)
    PROVE  LET t == <<n>> \o s
           IN  /\ t \in Seq(N)
               /\ Len(t) = Len(s) + 1
               /\ t[1] = n /\ \A i \in 1 .. Len(s) : t[i + 1] = s[i]
               /\ KeysDistinct(t)
               /\ KeysOf(t) = KeysOf(s) \cup {n.key}
               /\ Bytes(t) = Bytes(s) + ChunkSize(n.size)
<1> DEFINE t == <<n>> \o s
<1>1. /\ t \in Seq(N)
      /\ Len(t) = Len(s) + 1
      /\ t[1] = n
      /\ \A i \in 1 .. Len(s) : t[i + 1] = s[i]
      /\ \A i \in 2 .. Len(t) : t[i] = s[i - 1]
  OBVIOUS
<1> HIDE DEF t
<1>2. DOMAIN t = 1 .. Len(t) /\ DOMAIN s = 1 .. Len(s) /\ Len(s) \in Nat
  BY <1>1
<1>3. KeysDistinct(t)
  <2> SUFFICES ASSUME NEW i \in 1 .. Len(t), NEW j \in 1 .. Len(t),
                      t[i].key = t[j].key
               PROVE  i = j
    BY <1>2 DEF KeysDistinct
  <2>0. ASSUME NEW k \in 1 .. Len(t), k # 1
        PROVE  t[k].key # t[1].key
    <3>1. k - 1 \in DOMAIN s /\ t[k] = s[k - 1]
      BY <1>1, <1>2, <2>0
    <3>2. t[k].key \in KeysOf(s)
      BY <3>1 DEF KeysOf
    <3> QED BY <1>1, <3>2
  <2>1. CASE i = 1 /\ j # 1
    BY <2>0, <2>1
  <2>2. CASE j = 1 /\ i # 1
    BY <2>0, <2>2
  <2>3. CASE i # 1 /\ j # 1
    <3>1. i - 1 \in DOMAIN s /\ j - 1 \in DOMAIN s
      BY <1>1, <1>2, <2>3
    <3>2. s[i - 1].key = s[j - 1].key
      BY <1>1, <2>3
    <3> QED BY <3>1, <3>2, <1>2 DEF KeysDistinct
  <2> QED BY <2>1, <2>2, <2>3
<1>4. KeysOf(t) = KeysOf(s) \cup {n.key}
  <2>1. KeysOf(t) \subseteq KeysOf(s) \cup {n.key}
    <3> SUFFICES ASSUME NEW i \in 1 .. Len(t)
                 PROVE  t[i].key \in KeysOf(s) \cup {n.key}
      BY <1>2 DEF KeysOf
    <3>1. CASE i = 1
      BY <1>1, <3>1
    <3>2. CASE i # 1
      <4>1. i - 1 \in DOMAIN s /\ t[i] = s[i - 1]
        BY <1>1, <1>2, <3>2
      <4> QED BY <4>1 DEF KeysOf
    <3> QED BY <3>1, <3>2
  <2>2. ASSUME NEW i \in 1 .. Len(s)
        PROVE  s[i].key \in KeysOf(t)
    <3>1. i + 1 \in DOMAIN t /\ t[i + 1] = s[i]
      BY <1>1, <1>2
    <3> QED BY <3>1 DEF KeysOf
  <2>3. n.key \in KeysOf(t)
    <3>1. 1 \in DOMAIN t
      BY <1>1, <1>2
    <3> QED BY <3>1, <1>1 DEF KeysOf
  <2>4. KeysOf(s) \subseteq KeysOf(t)
    BY <2>2, <1>2 DEF KeysOf
  <2> QED BY <2>1, <2>3, <2>4
<1>5. ASSUME NEW c
      PROVE  Grown(s, t, n.key, n.size, c)
  <2>1. ASSUME NEW i \in 1 .. Len(t), ChunkSize(t[i].size) = c
        PROVE  t[i].key \in
                 KeysOfChunk(s, c) \cup (IF ChunkSize(n.size) = c THEN {n.key} ELSE {})
    <3>1. CASE i = 1
      BY <1>1, <2>1, <3>1
    <3>2. CASE i # 1
      <4>1. i - 1 \in DOMAIN s /\ t[i] = s[i - 1]
        BY <1>1, <1>2, <3>2
      <4> QED BY <4>1, <2>1 DEF KeysOfChunk
    <3> QED BY <3>1, <3>2
  <2>2. ASSUME NEW i \in 1 .. Len(s), ChunkSize(s[i].size) = c
        PROVE  s[i].key \in KeysOfChunk(t, c)
    <3>1. i + 1 \in DOMAIN t /\ t[i + 1] = s[i]
      BY <1>1, <1>2
    <3> QED BY <3>1, <2>2 DEF KeysOfChunk
  <2>3. ASSUME ChunkSize(n.size) = c
        PROVE  n.key \in KeysOfChunk(t, c)
    <3>1. 1 \in DOMAIN t
      BY <1>1, <1>2
    <3> QED BY <3>1, <1>1, <2>3 DEF KeysOfChunk
  <2>4. KeysOfChunk(t, c) \subseteq
          KeysOfChunk(s, c) \cup (IF ChunkSize(n.size) = c THEN {n.key} ELSE {})
    BY <2>1, <1>2 DEF KeysOfChunk
  <2>5. KeysOfChunk(s, c) \subseteq KeysOfChunk(t, c)
    <3> SUFFICES ASSUME NEW k \in KeysOfChunk(s, c)
                 PROVE  k \in KeysOfChunk(t, c)
      OBVIOUS
    <3>1. PICK i \in 1 .. Len(s) : ChunkSize(s[i].size) = c /\ k = s[i].key
      BY <1>2 DEF KeysOfChunk
    <3> QED BY <3>1, <2>2
  <2> QED BY <2>3, <2>4, <2>5 DEF Grown
<1>6. Bytes(t) = Bytes(s) + ChunkSize(n.size)
  BY <1>1, <1>5, BytesGain
<1> QED BY <1>1, <1>3, <1>4, <1>6 DEF t

\* The last node taken off a list.
LEMMA FrontNode ==
    ASSUME NEW N, NEW s \in Seq(N), s # << >>, KeysDistinct(s)
    PROVE  /\ Front(s) \in Seq(N)
           /\ Len(s) \in Nat /\ 0 < Len(s) /\ Last(s) = s[Len(s)] /\ Last(s) \in N
           /\ Len(Front(s)) = Len(s) - 1
           /\ \A i \in 1 .. Len(s) - 1 : Front(s)[i] = s[i]
           /\ KeysDistinct(Front(s))
           /\ KeysOf(Front(s)) = KeysOf(s) \ {Last(s).key}
           /\ Bytes(s) = Bytes(Front(s)) + ChunkSize(Last(s).size)
<1> DEFINE f == Front(s)
           l == Last(s)
           n == Len(s)
<1>1. /\ n \in Nat /\ 0 < n /\ n \in DOMAIN s /\ DOMAIN s = 1 .. n
      /\ l = s[n] /\ l \in N
      /\ f \in Seq(N) /\ Len(f) = n - 1 /\ DOMAIN f = 1 .. n - 1
      /\ \A i \in 1 .. n - 1 : f[i] = s[i]
  <2>1. n \in Nat /\ 0 < n /\ DOMAIN s = 1 .. n
    OBVIOUS
  <2>2. n \in DOMAIN s /\ l = s[n] /\ l \in N
    BY <2>1 DEF Last
  <2>3. n - 1 \in Nat /\ \A i \in 1 .. n - 1 : s[i] \in N
    BY <2>1
  <2>4. f = [i \in 1 .. n - 1 |-> s[i]]
    BY <2>1 DEF Front
  <2> QED BY <2>1, <2>2, <2>3, <2>4
<1> HIDE DEF f, l, n
<1>2. KeysDistinct(f)
  BY <1>1 DEF KeysDistinct
<1>3. \A i \in 1 .. n - 1 : s[i].key # l.key
  BY <1>1 DEF KeysDistinct
<1>4. \A i \in 1 .. n : i = n \/ i \in 1 .. n - 1
  BY <1>1
<1>5. KeysOf(f) = KeysOf(s) \ {l.key}
  <2>1. KeysOf(f) \subseteq KeysOf(s) \ {l.key}
    BY <1>1, <1>3 DEF KeysOf
  <2>2. KeysOf(s) \ {l.key} \subseteq KeysOf(f)
    BY <1>1, <1>4 DEF KeysOf
  <2> QED BY <2>1, <2>2
<1>6. ASSUME NEW c
      PROVE  Grown(f, s, l.key, l.size, c)
  <2>1. KeysOfChunk(f, c) \subseteq KeysOfChunk(s, c)
    BY <1>1 DEF KeysOfChunk
  <2>2. ASSUME ChunkSize(l.size) = c
        PROVE  l.key \in KeysOfChunk(s, c)
    BY <1>1, <2>2 DEF KeysOfChunk
  <2>3. ASSUME NEW i \in 1 .. n, ChunkSize(s[i].size) = c
        PROVE  s[i].key \in
                 KeysOfChunk(f, c) \cup (IF ChunkSize(l.size) = c THEN {l.key} ELSE {})
    <3>1. CASE i = n
      BY <1>1, <2>3, <3>1
    <3>2. CASE i \in 1 .. n - 1
      BY <1>1, <2>3, <3>2 DEF KeysOfChunk
    <3> QED BY <3>1, <3>2, <1>4
  <2>4. KeysOfChunk(s, c) \subseteq
          KeysOfChunk(f, c) \cup (IF ChunkSize(l.size) = c THEN {l.key} ELSE {})
    <3> SUFFICES ASSUME NEW k \in KeysOfChunk(s, c)
                 PROVE  k \in KeysOfChunk(f, c)
                          \cup (IF ChunkSize(l.size) = c THEN {l.key} ELSE {})
      OBVIOUS
    <3>1. PICK i \in 1 .. n : ChunkSize(s[i].size) = c /\ k = s[i].key
      BY <1>1 DEF KeysOfChunk
    <3> QED BY <3>1, <2>3
  <2> QED BY <2>1, <2>2, <2>4 DEF Grown
<1>7. Bytes(s) = Bytes(f) + ChunkSize(l.size)
  <2>1. l.key \notin KeysOf(f)
    BY <1>5
  <2> QED BY <2>1, <1>1, <1>6, BytesGain
<1> QED BY <1>1, <1>2, <1>5, <1>7 DEF f, l, n

\* r is s without its i-th element.
IsWithout(N, s, i, r) ==
    /\ r \in Seq(N)
    /\ Len(r) = Len(s) - 1
    /\ \A j \in 1 .. Len(s) - 1 : r[j] = IF j < i THEN s[j] ELSE s[j + 1]

\* t is s with its i-th element replaced by n and moved to the front.
IsFronted(N, s, i, n, t) ==
    /\ t \in Seq(N)
    /\ Len(t) = Len(s)
    /\ t[1] = n
    /\ \A j \in 2 .. Len(s) : t[j] = IF j <= i THEN s[j - 1] ELSE s[j]

\* What RemoveAt leaves.
LEMMA RemoveAtFacts ==
    ASSUME NEW N, NEW s \in Seq(N), NEW i \in 1 .. Len(s)
    PROVE  IsWithout(N, s, i, RemoveAt(s, i))
<1> DEFINE a == SubSeq(s, 1, i - 1)
           b == SubSeq(s, i + 1, Len(s))
           r == a \o b
<1>1. a \in Seq(N) /\ Len(a) = i - 1 /\ \A j \in 1 .. i - 1 : a[j] = s[j]
  OBVIOUS
<1>2. b \in Seq(N) /\ Len(b) = Len(s) - i /\ \A j \in 1 .. Len(s) - i : b[j] = s[i + j]
  OBVIOUS
<1> HIDE DEF a, b
<1>3. /\ r \in Seq(N) /\ Len(r) = Len(a) + Len(b)
      /\ \A j \in 1 .. Len(a) : r[j] = a[j]
      /\ \A j \in Len(a) + 1 .. Len(a) + Len(b) : r[j] = b[j - Len(a)]
  <2>1. /\ r \in Seq(N) /\ Len(r) = Len(a) + Len(b)
        /\ \A j \in 1 .. Len(a) + Len(b) :
              r[j] = IF j <= Len(a) THEN a[j] ELSE b[j - Len(a)]
    BY <1>1, <1>2, ConcatProperties
  <2> HIDE DEF r
  <2>2. Len(a) \in Nat /\ Len(b) \in Nat
    BY <1>1, <1>2
  <2> QED BY <2>1, <2>2
<1> HIDE DEF r
<1>4. r \in Seq(N) /\ Len(r) = Len(s) - 1
  BY <1>1, <1>2, <1>3
<1>5. ASSUME NEW j \in 1 .. Len(s) - 1
      PROVE  r[j] = IF j < i THEN s[j] ELSE s[j + 1]
  <2>1. CASE j < i
    <3>1. j \in 1 .. i - 1
      BY <2>1
    <3> QED BY <2>1, <3>1, <1>1, <1>3
  <2>2. CASE ~(j < i)
    <3>1. /\ j - (i - 1) \in 1 .. Len(s) - i /\ i + (j - (i - 1)) = j + 1
          /\ j \in i - 1 + 1 .. i - 1 + (Len(s) - i)
      BY <2>2
    <3>2. r[j] = b[j - (i - 1)]
      BY <3>1, <1>1, <1>2, <1>3
    <3> QED BY <2>2, <3>1, <3>2, <1>2
  <2> QED BY <2>1, <2>2
<1>6. RemoveAt(s, i) = r
  BY DEF RemoveAt, r, a, b
<1> QED BY <1>4, <1>5, <1>6 DEF IsWithout

\* A node moved to the front of its list, its key and size unchanged.
LEMMA ToFront ==
    ASSUME NEW N, NEW s \in Seq(N), NEW t \in Seq(N), KeysDistinct(s),
           NEW i \in 1 .. Len(s), NEW n, n.key = s[i].key, n.size = s[i].size,
           IsFronted(N, s, i, n, t)
    PROVE  KeysDistinct(t) /\ KeysOf(t) = KeysOf(s) /\ Bytes(t) = Bytes(s)
<1> DEFINE m == Len(s)
           to(j) == IF j = i THEN 1 ELSE IF j < i THEN j + 1 ELSE j
           of(j) == IF j = 1 THEN i ELSE IF j <= i THEN j - 1 ELSE j
<1>1. /\ m \in Nat /\ i \in 1 .. m /\ 1 \in 1 .. m
      /\ DOMAIN s = 1 .. m /\ DOMAIN t = 1 .. m
      /\ t[1] = n /\ \A j \in 2 .. m : t[j] = IF j <= i THEN s[j - 1] ELSE s[j]
  BY DEF IsFronted
<1> HIDE DEF m
<1>2. \A j \in 1 .. m : to(j) \in 1 .. m /\ of(to(j)) = j
  BY <1>1
<1>3. \A j \in 1 .. m : of(j) \in 1 .. m /\ to(of(j)) = j
  BY <1>1
<1>4. \A j \in 1 .. m : t[j].key = s[of(j)].key /\ t[j].size = s[of(j)].size
  <2> SUFFICES ASSUME NEW j \in 1 .. m
               PROVE  t[j].key = s[of(j)].key /\ t[j].size = s[of(j)].size
    OBVIOUS
  <2>1. CASE j = 1
    BY <2>1, <1>1
  <2>2. CASE j # 1
    <3>1. j \in 2 .. m
      BY <1>1, <2>2
    <3>2. t[j] = s[of(j)]
      BY <2>2, <3>1, <1>1 DEF m
    <3> QED BY <3>2
  <2> QED BY <2>1, <2>2
<1> HIDE DEF to, of
<1>5. \A j \in 1 .. m : s[j].key = t[to(j)].key /\ s[j].size = t[to(j)].size
  BY <1>2, <1>4
<1>6. KeysDistinct(t)
  <2> SUFFICES ASSUME NEW j \in 1 .. m, NEW k \in 1 .. m, t[j].key = t[k].key
               PROVE  j = k
    BY <1>1 DEF KeysDistinct
  <2>1. s[of(j)].key = s[of(k)].key
    BY <1>4
  <2>2. of(j) = of(k)
    BY <2>1, <1>1, <1>3 DEF KeysDistinct
  <2> QED BY <2>2, <1>3
<1>7. KeysOf(t) = KeysOf(s)
  <2>1. ASSUME NEW k \in KeysOf(t)
        PROVE  k \in KeysOf(s)
    <3>1. PICK j \in 1 .. m : k = t[j].key
      BY <1>1 DEF KeysOf
    <3>2. of(j) \in DOMAIN s /\ k = s[of(j)].key
      BY <3>1, <1>1, <1>3, <1>4
    <3> QED BY <3>2 DEF KeysOf
  <2>2. ASSUME NEW k \in KeysOf(s)
        PROVE  k \in KeysOf(t)
    <3>1. PICK j \in 1 .. m : k = s[j].key
      BY <1>1 DEF KeysOf
    <3>2. to(j) \in DOMAIN t /\ k = t[to(j)].key
      BY <3>1, <1>1, <1>2, <1>5
    <3> QED BY <3>2 DEF KeysOf
  <2> QED BY <2>1, <2>2
<1>8. ASSUME NEW c
      PROVE  KeysOfChunk(t, c) = KeysOfChunk(s, c)
  <2>1. ASSUME NEW k \in KeysOfChunk(t, c)
        PROVE  k \in KeysOfChunk(s, c)
    <3>1. PICK j \in 1 .. m : ChunkSize(t[j].size) = c /\ k = t[j].key
      BY <1>1 DEF KeysOfChunk
    <3>2. /\ of(j) \in DOMAIN s
          /\ ChunkSize(s[of(j)].size) = c /\ k = s[of(j)].key
      BY <3>1, <1>1, <1>3, <1>4
    <3> QED BY <3>2 DEF KeysOfChunk
  <2>2. ASSUME NEW k \in KeysOfChunk(s, c)
        PROVE  k \in KeysOfChunk(t, c)
    <3>1. PICK j \in 1 .. m : ChunkSize(s[j].size) = c /\ k = s[j].key
      BY <1>1 DEF KeysOfChunk
    <3>2. /\ to(j) \in DOMAIN t
          /\ ChunkSize(t[to(j)].size) = c /\ k = t[to(j)].key
      BY <3>1, <1>1, <1>2, <1>5
    <3> QED BY <3>2 DEF KeysOfChunk
  <2> QED BY <2>1, <2>2
<1> QED BY <1>6, <1>7, <1>8, BytesSame

\* An element put before a list that lost its i-th element.
LEMMA FrontedFacts ==
    ASSUME NEW N, NEW s \in Seq(N), NEW i \in 1 .. Len(s), NEW n \in N,
           NEW r, IsWithout(N, s, i, r)
    PROVE  IsFronted(N, s, i, n, <<n>> \o r)
<1> USE DEF IsWithout
<1> DEFINE t == <<n>> \o r
<1>1. /\ t \in Seq(N) /\ Len(t) = Len(r) + 1 /\ t[1] = n
      /\ \A j \in 2 .. Len(t) : t[j] = r[j - 1]
  OBVIOUS
<1> HIDE DEF t
<1>2. ASSUME NEW j \in 2 .. Len(s)
      PROVE  t[j] = IF j <= i THEN s[j - 1] ELSE s[j]
  <2>1. /\ j - 1 \in 1 .. Len(s) - 1 /\ (j - 1 < i <=> j <= i) /\ (j - 1) + 1 = j
        /\ j \in 2 .. Len(t)
    BY <1>1
  <2>2. t[j] = r[j - 1]
    BY <2>1, <1>1
  <2>3. r[j - 1] = IF j - 1 < i THEN s[j - 1] ELSE s[(j - 1) + 1]
    BY <2>1
  <2> QED BY <2>1, <2>2, <2>3
<1>3. Len(t) = Len(s)
  BY <1>1
<1> HIDE DEF IsWithout
<1>4. IsFronted(N, s, i, n, t)
  BY <1>1, <1>2, <1>3 DEF IsFronted
<1> QED BY <1>4 DEF t

\* A node taken out of the middle of a list.
LEMMA WithoutNode ==
    ASSUME NEW N, NEW s \in Seq(N), KeysDistinct(s), NEW i \in 1 .. Len(s),
           NEW r, IsWithout(N, s, i, r)
    PROVE  /\ r \in Seq(N)
           /\ KeysDistinct(r)
           /\ KeysOf(r) = KeysOf(s) \ {s[i].key} /\ s[i].key \in KeysOf(s)
           /\ Bytes(s) = Bytes(r) + ChunkSize(s[i].size)
           /\ \A j \in DOMAIN r : \E x \in DOMAIN s : r[j] = s[x]
<1> DEFINE n == s[i]
           of(j) == IF j < i THEN j ELSE j + 1
           t == <<n>> \o r
<1>1. /\ r \in Seq(N) /\ DOMAIN r = 1 .. Len(s) - 1 /\ DOMAIN s = 1 .. Len(s) /\ n \in N
      /\ \A j \in DOMAIN r : r[j] = s[of(j)] /\ of(j) \in DOMAIN s /\ of(j) # i
      /\ \A j, k \in DOMAIN r : of(j) = of(k) => j = k
      /\ i \in DOMAIN s
  BY DEF IsWithout
<1> HIDE DEF of, n
<1>2. KeysDistinct(r)
  BY <1>1 DEF KeysDistinct
<1>3. n.key \notin KeysOf(r)
  <2> SUFFICES ASSUME NEW j \in DOMAIN r, r[j].key = n.key
               PROVE  FALSE
    BY DEF KeysOf
  <2>1. s[of(j)].key = s[i].key
    BY <1>1 DEF n
  <2> QED
    BY <2>1, <1>1 DEF KeysDistinct
<1>4. IsFronted(N, s, i, n, t)
  BY <1>1, FrontedFacts
<1>5. KeysOf(t) = KeysOf(s) /\ Bytes(t) = Bytes(s)
  <2>1. t \in Seq(N)
    BY <1>4 DEF IsFronted
  <2>2. n.key = s[i].key /\ n.size = s[i].size
    BY DEF n
  <2> QED
    BY <2>1, <2>2, <1>4, ToFront
<1>6. KeysOf(t) = KeysOf(r) \cup {n.key} /\ Bytes(t) = Bytes(r) + ChunkSize(n.size)
  BY <1>1, <1>2, <1>3, ConsNode
<1>7. KeysOf(r) = KeysOf(s) \ {n.key} /\ n.key \in KeysOf(s)
  BY <1>3, <1>5, <1>6
<1>8. Bytes(s) = Bytes(r) + ChunkSize(n.size)
  BY <1>5, <1>6
<1> QED
  BY <1>1, <1>2, <1>7, <1>8 DEF n

\* So in particular with the i-th element removed by RemoveAt.
LEMMA RemovedToFront ==
    ASSUME NEW N, NEW s \in Seq(N), NEW i \in 1 .. Len(s), NEW n \in N
    PROVE  IsFronted(N, s, i, n, <<n>> \o RemoveAt(s, i))
  BY RemoveAtFacts, FrontedFacts

\* Removing the first occurrence of an element that occurs once, at i.
LEMMA RemoveFirstFacts ==
    ASSUME NEW N, NEW s \in Seq(N), NEW i \in 1 .. Len(s),
           \A j \in 1 .. Len(s) : s[j] = s[i] => j = i
    PROVE  RemoveFirst(s, s[i]) = RemoveAt(s, i)
<1> DEFINE I == { j \in 1 .. Len(s) : s[j] = s[i] }
<1>1. I = {i}
  OBVIOUS
<1>2. Min(I) = i
  BY <1>1 DEF Min
<1> QED BY <1>1, <1>2 DEF RemoveFirst, SelectInSeq
\* A node put at the back.
LEMMA AppendNode ==
    ASSUME NEW N, NEW s \in Seq(N), KeysDistinct(s), NEW n \in N, n.key \notin KeysOf(s)
    PROVE  LET t == Append(s, n)
           IN  /\ t \in Seq(N) /\ Len(t) = Len(s) + 1
               /\ t[Len(s) + 1] = n /\ \A i \in 1 .. Len(s) : t[i] = s[i]
               /\ KeysDistinct(t)
               /\ KeysOf(t) = KeysOf(s) \cup {n.key}
               /\ Bytes(t) = Bytes(s) + ChunkSize(n.size)
<1> DEFINE t == Append(s, n)
           m == Len(s) + 1
<1>1. /\ t \in Seq(N) /\ Len(t) = m /\ t[m] = n /\ \A i \in 1 .. Len(s) : t[i] = s[i]
      /\ Len(s) \in Nat /\ m \in 1 .. Len(t)
  OBVIOUS
<1> HIDE DEF t
<1>2. KeysDistinct(t)
  <2>1. \A i \in DOMAIN t : i = m \/ i \in 1 .. Len(s)
    BY <1>1
  <2>2. \A i \in 1 .. Len(s) : s[i].key # n.key
    BY DEF KeysOf
  <2>3. \A i, j \in 1 .. Len(s) : s[i].key = s[j].key => i = j
    BY DEF KeysDistinct
  <2>4. \A i, j \in 1 .. Len(s) : t[i].key = t[j].key => i = j
    BY <2>3, <1>1
  <2>5. \A i \in 1 .. Len(s) : t[i].key # t[m].key
    BY <2>2, <1>1
  <2> QED
    BY <2>1, <2>4, <2>5 DEF KeysDistinct
<1>3. IsWithout(N, t, m, s)
  BY <1>1 DEF IsWithout
<1>4. /\ KeysOf(s) = KeysOf(t) \ {n.key} /\ n.key \in KeysOf(t)
      /\ Bytes(t) = Bytes(s) + ChunkSize(n.size)
  BY <1>1, <1>2, <1>3, WithoutNode
<1>5. KeysOf(t) = KeysOf(s) \cup {n.key}
  BY <1>4
<1> QED
  BY <1>1, <1>2, <1>4, <1>5 DEF t

\* A node taken from the front.
LEMMA TailNode ==
    ASSUME NEW N, NEW s \in Seq(N), s # << >>, KeysDistinct(s)
    PROVE  /\ Len(s) \in Nat /\ Len(s) > 0 /\ Head(s) = s[1] /\ Head(s) \in N
           /\ Tail(s) \in Seq(N) /\ Len(Tail(s)) = Len(s) - 1
           /\ \A i \in 1 .. Len(s) - 1 : Tail(s)[i] = s[i + 1]
           /\ KeysDistinct(Tail(s))
           /\ KeysOf(Tail(s)) = KeysOf(s) \ {Head(s).key} /\ Head(s).key \in KeysOf(s)
           /\ Bytes(s) = Bytes(Tail(s)) + ChunkSize(Head(s).size)
<1> DEFINE r == Tail(s)
<1>1. /\ Len(s) \in Nat /\ Len(s) > 0 /\ Head(s) = s[1] /\ Head(s) \in N
      /\ r \in Seq(N) /\ Len(r) = Len(s) - 1
      /\ \A i \in 1 .. Len(s) - 1 : r[i] = s[i + 1]
  OBVIOUS
<1> HIDE DEF r
<1>2. 1 \in 1 .. Len(s) /\ IsWithout(N, s, 1, r)
  BY <1>1 DEF IsWithout
<1>3. /\ KeysDistinct(r) /\ KeysOf(r) = KeysOf(s) \ {s[1].key} /\ s[1].key \in KeysOf(s)
      /\ Bytes(s) = Bytes(r) + ChunkSize(s[1].size)
  BY <1>2, WithoutNode
<1> QED
  BY <1>1, <1>3 DEF r

\* The beginning of a list is charged no more than the list.
LEMMA BytesPrefix ==
    ASSUME NEW N, NEW s \in Seq(N), NEW t \in Seq(N),
           Len(s) <= Len(t), \A i \in 1 .. Len(s) : s[i] = t[i]
    PROVE  Bytes(s) <= Bytes(t)
<1>1. \A c : KeysOfChunk(s, c) \subseteq KeysOfChunk(t, c)
  BY DEF KeysOfChunk
<1>2. \A c : IsFiniteSet(KeysOfChunk(t, c))
  BY ChunkKeysFinite
<1>3. \A c : /\ Cardinality(KeysOfChunk(s, c)) <= Cardinality(KeysOfChunk(t, c))
             /\ Cardinality(KeysOfChunk(s, c)) \in Nat /\ Cardinality(KeysOfChunk(t, c)) \in Nat
  <2> SUFFICES ASSUME NEW c
               PROVE  /\ Cardinality(KeysOfChunk(s, c)) <= Cardinality(KeysOfChunk(t, c))
                      /\ Cardinality(KeysOfChunk(s, c)) \in Nat
                      /\ Cardinality(KeysOfChunk(t, c)) \in Nat
    OBVIOUS
  <2>1. KeysOfChunk(s, c) \subseteq KeysOfChunk(t, c) /\ IsFiniteSet(KeysOfChunk(t, c))
    BY <1>1, <1>2
  <2> QED
    BY <2>1, FS_Subset, FS_CardinalityType
<1> DEFINE a == Cardinality(KeysOfChunk(s, BIG))
           b == Cardinality(KeysOfChunk(t, BIG))
           c == Cardinality(KeysOfChunk(s, TINY))
           d == Cardinality(KeysOfChunk(t, TINY))
<1>4. a \in Nat /\ b \in Nat /\ c \in Nat /\ d \in Nat /\ a <= b /\ c <= d
  BY <1>3
<1> HIDE DEF a, b, c, d
<1>5. \A m, x, y \in Nat : x <= y => m * x <= m * y /\ m * x \in Nat /\ m * y \in Nat
  <2> SUFFICES ASSUME NEW m \in Nat, NEW x \in Nat, NEW y \in Nat, x <= y
               PROVE  m * x <= m * y /\ m * x \in Nat /\ m * y \in Nat
    OBVIOUS
  <2>1. m * y = m * x + m * (y - x) /\ m * (y - x) \in Nat /\ m * x \in Nat /\ m * y \in Nat
    OBVIOUS
  <2> QED
    BY <2>1
<1>6. BIG * a <= BIG * b /\ BIG * a \in Nat /\ BIG * b \in Nat
  BY <1>4, <1>5, ChunkFacts
<1>7. TINY * c <= TINY * d /\ TINY * c \in Nat /\ TINY * d \in Nat
  BY <1>4, <1>5, ChunkFacts
<1>8. BIG * a + TINY * c <= BIG * b + TINY * d
  BY <1>6, <1>7
<1> QED
  BY <1>8 DEF Bytes, a, b, c, d

\* s is the beginning of t.
Begins(s, t) == Len(s) <= Len(t) /\ \A i \in 1 .. Len(s) : s[i] = t[i]

\* IsPrefix, element by element.
LEMMA PrefixFacts ==
    ASSUME NEW N, NEW s \in Seq(N), NEW t \in Seq(N), Begins(s, t)
    PROVE  IsPrefix(s, t)
<1>1. Len(s) \in Nat /\ Len(t) \in Nat /\ Len(s) <= Len(t)
  BY DEF Begins
<1>2. \A i \in 1 .. Len(s) : s[i] = t[i] /\ s[i] \in N /\ t[i] \in N
  BY <1>1 DEF Begins
<1>3. SubSeq(s, 1, Len(s)) = [i \in 1 .. Len(s) |-> s[i]]
  BY <1>1, <1>2
<1>4. SubSeq(t, 1, Len(s)) = [i \in 1 .. Len(s) |-> t[i]]
  BY <1>1, <1>2
<1>5. [i \in 1 .. Len(s) |-> s[i]] = [i \in 1 .. Len(s) |-> t[i]]
  BY <1>2
<1> QED
  BY <1>1, <1>3, <1>4, <1>5, Zenon DEF IsPrefix

\* The beginning of a list with distinct keys has distinct keys.
LEMMA BeginsDistinct ==
    ASSUME NEW N, NEW s \in Seq(N), NEW t \in Seq(N), Begins(s, t), KeysDistinct(t)
    PROVE  KeysDistinct(s)
<1>1. \A i \in DOMAIN s : i \in DOMAIN t /\ s[i] = t[i]
  BY DEF Begins
<1> QED
  BY <1>1 DEF KeysDistinct

-----------------------------------------------------------------------------
\* Two sets without a common member.
LEMMA Disjoint ==
    ASSUME NEW a, NEW b, IsFiniteSet(a), IsFiniteSet(b), a \cap b = {}
    PROVE  /\ IsFiniteSet(a \cup b)
           /\ Cardinality(a \cup b) \in Nat /\ Cardinality(a) \in Nat /\ Cardinality(b) \in Nat
           /\ Cardinality(a \cup b) = Cardinality(a) + Cardinality(b)
<1> DEFINE x == Cardinality(a)
           y == Cardinality(b)
           z == Cardinality(a \cap b)
<1>1. IsFiniteSet(a \cup b) /\ Cardinality(a \cup b) = x + y - z
  BY FS_Union
<1>2. z = 0
  BY FS_EmptySet, Zenon
<1>3. x \in Nat /\ y \in Nat /\ Cardinality(a \cup b) \in Nat
  BY <1>1, FS_CardinalityType
<1> HIDE DEF x, y, z
<1>4. x + y - z = x + y
  BY <1>2, <1>3
<1> QED
  BY <1>1, <1>3, <1>4, Zenon DEF x, y

\* The sizes of four sets add up.
AddUp(a, b, c, d) ==
    /\ Cardinality(a) \in Nat /\ Cardinality(b) \in Nat
    /\ Cardinality(c) \in Nat /\ Cardinality(d) \in Nat
    /\ Cardinality(a \cup b \cup c \cup d)
         = ((Cardinality(a) + Cardinality(b)) + Cardinality(c)) + Cardinality(d)

\* They do if no two of the sets share a member.
LEMMA FourDisjoint ==
    ASSUME NEW a, NEW b, NEW c, NEW d,
           IsFiniteSet(a), IsFiniteSet(b), IsFiniteSet(c), IsFiniteSet(d),
           a \cap b = {}, (a \cup b) \cap c = {}, (a \cup b \cup c) \cap d = {}
    PROVE  AddUp(a, b, c, d)
<1>1. /\ IsFiniteSet(a \cup b) /\ Cardinality(a \cup b) = Cardinality(a) + Cardinality(b)
      /\ Cardinality(a) \in Nat /\ Cardinality(b) \in Nat
  BY Disjoint, Zenon
<1>2. /\ IsFiniteSet(a \cup b \cup c) /\ Cardinality(c) \in Nat
      /\ Cardinality(a \cup b \cup c) = Cardinality(a \cup b) + Cardinality(c)
  BY <1>1, Disjoint, Zenon
<1>3. /\ Cardinality(a \cup b \cup c \cup d) = Cardinality(a \cup b \cup c) + Cardinality(d)
      /\ Cardinality(d) \in Nat
  BY <1>2, Disjoint, Zenon
<1> QED
  BY <1>1, <1>2, <1>3, Zenon DEF AddUp

\* A list is charged at most a big chunk for each of its keys.
LEMMA BytesPerKey ==
    ASSUME NEW N, NEW s \in Seq(N), KeysDistinct(s)
    PROVE  /\ IsFiniteSet(KeysOf(s)) /\ Cardinality(KeysOf(s)) \in Nat
           /\ Bytes(s) \in Nat /\ Bytes(s) <= BIG * Cardinality(KeysOf(s))
<1> DEFINE B == KeysOfChunk(s, BIG)
           T == KeysOfChunk(s, TINY)
           b == Cardinality(B)
           t == Cardinality(T)
           n == Cardinality(KeysOf(s))
<1>1. IsFiniteSet(B) /\ IsFiniteSet(T) /\ b \in Nat /\ t \in Nat
  BY ChunkKeysFinite
<1>2. IsFiniteSet(KeysOf(s)) /\ n \in Nat
  BY KeysFinite, FS_CardinalityType
<1>3. B \subseteq KeysOf(s) /\ T \subseteq KeysOf(s) /\ B \cap T = {}
  BY ChunkFacts DEF KeysOfChunk, KeysOf, KeysDistinct
<1>4. Bytes(s) = BIG * b + TINY * t
  BY DEF Bytes
<1>5. b + t <= n
  <2> HIDE DEF B, T
  <2>1. Cardinality(B \union T) = b + t - Cardinality(B \cap T)
    BY <1>1, FS_Union
  <2>2. Cardinality(B \cap T) = 0
    BY <1>3, FS_EmptySet
  <2>3. B \union T \subseteq KeysOf(s)
    BY <1>3
  <2>4. Cardinality(B \union T) <= n
    BY <1>2, <2>3, FS_Subset
  <2> QED
    BY <1>1, <1>2, <2>1, <2>2, <2>4
<1> HIDE DEF b, t, n
<1>6. BIG * b + TINY * t \in Nat /\ BIG * b + TINY * t <= BIG * n
  <2>1. ASSUME NEW d \in Nat PROVE TINY * d <= BIG * d /\ TINY * d \in Nat /\ BIG * d \in Nat
    <3>1. BIG - TINY \in Nat /\ BIG \in Nat /\ TINY \in Nat
      BY ChunkFacts
    <3>2. BIG * d = TINY * d + (BIG - TINY) * d /\ (BIG - TINY) * d \in Nat /\ TINY * d \in Nat
      BY <3>1
    <3> QED
      BY <3>1, <3>2
  <2>2. BIG * n = BIG * b + (BIG * t + BIG * (n - (b + t))) /\ n - (b + t) \in Nat
    BY <1>1, <1>2, <1>5, ChunkFacts
  <2>3. b \in Nat /\ t \in Nat /\ n \in Nat
    BY <1>1, <1>2
  <2>4. TINY * t <= BIG * t /\ BIG * (n - (b + t)) \in Nat /\ BIG * b \in Nat
    BY <2>1, <2>2, <2>3
  <2>5. TINY * t \in Nat /\ BIG * t \in Nat
    BY <2>1, <2>3
  <2> QED
    BY <2>2, <2>4, <2>5
<1> QED
  BY <1>2, <1>4, <1>6 DEF n

-----------------------------------------------------------------------------
(* The optimum of a trace t of n lines, some of them `none`, for a cache of  *)
(* c chunks, and what OPT rests on: a cache loses nothing by holding what is *)
(* asked for sooner.  For the least i that a claim fails for there is none,  *)
(* by least counterexample from the end of the trace.                        *)

\* What Best of OPTCache says of line i and a cache that holds these keys.
Gain(B, t, c, none, i, held) ==
    IF t[i] = none THEN B[i + 1][held]
    ELSE IF t[i] \in held THEN 1 + B[i + 1][held]
    ELSE IF Cardinality(held) < c THEN B[i + 1][held \union {t[i]}]
    ELSE Max({ B[i + 1][(held \ {v}) \union {t[i]}] : v \in held })

\* B is Best, as far as the lines from `first` on go.
BestFrom(B, t, n, c, none, first) ==
    \A i \in first .. n + 1 : \A held \in SUBSET Key :
        B[i][held] = IF i > n THEN 0 ELSE Gain(B, t, c, none, i, held)

\* A trace and a cache of c chunks for it.
IsTrace(t, n, c, none) ==
    /\ n \in Nat /\ c \in Nat /\ c > 0 /\ none \notin Key
    /\ \A i \in 1 .. n : t[i] \in Key \union {none}

\* A set of keys a cache of c chunks can hold.
CanHold(c, held) == held \in SUBSET Key /\ IsFiniteSet(held) /\ Cardinality(held) <= c

\* From line i on p is asked for no later than q.
Sooner(t, n, i, p, q) == \A j \in i .. n : t[j] = q => \E m \in i .. j : t[m] = p

\* Steps down from the end of a trace.
LEMMA FromTheEnd ==
    \A n \in Nat : \A S \in SUBSET (1 .. n + 1) :
        (n + 1 \in S /\ \A i \in 1 .. n : i + 1 \in S => i \in S) => S = 1 .. n + 1
<1> SUFFICES ASSUME NEW n \in Nat, NEW S \in SUBSET (1 .. n + 1), n + 1 \in S,
                    \A i \in 1 .. n : i + 1 \in S => i \in S,
                    S # 1 .. n + 1
             PROVE  FALSE
  OBVIOUS
<1> DEFINE T == (1 .. n + 1) \ S
<1>1. T \in SUBSET Nat /\ T # {} /\ \A x \in T : x <= n + 1
  <2>1. \A x \in T : x \in Nat /\ x <= n + 1
    OBVIOUS
  <2>2. T # {}
    OBVIOUS
  <2> HIDE DEF T
  <2> QED BY <2>1, <2>2
<1>2. PICK m \in T : \A x \in T : x <= m
  <2> HIDE DEF T
  <2>1. n + 1 \in Nat
    OBVIOUS
  <2> QED BY <1>1, <2>1, SetHasMaximum
<1>3. m \in 1 .. n
  BY <1>2
<1>4. m + 1 \in S
  BY <1>2, <1>3
<1> QED BY <1>3, <1>4, <1>2

\* Max is what it says, of a set that has a greatest element.
LEMMA MaxIs ==
    \A S \in SUBSET Nat : \A m \in S : (\A x \in S : x <= m) => Max(S) = m
<1> SUFFICES ASSUME NEW S \in SUBSET Nat, NEW m \in S, \A x \in S : x <= m
             PROVE  Max(S) = m
  OBVIOUS
<1>1. Max(S) = CHOOSE x \in S : \A y \in S : x >= y
  BY DEF Max
<1>2. \A x \in S : (\A y \in S : x >= y) <=> x = m
  OBVIOUS
<1> QED BY <1>1, <1>2

\* Sets with one key more, and one less.
LEMMA FitsFacts ==
    \A c \in Nat : \A A : CanHold(c, A) =>
        /\ Cardinality(A) \in Nat
        /\ \A x \in Key \ A : Cardinality(A) < c =>
             CanHold(c, A \union {x}) /\ Cardinality(A \union {x}) = Cardinality(A) + 1
        /\ \A x \in A : CanHold(c, A \ {x}) /\ Cardinality(A \ {x}) = Cardinality(A) - 1
<1> SUFFICES ASSUME NEW c \in Nat, NEW A, CanHold(c, A)
             PROVE  /\ Cardinality(A) \in Nat
                    /\ \A x \in Key \ A : Cardinality(A) < c =>
                         CanHold(c, A \union {x}) /\ Cardinality(A \union {x}) = Cardinality(A) + 1
                    /\ \A x \in A : CanHold(c, A \ {x}) /\ Cardinality(A \ {x}) = Cardinality(A) - 1
  OBVIOUS
<1>1. Cardinality(A) \in Nat /\ IsFiniteSet(A) /\ A \in SUBSET Key /\ Cardinality(A) <= c
  BY FS_CardinalityType DEF CanHold
<1>2. \A x \in Key \ A : IsFiniteSet(A \union {x}) /\ Cardinality(A \union {x}) = Cardinality(A) + 1
  BY <1>1, FS_AddElement
<1>3. \A x \in A : IsFiniteSet(A \ {x}) /\ Cardinality(A \ {x}) = Cardinality(A) - 1
  BY <1>1, FS_RemoveElement
<1> QED BY <1>1, <1>2, <1>3 DEF CanHold

\* One key for another.
LEMMA SwapFits ==
    \A c \in Nat : \A A : CanHold(c, A) => \A v \in A : \A x \in Key \ A :
        CanHold(c, (A \ {v}) \union {x}) /\ Cardinality((A \ {v}) \union {x}) = Cardinality(A)
<1> SUFFICES ASSUME NEW c \in Nat, NEW A, CanHold(c, A), NEW v \in A, NEW x \in Key \ A
             PROVE  CanHold(c, (A \ {v}) \union {x}) /\ Cardinality((A \ {v}) \union {x}) = Cardinality(A)
  OBVIOUS
<1> DEFINE E == A \ {v}
<1>1. Cardinality(A) \in Nat /\ Cardinality(A) <= c /\ CanHold(c, E) /\ Cardinality(E) = Cardinality(A) - 1
  BY FitsFacts DEF CanHold
<1>2. x \in Key \ E
  OBVIOUS
<1> HIDE DEF E
<1>3. Cardinality(E) < c
  BY <1>1
<1>4. CanHold(c, E \union {x}) /\ Cardinality(E \union {x}) = Cardinality(E) + 1
  BY <1>1, <1>2, <1>3, FitsFacts
<1> QED BY <1>1, <1>4 DEF E

\* A trace cannot be worth more hits than lines.
LEMMA GainBounded ==
    \A B, t, n, c, none : IsTrace(t, n, c, none) /\ BestFrom(B, t, n, c, none, 1) =>
        \A i \in 1 .. n + 1 : \A A : CanHold(c, A) => B[i][A] \in Nat /\ B[i][A] <= n + 1 - i
<1> SUFFICES ASSUME NEW B, NEW t, NEW n, NEW c, NEW none,
                    IsTrace(t, n, c, none), BestFrom(B, t, n, c, none, 1)
             PROVE  \A i \in 1 .. n + 1 : \A A : CanHold(c, A) => B[i][A] \in Nat /\ B[i][A] <= n + 1 - i
  OBVIOUS
<1> DEFINE S == { i \in 1 .. n + 1 : \A A : CanHold(c, A) => B[i][A] \in Nat /\ B[i][A] <= n + 1 - i }
<1>1. n \in Nat /\ c \in Nat /\ c > 0
  BY DEF IsTrace
<1>2. n + 1 \in S
  <2>1. n + 1 \in 1 .. n + 1
    BY <1>1
  <2>2. \A A : CanHold(c, A) => B[n + 1][A] = 0
    BY <2>1, <1>1 DEF BestFrom, CanHold
  <2> QED BY <2>1, <2>2, <1>1
<1>3. ASSUME NEW i \in 1 .. n, i + 1 \in S PROVE i \in S
  <2> SUFFICES ASSUME NEW A, CanHold(c, A)
               PROVE  B[i][A] \in Nat /\ B[i][A] <= n + 1 - i
    BY <1>1
  <2>1. B[i][A] = Gain(B, t, c, none, i, A)
    BY <1>1 DEF BestFrom, CanHold
  <2>2. \A C : CanHold(c, C) => B[i + 1][C] \in Nat /\ B[i + 1][C] <= n - i
    BY <1>1, <1>3
  <2>3. CASE t[i] = none \/ t[i] \in A
    BY <2>1, <2>2, <2>3, <1>1 DEF Gain
  <2>4. CASE t[i] # none /\ t[i] \notin A /\ Cardinality(A) < c
    <3>1. t[i] \in Key \ A
      BY <2>4 DEF IsTrace
    <3>2. CanHold(c, A \union {t[i]})
      BY <3>1, <2>4, <1>1, FitsFacts
    <3>3. B[i][A] = B[i + 1][A \union {t[i]}]
      BY <2>1, <2>4 DEF Gain
    <3> QED BY <3>2, <3>3, <2>2, <1>1
  <2>5. CASE t[i] # none /\ t[i] \notin A /\ ~ (Cardinality(A) < c)
    <3> DEFINE V == { B[i + 1][(A \ {v}) \union {t[i]}] : v \in A }
    <3>1. t[i] \in Key \ A /\ Cardinality(A) \in Nat /\ Cardinality(A) = c
      BY <2>5, <1>1, FitsFacts DEF IsTrace, CanHold
    <3>2. \A v \in A : CanHold(c, (A \ {v}) \union {t[i]})
      <4> TAKE v \in A
      <4>1. CanHold(c, A \ {v}) /\ Cardinality(A \ {v}) < c
        BY <3>1, <1>1, FitsFacts
      <4>2. t[i] \in Key \ (A \ {v})
        BY <3>1
      <4> QED BY <4>1, <4>2, <1>1, FitsFacts
    <3>3. V \in SUBSET Nat /\ \A x \in V : x <= n - i
      BY <3>2, <2>2
    <3>4. B[i][A] = Max(V)
      BY <2>1, <2>5 DEF Gain
    <3>5. A # {}
      BY <3>1, <1>1, FS_EmptySet
    <3>6. V # {}
      BY <3>5
    <3> QED
      <4>1. PICK m \in V : \A x \in V : x <= m
        <5> HIDE DEF V
        <5>1. n - i \in Nat
          BY <1>1
        <5> QED BY <5>1, <3>3, <3>6, SetHasMaximum
      <4>2. Max(V) = m
        <5> HIDE DEF V
        <5> QED BY <4>1, <3>3, MaxIs
      <4> HIDE DEF V
      <4> QED BY <4>1, <4>2, <3>3, <3>4, <1>1
  <2> QED BY <2>3, <2>4, <2>5
<1> HIDE DEF S
<1>4. S = 1 .. n + 1
  <2>1. S \in SUBSET (1 .. n + 1)
    BY DEF S
  <2> QED BY <2>1, <1>1, <1>2, <1>3, FromTheEnd
<1> QED BY <1>4 DEF S
\* A trace, and what it is worth.
Valued(B, t, n, c, none) == IsTrace(t, n, c, none) /\ BestFrom(B, t, n, c, none, 1)

\* What a line that asks for r is worth to a cache that holds A.
Worth(B, c, none, i, r, A) ==
    /\ r = none => B[i][A] = B[i + 1][A]
    /\ r \in A => B[i][A] = 1 + B[i + 1][A]
    /\ r \in Key \ A /\ Cardinality(A) < c =>
         CanHold(c, A \union {r}) /\ B[i][A] = B[i + 1][A \union {r}]
    /\ r \in Key \ A /\ Cardinality(A) = c =>
         /\ \A v \in A : /\ CanHold(c, (A \ {v}) \union {r})
                         /\ B[i + 1][(A \ {v}) \union {r}] <= B[i][A]
         /\ \E v \in A : B[i][A] = B[i + 1][(A \ {v}) \union {r}]

\* A line is worth that much, whatever the cache holds.
LEMMA GainCases ==
    \A B, t, n, c, none : Valued(B, t, n, c, none) =>
        \A i \in 1 .. n : \A A : CanHold(c, A) => Worth(B, c, none, i, t[i], A)
<1> SUFFICES ASSUME NEW B, NEW t, NEW n, NEW c, NEW none, Valued(B, t, n, c, none),
                    NEW i \in 1 .. n, NEW A, CanHold(c, A)
             PROVE  Worth(B, c, none, i, t[i], A)
  OBVIOUS
<1>1. n \in Nat /\ c \in Nat /\ c > 0 /\ none \notin Key
  BY DEF Valued, IsTrace
<1>2. B[i][A] = Gain(B, t, c, none, i, A)
  <2>1. i \in 1 .. n + 1 /\ ~ (i > n)
    BY <1>1
  <2> QED BY <2>1 DEF Valued, BestFrom, CanHold
<1>3. A \subseteq Key
  BY DEF CanHold
<1>4. t[i] = none => B[i][A] = B[i + 1][A]
  BY <1>2 DEF Gain
<1>5. t[i] \in A => B[i][A] = 1 + B[i + 1][A]
  BY <1>1, <1>2, <1>3 DEF Gain
<1>6. ASSUME t[i] \in Key \ A, Cardinality(A) < c
      PROVE  CanHold(c, A \union {t[i]}) /\ B[i][A] = B[i + 1][A \union {t[i]}]
  BY <1>1, <1>2, <1>6, FitsFacts DEF Gain
<1>7. ASSUME t[i] \in Key \ A, Cardinality(A) = c
      PROVE  /\ \A v \in A : /\ CanHold(c, (A \ {v}) \union {t[i]})
                             /\ B[i + 1][(A \ {v}) \union {t[i]}] <= B[i][A]
             /\ \E v \in A : B[i][A] = B[i + 1][(A \ {v}) \union {t[i]}]
  <2> DEFINE V == { B[i + 1][(A \ {v}) \union {t[i]}] : v \in A }
  <2>1. \A v \in A : CanHold(c, (A \ {v}) \union {t[i]})
    <3> TAKE v \in A
    <3>1. CanHold(c, A \ {v}) /\ Cardinality(A \ {v}) < c
      BY <1>7, <1>1, FitsFacts
    <3>2. t[i] \in Key \ (A \ {v})
      BY <1>7
    <3> QED BY <3>1, <3>2, <1>1, FitsFacts
  <2>2. \A C : CanHold(c, C) => B[i + 1][C] \in Nat /\ B[i + 1][C] <= n
    <3>1. i + 1 \in 1 .. n + 1 /\ n + 1 - (i + 1) <= n
      BY <1>1
    <3>2. \A C : CanHold(c, C) => B[i + 1][C] \in Nat /\ B[i + 1][C] <= n + 1 - (i + 1)
      BY <3>1, GainBounded DEF Valued
    <3> QED BY <3>1, <3>2, <1>1
  <2>3. V \in SUBSET Nat /\ \A x \in V : x <= n
    BY <2>1, <2>2
  <2>4. B[i][A] = Max(V)
    <3>1. t[i] # none /\ t[i] \notin A /\ ~ (Cardinality(A) < c)
      BY <1>1, <1>7
    <3> QED BY <3>1, <1>2 DEF Gain
  <2>5. V # {}
    <3>1. A # {}
      BY <1>1, <1>7, FS_EmptySet
    <3> QED BY <3>1
  <2>6. PICK m \in V : \A x \in V : x <= m
    <3> HIDE DEF V
    <3> QED BY <2>3, <2>5, <1>1, SetHasMaximum
  <2>7. Max(V) = m
    <3> HIDE DEF V
    <3> QED BY <2>6, <2>3, MaxIs
  <2> QED BY <2>1, <2>4, <2>6, <2>7
<1> QED BY <1>4, <1>5, <1>6, <1>7 DEF Worth

\* Every trace is worth something: the recursion has a solution.
LEMMA BestExists ==
    \A t, n, c, none : IsTrace(t, n, c, none) => \E B : BestFrom(B, t, n, c, none, 1)
<1> SUFFICES ASSUME NEW t, NEW n, NEW c, NEW none, IsTrace(t, n, c, none)
             PROVE  \E B : BestFrom(B, t, n, c, none, 1)
  OBVIOUS
<1> DEFINE S == { i \in 1 .. n + 1 : \E B : BestFrom(B, t, n, c, none, i) }
<1>1. n \in Nat
  BY DEF IsTrace
<1>2. n + 1 \in S
  <2> DEFINE B == [i \in 1 .. n + 1 |-> [held \in SUBSET Key |-> 0]]
  <2>1. n + 1 \in 1 .. n + 1 /\ n + 1 > n /\ \A i \in n + 1 .. n + 1 : i = n + 1
    BY <1>1
  <2>2. \A held \in SUBSET Key : B[n + 1][held] = 0
    BY <2>1
  <2> HIDE DEF B
  <2>3. BestFrom(B, t, n, c, none, n + 1)
    BY <2>1, <2>2 DEF BestFrom
  <2> QED BY <2>1, <2>3
<1>3. ASSUME NEW i \in 1 .. n, i + 1 \in S PROVE i \in S
  <2>1. PICK B : BestFrom(B, t, n, c, none, i + 1)
    BY <1>3
  <2> DEFINE C == [j \in 1 .. n + 1 |->
                     IF j = i THEN [held \in SUBSET Key |-> Gain(B, t, c, none, i, held)] ELSE B[j]]
  <2>2. i \in 1 .. n + 1 /\ ~ (i > n)
    BY <1>1
  <2>3. \A held \in SUBSET Key : C[i][held] = Gain(B, t, c, none, i, held)
    BY <2>2
  <2>4. \A j \in i + 1 .. n + 1 : C[j] = B[j]
    BY <1>1
  <2> HIDE DEF C
  <2>5. \A j \in i .. n : j + 1 \in i + 1 .. n + 1
    BY <1>1
  <2>6. \A j \in i .. n, held \in SUBSET Key : Gain(C, t, c, none, j, held) = Gain(B, t, c, none, j, held)
    BY <2>4, <2>5 DEF Gain
  <2>7. ASSUME NEW j \in i .. n + 1, NEW held \in SUBSET Key
        PROVE  C[j][held] = IF j > n THEN 0 ELSE Gain(C, t, c, none, j, held)
    <3>1. CASE j = i
      BY <3>1, <2>2, <2>3, <2>6, <1>1
    <3>2. CASE j # i
      <4>1. j \in i + 1 .. n + 1 /\ (~ (j > n) => j \in i .. n)
        BY <3>2, <1>1
      <4> QED BY <4>1, <2>1, <2>4, <2>6 DEF BestFrom
    <3> QED BY <3>1, <3>2
  <2>8. BestFrom(C, t, n, c, none, i)
    BY <2>7 DEF BestFrom
  <2> QED BY <2>2, <2>8
<1>4. S = 1 .. n + 1
  <2>1. S \in SUBSET (1 .. n + 1)
    OBVIOUS
  <2> HIDE DEF S
  <2> QED BY <2>1, <1>1, <1>2, <1>3, FromTheEnd
<1>5. 1 \in 1 .. n + 1
  BY <1>1
<1> QED BY <1>4, <1>5
\* One key more is worth no less, and at most one hit more.
OneMore(B, c, i) ==
    \A A : CanHold(c, A) => \A x \in Key \ A : Cardinality(A) < c =>
        B[i][A] <= B[i][A \union {x}] /\ B[i][A \union {x}] <= B[i][A] + 1

\* If that is so from the next line on, it is from this one.
LEMMA OneMoreStep ==
    \A B, t, n, c, none : Valued(B, t, n, c, none) =>
        \A i \in 1 .. n : OneMore(B, c, i + 1) => OneMore(B, c, i)
<1> SUFFICES ASSUME NEW B, NEW t, NEW n, NEW c, NEW none, Valued(B, t, n, c, none),
                    NEW i \in 1 .. n, OneMore(B, c, i + 1),
                    NEW A, CanHold(c, A), NEW x \in Key \ A, Cardinality(A) < c
             PROVE  B[i][A] <= B[i][A \union {x}] /\ B[i][A \union {x}] <= B[i][A] + 1
  BY DEF OneMore
<1> DEFINE r == t[i]
           Ax == A \union {x}
<1>1. /\ n \in Nat /\ c \in Nat /\ c > 0 /\ none \notin Key
      /\ r \in Key \union {none} /\ i \in 1 .. n + 1 /\ i + 1 \in 1 .. n + 1
  BY DEF Valued, IsTrace
<1>2. \A j \in 1 .. n + 1 : \A C : CanHold(c, C) => B[j][C] \in Nat
  BY GainBounded DEF Valued
<1>3. /\ Cardinality(A) \in Nat /\ A \subseteq Key
      /\ CanHold(c, Ax) /\ Cardinality(Ax) = Cardinality(A) + 1
  BY <1>1, FitsFacts DEF CanHold
<1>4. B[i][A] \in Nat /\ B[i][Ax] \in Nat /\ B[i + 1][A] \in Nat /\ B[i + 1][Ax] \in Nat
  BY <1>1, <1>2, <1>3
<1>5. B[i + 1][A] <= B[i + 1][Ax] /\ B[i + 1][Ax] <= B[i + 1][A] + 1
  BY <1>3 DEF OneMore
<1>13. Worth(B, c, none, i, r, A) /\ Worth(B, c, none, i, r, Ax)
  BY <1>3, GainCases
<1>6. /\ r = none => B[i][A] = B[i + 1][A] /\ B[i][Ax] = B[i + 1][Ax]
      /\ r \in A => B[i][A] = 1 + B[i + 1][A]
      /\ r \in Ax => B[i][Ax] = 1 + B[i + 1][Ax]
      /\ r \in Key \ A => CanHold(c, A \union {r}) /\ B[i][A] = B[i + 1][A \union {r}]
  <2> HIDE DEF Ax, r
  <2> QED BY <1>13 DEF Worth
<1>7. CASE r = none
  BY <1>4, <1>5, <1>6, <1>7
<1>8. CASE r \in A
  BY <1>4, <1>5, <1>6, <1>8
<1>9. CASE r = x
  <2>1. A \union {r} = Ax
    BY <1>9
  <2> HIDE DEF Ax
  <2>2. r \in Ax
    BY <2>1
  <2>3. r \in Key \ A
    BY <1>9
  <2>4. B[i][A] = B[i + 1][Ax] /\ B[i][Ax] = 1 + B[i + 1][Ax]
    BY <1>6, <2>1, <2>2, <2>3
  <2>5. B[i][A] <= B[i][Ax] /\ B[i][Ax] <= B[i][A] + 1
    BY <2>4, <1>4
  <2> QED BY <2>5 DEF Ax
<1>10. CASE r \in Key \ Ax
  <2> DEFINE Ar == A \union {r}
  <2>1. /\ r \in Key \ A /\ x \in Key \ Ar /\ CanHold(c, Ar) /\ B[i][A] = B[i + 1][Ar]
        /\ Cardinality(Ar) = Cardinality(A) + 1 /\ B[i + 1][Ar] \in Nat
    BY <1>10, <1>6, <1>1, <1>2, FitsFacts
  <2>2. CASE Cardinality(Ax) < c
    <3>1. Ar \union {x} = Ax \union {r}
      OBVIOUS
    <3>2. Cardinality(Ar) < c
      BY <2>1, <2>2, <1>3
    <3>3. B[i + 1][Ar] <= B[i + 1][Ar \union {x}] /\ B[i + 1][Ar \union {x}] <= B[i + 1][Ar] + 1
      BY <2>1, <3>2 DEF OneMore
    <3>4. B[i][Ax] = B[i + 1][Ax \union {r}]
      <4> HIDE DEF Ax, r
      <4> QED BY <1>10, <2>2, <1>13 DEF Worth
    <3> HIDE DEF Ar, Ax
    <3>5. B[i][A] <= B[i][Ax] /\ B[i][Ax] <= B[i][A] + 1
      BY <3>1, <3>3, <3>4, <2>1
    <3> QED BY <3>5 DEF Ax
  <2>3. CASE ~ (Cardinality(Ax) < c)
    <3>1. Cardinality(Ax) = c
      BY <1>3, <1>1, <2>3 DEF CanHold
    <3>2. /\ \A v \in Ax : /\ CanHold(c, (Ax \ {v}) \union {r})
                           /\ B[i + 1][(Ax \ {v}) \union {r}] <= B[i][Ax]
          /\ \E v \in Ax : B[i][Ax] = B[i + 1][(Ax \ {v}) \union {r}]
      <4> HIDE DEF Ax, r
      <4> QED BY <1>10, <3>1, <1>13 DEF Worth
    <3>3. (Ax \ {x}) \union {r} = Ar
      OBVIOUS
    <3>4. B[i + 1][Ar] <= B[i][Ax]
      <4>1. x \in Ax
        OBVIOUS
      <4> HIDE DEF Ax, Ar
      <4> QED BY <4>1, <3>2, <3>3
    <3>5. ASSUME NEW v \in Ax PROVE B[i + 1][(Ax \ {v}) \union {r}] <= B[i + 1][Ar] + 1
      <4>1. CASE v = x
        <5>1. (Ax \ {v}) \union {r} = Ar
          BY <4>1
        <5> HIDE DEF Ax, Ar, r
        <5>2. B[i + 1][Ar] <= B[i + 1][Ar] + 1
          BY <2>1
        <5> QED BY <5>1, <5>2
      <4>2. CASE v # x
        <5> DEFINE D == (A \ {v}) \union {r}
        <5>1. v \in A
          BY <4>2
        <5>2. r \in Key \ A
          BY <2>1
        <5>4. CanHold(c, D) /\ Cardinality(D) = Cardinality(A)
          <6> HIDE DEF r
          <6> QED BY <5>1, <5>2, <1>1, SwapFits
        <5>5. x \in Key \ D /\ v \in Key \ D /\ D \union {v} = Ar /\ D \union {x} = (Ax \ {v}) \union {r}
          BY <4>2, <5>1, <1>3, <2>1
        <5> HIDE DEF D, Ax, Ar
        <5>6. Cardinality(D) < c
          BY <5>4
        <5>7. B[i + 1][D] <= B[i + 1][Ar] /\ B[i + 1][(Ax \ {v}) \union {r}] <= B[i + 1][D] + 1
          BY <5>4, <5>5, <5>6 DEF OneMore
        <5>8. B[i + 1][D] \in Nat /\ B[i + 1][(Ax \ {v}) \union {r}] \in Nat
          BY <5>4, <1>1, <1>2, <3>2
        <5> QED BY <5>7, <5>8, <2>1
      <4> QED BY <4>1, <4>2
    <3> HIDE DEF Ax, Ar
    <3>6. B[i][Ax] <= B[i + 1][Ar] + 1
      BY <3>2, <3>5
    <3>7. B[i][A] <= B[i][Ax] /\ B[i][Ax] <= B[i][A] + 1
      BY <3>4, <3>6, <2>1
    <3> QED BY <3>7 DEF Ax
  <2> QED BY <2>2, <2>3
<1> QED
  <2>1. r = none \/ r \in A \/ r = x \/ r \in Key \ Ax
    BY <1>1
  <2> QED BY <2>1, <1>7, <1>8, <1>9, <1>10

\* So it is from every line.
LEMMA WorthOneMore ==
    \A B, t, n, c, none : Valued(B, t, n, c, none) => \A i \in 1 .. n + 1 : OneMore(B, c, i)
<1> SUFFICES ASSUME NEW B, NEW t, NEW n, NEW c, NEW none, Valued(B, t, n, c, none)
             PROVE  \A i \in 1 .. n + 1 : OneMore(B, c, i)
  OBVIOUS
<1> DEFINE S == { i \in 1 .. n + 1 : OneMore(B, c, i) }
<1>1. n \in Nat /\ c \in Nat /\ n + 1 \in 1 .. n + 1
  BY DEF Valued, IsTrace
<1>2. n + 1 \in S
  <2>1. \A A : CanHold(c, A) => B[n + 1][A] = 0
    BY <1>1 DEF Valued, BestFrom, CanHold
  <2>2. OneMore(B, c, n + 1)
    BY <2>1, <1>1, FitsFacts DEF OneMore
  <2> QED BY <2>2, <1>1
<1>3. \A i \in 1 .. n : i + 1 \in S => i \in S
  BY <1>1, OneMoreStep
<1>4. S \in SUBSET (1 .. n + 1)
  OBVIOUS
<1> HIDE DEF S
<1>5. S = 1 .. n + 1
  BY <1>1, <1>2, <1>3, <1>4, FromTheEnd
<1> QED BY <1>5 DEF S

\* It is no worse to hold what is asked for sooner.
SoonerWorthMore(B, t, n, c, i) ==
    \A C : CanHold(c, C) => \A p, q \in Key \ C :
        p # q /\ Cardinality(C) < c /\ Sooner(t, n, i, p, q) =>
            B[i][C \union {q}] <= B[i][C \union {p}]

\* Likewise what is asked for sooner: a line that asks for one of the two, for neither,
\* with room or without.
LEMMA SoonerStep ==
    \A B, t, n, c, none : Valued(B, t, n, c, none) =>
        \A i \in 1 .. n : SoonerWorthMore(B, t, n, c, i + 1) => SoonerWorthMore(B, t, n, c, i)
<1> SUFFICES ASSUME NEW B, NEW t, NEW n, NEW c, NEW none, Valued(B, t, n, c, none),
                    NEW i \in 1 .. n, SoonerWorthMore(B, t, n, c, i + 1),
                    NEW C, CanHold(c, C), NEW p \in Key \ C, NEW q \in Key \ C,
                    p # q, Cardinality(C) < c, Sooner(t, n, i, p, q)
             PROVE  B[i][C \union {q}] <= B[i][C \union {p}]
  <2>1. ASSUME NEW B, NEW t, NEW n, NEW c, NEW none, Valued(B, t, n, c, none), NEW i \in 1 .. n,
               SoonerWorthMore(B, t, n, c, i + 1)
        PROVE  SoonerWorthMore(B, t, n, c, i)
    BY <2>1 DEF SoonerWorthMore
  <2> QED BY <2>1
<1> DEFINE r == t[i]
           Cp == C \union {p}
           Cq == C \union {q}
<1>1. /\ n \in Nat /\ c \in Nat /\ c > 0 /\ none \notin Key
      /\ r \in Key \union {none} /\ i \in 1 .. n + 1 /\ i + 1 \in 1 .. n + 1
  BY DEF Valued, IsTrace
<1>2. \A j \in 1 .. n + 1 : \A A : CanHold(c, A) => B[j][A] \in Nat
  BY GainBounded DEF Valued
<1>3. /\ Cardinality(C) \in Nat /\ C \subseteq Key
      /\ CanHold(c, Cp) /\ Cardinality(Cp) = Cardinality(C) + 1
      /\ CanHold(c, Cq) /\ Cardinality(Cq) = Cardinality(C) + 1
  BY <1>1, FitsFacts DEF CanHold
<1>4. /\ B[i][Cp] \in Nat /\ B[i][Cq] \in Nat /\ B[i + 1][C] \in Nat
      /\ B[i + 1][Cp] \in Nat /\ B[i + 1][Cq] \in Nat
  BY <1>1, <1>2, <1>3
<1>5. OneMore(B, c, i + 1)
  BY <1>1, WorthOneMore
<1>6. r # p => Sooner(t, n, i + 1, p, q)
  <2> SUFFICES ASSUME r # p, NEW j \in i + 1 .. n, t[j] = q
               PROVE  \E m \in i + 1 .. j : t[m] = p
    BY DEF Sooner
  <2>1. j \in i .. n
    BY <1>1
  <2>2. PICK m \in i .. j : t[m] = p
    BY <2>1 DEF Sooner
  <2>3. m \in i + 1 .. j
    BY <2>2, <1>1
  <2> QED BY <2>2, <2>3
<1>7. r # p => B[i + 1][Cq] <= B[i + 1][Cp]
  BY <1>6 DEF SoonerWorthMore
<1>8. r # q
  <2> SUFFICES ASSUME r = q PROVE FALSE
    OBVIOUS
  <2>1. i \in i .. n /\ \A m \in i .. i : m = i
    BY <1>1
  <2> QED BY <2>1 DEF Sooner
<1>13. Worth(B, c, none, i, r, Cp) /\ Worth(B, c, none, i, r, Cq)
  BY <1>3, GainCases
<1>9. CASE r = none
  <2>1. B[i][Cp] = B[i + 1][Cp] /\ B[i][Cq] = B[i + 1][Cq] /\ r # p
    <3> HIDE DEF Cp, Cq
    <3> QED BY <1>9, <1>1, <1>13 DEF Worth
  <2> QED BY <2>1, <1>7
<1>10. CASE r \in C
  <2>1. B[i][Cp] = 1 + B[i + 1][Cp] /\ B[i][Cq] = 1 + B[i + 1][Cq] /\ r # p
    <3>1. r \in Cp /\ r \in Cq /\ r # p
      BY <1>10
    <3> HIDE DEF Cp, Cq, r
    <3> QED BY <3>1, <1>13 DEF Worth
  <2> HIDE DEF Cp, Cq
  <2>2. B[i][Cq] <= B[i][Cp]
    BY <2>1, <1>4, <1>7
  <2> QED BY <2>2 DEF Cp, Cq
<1>11. CASE r = p
  <2>1. B[i][Cp] = 1 + B[i + 1][Cp]
    <3>1. r \in Cp
      BY <1>11
    <3> HIDE DEF Cp, Cq, r
    <3> QED BY <3>1, <1>13 DEF Worth
  <2>2. r \in Key \ Cq
    BY <1>11
  <2>3. CASE Cardinality(Cq) < c
    <3>1. B[i][Cq] = B[i + 1][Cp \union {q}]
      <4>1. Cq \union {r} = Cp \union {q}
        BY <1>11
      <4>2. B[i][Cq] = B[i + 1][Cq \union {r}]
        <5> HIDE DEF Cp, Cq, r
        <5> QED BY <2>2, <2>3, <1>13 DEF Worth
      <4> QED BY <4>1, <4>2
    <3>2. q \in Key \ Cp /\ Cardinality(Cp) < c
      BY <2>3, <1>3
    <3>3. B[i + 1][Cp \union {q}] <= B[i + 1][Cp] + 1
      BY <1>5, <1>3, <3>2 DEF OneMore
    <3> HIDE DEF Cp, Cq
    <3>4. B[i][Cq] <= B[i][Cp]
      BY <2>1, <3>1, <3>3, <1>4
    <3> QED BY <3>4 DEF Cp, Cq
  <2>4. CASE ~ (Cardinality(Cq) < c)
    <3>1. Cardinality(Cq) = c
      BY <2>4, <1>1, <1>3 DEF CanHold
    <3>2. PICK v \in Cq : CanHold(c, (Cq \ {v}) \union {r}) /\ B[i][Cq] = B[i + 1][(Cq \ {v}) \union {r}]
      <4> HIDE DEF Cp, Cq, r
      <4> QED BY <2>2, <3>1, <1>13 DEF Worth
    <3>3. CASE v = q
      <4>1. (Cq \ {v}) \union {r} = Cp
        BY <3>3, <1>11
      <4> HIDE DEF Cp, Cq, r
      <4>3. B[i][Cq] = B[i + 1][Cp]
        BY <4>1, <3>2
      <4>2. B[i][Cq] <= B[i][Cp]
        BY <4>3, <2>1, <1>4
      <4> QED BY <4>2 DEF Cp, Cq
    <3>4. CASE v # q
      <4> DEFINE D == (C \ {v}) \union {r}
      <4>1. v \in C
        BY <3>4
      <4>2. r \in Key \ C
        BY <1>11
      <4>4. CanHold(c, D) /\ Cardinality(D) = Cardinality(C)
        <5> HIDE DEF r
        <5> QED BY <4>1, <4>2, <1>1, SwapFits
      <4>5. q \in Key \ D /\ v \in Key \ D /\ D \union {v} = Cp /\ D \union {q} = (Cq \ {v}) \union {r}
        BY <3>4, <4>1, <1>3, <1>11
      <4> HIDE DEF D, Cp, Cq
      <4>6. B[i + 1][D] <= B[i + 1][Cp] /\ B[i + 1][(Cq \ {v}) \union {r}] <= B[i + 1][D] + 1
        BY <4>4, <4>5, <1>5 DEF OneMore
      <4>7. B[i + 1][D] \in Nat /\ B[i + 1][(Cq \ {v}) \union {r}] \in Nat
        BY <4>4, <1>1, <1>2, <3>2
      <4>8. B[i][Cq] <= B[i][Cp]
        BY <4>6, <4>7, <3>2, <2>1, <1>4
      <4> QED BY <4>8 DEF Cp, Cq
    <3> QED BY <3>3, <3>4
  <2> QED BY <2>3, <2>4
<1>12. CASE r \in Key \ (C \union {p, q})
  <2>1. r \in Key \ Cp /\ r \in Key \ Cq /\ r # p /\ r # q
    BY <1>12
  <2>2. Sooner(t, n, i + 1, p, q)
    BY <2>1, <1>6
  <2>3. CASE Cardinality(Cq) < c
    <3> DEFINE D == C \union {r}
    <3>1. CanHold(c, D) /\ Cardinality(D) = Cardinality(C) + 1
      BY <1>12, <1>1, <1>3, FitsFacts
    <3>2. p \in Key \ D /\ q \in Key \ D /\ D \union {p} = Cp \union {r} /\ D \union {q} = Cq \union {r}
      BY <2>1
    <3>3. B[i][Cp] = B[i + 1][Cp \union {r}] /\ B[i][Cq] = B[i + 1][Cq \union {r}]
      <4>1. Cardinality(Cp) < c
        BY <2>3, <1>3
      <4> HIDE DEF Cp, Cq, r
      <4> QED BY <4>1, <2>1, <2>3, <1>13 DEF Worth
    <3>4. Cardinality(D) < c
      BY <3>1, <2>3, <1>3
    <3> HIDE DEF D, Cp, Cq
    <3>5. B[i][Cq] <= B[i][Cp]
      BY <3>1, <3>2, <3>3, <3>4, <2>2 DEF SoonerWorthMore
    <3> QED BY <3>5 DEF Cp, Cq
  <2>4. CASE ~ (Cardinality(Cq) < c)
    <3>1. Cardinality(Cq) = c /\ Cardinality(Cp) = c
      BY <2>4, <1>1, <1>3 DEF CanHold
    <3>2. PICK v \in Cq : CanHold(c, (Cq \ {v}) \union {r}) /\ B[i][Cq] = B[i + 1][(Cq \ {v}) \union {r}]
      <4> HIDE DEF Cp, Cq, r
      <4> QED BY <2>1, <3>1, <1>13 DEF Worth
    <3>3. \A u \in Cp : B[i + 1][(Cp \ {u}) \union {r}] <= B[i][Cp]
      <4> HIDE DEF Cp, Cq, r
      <4> QED BY <2>1, <3>1, <1>13 DEF Worth
    <3>4. CASE v = q
      <4>1. (Cq \ {v}) \union {r} = (Cp \ {p}) \union {r} /\ p \in Cp
        BY <3>4
      <4> HIDE DEF Cp, Cq
      <4>2. B[i][Cq] <= B[i][Cp]
        BY <4>1, <3>2, <3>3
      <4> QED BY <4>2 DEF Cp, Cq
    <3>5. CASE v # q
      <4> DEFINE D == (C \ {v}) \union {r}
      <4>1. v \in C
        BY <3>5
      <4>2. r \in Key \ C
        BY <1>12
      <4>4. CanHold(c, D) /\ Cardinality(D) = Cardinality(C)
        <5> HIDE DEF r
        <5> QED BY <4>1, <4>2, <1>1, SwapFits
      <4>5. /\ p \in Key \ D /\ q \in Key \ D /\ v \in Cp
            /\ D \union {p} = (Cp \ {v}) \union {r} /\ D \union {q} = (Cq \ {v}) \union {r}
        BY <3>5, <4>1, <1>3, <2>1
      <4>6. CanHold(c, D \union {p}) /\ Cardinality(D) < c
        BY <4>4, <4>5, <1>1, FitsFacts
      <4> HIDE DEF D, Cp, Cq
      <4>7. B[i + 1][(Cq \ {v}) \union {r}] <= B[i + 1][(Cp \ {v}) \union {r}]
        BY <4>4, <4>5, <4>6, <2>2 DEF SoonerWorthMore
      <4>8. B[i + 1][(Cp \ {v}) \union {r}] \in Nat /\ B[i + 1][(Cq \ {v}) \union {r}] \in Nat
        BY <4>5, <4>6, <1>1, <1>2, <3>2
      <4>9. B[i + 1][(Cp \ {v}) \union {r}] <= B[i][Cp]
        BY <4>5, <3>3
      <4>10. B[i][Cq] <= B[i][Cp]
        BY <4>7, <4>8, <4>9, <3>2, <1>4
      <4> QED BY <4>10 DEF Cp, Cq
    <3> QED BY <3>4, <3>5
  <2> QED BY <2>3, <2>4
<1> QED
  <2>1. r = none \/ r \in C \/ r = p \/ r \in Key \ (C \union {p, q})
    BY <1>1, <1>8
  <2> QED BY <2>1, <1>9, <1>10, <1>11, <1>12

\* So it is from every line.
LEMMA WorthSooner ==
    \A B, t, n, c, none : Valued(B, t, n, c, none) =>
        \A i \in 1 .. n + 1 : SoonerWorthMore(B, t, n, c, i)
<1> SUFFICES ASSUME NEW B, NEW t, NEW n, NEW c, NEW none, Valued(B, t, n, c, none)
             PROVE  \A i \in 1 .. n + 1 : SoonerWorthMore(B, t, n, c, i)
  OBVIOUS
<1> DEFINE S == { i \in 1 .. n + 1 : SoonerWorthMore(B, t, n, c, i) }
<1>1. n \in Nat /\ c \in Nat /\ n + 1 \in 1 .. n + 1
  BY DEF Valued, IsTrace
<1>2. n + 1 \in S
  <2>1. \A A : CanHold(c, A) => B[n + 1][A] = 0
    BY <1>1 DEF Valued, BestFrom, CanHold
  <2>2. SoonerWorthMore(B, t, n, c, n + 1)
    <3> SUFFICES ASSUME NEW C, CanHold(c, C), NEW p \in Key \ C, NEW q \in Key \ C,
                        Cardinality(C) < c
                 PROVE  B[n + 1][C \union {q}] <= B[n + 1][C \union {p}]
      BY DEF SoonerWorthMore
    <3>1. CanHold(c, C \union {q}) /\ CanHold(c, C \union {p})
      BY <1>1, FitsFacts
    <3> QED BY <3>1, <2>1
  <2> QED BY <2>2, <1>1
<1>3. \A i \in 1 .. n : i + 1 \in S => i \in S
  BY <1>1, SoonerStep
<1>4. S \in SUBSET (1 .. n + 1)
  OBVIOUS
<1> HIDE DEF S
<1>5. S = 1 .. n + 1
  BY <1>1, <1>2, <1>3, <1>4, FromTheEnd
<1> QED BY <1>5 DEF S

\* A full cache loses nothing by evicting what all it holds is asked for sooner than.
LEMMA FarthestIsBest ==
    \A B, t, n, c, none : Valued(B, t, n, c, none) =>
        \A i \in 1 .. n : \A A : CanHold(c, A) /\ Cardinality(A) = c /\ t[i] \in Key \ A =>
            \A f \in A : (\A u \in A : Sooner(t, n, i + 1, u, f)) =>
                B[i][A] = B[i + 1][(A \ {f}) \union {t[i]}]
<1> SUFFICES ASSUME NEW B, NEW t, NEW n, NEW c, NEW none, Valued(B, t, n, c, none)
             PROVE  \A i \in 1 .. n : \A A : CanHold(c, A) /\ Cardinality(A) = c /\ t[i] \in Key \ A =>
                      \A f \in A : (\A u \in A : Sooner(t, n, i + 1, u, f)) =>
                          B[i][A] = B[i + 1][(A \ {f}) \union {t[i]}]
  OBVIOUS
<1> SUFFICES ASSUME NEW i \in 1 .. n, NEW A, CanHold(c, A), Cardinality(A) = c, t[i] \in Key \ A,
                    NEW f \in A, \A u \in A : Sooner(t, n, i + 1, u, f)
             PROVE  B[i][A] = B[i + 1][(A \ {f}) \union {t[i]}]
  OBVIOUS
<1> DEFINE r == t[i]
<1>1. n \in Nat /\ c \in Nat /\ c > 0 /\ i \in 1 .. n + 1 /\ i + 1 \in 1 .. n + 1 /\ A \subseteq Key
  BY DEF Valued, IsTrace, CanHold
<1>2. \A j \in 1 .. n + 1 : \A C : CanHold(c, C) => B[j][C] \in Nat
  BY GainBounded DEF Valued
<1>8. r \in Key \ A /\ Cardinality(A) = c
  OBVIOUS
<1>7. Worth(B, c, none, i, r, A)
  BY GainCases
<1>3. /\ CanHold(c, (A \ {f}) \union {r}) /\ B[i + 1][(A \ {f}) \union {r}] <= B[i][A]
  <2> HIDE DEF r
  <2> QED BY <1>7, <1>8 DEF Worth
<1>4. PICK v \in A : CanHold(c, (A \ {v}) \union {r}) /\ B[i][A] = B[i + 1][(A \ {v}) \union {r}]
  <2> HIDE DEF r
  <2> QED BY <1>7, <1>8 DEF Worth
<1>5. CASE v = f
  BY <1>4, <1>5
<1>6. CASE v # f
  <2> DEFINE E == A \ {v}
             G == E \ {f}
             D == G \union {r}
  <2>1. CanHold(c, E) /\ Cardinality(E) = c - 1
    BY <1>1, FitsFacts
  <2>2. f \in E
    BY <1>6
  <2>3. CanHold(c, G) /\ Cardinality(G) = c - 2
    <3> HIDE DEF E
    <3>1. CanHold(c, G) /\ Cardinality(G) = Cardinality(E) - 1
      BY <2>1, <2>2, <1>1, FitsFacts
    <3> QED BY <3>1, <2>1, <1>1
  <2>4. r \in Key \ G /\ Cardinality(G) < c
    BY <2>3, <1>1
  <2>5. CanHold(c, D) /\ Cardinality(D) = c - 1
    BY <2>3, <2>4, <1>1, FitsFacts
  <2>6. /\ v \in Key \ D /\ f \in Key \ D
        /\ D \union {f} = (A \ {v}) \union {r} /\ D \union {v} = (A \ {f}) \union {r}
    BY <1>6, <1>1
  <2> HIDE DEF D, E, G
  <2>7. Cardinality(D) < c
    BY <2>5, <1>1
  <2>8. Sooner(t, n, i + 1, v, f) /\ SoonerWorthMore(B, t, n, c, i + 1)
    BY <1>1, WorthSooner
  <2>9. B[i + 1][D \union {f}] <= B[i + 1][D \union {v}]
    BY <2>5, <2>6, <2>7, <2>8, <1>6 DEF SoonerWorthMore
  <2>10. B[i + 1][(A \ {v}) \union {r}] <= B[i + 1][(A \ {f}) \union {r}]
    BY <2>6, <2>9
  <2>11. B[i][A] \in Nat /\ B[i + 1][(A \ {f}) \union {r}] \in Nat /\ B[i + 1][(A \ {v}) \union {r}] \in Nat
    BY <1>1, <1>2, <1>3, <1>4
  <2> QED BY <2>10, <2>11, <1>3, <1>4
<1> QED BY <1>5, <1>6
-----------------------------------------------------------------------------
(* Nodes kept in the order of their next requests, and what OPT makes of a   *)
(* trace with them.                                                          *)

\* A node of the tree, with the line that asks for it next.
DueNode == [key : Key, size : Size, next : Nat]

\* The farthest first.
ByNext(s) == \A i, j \in DOMAIN s : i < j => s[i].next >= s[j].next

\* Behind the nodes that are no nearer than e.
InOrder(s, e) == InsertAt(s, Min({ i \in DOMAIN s : s[i].next < e.next } \union {Len(s) + 1}), e)

\* Min likewise.
LEMMA MinIs ==
    \A S \in SUBSET Nat : \A m \in S : (\A x \in S : m <= x) => Min(S) = m
<1> SUFFICES ASSUME NEW S \in SUBSET Nat, NEW m \in S, \A x \in S : m <= x
             PROVE  Min(S) = m
  OBVIOUS
<1>1. Min(S) = CHOOSE x \in S : \A y \in S : x <= y
  BY DEF Min
<1>2. \A x \in S : (\A y \in S : x <= y) <=> x = m
  OBVIOUS
<1> QED BY <1>1, <1>2

\* r is s with e in front of its m-th element.
IsInserted(s, m, e, r) ==
    /\ r \in Seq(DueNode) /\ Len(r) = Len(s) + 1
    /\ \A j \in 1 .. Len(s) + 1 : r[j] = IF j < m THEN s[j] ELSE IF j = m THEN e ELSE s[j - 1]

\* That is what InsertAt does.
LEMMA InsertAtFacts ==
    ASSUME NEW s \in Seq(DueNode), NEW e \in DueNode, NEW m \in 1 .. Len(s) + 1
    PROVE  IsInserted(s, m, e, InsertAt(s, m, e))
<1> DEFINE a == SubSeq(s, 1, m - 1)
           b == SubSeq(s, m, Len(s))
           h == a \o <<e>>
           r == h \o b
<1>1. a \in Seq(DueNode) /\ Len(a) = m - 1 /\ \A j \in 1 .. m - 1 : a[j] = s[j]
  OBVIOUS
<1>2. /\ b \in Seq(DueNode) /\ Len(b) = Len(s) + 1 - m
      /\ \A j \in 1 .. Len(s) + 1 - m : b[j] = s[m + j - 1]
  OBVIOUS
<1> HIDE DEF a, b
<1>3. h \in Seq(DueNode) /\ Len(h) = m /\ h[m] = e /\ \A j \in 1 .. m - 1 : h[j] = s[j]
  BY <1>1
<1> HIDE DEF h
<1>4. /\ r \in Seq(DueNode) /\ Len(r) = Len(h) + Len(b)
      /\ \A j \in 1 .. Len(h) + Len(b) : r[j] = IF j <= Len(h) THEN h[j] ELSE b[j - Len(h)]
  BY <1>2, <1>3, ConcatProperties
<1> HIDE DEF r
<1>5. Len(r) = Len(s) + 1
  BY <1>2, <1>3, <1>4
<1>6. ASSUME NEW j \in 1 .. Len(s) + 1
      PROVE  r[j] = IF j < m THEN s[j] ELSE IF j = m THEN e ELSE s[j - 1]
  <2>1. r[j] = IF j <= m THEN h[j] ELSE b[j - m]
    BY <1>2, <1>3, <1>4
  <2>2. CASE j < m
    <3>1. j \in 1 .. m - 1 /\ j <= m
      BY <2>2
    <3> QED BY <3>1, <2>1, <2>2, <1>3
  <2>3. CASE j = m
    BY <2>1, <2>3, <1>3
  <2>4. CASE j > m
    <3>1. j - m \in 1 .. Len(s) + 1 - m /\ m + (j - m) - 1 = j - 1 /\ ~ (j <= m)
      BY <2>4
    <3>2. b[j - m] = s[j - 1]
      BY <3>1, <1>2
    <3> QED BY <3>1, <3>2, <2>1, <2>4
  <2> QED BY <2>2, <2>3, <2>4
<1>7. InsertAt(s, m, e) = r
  BY DEF InsertAt, r, h, a, b
<1> QED BY <1>4, <1>5, <1>6, <1>7 DEF IsInserted

\* Put in where it belongs, a node leaves the others as they were and the list in order.
LEMMA InOrderFacts ==
    ASSUME NEW s \in Seq(DueNode), KeysDistinct(s), ByNext(s),
           NEW e \in DueNode, e.key \notin KeysOf(s)
    PROVE  /\ InOrder(s, e) \in Seq(DueNode) /\ Len(InOrder(s, e)) = Len(s) + 1
           /\ KeysDistinct(InOrder(s, e)) /\ ByNext(InOrder(s, e))
           /\ KeysOf(InOrder(s, e)) = KeysOf(s) \union {e.key}
           /\ \A j \in DOMAIN InOrder(s, e) :
                InOrder(s, e)[j] = e \/ \E i \in DOMAIN s : InOrder(s, e)[j] = s[i]
<1> DEFINE P == { i \in DOMAIN s : s[i].next < e.next } \union {Len(s) + 1}
<1>1. Len(s) \in Nat /\ DOMAIN s = 1 .. Len(s) /\ \A i \in 1 .. Len(s) : s[i] \in DueNode
  OBVIOUS
<1>2. \A i \in 1 .. Len(s) : s[i].next \in Nat
  BY <1>1 DEF DueNode
<1>3. e.next \in Nat
  BY DEF DueNode
<1>4. P \in SUBSET Nat /\ P # {} /\ P \subseteq 1 .. Len(s) + 1
  BY <1>1
<1>5. PICK m \in P : \A x \in P : m <= x
  <2> HIDE DEF P
  <2> QED BY <1>4, SetHasMinimum
<1>6. Min(P) = m
  <2> HIDE DEF P
  <2> QED BY <1>4, <1>5, MinIs
<1>7. m \in 1 .. Len(s) + 1
  BY <1>4, <1>5
<1>8. \A i \in 1 .. Len(s) : i < m => s[i].next >= e.next
  <2> SUFFICES ASSUME NEW i \in 1 .. Len(s), i < m, s[i].next < e.next PROVE FALSE
    BY <1>2, <1>3
  <2>1. i \in P
    BY <1>1
  <2> QED BY <2>1, <1>5, <1>7
<1>9. \A i \in 1 .. Len(s) : i >= m => s[i].next < e.next
  <2> SUFFICES ASSUME NEW i \in 1 .. Len(s), i >= m PROVE s[i].next < e.next
    OBVIOUS
  <2>1. m \in 1 .. Len(s)
    BY <1>1, <1>7
  <2>2. s[m].next < e.next
    BY <2>1, <1>5
  <2>3. s[i].next <= s[m].next
    BY <2>1, <1>1, <1>2 DEF ByNext
  <2> HIDE DEF P
  <2> QED BY <2>1, <2>2, <2>3, <1>2, <1>3
<1> DEFINE r == InOrder(s, e)
           from(j) == IF j < m THEN j ELSE j - 1
<1>10. IsInserted(s, m, e, r)
  <2>1. r = InsertAt(s, m, e)
    BY <1>6 DEF InOrder
  <2> HIDE DEF r, P
  <2> QED BY <2>1, <1>7, InsertAtFacts
<1> HIDE DEF r, P
<1>11. /\ r \in Seq(DueNode) /\ Len(r) = Len(s) + 1 /\ DOMAIN r = 1 .. Len(s) + 1
       /\ r[m] = e
       /\ \A j \in DOMAIN r : j # m => r[j] = s[from(j)] /\ from(j) \in 1 .. Len(s)
  BY <1>1, <1>7, <1>10 DEF IsInserted
<1>12. \A i \in 1 .. Len(s) : \E j \in DOMAIN r : j # m /\ from(j) = i
  <2> SUFFICES ASSUME NEW i \in 1 .. Len(s) PROVE \E j \in DOMAIN r : j # m /\ from(j) = i
    OBVIOUS
  <2>1. CASE i < m
    BY <2>1, <1>1, <1>11, <1>7
  <2>2. CASE ~ (i < m)
    <3>1. i + 1 \in DOMAIN r /\ i + 1 # m /\ from(i + 1) = i
      BY <2>2, <1>1, <1>11, <1>7
    <3> QED BY <3>1
  <2> QED BY <2>1, <2>2
<1>13. \A j, h \in DOMAIN r : j # m /\ h # m /\ from(j) = from(h) => j = h
  BY <1>7, <1>11
<1>14. \A j, h \in DOMAIN r : j # m /\ h # m /\ j < h => from(j) < from(h)
  BY <1>7, <1>11
<1>15. \A j \in DOMAIN r : (j # m /\ j < m => from(j) < m) /\ (j # m /\ j > m => from(j) >= m)
  BY <1>7, <1>11
<1> HIDE DEF from
<1>16. KeysOf(r) = KeysOf(s) \union {e.key}
  <2>1. m \in DOMAIN r
    BY <1>7, <1>11
  <2>2. ASSUME NEW x \in KeysOf(r) PROVE x \in KeysOf(s) \union {e.key}
    <3>1. PICK j \in DOMAIN r : x = r[j].key
      BY DEF KeysOf
    <3> QED BY <3>1, <1>1, <1>11 DEF KeysOf
  <2>3. ASSUME NEW x \in KeysOf(s) PROVE x \in KeysOf(r)
    <3>1. PICK i \in 1 .. Len(s) : x = s[i].key
      BY <1>1 DEF KeysOf
    <3>2. PICK j \in DOMAIN r : j # m /\ from(j) = i
      BY <1>12
    <3> QED BY <3>1, <3>2, <1>11 DEF KeysOf
  <2>4. e.key \in KeysOf(r)
    BY <2>1, <1>11 DEF KeysOf
  <2> QED BY <2>2, <2>3, <2>4
<1>17. KeysDistinct(r)
  <2> SUFFICES ASSUME NEW j \in DOMAIN r, NEW h \in DOMAIN r, r[j].key = r[h].key PROVE j = h
    BY DEF KeysDistinct
  <2>1. \A i \in 1 .. Len(s) : s[i].key # e.key
    BY <1>1 DEF KeysOf
  <2>2. (j = m <=> h = m)
    BY <2>1, <1>11
  <2>3. CASE j # m
    <3>1. s[from(j)].key = s[from(h)].key /\ from(j) \in DOMAIN s /\ from(h) \in DOMAIN s
      BY <2>2, <2>3, <1>1, <1>11
    <3> QED BY <3>1, <2>2, <2>3, <1>13 DEF KeysDistinct
  <2> QED BY <2>2, <2>3
<1>18. ByNext(r)
  <2> SUFFICES ASSUME NEW j \in DOMAIN r, NEW h \in DOMAIN r, j < h PROVE r[j].next >= r[h].next
    BY DEF ByNext
  <2>1. CASE j # m /\ h # m
    <3>1. from(j) < from(h) /\ from(j) \in DOMAIN s /\ from(h) \in DOMAIN s
      BY <2>1, <1>1, <1>11, <1>14
    <3> QED BY <3>1, <2>1, <1>11 DEF ByNext
  <2>2. CASE j = m
    <3>1. h > m /\ h # m
      BY <2>2, <1>11, <1>7
    <3>2. from(h) >= m /\ from(h) \in 1 .. Len(s) /\ r[h] = s[from(h)]
      BY <3>1, <1>11, <1>15
    <3> QED BY <3>2, <2>2, <1>2, <1>3, <1>9, <1>11
  <2>3. CASE h = m
    <3>1. j < m /\ j # m
      BY <2>3, <1>11, <1>7
    <3>2. from(j) < m /\ from(j) \in 1 .. Len(s) /\ r[j] = s[from(j)]
      BY <3>1, <1>11, <1>15
    <3> QED BY <3>2, <2>3, <1>2, <1>3, <1>8, <1>11
  <2> QED BY <2>1, <2>2, <2>3
<1>19. \A j \in DOMAIN r : r[j] = e \/ \E i \in DOMAIN s : r[j] = s[i]
  BY <1>1, <1>11
<1> QED BY <1>11, <1>16, <1>17, <1>18, <1>19 DEF r

\* Removing keeps the order.
LEMMA RemovedInOrder ==
    ASSUME NEW s \in Seq(DueNode), ByNext(s), NEW i \in 1 .. Len(s),
           NEW r, IsWithout(DueNode, s, i, r)
    PROVE  ByNext(r)
<1>1. /\ Len(s) \in Nat /\ DOMAIN s = 1 .. Len(s) /\ DOMAIN r = 1 .. Len(s) - 1
      /\ \A j \in 1 .. Len(s) - 1 : r[j] = s[IF j < i THEN j ELSE j + 1]
  BY DEF IsWithout
<1> SUFFICES ASSUME NEW j \in DOMAIN r, NEW h \in DOMAIN r, j < h PROVE r[j].next >= r[h].next
  BY DEF ByNext
<1> DEFINE a == IF j < i THEN j ELSE j + 1
           b == IF h < i THEN h ELSE h + 1
<1>2. a \in DOMAIN s /\ b \in DOMAIN s /\ a < b /\ r[j] = s[a] /\ r[h] = s[b]
  BY <1>1
<1> HIDE DEF a, b
<1> QED BY <1>2 DEF ByNext

\* As many keys as nodes.
LEMMA KeysAreNodes ==
    ASSUME NEW N, NEW s \in Seq(N), KeysDistinct(s)
    PROVE  Cardinality(KeysOf(s)) = Len(s) /\ IsFiniteSet(KeysOf(s)) /\ Len(s) \in Nat
<1> DEFINE f == [i \in 1 .. Len(s) |-> s[i].key]
<1>1. Len(s) \in Nat /\ DOMAIN s = 1 .. Len(s)
  OBVIOUS
<1>2. f \in Bijection(1 .. Len(s), KeysOf(s))
  <2>1. f \in [1 .. Len(s) -> KeysOf(s)]
    BY <1>1 DEF KeysOf
  <2>2. \A y \in KeysOf(s) : \E i \in 1 .. Len(s) : f[i] = y
    BY <1>1 DEF KeysOf
  <2>3. \A i, j \in 1 .. Len(s) : f[i] = f[j] => i = j
    BY <1>1 DEF KeysDistinct
  <2> HIDE DEF f
  <2> QED BY <2>1, <2>2, <2>3 DEF Bijection, Injection, Surjection, IsInjective
<1>3. IsFiniteSet(1 .. Len(s)) /\ Cardinality(1 .. Len(s)) = Len(s)
  BY <1>1, FS_Interval
<1>4. Cardinality(KeysOf(s)) = Cardinality(1 .. Len(s)) /\ IsFiniteSet(KeysOf(s))
  <2> HIDE DEF f
  <2>1. IsFiniteSet(KeysOf(s))
    BY KeysFinite
  <2>2. ExistsBijection(1 .. Len(s), KeysOf(s))
    BY <1>2 DEF ExistsBijection
  <2> QED BY <1>3, <2>1, <2>2, FS_Bijection
<1> QED BY <1>1, <1>3, <1>4
\* The first line from i on that asks for k is x, or there is none and x is out.
IsDue(t, n, out, i, k, x) ==
    \/ x \in i .. n /\ t[x] = k /\ \A j \in i .. x - 1 : t[j] # k
    \/ x = out /\ \A j \in i .. n : t[j] # k

\* The nodes of the tree, when line i is read next.
IsTree(t, n, out, i, s) ==
    /\ s \in Seq(DueNode) /\ KeysDistinct(s) /\ ByNext(s)
    /\ \A p \in DOMAIN s : IsDue(t, n, out, i, s[p].key, s[p].next)

\* With h hits so far, and s held, the rest of the trace from line at on can still
\* bring the hits to the optimum; the nodes are in the order of what comes from
\* line i on.
Served(t, n, c, none, out, at, i, h, s) ==
    /\ IsTree(t, n, out, i, s) /\ Len(s) <= c /\ h \in Nat
    /\ \A B : Valued(B, t, n, c, none) => h + B[at][KeysOf(s)] = B[1][{}]

\* The trace, and a position `out` that is none of its lines.
DueTrace(t, n, c, none, out) == IsTrace(t, n, c, none) /\ out \in Nat /\ out > n

\* Of a key the line does not ask for, the next line is the same from the line on.
LEMMA DueLater ==
    \A t, n, c, none, out : DueTrace(t, n, c, none, out) =>
        \A i \in 1 .. n : \A k, x : IsDue(t, n, out, i, k, x) /\ t[i] # k => IsDue(t, n, out, i + 1, k, x)
<1> SUFFICES ASSUME NEW t, NEW n, NEW c, NEW none, NEW out, DueTrace(t, n, c, none, out),
                    NEW i \in 1 .. n, NEW k, NEW x, IsDue(t, n, out, i, k, x), t[i] # k
             PROVE  IsDue(t, n, out, i + 1, k, x)
  OBVIOUS
<1>1. n \in Nat /\ out \in Nat
  BY DEF DueTrace, IsTrace
<1>2. CASE x \in i .. n /\ t[x] = k /\ \A j \in i .. x - 1 : t[j] # k
  <2>1. x # i
    BY <1>2
  <2>2. x \in i + 1 .. n /\ \A j \in i + 1 .. x - 1 : j \in i .. x - 1
    BY <1>1, <1>2, <2>1
  <2> QED BY <1>2, <2>2 DEF IsDue
<1>3. CASE x = out /\ \A j \in i .. n : t[j] # k
  <2>1. \A j \in i + 1 .. n : j \in i .. n
    BY <1>1
  <2> QED BY <1>3, <2>1 DEF IsDue
<1> QED BY <1>2, <1>3 DEF IsDue

\* The trees of a line that asks for none of their keys.
LEMMA TreeLater ==
    \A t, n, c, none, out : DueTrace(t, n, c, none, out) =>
        \A i \in 1 .. n : \A s : IsTree(t, n, out, i, s) /\ t[i] \notin KeysOf(s) => IsTree(t, n, out, i + 1, s)
<1> SUFFICES ASSUME NEW t, NEW n, NEW c, NEW none, NEW out, DueTrace(t, n, c, none, out),
                    NEW i \in 1 .. n, NEW s, IsTree(t, n, out, i, s), t[i] \notin KeysOf(s)
             PROVE  IsTree(t, n, out, i + 1, s)
  OBVIOUS
<1>1. \A p \in DOMAIN s : t[i] # s[p].key
  BY DEF KeysOf
<1>2. \A p \in DOMAIN s : IsDue(t, n, out, i + 1, s[p].key, s[p].next)
  BY <1>1, DueLater DEF IsTree
<1> QED BY <1>2 DEF IsTree

\* A tree's keys fit a cache that has room for its nodes.
LEMMA TreeFits ==
    \A t, n, c, none, out : DueTrace(t, n, c, none, out) =>
        \A i, s : IsTree(t, n, out, i, s) /\ Len(s) <= c =>
            /\ CanHold(c, KeysOf(s)) /\ Cardinality(KeysOf(s)) = Len(s) /\ Len(s) \in Nat
            /\ s \in Seq(DueNode) /\ KeysOf(s) \subseteq Key
<1> SUFFICES ASSUME NEW t, NEW n, NEW c, NEW none, NEW out, DueTrace(t, n, c, none, out),
                    NEW i, NEW s, IsTree(t, n, out, i, s), Len(s) <= c
             PROVE  /\ CanHold(c, KeysOf(s)) /\ Cardinality(KeysOf(s)) = Len(s) /\ Len(s) \in Nat
                    /\ s \in Seq(DueNode) /\ KeysOf(s) \subseteq Key
  OBVIOUS
<1>1. s \in Seq(DueNode) /\ KeysDistinct(s)
  BY DEF IsTree
<1>2. Cardinality(KeysOf(s)) = Len(s) /\ IsFiniteSet(KeysOf(s)) /\ Len(s) \in Nat
  BY <1>1, KeysAreNodes
<1>3. KeysOf(s) \subseteq Key
  <2>1. \A p \in DOMAIN s : s[p] \in DueNode
    BY <1>1
  <2> QED BY <2>1 DEF KeysOf, DueNode
<1> QED BY <1>1, <1>2, <1>3 DEF CanHold

\* A line that is skipped.
LEMMA ServedSkip ==
    \A t, n, c, none, out : DueTrace(t, n, c, none, out) =>
        \A i \in 1 .. n : \A h, s :
            t[i] = none /\ Served(t, n, c, none, out, i, i, h, s)
              => Served(t, n, c, none, out, i + 1, i + 1, h, s)
<1> SUFFICES ASSUME NEW t, NEW n, NEW c, NEW none, NEW out, DueTrace(t, n, c, none, out),
                    NEW i \in 1 .. n, NEW h, NEW s, t[i] = none, Served(t, n, c, none, out, i, i, h, s)
             PROVE  Served(t, n, c, none, out, i + 1, i + 1, h, s)
  OBVIOUS
<1>1. IsTree(t, n, out, i, s) /\ Len(s) <= c /\ h \in Nat
  BY DEF Served
<1>2. CanHold(c, KeysOf(s)) /\ KeysOf(s) \subseteq Key
  BY <1>1, TreeFits
<1>3. IsTree(t, n, out, i + 1, s)
  <2>1. t[i] \notin KeysOf(s)
    BY <1>2 DEF DueTrace, IsTrace
  <2> QED BY <1>1, <2>1, TreeLater
<1>4. ASSUME NEW B, Valued(B, t, n, c, none) PROVE h + B[i + 1][KeysOf(s)] = B[1][{}]
  <2>0. Worth(B, c, none, i, t[i], KeysOf(s))
    BY <1>2, <1>4, GainCases
  <2>1. B[i][KeysOf(s)] = B[i + 1][KeysOf(s)]
    BY <2>0 DEF Worth
  <2> QED BY <1>4, <2>1 DEF Served
<1> QED BY <1>1, <1>3, <1>4 DEF Served

\* A line that asks for a key that is held: e is its node with the next line.
LEMMA ServedHit ==
    \A t, n, c, none, out : DueTrace(t, n, c, none, out) =>
        \A i \in 1 .. n : \A h, s : \A p \in 1 .. Len(s) : \A e \in DueNode :
            (/\ Served(t, n, c, none, out, i, i, h, s)
             /\ t[i] = s[p].key /\ e.key = t[i] /\ IsDue(t, n, out, i + 1, t[i], e.next))
              => LET s2 == InOrder(RemoveAt(s, p), e)
                 IN  /\ Served(t, n, c, none, out, i + 1, i + 1, h + 1, s2)
                     /\ Len(s2) = Len(s)
                     /\ \A j \in DOMAIN s2 : s2[j] = e \/ \E x \in DOMAIN s : s2[j] = s[x]
<1> SUFFICES ASSUME NEW t, NEW n, NEW c, NEW none, NEW out, DueTrace(t, n, c, none, out),
                    NEW i \in 1 .. n, NEW h, NEW s, NEW p \in 1 .. Len(s), NEW e \in DueNode,
                    Served(t, n, c, none, out, i, i, h, s),
                    t[i] = s[p].key, e.key = t[i], IsDue(t, n, out, i + 1, t[i], e.next)
             PROVE  LET s2 == InOrder(RemoveAt(s, p), e)
                    IN  /\ Served(t, n, c, none, out, i + 1, i + 1, h + 1, s2)
                        /\ Len(s2) = Len(s)
                        /\ \A j \in DOMAIN s2 : s2[j] = e \/ \E x \in DOMAIN s : s2[j] = s[x]
  OBVIOUS
<1> DEFINE r == RemoveAt(s, p)
           s2 == InOrder(r, e)
<1>1. IsTree(t, n, out, i, s) /\ Len(s) <= c /\ h \in Nat
  BY DEF Served
<1>2. CanHold(c, KeysOf(s)) /\ KeysOf(s) \subseteq Key /\ s \in Seq(DueNode) /\ Len(s) \in Nat
  BY <1>1, TreeFits
<1>3. KeysDistinct(s) /\ ByNext(s)
  BY <1>1 DEF IsTree
<1>4. IsWithout(DueNode, s, p, r)
  BY <1>2, RemoveAtFacts
<1> HIDE DEF r
<1>5. /\ r \in Seq(DueNode) /\ KeysDistinct(r) /\ KeysOf(r) = KeysOf(s) \ {t[i]} /\ t[i] \in KeysOf(s)
      /\ \A j \in DOMAIN r : \E x \in DOMAIN s : r[j] = s[x]
  BY <1>2, <1>3, <1>4, WithoutNode
<1>6. ByNext(r) /\ Len(r) = Len(s) - 1
  BY <1>2, <1>3, <1>4, RemovedInOrder DEF IsWithout
<1>7. e.key \notin KeysOf(r)
  BY <1>5
<1>8. /\ s2 \in Seq(DueNode) /\ Len(s2) = Len(r) + 1 /\ KeysDistinct(s2) /\ ByNext(s2)
      /\ KeysOf(s2) = KeysOf(r) \union {e.key}
      /\ \A j \in DOMAIN s2 : s2[j] = e \/ \E x \in DOMAIN r : s2[j] = r[x]
  BY <1>5, <1>6, <1>7, InOrderFacts
<1> HIDE DEF s2
<1>9. KeysOf(s2) = KeysOf(s) /\ Len(s2) = Len(s)
  BY <1>2, <1>5, <1>6, <1>8
<1>10. \A j \in DOMAIN s2 : s2[j] = e \/ \E x \in DOMAIN s : s2[j] = s[x]
  BY <1>5, <1>8
<1>11. ASSUME NEW j \in DOMAIN s2 PROVE IsDue(t, n, out, i + 1, s2[j].key, s2[j].next)
  <2>1. CASE s2[j] = e
    BY <2>1
  <2>2. CASE s2[j] # e
    <3>1. PICK x \in DOMAIN r : s2[j] = r[x]
      BY <1>8, <2>2
    <3>2. r[x].key # t[i]
      BY <1>5, <1>7 DEF KeysOf
    <3>3. PICK y \in DOMAIN s : r[x] = s[y]
      BY <1>5
    <3>4. IsDue(t, n, out, i, s[y].key, s[y].next)
      BY <1>1 DEF IsTree
    <3> QED BY <3>1, <3>2, <3>3, <3>4, DueLater
  <2> QED BY <2>1, <2>2
<1>12. IsTree(t, n, out, i + 1, s2)
  BY <1>8, <1>11 DEF IsTree
<1>13. ASSUME NEW B, Valued(B, t, n, c, none) PROVE (h + 1) + B[i + 1][KeysOf(s2)] = B[1][{}]
  <2>0. Worth(B, c, none, i, t[i], KeysOf(s))
    BY <1>2, <1>13, GainCases
  <2>1. B[i][KeysOf(s)] = 1 + B[i + 1][KeysOf(s)]
    BY <1>2, <1>5, <2>0 DEF Worth
  <2>2. h + B[i][KeysOf(s)] = B[1][{}]
    BY <1>13 DEF Served
  <2>3. B[i + 1][KeysOf(s)] \in Nat
    <3>1. i + 1 \in 1 .. n + 1
      BY DEF DueTrace, IsTrace
    <3> QED BY <3>1, <1>2, <1>13, GainBounded DEF Valued
  <2> DEFINE x == B[i + 1][KeysOf(s)]
             y == B[i][KeysOf(s)]
             z == B[1][{}]
  <2>4. y = 1 + x /\ h + y = z /\ x \in Nat /\ h \in Nat
    BY <2>1, <2>2, <2>3, <1>1
  <2> HIDE DEF x, y, z
  <2>5. (h + 1) + x = z
    BY <2>4
  <2> QED BY <2>5, <1>9 DEF x, z
<1>14. Served(t, n, c, none, out, i + 1, i + 1, h + 1, s2)
  BY <1>1, <1>9, <1>12, <1>13 DEF Served
<1> QED BY <1>9, <1>10, <1>14 DEF s2, r

\* A line that asks for another key: room is still to be made for it.
LEMMA ServedMiss ==
    \A t, n, c, none, out : DueTrace(t, n, c, none, out) =>
        \A i \in 1 .. n : \A h, s :
            t[i] \notin KeysOf(s) /\ Served(t, n, c, none, out, i, i, h, s)
              => Served(t, n, c, none, out, i, i + 1, h, s)
<1> SUFFICES ASSUME NEW t, NEW n, NEW c, NEW none, NEW out, DueTrace(t, n, c, none, out),
                    NEW i \in 1 .. n, NEW h, NEW s, t[i] \notin KeysOf(s), Served(t, n, c, none, out, i, i, h, s)
             PROVE  Served(t, n, c, none, out, i, i + 1, h, s)
  OBVIOUS
<1>1. IsTree(t, n, out, i, s)
  BY DEF Served
<1>2. IsTree(t, n, out, i + 1, s)
  BY <1>1, TreeLater
<1> QED BY <1>2 DEF Served

\* The first node of a tree is what all of it is asked for sooner than.
LEMMA FirstIsFarthest ==
    \A t, n, c, none, out : DueTrace(t, n, c, none, out) =>
        \A i \in 1 .. n + 1 : \A s : IsTree(t, n, out, i, s) /\ s # << >> =>
            \A u \in KeysOf(s) : Sooner(t, n, i, u, s[1].key)
<1> SUFFICES ASSUME NEW t, NEW n, NEW c, NEW none, NEW out, DueTrace(t, n, c, none, out),
                    NEW i \in 1 .. n + 1, NEW s, IsTree(t, n, out, i, s), s # << >>,
                    NEW u \in KeysOf(s), NEW j \in i .. n, t[j] = s[1].key
             PROVE  \E m \in i .. j : t[m] = u
  <2>1. ASSUME NEW t, NEW n, NEW c, NEW none, NEW out, DueTrace(t, n, c, none, out),
               NEW i \in 1 .. n + 1, NEW s, IsTree(t, n, out, i, s), s # << >>, NEW u \in KeysOf(s)
        PROVE  Sooner(t, n, i, u, s[1].key)
    BY <2>1 DEF Sooner
  <2> QED BY <2>1
<1>1. n \in Nat /\ out \in Nat /\ out > n
  BY DEF DueTrace, IsTrace
<1>2. s \in Seq(DueNode) /\ Len(s) \in Nat /\ 1 \in DOMAIN s /\ DOMAIN s = 1 .. Len(s)
  BY DEF IsTree
<1>3. PICK p \in DOMAIN s : u = s[p].key
  BY DEF KeysOf
<1>4. s[p].next \in Nat /\ s[1].next \in Nat
  <2>1. s[p] \in DueNode /\ s[1] \in DueNode
    BY <1>2
  <2> QED BY <2>1 DEF DueNode
<1>5. s[p].next <= s[1].next
  <2>1. p = 1 \/ 1 < p
    BY <1>2
  <2> QED BY <2>1, <1>2, <1>4 DEF IsTree, ByNext
<1>6. s[1].next <= j
  <2>1. IsDue(t, n, out, i, s[1].key, s[1].next)
    BY <1>2 DEF IsTree
  <2>2. CASE s[1].next = out /\ \A x \in i .. n : t[x] # s[1].key
    BY <2>2
  <2>3. CASE \A x \in i .. s[1].next - 1 : t[x] # s[1].key
    <3>1. j \notin i .. s[1].next - 1
      BY <2>3
    <3> QED BY <3>1, <1>1, <1>4
  <2> QED BY <2>1, <2>2, <2>3 DEF IsDue
<1>7. IsDue(t, n, out, i, u, s[p].next)
  BY <1>3 DEF IsTree
<1>8. s[p].next # out
  BY <1>1, <1>4, <1>5, <1>6
<1>9. s[p].next \in i .. j /\ t[s[p].next] = u
  BY <1>1, <1>4, <1>5, <1>6, <1>7, <1>8 DEF IsDue
<1> QED BY <1>9

\* A full tree gives its first node.
LEMMA ServedEvict ==
    \A t, n, c, none, out : DueTrace(t, n, c, none, out) =>
        \A i \in 1 .. n : \A h, s :
            (/\ Served(t, n, c, none, out, i, i + 1, h, s) /\ Len(s) = c
             /\ t[i] \in Key \ KeysOf(s))
              => /\ s # << >> /\ Served(t, n, c, none, out, i, i + 1, h, Tail(s))
                 /\ Len(Tail(s)) = Len(s) - 1 /\ t[i] \notin KeysOf(Tail(s))
                 /\ \A j \in DOMAIN Tail(s) : \E x \in DOMAIN s : Tail(s)[j] = s[x]
<1> SUFFICES ASSUME NEW t, NEW n, NEW c, NEW none, NEW out, DueTrace(t, n, c, none, out),
                    NEW i \in 1 .. n, NEW h, NEW s, Served(t, n, c, none, out, i, i + 1, h, s), Len(s) = c,
                    t[i] \in Key \ KeysOf(s)
             PROVE  /\ s # << >> /\ Served(t, n, c, none, out, i, i + 1, h, Tail(s))
                    /\ Len(Tail(s)) = Len(s) - 1 /\ t[i] \notin KeysOf(Tail(s))
                    /\ \A j \in DOMAIN Tail(s) : \E x \in DOMAIN s : Tail(s)[j] = s[x]
  OBVIOUS
<1> DEFINE A == KeysOf(s)
           r == Tail(s)
           f == s[1].key
<1>1. n \in Nat /\ c \in Nat /\ c > 0 /\ i + 1 \in 1 .. n + 1
  BY DEF DueTrace, IsTrace
<1>2. IsTree(t, n, out, i + 1, s) /\ Len(s) <= c /\ h \in Nat
  BY DEF Served
<1>3. CanHold(c, A) /\ Cardinality(A) = c /\ A \subseteq Key /\ s \in Seq(DueNode)
  BY <1>2, TreeFits
<1>4. s # << >>
  BY <1>1, <1>3
<1>5. KeysDistinct(s) /\ ByNext(s)
  BY <1>2 DEF IsTree
<1>6. /\ r \in Seq(DueNode) /\ Len(r) = Len(s) - 1 /\ KeysDistinct(r) /\ Len(s) \in Nat
      /\ KeysOf(r) = A \ {f} /\ f \in A
      /\ \A j \in 1 .. Len(s) - 1 : r[j] = s[j + 1]
  BY <1>3, <1>4, <1>5, TailNode
<1> HIDE DEF r
<1>7. DOMAIN r = 1 .. Len(s) - 1 /\ DOMAIN s = 1 .. Len(s)
  BY <1>3, <1>6
<1>8. \A j \in DOMAIN r : j + 1 \in DOMAIN s /\ r[j] = s[j + 1]
  BY <1>6, <1>7
<1>9. ByNext(r)
  <2> SUFFICES ASSUME NEW j \in DOMAIN r, NEW m \in DOMAIN r, j < m PROVE r[j].next >= r[m].next
    BY DEF ByNext
  <2>1. j + 1 < m + 1
    BY <1>7, <1>6
  <2> QED BY <2>1, <1>5, <1>8 DEF ByNext
<1>10. IsTree(t, n, out, i + 1, r)
  BY <1>2, <1>6, <1>8, <1>9 DEF IsTree
<1>11. ASSUME NEW B, Valued(B, t, n, c, none) PROVE h + B[i][KeysOf(r)] = B[1][{}]
  <2>1. \A u \in A : Sooner(t, n, i + 1, u, f)
    BY <1>1, <1>2, <1>4, FirstIsFarthest
  <2>7. CanHold(c, A) /\ Cardinality(A) = c /\ t[i] \in Key \ A /\ f \in A
    BY <1>3, <1>6
  <2> HIDE DEF A, f
  <2>2. B[i][A] = B[i + 1][(A \ {f}) \union {t[i]}]
    BY <1>11, <2>1, <2>7, FarthestIsBest
  <2>8. CanHold(c, A \ {f}) /\ Cardinality(A \ {f}) = c - 1
    BY <1>1, <2>7, FitsFacts
  <2>3. CanHold(c, A \ {f}) /\ Cardinality(A \ {f}) < c
    BY <1>1, <2>8
  <2>4. Worth(B, c, none, i, t[i], A \ {f})
    BY <2>3, <1>11, GainCases
  <2>5. B[i][A \ {f}] = B[i + 1][(A \ {f}) \union {t[i]}]
    BY <2>3, <2>4, <2>7 DEF Worth
  <2>6. h + B[i][A] = B[1][{}]
    BY <1>11 DEF Served, A
  <2> QED BY <2>2, <2>5, <2>6, <1>6
<1>12. Len(r) <= c
  BY <1>6
<1>13. Served(t, n, c, none, out, i, i + 1, h, r)
  BY <1>2, <1>10, <1>11, <1>12 DEF Served
<1>14. t[i] \notin KeysOf(r) /\ \A j \in DOMAIN r : \E x \in DOMAIN s : r[j] = s[x]
  BY <1>6, <1>8
<1> QED BY <1>4, <1>6, <1>13, <1>14 DEF r

\* Where there is room, what was missed is put in.
HasRoom(t, n, c, none, out, i, h, s, e) ==
    /\ DueTrace(t, n, c, none, out) /\ i \in 1 .. n /\ e \in DueNode
    /\ Served(t, n, c, none, out, i, i + 1, h, s) /\ Len(s) < c
    /\ t[i] \in Key \ KeysOf(s) /\ e.key = t[i] /\ IsDue(t, n, out, i + 1, t[i], e.next)

\* The optimum is still ahead when it is in.
LEMMA ServedInsert ==
    \A t, n, c, none, out, i, h, s, e : HasRoom(t, n, c, none, out, i, h, s, e) =>
        LET s2 == InOrder(s, e)
        IN  /\ Served(t, n, c, none, out, i + 1, i + 1, h, s2)
            /\ Len(s2) = Len(s) + 1
            /\ \A j \in DOMAIN s2 : s2[j] = e \/ \E x \in DOMAIN s : s2[j] = s[x]
<1> SUFFICES ASSUME NEW t, NEW n, NEW c, NEW none, NEW out, NEW i, NEW h, NEW s, NEW e,
                    HasRoom(t, n, c, none, out, i, h, s, e)
             PROVE  LET s2 == InOrder(s, e)
                    IN  /\ Served(t, n, c, none, out, i + 1, i + 1, h, s2)
                        /\ Len(s2) = Len(s) + 1
                        /\ \A j \in DOMAIN s2 : s2[j] = e \/ \E x \in DOMAIN s : s2[j] = s[x]
  OBVIOUS
<1>0. /\ DueTrace(t, n, c, none, out) /\ i \in 1 .. n /\ e \in DueNode
      /\ Served(t, n, c, none, out, i, i + 1, h, s) /\ Len(s) < c
      /\ t[i] \in Key \ KeysOf(s) /\ e.key = t[i] /\ IsDue(t, n, out, i + 1, t[i], e.next)
  BY DEF HasRoom
<1> DEFINE s2 == InOrder(s, e)
<1>1. IsTree(t, n, out, i + 1, s) /\ Len(s) <= c /\ h \in Nat /\ c \in Nat
  BY <1>0 DEF Served, DueTrace, IsTrace
<1>2. CanHold(c, KeysOf(s)) /\ Cardinality(KeysOf(s)) < c /\ s \in Seq(DueNode) /\ Len(s) \in Nat
  BY <1>0, <1>1, TreeFits
<1>3. KeysDistinct(s) /\ ByNext(s)
  BY <1>1 DEF IsTree
<1>4. /\ s2 \in Seq(DueNode) /\ Len(s2) = Len(s) + 1 /\ KeysDistinct(s2) /\ ByNext(s2)
      /\ KeysOf(s2) = KeysOf(s) \union {e.key}
      /\ \A j \in DOMAIN s2 : s2[j] = e \/ \E x \in DOMAIN s : s2[j] = s[x]
  BY <1>0, <1>2, <1>3, InOrderFacts
<1> HIDE DEF s2
<1>5. ASSUME NEW j \in DOMAIN s2 PROVE IsDue(t, n, out, i + 1, s2[j].key, s2[j].next)
  <2>1. CASE s2[j] = e
    BY <1>0, <2>1
  <2>2. CASE s2[j] # e
    <3>1. PICK x \in DOMAIN s : s2[j] = s[x]
      BY <1>4, <2>2
    <3> QED BY <3>1, <1>1 DEF IsTree
  <2> QED BY <2>1, <2>2
<1>6. IsTree(t, n, out, i + 1, s2)
  BY <1>4, <1>5 DEF IsTree
<1>7. ASSUME NEW B, Valued(B, t, n, c, none) PROVE h + B[i + 1][KeysOf(s2)] = B[1][{}]
  <2>1. Worth(B, c, none, i, t[i], KeysOf(s))
    BY <1>0, <1>2, <1>7, GainCases
  <2>2. B[i][KeysOf(s)] = B[i + 1][KeysOf(s) \union {t[i]}]
    BY <1>0, <1>2, <2>1 DEF Worth
  <2>3. h + B[i][KeysOf(s)] = B[1][{}]
    BY <1>0, <1>7 DEF Served
  <2> QED BY <1>0, <2>2, <2>3, <1>4
<1>8. Len(s2) <= c
  BY <1>0, <1>1, <1>2, <1>4
<1>9. Served(t, n, c, none, out, i + 1, i + 1, h, s2)
  BY <1>1, <1>6, <1>7, <1>8 DEF Served
<1> QED BY <1>4, <1>9 DEF s2

\* When all lines are read, and the last was a hit or what it missed is or is not
\* yet put in, the hits are the optimum.
LEMMA ServedAll ==
    \A t, n, c, none, out : DueTrace(t, n, c, none, out) =>
        \A h, s, B : Valued(B, t, n, c, none) =>
            /\ Served(t, n, c, none, out, n + 1, n + 1, h, s) => h = B[1][{}]
            /\ n > 0 /\ t[n] \in Key \ KeysOf(s) /\ Served(t, n, c, none, out, n, n + 1, h, s) => h = B[1][{}]
<1> SUFFICES ASSUME NEW t, NEW n, NEW c, NEW none, NEW out, DueTrace(t, n, c, none, out),
                    NEW h, NEW s, NEW B, Valued(B, t, n, c, none)
             PROVE  /\ Served(t, n, c, none, out, n + 1, n + 1, h, s) => h = B[1][{}]
                    /\ n > 0 /\ t[n] \in Key \ KeysOf(s) /\ Served(t, n, c, none, out, n, n + 1, h, s) => h = B[1][{}]
  OBVIOUS
<1>1. n \in Nat /\ c \in Nat /\ n + 1 \in 1 .. n + 1 /\ n + 1 > n
  BY DEF DueTrace, IsTrace
<1>2. \A A : CanHold(c, A) => B[n + 1][A] = 0
  BY <1>1 DEF Valued, BestFrom, CanHold
<1>3. ASSUME Served(t, n, c, none, out, n + 1, n + 1, h, s) PROVE h = B[1][{}]
  <2>1. CanHold(c, KeysOf(s)) /\ h \in Nat
    BY <1>3, TreeFits DEF Served
  <2>2. h + B[n + 1][KeysOf(s)] = B[1][{}]
    BY <1>3 DEF Served
  <2> QED BY <2>1, <2>2, <1>2
<1>4. ASSUME n > 0, t[n] \in Key \ KeysOf(s), Served(t, n, c, none, out, n, n + 1, h, s) PROVE h = B[1][{}]
  <2>1. CanHold(c, KeysOf(s)) /\ h \in Nat
    BY <1>4, TreeFits DEF Served
  <2>2. h + B[n][KeysOf(s)] = B[1][{}]
    BY <1>4 DEF Served
  <2>3. n \in 1 .. n
    BY <1>1, <1>4
  <2>4. Worth(B, c, none, n, t[n], KeysOf(s))
    BY <2>1, <2>3, GainCases
  <2>5. B[n][KeysOf(s)] = 0
    <3>1. CASE Cardinality(KeysOf(s)) < c
      <4>1. CanHold(c, KeysOf(s) \union {t[n]}) /\ B[n][KeysOf(s)] = B[n + 1][KeysOf(s) \union {t[n]}]
        BY <1>4, <2>4, <3>1 DEF Worth
      <4> QED BY <4>1, <1>2
    <3>2. CASE ~ (Cardinality(KeysOf(s)) < c)
      <4>1. Cardinality(KeysOf(s)) = c
        BY <2>1, <3>2, <1>1, FS_CardinalityType DEF CanHold
      <4>2. PICK v \in KeysOf(s) : B[n][KeysOf(s)] = B[n + 1][(KeysOf(s) \ {v}) \union {t[n]}]
        BY <1>4, <2>4, <4>1 DEF Worth
      <4>3. CanHold(c, (KeysOf(s) \ {v}) \union {t[n]})
        BY <1>4, <2>4, <4>1 DEF Worth
      <4> QED BY <4>2, <4>3, <1>2
    <3> QED BY <3>1, <3>2
  <2> QED BY <2>1, <2>2, <2>5
<1> QED BY <1>3, <1>4

\* Before the first line nothing is held.
LEMMA ServedFirst ==
    \A t, n, c, none, out : DueTrace(t, n, c, none, out) =>
        Served(t, n, c, none, out, 1, 1, 0, << >>)
<1> SUFFICES ASSUME NEW t, NEW n, NEW c, NEW none, NEW out, DueTrace(t, n, c, none, out)
             PROVE  Served(t, n, c, none, out, 1, 1, 0, << >>)
  OBVIOUS
<1>1. n \in Nat /\ c \in Nat
  BY DEF DueTrace, IsTrace
<1>2. KeysOf(<< >>) = {} /\ KeysDistinct(<< >>) /\ ByNext(<< >>)
  BY DEF KeysOf, KeysDistinct, ByNext
<1>3. IsTree(t, n, out, 1, << >>) /\ Len(<< >>) <= c
  BY <1>1, <1>2 DEF IsTree
<1>4. ASSUME NEW B, Valued(B, t, n, c, none) PROVE 0 + B[1][{}] = B[1][{}]
  <2>1. CanHold(c, {}) /\ 1 \in 1 .. n + 1
    BY <1>1, FS_EmptySet DEF CanHold
  <2>2. B[1][{}] \in Nat
    BY <2>1, <1>4, GainBounded DEF Valued
  <2> QED BY <2>2
<1> QED BY <1>2, <1>3, <1>4 DEF Served

\* The next line that asks for what line i does, or out.
NextOf(t, n, out, i) ==
    LET again == { j \in i + 1 .. n : t[j] = t[i] }
    IN  IF again = {} THEN out ELSE Min(again)

\* That line is the first from i + 1 on.
LEMMA NextIsDue ==
    \A t, n, c, none, out : DueTrace(t, n, c, none, out) =>
        \A i \in 1 .. n :
            NextOf(t, n, out, i) \in Nat /\ IsDue(t, n, out, i + 1, t[i], NextOf(t, n, out, i))
<1> SUFFICES ASSUME NEW t, NEW n, NEW c, NEW none, NEW out, DueTrace(t, n, c, none, out), NEW i \in 1 .. n
             PROVE  NextOf(t, n, out, i) \in Nat /\ IsDue(t, n, out, i + 1, t[i], NextOf(t, n, out, i))
  OBVIOUS
<1> DEFINE again == { j \in i + 1 .. n : t[j] = t[i] }
           next == NextOf(t, n, out, i)
<1>0. next = IF again = {} THEN out ELSE Min(again)
  BY DEF NextOf
<1> HIDE DEF next
<1>1. n \in Nat /\ out \in Nat
  BY DEF DueTrace, IsTrace
<1>2. CASE again = {}
  <2>1. \A j \in i + 1 .. n : t[j] # t[i]
    BY <1>2
  <2>2. next = out
    BY <1>0, <1>2
  <2> QED BY <2>1, <2>2, <1>1 DEF IsDue, next
<1>3. CASE again # {}
  <2>1. again \in SUBSET Nat
    BY <1>1
  <2>2. PICK m \in again : \A x \in again : m <= x
    <3> HIDE DEF again
    <3> QED BY <2>1, <1>3, SetHasMinimum
  <2>3. Min(again) = m
    <3> HIDE DEF again
    <3> QED BY <2>1, <2>2, MinIs
  <2>4. m \in i + 1 .. n /\ t[m] = t[i] /\ m \in Nat
    BY <2>1, <2>2
  <2>5. ASSUME NEW j \in i + 1 .. m - 1 PROVE t[j] # t[i]
    <3>1. j \in i + 1 .. n /\ ~ (m <= j)
      BY <2>4, <1>1
    <3>2. j \notin again
      BY <2>2, <3>1
    <3> QED BY <3>1, <3>2
  <2>6. IsDue(t, n, out, i + 1, t[i], m)
    BY <2>4, <2>5 DEF IsDue
  <2> HIDE DEF again
  <2>7. next = m
    BY <2>3, <1>0, <1>3
  <2>8. next \in Nat /\ IsDue(t, n, out, i + 1, t[i], next)
    BY <2>4, <2>6, <2>7
  <2> QED BY <2>8 DEF next
<1> QED BY <1>2, <1>3

\* What Best of OPTCache is defined to be equal to.
BestStep(t, n, c, none, B) ==
    [i \in 1 .. n + 1 |-> [held \in SUBSET Key |-> IF i > n THEN 0 ELSE Gain(B, t, c, none, i, held)]]

\* There is such a function, so that is what it is.
LEMMA BestChosen ==
    \A t, n, c, none : IsTrace(t, n, c, none) =>
        Valued(CHOOSE B : B = BestStep(t, n, c, none, B), t, n, c, none)
<1> SUFFICES ASSUME NEW t, NEW n, NEW c, NEW none, IsTrace(t, n, c, none)
             PROVE  Valued(CHOOSE B : B = BestStep(t, n, c, none, B), t, n, c, none)
  OBVIOUS
<1> DEFINE X == CHOOSE B : B = BestStep(t, n, c, none, B)
<1>1. PICK B : BestFrom(B, t, n, c, none, 1)
  BY BestExists
<1> DEFINE C == [i \in 1 .. n + 1 |-> [held \in SUBSET Key |-> B[i][held]]]
<1>2. n \in Nat
  BY DEF IsTrace
<1>3. \A i \in 1 .. n : i + 1 \in 1 .. n + 1 /\ i \in 1 .. n + 1
  BY <1>2
<1>4. \A i \in 1 .. n + 1 : i > n \/ i \in 1 .. n
  BY <1>2
<1>5. \A i \in 1 .. n, held \in SUBSET Key : Gain(C, t, c, none, i, held) = Gain(B, t, c, none, i, held)
  <2> SUFFICES ASSUME NEW i \in 1 .. n, NEW held \in SUBSET Key
               PROVE  Gain(C, t, c, none, i, held) = Gain(B, t, c, none, i, held)
    OBVIOUS
  <2>1. \A x \in SUBSET Key : C[i + 1][x] = B[i + 1][x]
    BY <1>3
  <2> HIDE DEF C
  <2>2. t[i] # none => t[i] \in Key
    BY DEF IsTrace
  <2>3. t[i] # none => (held \union {t[i]}) \in SUBSET Key
    BY <2>2
  <2>4. t[i] # none => \A v \in held : ((held \ {v}) \union {t[i]}) \in SUBSET Key
    BY <2>2
  <2>5. t[i] # none => { C[i + 1][(held \ {v}) \union {t[i]}] : v \in held }
                         = { B[i + 1][(held \ {v}) \union {t[i]}] : v \in held }
    BY <2>1, <2>4
  <2> QED BY <2>1, <2>3, <2>5 DEF Gain
<1>6. \A i \in 1 .. n + 1, held \in SUBSET Key :
        C[i][held] = IF i > n THEN 0 ELSE Gain(C, t, c, none, i, held)
  <2>1. \A i \in 1 .. n + 1, held \in SUBSET Key : C[i][held] = B[i][held]
    OBVIOUS
  <2> HIDE DEF C
  <2> QED BY <2>1, <1>1, <1>4, <1>5 DEF BestFrom
<1>7. C = BestStep(t, n, c, none, C)
  <2>1. C = [i \in 1 .. n + 1 |-> [held \in SUBSET Key |-> C[i][held]]]
    OBVIOUS
  <2> HIDE DEF C
  <2> QED BY <2>1, <1>6 DEF BestStep
<1> HIDE DEF C
<1>8. X = BestStep(t, n, c, none, X)
  BY <1>7
<1> HIDE DEF X
<1>9. BestFrom(X, t, n, c, none, 1)
  <2> SUFFICES ASSUME NEW i \in 1 .. n + 1, NEW held \in SUBSET Key
               PROVE  X[i][held] = IF i > n THEN 0 ELSE Gain(X, t, c, none, i, held)
    BY DEF BestFrom
  <2>1. BestStep(t, n, c, none, X)[i][held] = IF i > n THEN 0 ELSE Gain(X, t, c, none, i, held)
    BY DEF BestStep
  <2> QED BY <2>1, <1>8
<1> QED BY <1>9 DEF Valued, X

\* How many chunks of one size a cache has room for.
LEMMA SlotsFacts ==
    ASSUME NEW cap \in Nat, NEW u \in Nat \ {0}, NEW l \in Nat
    PROVE  /\ cap \div u \in Nat
           /\ l <= cap \div u <=> l * u <= cap
           /\ l * u \in Nat /\ (l + 1) * u = l * u + u
           /\ l > 0 => l * u = (l - 1) * u + u
<1> DEFINE q == cap \div u
           m == cap % u
<1>1. q \in Nat /\ m \in Nat /\ m < u /\ cap = q * u + m
  OBVIOUS
<1> HIDE DEF q, m
<1>2. l * u \in Nat /\ (l + 1) * u = l * u + u /\ (l > 0 => l * u = (l - 1) * u + u)
  OBVIOUS
<1>3. ASSUME l <= q PROVE l * u <= cap
  <2>1. q - l \in Nat
    BY <1>1, <1>3
  <2>2. q * u = l * u + (q - l) * u /\ (q - l) * u \in Nat
    BY <1>1, <2>1
  <2> QED BY <1>1, <1>2, <2>2
<1>4. ASSUME ~ (l <= q) PROVE ~ (l * u <= cap)
  <2>1. l - (q + 1) \in Nat
    BY <1>1, <1>4
  <2>2. l * u = ((q * u) + u) + (l - (q + 1)) * u /\ (l - (q + 1)) * u \in Nat /\ q * u \in Nat
    BY <1>1, <2>1
  <2> QED BY <1>1, <1>2, <2>2
<1> QED BY <1>1, <1>2, <1>3, <1>4 DEF q

-----------------------------------------------------------------------------
(* Queues in the order of expiry, the first to expire last (MQCache)         *)

\* Nodes of N, none of which expires after top.
Expiring(s, N, top) ==
    /\ s \in Seq(N)
    /\ \A i \in 1 .. Len(s) :
        /\ s[i].expire \in Nat /\ s[i].expire <= top
        /\ \A j \in 1 .. i - 1 : s[j].expire >= s[i].expire

LEMMA ExpiringNothing == ASSUME NEW N, NEW top PROVE Expiring(<< >>, N, top)
BY DEF Expiring

LEMMA ExpiringLater ==
    ASSUME NEW N, NEW top \in Nat, NEW until \in Nat, top <= until,
           NEW s, Expiring(s, N, top)
    PROVE  Expiring(s, N, until)
BY DEF Expiring

\* A node put first that expires no earlier than any.
LEMMA ExpiringCons ==
    ASSUME NEW N, NEW top \in Nat, NEW s, Expiring(s, N, top),
           NEW n \in N, n.expire = top
    PROVE  Expiring(<<n>> \o s, N, top)
<1> DEFINE t == <<n>> \o s
<1>1. /\ s \in Seq(N) /\ t \in Seq(N) /\ Len(t) = Len(s) + 1 /\ Len(s) \in Nat
      /\ t[1] = n /\ \A i \in 2 .. Len(t) : t[i] = s[i - 1]
  BY DEF Expiring
<1> HIDE DEF t
<1>2. ASSUME NEW i \in 2 .. Len(t)
      PROVE  i - 1 \in 1 .. Len(s) /\ t[i] = s[i - 1] /\ t[i].expire \in Nat /\ t[i].expire <= top
  BY <1>1 DEF Expiring
<1>3. ASSUME NEW i \in 1 .. Len(t)
      PROVE  t[i].expire \in Nat /\ t[i].expire <= top
  BY <1>1, <1>2
<1>4. ASSUME NEW i \in 1 .. Len(t), NEW j \in 1 .. i - 1
      PROVE  t[j].expire >= t[i].expire
  <2>1. i \in 2 .. Len(t) /\ i - 1 \in 1 .. Len(s)
    BY <1>1
  <2>2. CASE j = 1
    BY <2>1, <2>2, <1>1, <1>2
  <2>3. CASE j # 1
    <3>1. j \in 2 .. Len(t) /\ j - 1 \in 1 .. (i - 1) - 1
      BY <1>1, <2>1, <2>3
    <3>2. s[j - 1].expire >= s[i - 1].expire
      BY <2>1, <3>1 DEF Expiring
    <3> QED BY <2>1, <3>1, <3>2, <1>1
  <2> QED BY <2>2, <2>3
<1>5. t \in Seq(N)
  BY <1>1
<1>6. Expiring(t, N, top)
  BY <1>3, <1>4, <1>5 DEF Expiring
<1> QED BY <1>6 DEF t

\* What Front and Last leave and take.
LEMMA FrontFacts ==
    ASSUME NEW N, NEW s \in Seq(N), s # << >>
    PROVE  /\ Front(s) \in Seq(N) /\ Len(Front(s)) = Len(s) - 1
           /\ \A i \in 1 .. Len(s) - 1 : Front(s)[i] = s[i]
           /\ Last(s) \in N
<1> DEFINE n == Len(s)
           f == Front(s)
<1>1. n \in Nat /\ n > 0 /\ DOMAIN s = 1 .. n
  OBVIOUS
<1>2. Last(s) \in N
  BY <1>1 DEF Last
<1>3. n - 1 \in Nat /\ \A i \in 1 .. n - 1 : s[i] \in N /\ i \in 1 .. n
  BY <1>1
<1>4. f = [i \in 1 .. n - 1 |-> s[i]]
  BY <1>1 DEF Front
<1>5. f \in Seq(N) /\ Len(f) = n - 1 /\ \A i \in 1 .. n - 1 : f[i] = s[i]
  BY <1>3, <1>4
<1> QED BY <1>2, <1>5

\* The last node taken off.
LEMMA ExpiringFront ==
    ASSUME NEW N, NEW top, NEW s, Expiring(s, N, top), s # << >>
    PROVE  Expiring(Front(s), N, top) /\ Last(s) \in N
<1> DEFINE n == Len(s)
           f == Front(s)
<1>1. s \in Seq(N) /\ n \in Nat
  BY DEF Expiring
<1>2. Last(s) \in N
  BY <1>1, FrontFacts
<1>3. f \in Seq(N) /\ Len(f) = n - 1 /\ \A i \in 1 .. n - 1 : f[i] = s[i]
  BY <1>1, FrontFacts
<1> HIDE DEF f
<1>4. ASSUME NEW i \in 1 .. n - 1
      PROVE  /\ f[i].expire \in Nat /\ f[i].expire <= top
             /\ \A j \in 1 .. i - 1 : f[j].expire >= f[i].expire
  <2>1. i \in 1 .. n /\ f[i] = s[i] /\ \A j \in 1 .. i - 1 : f[j] = s[j]
    BY <1>1, <1>3
  <2> QED BY <2>1 DEF Expiring
<1>5. Expiring(f, N, top)
  BY <1>3, <1>4 DEF Expiring
<1> QED BY <1>2, <1>5 DEF f

\* A node taken out.
LEMMA ExpiringRemoved ==
    ASSUME NEW N, NEW top, NEW s, Expiring(s, N, top), NEW i \in 1 .. Len(s)
    PROVE  Expiring(RemoveAt(s, i), N, top)
<1> DEFINE r == RemoveAt(s, i)
           of(j) == IF j < i THEN j ELSE j + 1
<1>1. s \in Seq(N) /\ Len(s) \in Nat
  BY DEF Expiring
<1>2. r \in Seq(N) /\ Len(r) = Len(s) - 1 /\ \A j \in 1 .. Len(r) : r[j] = s[of(j)]
  BY <1>1, RemoveAtFacts DEF IsWithout
<1> HIDE DEF r
<1>3. \A j \in 1 .. Len(r) : of(j) \in 1 .. Len(s)
  BY <1>1, <1>2
<1>4. \A j \in 1 .. Len(r) : \A m \in 1 .. j - 1 : of(m) < of(j)
  BY <1>1, <1>2
<1> HIDE DEF of
<1>5. ASSUME NEW j \in 1 .. Len(r)
      PROVE  /\ r[j].expire \in Nat /\ r[j].expire <= top
             /\ \A m \in 1 .. j - 1 : r[m].expire >= r[j].expire
  <2>1. of(j) \in 1 .. Len(s) /\ r[j] = s[of(j)]
    BY <1>2, <1>3
  <2>2. ASSUME NEW m \in 1 .. j - 1 PROVE r[m].expire >= r[j].expire
    <3>1. m \in 1 .. Len(r)
      BY <1>1, <1>2
    <3>2. of(m) \in 1 .. of(j) - 1 /\ r[m] = s[of(m)]
      BY <1>1, <1>2, <1>3, <1>4, <2>1, <3>1
    <3> QED BY <2>1, <3>2 DEF Expiring
  <2> QED BY <2>1, <2>2 DEF Expiring
<1>6. Expiring(r, N, top)
  BY <1>2, <1>5 DEF Expiring
<1> QED BY <1>6 DEF r

-----------------------------------------------------------------------------
(* Lists of keys, each once, and the stack and the queue of LIRSCache        *)

Unrepeated(s, K) == s \in Seq(K) /\ IsInjective(s)

LEMMA UnrepeatedNothing == ASSUME NEW K PROVE Unrepeated(<< >>, K) /\ ToSet(<< >>) = {}
BY DEF Unrepeated, IsInjective, ToSet

LEMMA UnrepeatedTypes ==
    ASSUME NEW K, NEW s, Unrepeated(s, K)
    PROVE  /\ Len(s) \in Nat /\ DOMAIN s = 1 .. Len(s) /\ ToSet(s) \subseteq K
           /\ s # << >> => Len(s) > 0 /\ Last(s) = s[Len(s)] /\ Last(s) \in ToSet(s)
           /\ Unrepeated(s, ToSet(s))
<1>1. s \in Seq(K) /\ Len(s) \in Nat /\ DOMAIN s = 1 .. Len(s)
  BY DEF Unrepeated
<1>2. ToSet(s) \subseteq K
  BY <1>1 DEF ToSet
<1>3. s # << >> => Len(s) > 0 /\ Last(s) = s[Len(s)] /\ Last(s) \in ToSet(s)
  BY <1>1 DEF Last, ToSet
<1>4. \A i \in 1 .. Len(s) : s[i] \in ToSet(s)
  BY <1>1 DEF ToSet
<1>5. s \in Seq(ToSet(s))
  BY <1>1, <1>4, SeqDef
<1> QED BY <1>1, <1>2, <1>3, <1>5 DEF Unrepeated

\* A list of keys, whichever set they are known to be in.
LEMMA UnrepeatedIn ==
    ASSUME NEW K, NEW J, NEW s, Unrepeated(s, K), ToSet(s) \subseteq J
    PROVE  Unrepeated(s, J)
<1>1. s \in Seq(ToSet(s)) /\ IsInjective(s)
  BY UnrepeatedTypes DEF Unrepeated
<1>2. s \in Seq(J)
  BY <1>1
<1> QED BY <1>1, <1>2 DEF Unrepeated

\* An element put first.
LEMMA UnrepeatedCons ==
    ASSUME NEW K, NEW s, Unrepeated(s, K), NEW k \in K, k \notin ToSet(s)
    PROVE  LET t == <<k>> \o s
           IN  /\ Unrepeated(t, K) /\ ToSet(t) = ToSet(s) \union {k} /\ t # << >>
               /\ Last(t) = IF s = << >> THEN k ELSE Last(s)
<1> DEFINE t == <<k>> \o s
<1>1. /\ s \in Seq(K) /\ Len(s) \in Nat /\ DOMAIN s = 1 .. Len(s)
      /\ t \in Seq(K) /\ Len(t) = Len(s) + 1 /\ DOMAIN t = 1 .. Len(s) + 1
      /\ t[1] = k /\ \A i \in 2 .. Len(s) + 1 : t[i] = s[i - 1]
  BY UnrepeatedTypes DEF Unrepeated
<1> HIDE DEF t
<1>2. \A i \in 1 .. Len(s) : t[i + 1] = s[i]
  BY <1>1
<1>3. ToSet(t) = ToSet(s) \union {k}
  <2>1. ASSUME NEW i \in 1 .. Len(s) + 1 PROVE t[i] \in ToSet(s) \union {k}
    <3>1. CASE i = 1
      BY <3>1, <1>1
    <3>2. CASE i # 1
      <4>1. i - 1 \in DOMAIN s /\ t[i] = s[i - 1]
        BY <1>1, <3>2
      <4> QED BY <4>1 DEF ToSet
    <3> QED BY <3>1, <3>2
  <2>2. ASSUME NEW i \in 1 .. Len(s) PROVE s[i] \in ToSet(t)
    <3>1. i + 1 \in DOMAIN t /\ t[i + 1] = s[i]
      BY <1>1, <1>2
    <3> QED BY <3>1 DEF ToSet
  <2>3. k \in ToSet(t)
    <3>1. 1 \in DOMAIN t
      BY <1>1
    <3> QED BY <3>1, <1>1 DEF ToSet
  <2>4. ToSet(s) \subseteq ToSet(t)
    BY <2>2, <1>1 DEF ToSet
  <2>5. ToSet(t) \subseteq ToSet(s) \union {k}
    BY <2>1, <1>1 DEF ToSet
  <2> QED BY <2>3, <2>4, <2>5
<1>4. \A i \in 2 .. Len(s) + 1 : t[i] # k
  <2> SUFFICES ASSUME NEW i \in 2 .. Len(s) + 1 PROVE t[i] # k
    OBVIOUS
  <2>1. i - 1 \in DOMAIN s /\ t[i] = s[i - 1]
    BY <1>1
  <2> QED BY <2>1 DEF ToSet
<1>5. IsInjective(t)
  <2> SUFFICES ASSUME NEW i \in 1 .. Len(s) + 1, NEW j \in 1 .. Len(s) + 1, t[i] = t[j]
               PROVE  i = j
    BY <1>1 DEF IsInjective
  <2>1. CASE i = 1 \/ j = 1
    BY <2>1, <1>1, <1>4
  <2>2. CASE i # 1 /\ j # 1
    <3>1. i - 1 \in DOMAIN s /\ j - 1 \in DOMAIN s /\ s[i - 1] = s[j - 1]
      BY <1>1, <2>2
    <3>2. i - 1 = j - 1
      BY <3>1 DEF Unrepeated, IsInjective
    <3> QED BY <3>2, <1>1
  <2> QED BY <2>1, <2>2
<1>6. Last(t) = IF s = << >> THEN k ELSE Last(s)
  <2>1. CASE s = << >>
    BY <2>1, <1>1 DEF Last
  <2>2. CASE s # << >>
    <3>1. Len(s) \in 1 .. Len(s)
      BY <2>2, UnrepeatedTypes
    <3>2. t[Len(s) + 1] = s[Len(s)]
      BY <3>1, <1>2
    <3> QED BY <2>2, <3>2, <1>1 DEF Last
  <2> QED BY <2>1, <2>2
<1>7. t # << >>
  BY <1>1
<1>8. Unrepeated(t, K)
  BY <1>1, <1>5 DEF Unrepeated
<1> QED BY <1>3, <1>6, <1>7, <1>8 DEF t

\* An element taken out, if it is there.
LEMMA UnrepeatedRemoved ==
    ASSUME NEW K, NEW s, Unrepeated(s, K), NEW k
    PROVE  LET r == RemoveFirst(s, k)
           IN  /\ Unrepeated(r, K) /\ ToSet(r) = ToSet(s) \ {k}
               /\ (s # << >> /\ Last(s) # k) => r # << >> /\ Last(r) = Last(s)
<1>1. s \in Seq(K) /\ Len(s) \in Nat /\ DOMAIN s = 1 .. Len(s)
  BY UnrepeatedTypes DEF Unrepeated
<1>2. CASE k \notin ToSet(s)
  <2>1. RemoveFirst(s, k) = s
    BY <1>1, <1>2 DEF RemoveFirst, ToSet
  <2> QED BY <1>2, <2>1
<1>3. CASE k \in ToSet(s)
  <2>1. PICK i \in 1 .. Len(s) : s[i] = k
    BY <1>1, <1>3 DEF ToSet
  <2> DEFINE r == RemoveAt(s, i)
             of(j) == IF j < i THEN j ELSE j + 1
  <2>2. \A j \in 1 .. Len(s) : s[j] = s[i] => j = i
    BY <1>1 DEF Unrepeated, IsInjective
  <2>3. RemoveFirst(s, k) = r
    BY <1>1, <2>1, <2>2, RemoveFirstFacts
  <2>4. r \in Seq(K) /\ Len(r) = Len(s) - 1 /\ \A j \in 1 .. Len(r) : r[j] = s[of(j)]
    BY <1>1, RemoveAtFacts DEF IsWithout
  <2> HIDE DEF r
  <2>5. DOMAIN r = 1 .. Len(r) /\ Len(r) \in Nat
    BY <2>4
  <2>6. \A j \in 1 .. Len(r) : of(j) \in 1 .. Len(s) /\ of(j) # i
    BY <1>1, <2>4, <2>5
  <2>7. IsInjective(r)
    <3> SUFFICES ASSUME NEW a \in 1 .. Len(r), NEW b \in 1 .. Len(r), r[a] = r[b]
                 PROVE  a = b
      BY <2>5 DEF IsInjective
    <3>1. of(a) = of(b)
      BY <2>4, <2>6, <1>1 DEF Unrepeated, IsInjective
    <3> QED BY <3>1
  <2>8. ToSet(r) = ToSet(s) \ {k}
    <3>1. ASSUME NEW j \in 1 .. Len(r) PROVE r[j] \in ToSet(s) \ {k}
      <4>1. r[j] = s[of(j)] /\ of(j) \in 1 .. Len(s) /\ of(j) # i
        BY <2>4, <2>6
      <4> HIDE DEF of
      <4> QED BY <4>1, <1>1, <2>1, <2>2 DEF ToSet
    <3>2. ASSUME NEW j \in 1 .. Len(s), s[j] # k PROVE s[j] \in ToSet(r)
      <4> DEFINE at == IF j < i THEN j ELSE j - 1
      <4>1. j # i /\ at \in 1 .. Len(r) /\ of(at) = j
        BY <1>1, <2>1, <2>4, <3>2
      <4>2. r[at] = s[j]
        BY <2>4, <4>1
      <4> QED BY <2>5, <4>1, <4>2 DEF ToSet
    <3>3. ToSet(r) \subseteq ToSet(s) \ {k}
      BY <2>5, <3>1 DEF ToSet
    <3>4. ToSet(s) \ {k} \subseteq ToSet(r)
      BY <1>1, <3>2 DEF ToSet
    <3> QED BY <3>3, <3>4
  <2>9. (s # << >> /\ Last(s) # k) => r # << >> /\ Last(r) = Last(s)
    <3> SUFFICES ASSUME s # << >>, Last(s) # k PROVE r # << >> /\ Last(r) = Last(s)
      OBVIOUS
    <3>1. i # Len(s) /\ Len(s) - 1 \in 1 .. Len(r) /\ of(Len(s) - 1) = Len(s)
      <4>1. i # Len(s)
        BY <2>1 DEF Last
      <4>2. Len(s) \in Nat /\ Len(r) = Len(s) - 1
        BY <1>1, <2>4
      <4> DEFINE m == Len(s)
      <4>3. m \in Nat /\ i \in 1 .. m /\ i # m /\ Len(r) = m - 1
        BY <4>1, <4>2
      <4> HIDE DEF m
      <4>4. i # m /\ m - 1 \in 1 .. Len(r) /\ of(m - 1) = m
        BY <4>3
      <4> QED BY <4>4 DEF m
    <3>2. r[Len(r)] = s[Len(s)]
      BY <2>4, <3>1
    <3> QED BY <3>1, <3>2, <2>5 DEF Last
  <2>10. Unrepeated(r, K)
    BY <2>4, <2>7 DEF Unrepeated
  <2> QED BY <2>3, <2>8, <2>9, <2>10
<1> QED BY <1>2, <1>3

\* The first n elements.
LEMMA UnrepeatedBegins ==
    ASSUME NEW K, NEW s, Unrepeated(s, K), NEW n \in 0 .. Len(s)
    PROVE  LET r == SubSeq(s, 1, n)
           IN  /\ Unrepeated(r, K) /\ ToSet(r) = { s[i] : i \in 1 .. n }
               /\ n = 0 => r = << >>
               /\ n > 0 => r # << >> /\ Last(r) = s[n]
<1> DEFINE r == SubSeq(s, 1, n)
<1>1. s \in Seq(K) /\ Len(s) \in Nat /\ DOMAIN s = 1 .. Len(s) /\ n \in Nat /\ n <= Len(s)
  BY UnrepeatedTypes DEF Unrepeated
<1>2. r = [i \in 1 .. n |-> s[i]] /\ \A i \in 1 .. n : s[i] \in K /\ i \in 1 .. Len(s)
  BY <1>1
<1> HIDE DEF r
<1>3. r \in Seq(K) /\ Len(r) = n /\ DOMAIN r = 1 .. n /\ \A i \in 1 .. n : r[i] = s[i]
  BY <1>1, <1>2
<1>4. IsInjective(r)
  BY <1>1, <1>2, <1>3 DEF Unrepeated, IsInjective
<1>5. ToSet(r) = { s[i] : i \in 1 .. n }
  BY <1>3 DEF ToSet
<1>6. n = 0 => r = << >>
  BY <1>3
<1>7. n > 0 => r # << >> /\ Last(r) = s[n]
  BY <1>1, <1>3 DEF Last
<1> QED BY <1>3, <1>4, <1>5, <1>6, <1>7 DEF Unrepeated, r

LEMMA UnrepeatedFront ==
    ASSUME NEW K, NEW s, Unrepeated(s, K), s # << >>
    PROVE  Unrepeated(Front(s), K) /\ ToSet(Front(s)) = ToSet(s) \ {Last(s)}
<1>1. /\ Len(s) \in Nat /\ DOMAIN s = 1 .. Len(s) /\ Len(s) > 0 /\ Last(s) = s[Len(s)]
      /\ Len(s) - 1 \in 0 .. Len(s)
  BY UnrepeatedTypes
<1>2. Unrepeated(Front(s), K) /\ ToSet(Front(s)) = { s[i] : i \in 1 .. Len(s) - 1 }
  BY <1>1, UnrepeatedBegins DEF Front
<1>3. \A i \in 1 .. Len(s) : i \in 1 .. Len(s) - 1 <=> s[i] # s[Len(s)]
  BY <1>1 DEF Unrepeated, IsInjective
<1>4. \A i \in 1 .. Len(s) - 1 : i \in 1 .. Len(s)
  BY <1>1
<1>5. { s[i] : i \in 1 .. Len(s) - 1 } = ToSet(s) \ {Last(s)}
  BY <1>1, <1>3, <1>4 DEF ToSet
<1> QED BY <1>2, <1>5

\* What is left of s when its end is dropped up to the last element that is in L.
UpToLast(s, L) == SubSeq(s, 1, Max({0} \union { i \in DOMAIN s : s[i] \in L }))

LEMMA UnrepeatedUpToLast ==
    ASSUME NEW K, NEW s, Unrepeated(s, K), NEW L
    PROVE  LET r == UpToLast(s, L)
           IN  /\ Unrepeated(r, K) /\ ToSet(r) \subseteq ToSet(s)
               /\ r = << >> \/ Last(r) \in L \intersect ToSet(r)
               /\ (s # << >> /\ Last(s) \notin L) => Last(s) \notin ToSet(r)
<1> DEFINE I == {0} \union { i \in DOMAIN s : s[i] \in L }
           r == UpToLast(s, L)
<1>1. Len(s) \in Nat /\ DOMAIN s = 1 .. Len(s)
  BY UnrepeatedTypes
<1>2. I \in SUBSET Nat /\ I # {} /\ \A x \in I : x <= Len(s)
  BY <1>1
<1>3. \A x \in I : x \in 0 .. Len(s) /\ (x # 0 => x \in 1 .. Len(s) /\ s[x] \in L)
  BY <1>1
<1> HIDE DEF I
<1>4. PICK n \in I : \A x \in I : x <= n
  BY <1>1, <1>2, SetHasMaximum
<1>5. Max(I) = n
  BY <1>2, <1>4, MaxIs
<1>6. n \in 0 .. Len(s) /\ (n # 0 => n \in 1 .. Len(s) /\ s[n] \in L)
  BY <1>3
<1>7. r = SubSeq(s, 1, n)
  BY <1>5 DEF UpToLast, I
<1> HIDE DEF r
<1>8. /\ Unrepeated(r, K) /\ ToSet(r) = { s[i] : i \in 1 .. n }
      /\ n = 0 => r = << >>
      /\ n > 0 => r # << >> /\ Last(r) = s[n]
  BY <1>6, <1>7, UnrepeatedBegins
<1>9. ToSet(r) \subseteq ToSet(s)
  <2>1. \A i \in 1 .. n : i \in DOMAIN s
    BY <1>1, <1>6
  <2> QED BY <1>8, <2>1 DEF ToSet
<1>10. r = << >> \/ Last(r) \in L \intersect ToSet(r)
  BY <1>6, <1>8, UnrepeatedTypes
<1>11. ASSUME s # << >>, Last(s) \notin L PROVE Last(s) \notin ToSet(r)
  <2>1. Last(s) = s[Len(s)] /\ Len(s) \in 1 .. Len(s)
    BY <1>11, UnrepeatedTypes
  <2>2. n # Len(s)
    BY <1>6, <1>11, <2>1
  <2> HIDE DEF r
  <2>3. \A i \in 1 .. n : i \in 1 .. Len(s) /\ i # Len(s)
    <3> DEFINE m == Len(s)
    <3>1. m \in Nat /\ n \in 0 .. m /\ n # m
      BY <1>1, <1>6, <2>2
    <3> HIDE DEF m
    <3>2. \A i \in 1 .. n : i \in 1 .. m /\ i # m
      BY <3>1
    <3> QED BY <3>2 DEF m
  <2>4. \A i \in 1 .. n : s[i] # s[Len(s)]
    BY <1>1, <2>1, <2>3 DEF Unrepeated, IsInjective
  <2> QED BY <1>8, <2>1, <2>4
<1> QED BY <1>8, <1>9, <1>10, <1>11 DEF r

\* What cache_stack knows of each block of LIRSCache.
BlocksKnown(m) ==
    /\ m = [k \in DOMAIN m |-> m[k]]
    /\ \A k \in DOMAIN m :
        /\ m[k] = [size |-> m[k].size, in |-> m[k].in, lir |-> m[k].lir]
        /\ m[k].in \in BOOLEAN /\ m[k].lir \in BOOLEAN

\* Stack s and queue q hold known blocks, the queue no LIR one; and what is in
\* both is resident, although a ghost may have been demoted into the queue.
StackQueue(s, q, m) ==
    /\ BlocksKnown(m)
    /\ Unrepeated(s, DOMAIN m) /\ Unrepeated(q, DOMAIN m)
    /\ \A k \in ToSet(q) : ~m[k].lir
    /\ \A k \in ToSet(s) \intersect ToSet(q) : m[k].in

LIRIn(s, m) == { k \in ToSet(s) : m[k].lir }
BottomIsLIR(s, m) == s # << >> /\ m[Last(s)].lir

\* What becomes of a stack with a LIR block at its bottom.
BottomKept(s, m, t, n) == BottomIsLIR(s, m) => BottomIsLIR(t, n) \/ t = << >>

\* What is known of one block changes, of a new one too.
LEMMA KnownChanged ==
    ASSUME NEW m, BlocksKnown(m), NEW k, NEW z, NEW in \in BOOLEAN, NEW lir \in BOOLEAN
    PROVE  BlocksKnown([x \in DOMAIN m \union {k} |->
                          IF x = k THEN [size |-> z, in |-> in, lir |-> lir] ELSE m[x]])
<1> DEFINE b == [size |-> z, in |-> in, lir |-> lir]
           n == [x \in DOMAIN m \union {k} |-> IF x = k THEN b ELSE m[x]]
<1>1. /\ b = [size |-> b.size, in |-> b.in, lir |-> b.lir]
      /\ b.in \in BOOLEAN /\ b.lir \in BOOLEAN
  OBVIOUS
<1>2. DOMAIN n = DOMAIN m \union {k} /\ n[k] = b /\ \A x \in DOMAIN m : x # k => n[x] = m[x]
  OBVIOUS
<1>3. n = [x \in DOMAIN n |-> n[x]]
  OBVIOUS
<1> HIDE DEF n, b
<1>4. ASSUME NEW x \in DOMAIN n
      PROVE  /\ n[x] = [size |-> n[x].size, in |-> n[x].in, lir |-> n[x].lir]
             /\ n[x].in \in BOOLEAN /\ n[x].lir \in BOOLEAN
  <2>1. CASE x = k
    BY <1>1, <1>2, <2>1
  <2>2. CASE x # k
    BY <1>2, <2>2 DEF BlocksKnown
  <2> QED BY <2>1, <2>2
<1>5. BlocksKnown(n)
  BY <1>3, <1>4 DEF BlocksKnown
<1> QED BY <1>5 DEF n, b

\* The same for a change of some members of a known one.
LEMMA KnownSet ==
    ASSUME NEW m, BlocksKnown(m), NEW k \in DOMAIN m
    PROVE  /\ \A lir \in BOOLEAN : LET n == [m EXCEPT ![k].lir = lir] IN
                /\ BlocksKnown(n) /\ DOMAIN n = DOMAIN m
                /\ n[k].lir = lir /\ n[k].in = m[k].in
                /\ \A x \in DOMAIN m : x # k => n[x] = m[x]
           /\ \A z : \A in, lir \in BOOLEAN :
                LET n == [m EXCEPT ![k] = [size |-> z, in |-> in, lir |-> lir]] IN
                /\ BlocksKnown(n) /\ DOMAIN n = DOMAIN m
                /\ n[k].lir = lir /\ n[k].in = in
                /\ \A x \in DOMAIN m : x # k => n[x] = m[x]
<1> DEFINE New(b) == [x \in DOMAIN m \union {k} |-> IF x = k THEN b ELSE m[x]]
           Block(z, in, lir) == [size |-> z, in |-> in, lir |-> lir]
<1>1. /\ m = [x \in DOMAIN m |-> m[x]] /\ DOMAIN m \union {k} = DOMAIN m
      /\ m[k] = Block(m[k].size, m[k].in, m[k].lir)
      /\ m[k].in \in BOOLEAN /\ m[k].lir \in BOOLEAN
  BY DEF BlocksKnown
<1>2. ASSUME NEW z, NEW in \in BOOLEAN, NEW lir \in BOOLEAN, NEW n, n = New(Block(z, in, lir))
      PROVE  /\ BlocksKnown(n) /\ DOMAIN n = DOMAIN m
             /\ n[k].lir = lir /\ n[k].in = in
             /\ \A x \in DOMAIN m : x # k => n[x] = m[x]
  <2>1. BlocksKnown(n)
    BY <1>2, KnownChanged
  <2>2. DOMAIN n = DOMAIN m /\ n[k] = Block(z, in, lir) /\ \A x \in DOMAIN m : x # k => n[x] = m[x]
    BY <1>1, <1>2
  <2>3. Block(z, in, lir).in = in /\ Block(z, in, lir).lir = lir
    OBVIOUS
  <2> QED BY <2>1, <2>2, <2>3
<1>3. ASSUME NEW b PROVE [m EXCEPT ![k] = b] = New(b)
  BY <1>1
<1>4. ASSUME NEW lir \in BOOLEAN
      PROVE  [m EXCEPT ![k].lir = lir] = New(Block(m[k].size, m[k].in, lir))
  <2>1. [m[k] EXCEPT !.lir = lir] = Block(m[k].size, m[k].in, lir)
    BY <1>1
  <2>2. [m EXCEPT ![k].lir = lir] = [m EXCEPT ![k] = [m[k] EXCEPT !.lir = lir]]
    BY <1>1
  <2> QED BY <2>1, <2>2, <1>3
<1> HIDE DEF New, Block
<1>5. ASSUME NEW lir \in BOOLEAN
      PROVE  LET n == [m EXCEPT ![k].lir = lir] IN
                /\ BlocksKnown(n) /\ DOMAIN n = DOMAIN m
                /\ n[k].lir = lir /\ n[k].in = m[k].in
                /\ \A x \in DOMAIN m : x # k => n[x] = m[x]
  BY <1>1, <1>2, <1>4
<1>6. ASSUME NEW z, NEW in \in BOOLEAN, NEW lir \in BOOLEAN
      PROVE  LET n == [m EXCEPT ![k] = [size |-> z, in |-> in, lir |-> lir]] IN
                /\ BlocksKnown(n) /\ DOMAIN n = DOMAIN m
                /\ n[k].lir = lir /\ n[k].in = in
                /\ \A x \in DOMAIN m : x # k => n[x] = m[x]
  <2> DEFINE n == [m EXCEPT ![k] = [size |-> z, in |-> in, lir |-> lir]]
  <2>1. n = New(Block(z, in, lir))
    BY <1>3 DEF Block
  <2> HIDE DEF n
  <2>2. /\ BlocksKnown(n) /\ DOMAIN n = DOMAIN m
        /\ n[k].lir = lir /\ n[k].in = in
        /\ \A x \in DOMAIN m : x # k => n[x] = m[x]
    BY <1>2, <2>1
  <2> QED BY <2>2 DEF n
<1> QED BY <1>5, <1>6

\* What is remembered of m, and the lists ensure_bottom_lir() may be called on:
\* the end of the stack may be in the queue without being resident.
KnownOf(m, L) == [k \in L |-> m[k]]

Prunable(s, q, m) ==
    /\ BlocksKnown(m)
    /\ Unrepeated(s, DOMAIN m) /\ Unrepeated(q, DOMAIN m)
    /\ \A k \in ToSet(q) : ~m[k].lir
    /\ \A k \in ToSet(s) \intersect ToSet(q) : m[k].in \/ k = Last(s)

\* ensure_bottom_lir(): what leaves the stack is forgotten or not, and the bottom
\* is LIR.
LEMMA PruneKeeps ==
    ASSUME NEW s, NEW q, NEW m, Prunable(s, q, m),
           NEW t, t = UpToLast(s, LIRIn(s, m)),
           NEW L, L \subseteq DOMAIN m, ToSet(t) \subseteq L, ToSet(q) \subseteq L,
           NEW n, n = KnownOf(m, L)
    PROVE  StackQueue(t, q, n) /\ (BottomIsLIR(t, n) \/ t = << >>)
<1>1. /\ Unrepeated(t, DOMAIN m) /\ ToSet(t) \subseteq ToSet(s)
      /\ t = << >> \/ Last(t) \in LIRIn(s, m) \intersect ToSet(t)
      /\ (s # << >> /\ Last(s) \notin LIRIn(s, m)) => Last(s) \notin ToSet(t)
  BY UnrepeatedUpToLast DEF Prunable
<1>2. ToSet(t) \subseteq L /\ ToSet(q) \subseteq L
  OBVIOUS
<1>3. Unrepeated(t, L) /\ Unrepeated(q, L)
  BY <1>1, <1>2, UnrepeatedIn DEF Prunable
<1>4. DOMAIN n = L /\ \A k \in L : n[k] = m[k] /\ k \in DOMAIN m
  BY DEF KnownOf
<1>5. n = [k \in DOMAIN n |-> n[k]]
  BY DEF KnownOf
<1>6. BlocksKnown(n)
  BY <1>4, <1>5 DEF BlocksKnown, Prunable
<1>7. \A k \in ToSet(q) : ~n[k].lir
  BY <1>2, <1>4 DEF Prunable
<1>8. ASSUME NEW k \in ToSet(t), k \in ToSet(q) PROVE n[k].in
  <2>1. k \in ToSet(s) /\ k \in L /\ s # << >>
    BY <1>1, <1>2, <1>8, UnrepeatedTypes DEF ToSet
  <2>2. k \notin LIRIn(s, m)
    BY <1>8 DEF LIRIn, Prunable
  <2>3. k # Last(s)
    BY <1>1, <1>8, <2>1, <2>2
  <2> QED BY <1>4, <1>8, <2>1, <2>3 DEF Prunable
<1>9. t = << >> \/ BottomIsLIR(t, n)
  BY <1>1, <1>2, <1>4 DEF LIRIn, BottomIsLIR
<1>10. StackQueue(t, q, n)
  BY <1>3, <1>4, <1>6, <1>7, <1>8 DEF StackQueue
<1> QED BY <1>9, <1>10

\* get() of a LIR block, before the stack is pruned.
LEMMA LIRToFront ==
    ASSUME NEW s, NEW q, NEW m, StackQueue(s, q, m), NEW k \in DOMAIN m, m[k].lir
    PROVE  StackQueue(<<k>> \o RemoveFirst(s, k), q, m)
<1> DEFINE r == RemoveFirst(s, k)
           t == <<k>> \o r
<1>1. Unrepeated(r, DOMAIN m) /\ ToSet(r) = ToSet(s) \ {k}
  BY UnrepeatedRemoved DEF StackQueue
<1> HIDE DEF r
<1>2. Unrepeated(t, DOMAIN m) /\ ToSet(t) = ToSet(r) \union {k}
  BY <1>1, UnrepeatedCons
<1> HIDE DEF t
<1>3. k \notin ToSet(q)
  BY DEF StackQueue
<1>4. StackQueue(t, q, m)
  BY <1>1, <1>2, <1>3 DEF StackQueue
<1> QED BY <1>4 DEF t, r

\* get() of a resident HIR block that is in the stack, and becomes LIR.
LEMMA HIRPromoted ==
    ASSUME NEW s, NEW q, NEW m, StackQueue(s, q, m), NEW k \in DOMAIN m, ~m[k].lir
    PROVE  LET t == <<k>> \o RemoveFirst(s, k)
               n == [m EXCEPT ![k].lir = TRUE]
           IN  StackQueue(t, RemoveFirst(q, k), n) /\ BottomKept(s, m, t, n)
<1> DEFINE r == RemoveFirst(s, k)
           t == <<k>> \o r
           p == RemoveFirst(q, k)
           n == [m EXCEPT ![k].lir = TRUE]
<1>1. /\ Unrepeated(r, DOMAIN m) /\ ToSet(r) = ToSet(s) \ {k}
      /\ (s # << >> /\ Last(s) # k) => r # << >> /\ Last(r) = Last(s)
  BY UnrepeatedRemoved DEF StackQueue
<1>2. Unrepeated(p, DOMAIN m) /\ ToSet(p) = ToSet(q) \ {k}
  BY UnrepeatedRemoved DEF StackQueue
<1>3. /\ BlocksKnown(n) /\ DOMAIN n = DOMAIN m
      /\ n[k].lir = TRUE /\ n[k].in = m[k].in
      /\ \A x \in DOMAIN m : x # k => n[x] = m[x]
  BY KnownSet DEF StackQueue
<1> HIDE DEF r, p, n
<1>4. /\ Unrepeated(t, DOMAIN m) /\ ToSet(t) = ToSet(r) \union {k} /\ t # << >>
      /\ Last(t) = IF r = << >> THEN k ELSE Last(r)
  BY <1>1, UnrepeatedCons
<1> HIDE DEF t
<1>5. ToSet(s) \subseteq DOMAIN m /\ ToSet(q) \subseteq DOMAIN m
  BY UnrepeatedTypes DEF StackQueue
<1>6. StackQueue(t, p, n)
  BY <1>1, <1>2, <1>3, <1>4, <1>5 DEF StackQueue
<1>7. BottomKept(s, m, t, n)
  <2> SUFFICES ASSUME s # << >>, m[Last(s)].lir PROVE n[Last(t)].lir
    BY <1>4 DEF BottomKept, BottomIsLIR
  <2>1. Last(s) # k /\ Last(s) \in DOMAIN m
    BY <1>5, UnrepeatedTypes DEF StackQueue
  <2> QED BY <1>1, <1>3, <1>4, <2>1
<1> QED BY <1>6, <1>7 DEF t, r, p, n

\* get() of a resident HIR block of the queue alone.
LEMMA HIRRenewed ==
    ASSUME NEW s, NEW q, NEW m, StackQueue(s, q, m), NEW k \in DOMAIN m,
           ~m[k].lir, m[k].in, k \notin ToSet(s)
    PROVE  /\ StackQueue(<<k>> \o s, <<k>> \o RemoveFirst(q, k), m)
           /\ BottomKept(s, m, <<k>> \o s, m)
<1> DEFINE p == RemoveFirst(q, k)
<1>1. Unrepeated(p, DOMAIN m) /\ ToSet(p) = ToSet(q) \ {k}
  BY UnrepeatedRemoved DEF StackQueue
<1> HIDE DEF p
<1>2. Unrepeated(<<k>> \o p, DOMAIN m) /\ ToSet(<<k>> \o p) = ToSet(p) \union {k}
  BY <1>1, UnrepeatedCons
<1>3. /\ Unrepeated(<<k>> \o s, DOMAIN m) /\ ToSet(<<k>> \o s) = ToSet(s) \union {k}
      /\ <<k>> \o s # << >> /\ Last(<<k>> \o s) = IF s = << >> THEN k ELSE Last(s)
  BY UnrepeatedCons DEF StackQueue
<1> DEFINE t == <<k>> \o s
           u == <<k>> \o p
<1> HIDE DEF t, u
<1>4. StackQueue(t, u, m)
  BY <1>1, <1>2, <1>3 DEF StackQueue, t, u
<1>5. BottomKept(s, m, t, m)
  BY <1>3 DEF BottomKept, BottomIsLIR, t
<1> QED BY <1>4, <1>5 DEF t, u, p

\* insert() of a ghost takes it out of the stack, LIR from now on.
LEMMA GhostTaken ==
    ASSUME NEW s, NEW q, NEW m, StackQueue(s, q, m), NEW k \in ToSet(s),
           ~m[k].lir, ~m[k].in, NEW z
    PROVE  LET t == RemoveFirst(s, k)
               n == [m EXCEPT ![k] = [size |-> z, in |-> TRUE, lir |-> TRUE]]
           IN  /\ StackQueue(t, q, n) /\ BottomKept(s, m, t, n)
               /\ k \in DOMAIN n \ ToSet(t) /\ n[k].lir
<1> DEFINE t == RemoveFirst(s, k)
           n == [m EXCEPT ![k] = [size |-> z, in |-> TRUE, lir |-> TRUE]]
<1>1. /\ Unrepeated(t, DOMAIN m) /\ ToSet(t) = ToSet(s) \ {k}
      /\ (s # << >> /\ Last(s) # k) => t # << >> /\ Last(t) = Last(s)
  BY UnrepeatedRemoved DEF StackQueue
<1>2. ToSet(s) \subseteq DOMAIN m /\ ToSet(q) \subseteq DOMAIN m
  BY UnrepeatedTypes DEF StackQueue
<1>3. /\ BlocksKnown(n) /\ DOMAIN n = DOMAIN m
      /\ n[k].lir = TRUE /\ n[k].in = TRUE
      /\ \A x \in DOMAIN m : x # k => n[x] = m[x]
  BY <1>2, KnownSet DEF StackQueue
<1> HIDE DEF t, n
<1>4. k \notin ToSet(q)
  BY DEF StackQueue
<1>5. StackQueue(t, q, n)
  BY <1>1, <1>2, <1>3, <1>4 DEF StackQueue
<1>6. BottomKept(s, m, t, n)
  <2> SUFFICES ASSUME s # << >>, m[Last(s)].lir PROVE t # << >> /\ n[Last(t)].lir
    BY DEF BottomKept, BottomIsLIR
  <2>1. Last(s) # k /\ Last(s) \in DOMAIN m
    BY <1>2, UnrepeatedTypes DEF StackQueue
  <2> QED BY <1>1, <1>3, <2>1
<1> QED BY <1>1, <1>2, <1>3, <1>5, <1>6 DEF t, n

\* demote(): the end of the stack goes to the queue, and the stack is pruned.
LEMMA BottomDemoted ==
    ASSUME NEW s, NEW q, NEW m, StackQueue(s, q, m), s # << >>, Last(s) \notin ToSet(q),
           NEW o, o = [m EXCEPT ![Last(s)].lir = FALSE],
           NEW t, t = UpToLast(s, LIRIn(s, o)),
           NEW L, L \subseteq DOMAIN m, ToSet(t) \subseteq L, ToSet(<<Last(s)>> \o q) \subseteq L,
           NEW n, n = KnownOf(o, L)
    PROVE  StackQueue(t, <<Last(s)>> \o q, n) /\ (BottomIsLIR(t, n) \/ t = << >>)
<1> DEFINE k == Last(s)
           u == <<k>> \o q
<1>1. ToSet(s) \subseteq DOMAIN m /\ ToSet(q) \subseteq DOMAIN m /\ k \in ToSet(s)
  BY UnrepeatedTypes DEF StackQueue
<1>2. /\ BlocksKnown(o) /\ DOMAIN o = DOMAIN m
      /\ o[k].lir = FALSE /\ o[k].in = m[k].in
      /\ \A x \in DOMAIN m : x # k => o[x] = m[x]
  BY <1>1, KnownSet DEF StackQueue
<1>3. Unrepeated(u, DOMAIN m) /\ ToSet(u) = ToSet(q) \union {k}
  BY <1>1, UnrepeatedCons DEF StackQueue
<1> HIDE DEF k, u
<1>4. Unrepeated(s, DOMAIN o) /\ Unrepeated(u, DOMAIN o)
  BY <1>2, <1>3 DEF StackQueue
<1>5. \A x \in ToSet(u) : ~o[x].lir
  BY <1>1, <1>2, <1>3 DEF StackQueue
<1>6. \A x \in ToSet(s) \intersect ToSet(u) : o[x].in \/ x = k
  BY <1>1, <1>2, <1>3 DEF StackQueue
<1>7. Prunable(s, u, o)
  BY <1>2, <1>4, <1>5, <1>6 DEF Prunable, k
<1>8. L \subseteq DOMAIN o /\ ToSet(u) \subseteq L
  BY <1>2 DEF u, k
<1>9. StackQueue(t, u, n) /\ (BottomIsLIR(t, n) \/ t = << >>)
  BY <1>7, <1>8, PruneKeeps
<1> QED BY <1>9 DEF u, k

\* evict(): the end of the queue is a ghost of the stack from now on, or forgotten.
WithoutTail(s, m, k) ==
    IF k \in ToSet(s) THEN [m EXCEPT ![k] = [size |-> @.size, in |-> FALSE, lir |-> FALSE]]
    ELSE [x \in DOMAIN m \ {k} |-> m[x]]

LEMMA TailEvicted ==
    ASSUME NEW s, NEW q, NEW m, StackQueue(s, q, m), q # << >>,
           NEW n, n = WithoutTail(s, m, Last(q))
    PROVE  /\ StackQueue(s, Front(q), n) /\ BottomKept(s, m, s, n)
           /\ \A x \in DOMAIN m : m[x].lir => x \in DOMAIN n /\ n[x] = m[x]
<1> DEFINE k == Last(q)
           p == Front(q)
<1>1. ToSet(s) \subseteq DOMAIN m /\ ToSet(q) \subseteq DOMAIN m /\ k \in ToSet(q)
  BY UnrepeatedTypes DEF StackQueue
<1>2. Unrepeated(p, DOMAIN m) /\ ToSet(p) = ToSet(q) \ {k}
  BY UnrepeatedFront DEF StackQueue
<1>3. ~m[k].lir /\ k \in DOMAIN m
  BY <1>1 DEF StackQueue
<1>4. BlocksKnown(n) /\ DOMAIN n \subseteq DOMAIN m /\ \A x \in DOMAIN m : x # k => x \in DOMAIN n /\ n[x] = m[x]
  <2>1. CASE k \in ToSet(s)
    <3>1. n = [m EXCEPT ![k] = [size |-> m[k].size, in |-> FALSE, lir |-> FALSE]]
      BY <2>1, <1>3 DEF StackQueue, BlocksKnown, WithoutTail
    <3> HIDE DEF k
    <3>2. \A z : \A in, lir \in BOOLEAN :
             LET l == [m EXCEPT ![k] = [size |-> z, in |-> in, lir |-> lir]]
             IN  BlocksKnown(l) /\ DOMAIN l = DOMAIN m /\ \A x \in DOMAIN m : x # k => l[x] = m[x]
      BY <1>3, KnownSet DEF StackQueue
    <3>3. BlocksKnown(n) /\ DOMAIN n = DOMAIN m /\ \A x \in DOMAIN m : x # k => n[x] = m[x]
      BY <3>1, <3>2, FALSE \in BOOLEAN
    <3> QED BY <3>3
  <2>2. CASE k \notin ToSet(s)
    <3>1. n = [x \in DOMAIN m \ {k} |-> m[x]]
      BY <2>2 DEF WithoutTail
    <3> HIDE DEF k
    <3>2. DOMAIN n = DOMAIN m \ {k} /\ (\A x \in DOMAIN n : n[x] = m[x]) /\ n = [x \in DOMAIN n |-> n[x]]
      BY <3>1
    <3> QED BY <3>2 DEF BlocksKnown, StackQueue
  <2> QED BY <2>1, <2>2
<1>5. k \in ToSet(s) => k \in DOMAIN n
  BY <1>3 DEF StackQueue, BlocksKnown, WithoutTail
<1> HIDE DEF k, p
<1>6. ToSet(s) \subseteq DOMAIN n /\ ToSet(p) \subseteq DOMAIN n
  BY <1>1, <1>2, <1>4, <1>5
<1>7. Unrepeated(s, DOMAIN n) /\ Unrepeated(p, DOMAIN n)
  BY <1>2, <1>6, UnrepeatedIn DEF StackQueue
<1>8. StackQueue(s, p, n)
  BY <1>1, <1>2, <1>4, <1>7 DEF StackQueue
<1>9. \A x \in DOMAIN m : m[x].lir => x \in DOMAIN n /\ n[x] = m[x]
  BY <1>3, <1>4
<1>10. BottomKept(s, m, s, n)
  BY <1>1, <1>9, UnrepeatedTypes DEF BottomKept, BottomIsLIR, StackQueue
<1> QED BY <1>8, <1>9, <1>10 DEF p

\* insert() puts back the ghost it took out.
LEMMA GhostInserted ==
    ASSUME NEW s, NEW q, NEW m, StackQueue(s, q, m), NEW k \in DOMAIN m \ ToSet(s), m[k].lir
    PROVE  StackQueue(<<k>> \o s, q, m) /\ BottomKept(s, m, <<k>> \o s, m)
<1> DEFINE t == <<k>> \o s
<1>1. /\ Unrepeated(t, DOMAIN m) /\ ToSet(t) = ToSet(s) \union {k}
      /\ t # << >> /\ Last(t) = IF s = << >> THEN k ELSE Last(s)
  BY UnrepeatedCons DEF StackQueue
<1> HIDE DEF t
<1>2. k \notin ToSet(q)
  BY DEF StackQueue
<1>3. StackQueue(t, q, m)
  BY <1>1, <1>2 DEF StackQueue
<1>4. BottomKept(s, m, t, m)
  BY <1>1 DEF BottomKept, BottomIsLIR
<1> QED BY <1>3, <1>4 DEF t

\* insert() of a block that nothing is known of.
LEMMA NewInserted ==
    ASSUME NEW s, NEW q, NEW m, StackQueue(s, q, m), NEW k, k \notin DOMAIN m, NEW z, NEW n,
           n = [x \in DOMAIN m \union {k} |->
                  IF x = k THEN [size |-> z, in |-> TRUE, lir |-> FALSE] ELSE m[x]]
    PROVE  StackQueue(<<k>> \o s, <<k>> \o q, n) /\ BottomKept(s, m, <<k>> \o s, n)
<1> DEFINE t == <<k>> \o s
           u == <<k>> \o q
<1>1. BlocksKnown(n)
  <2>1. BlocksKnown(m)
    BY DEF StackQueue
  <2>2. ASSUME NEW in \in BOOLEAN, NEW lir \in BOOLEAN
        PROVE  BlocksKnown([x \in DOMAIN m \union {k} |->
                              IF x = k THEN [size |-> z, in |-> in, lir |-> lir] ELSE m[x]])
    BY <2>1, KnownChanged
  <2> QED BY <2>2, TRUE \in BOOLEAN, FALSE \in BOOLEAN
<1>2. /\ DOMAIN n = DOMAIN m \union {k} /\ ~n[k].lir /\ n[k].in
      /\ \A x \in DOMAIN m : n[x] = m[x] /\ x \in DOMAIN n
  OBVIOUS
<1>3. ToSet(s) \subseteq DOMAIN m /\ ToSet(q) \subseteq DOMAIN m
  BY UnrepeatedTypes DEF StackQueue
<1>4. Unrepeated(s, DOMAIN n) /\ Unrepeated(q, DOMAIN n) /\ k \notin ToSet(s) /\ k \notin ToSet(q)
  BY <1>2, <1>3, UnrepeatedIn DEF StackQueue
<1>5. /\ Unrepeated(t, DOMAIN n) /\ ToSet(t) = ToSet(s) \union {k}
      /\ t # << >> /\ Last(t) = IF s = << >> THEN k ELSE Last(s)
  BY <1>2, <1>4, UnrepeatedCons
<1>6. Unrepeated(u, DOMAIN n) /\ ToSet(u) = ToSet(q) \union {k}
  BY <1>2, <1>4, UnrepeatedCons
<1> HIDE DEF t, u
<1>7. StackQueue(t, u, n)
  BY <1>1, <1>2, <1>3, <1>4, <1>5, <1>6 DEF StackQueue
<1>8. BottomKept(s, m, t, n)
  BY <1>2, <1>3, <1>5, UnrepeatedTypes DEF BottomKept, BottomIsLIR, StackQueue
<1> QED BY <1>7, <1>8 DEF t, u
=============================================================================
