------------------------------ MODULE OPTCache ------------------------------
(* OPTCache (cache/base/opt.h) under CacheTester::RunOpt                     *)
(* (cache/cachereplacement.h): each line of the trace comes with the         *)
(* position of the next request of its key, read from a second file, and the *)
(* victim is the node whose next request is farthest away.                   *)
EXTENDS PolicyLists

CONSTANTS
    NoFile,         \* a trace line whose file has size 0
    TraceLength     \* bound: the lines of a trace

OUT_OF_TRACE == WORD - 1
trace == field.trace
line == field.line          \* the line that is read next
word == field.word          \* the number that is read next from the other file

At(where) == algor = "OPT" /\ phase = where

Init ==
    /\ lists = [rbtree |-> << >>]
    /\ sizes = [cache |-> 0]
    /\ \E t \in [1 .. TraceLength -> Key \union {NoFile}] :
         field = [trace |-> t, line |-> 1, word |-> 1, hits |-> 0]
    /\ phase = "idle"
    /\ request = NoRequest

\* The i-th number of the file of next positions.
NextPos(i) ==
    LET again == { j \in i + 1 .. TraceLength : trace[j] = trace[i] }
    IN  IF again = {} THEN OUT_OF_TRACE ELSE Min(again)

\* The multiset is in the order of OPTNodeCompare; of equals the older is first.
Emplaced(s, node) ==
    LET sooner == { i \in DOMAIN s : s[i].next < node.next }
    IN  EmplacedAt(s, Min(sooner \union {Len(s) + 1}), node)

Reading(k) == At("idle") /\ line <= TraceLength /\ trace[line] = k

\* A next position is read with every line, whether the line is used or not.
WordUnread(k) == IF k = NoFile THEN word ELSE word + 1   \* fault: after the skip
WordAfter(k) == word + 1
Advanced(k, hits) ==
    [field EXCEPT !.line = line + 1, !.word = WordAfter(k), !.hits = @ + hits]

SkipLine ==
    /\ Reading(NoFile)
    /\ field' = Advanced(NoFile, 0)
    /\ UNCHANGED <<configuration, lists, sizes, phase, request>>

GetHit(k) ==
    /\ Reading(k) /\ In(k, "rbtree")
    /\ lists' = [rbtree |-> Emplaced(Without(lists.rbtree, k),
                                     [NodeOf(k) EXCEPT !.next = NextPos(word)])]
    /\ field' = Advanced(k, 1)
    /\ UNCHANGED <<configuration, sizes, phase, request>>

GetMiss(k, s) ==
    /\ Reading(k) /\ ~In(k, "rbtree")
    /\ phase' = "insert"
    /\ request' = [key |-> k, size |-> s, next |-> NextPos(word)]
    /\ field' = Advanced(k, 0)
    /\ UNCHANGED <<configuration, lists, sizes>>

Full == At("insert") /\ IsFullAt(sizes.cache, capacity, Chunk)

EvictFirst ==
    /\ Full /\ lists.rbtree # << >>
    /\ sizes' = [cache |-> Minus(sizes.cache, Charge(Head(lists.rbtree)))]
    /\ lists' = [rbtree |-> Tail(lists.rbtree)]
    /\ UNCHANGED <<configuration, field, phase, request>>

InsertNode ==
    /\ At("insert") /\ ~Full
    /\ lists' = [rbtree |-> Emplaced(lists.rbtree, request)]
    /\ sizes' = [cache |-> Plus(sizes.cache, Chunk)]
    /\ Leave
    /\ UNCHANGED <<configuration, field>>

Get == SkipLine \/ \E k \in Key : GetHit(k) \/ \E s \in sizesOf[k] : GetMiss(k, s)

Next == Get \/ EvictFirst \/ InsertNode

-----------------------------------------------------------------------------
(* The optimum, computed from the trace alone *)

Slots == capacity \div CHOOSE c \in UNION { ChunksOf(k) : k \in Key } : TRUE

\* The most hits that lines i and on can give a cache that holds these keys and
\* must take in what it misses, whatever it evicts for that.
Best[i \in 1 .. TraceLength + 1] ==
    [held \in SUBSET Key |->
        IF i > TraceLength THEN 0
        ELSE IF trace[i] = NoFile THEN Best[i + 1][held]
        ELSE IF trace[i] \in held THEN 1 + Best[i + 1][held]
        ELSE IF Cardinality(held) < Slots THEN Best[i + 1][held \union {trace[i]}]
        ELSE Max({ Best[i + 1][(held \ {v}) \union {trace[i]}] : v \in held })]

\* With chunks of one size no policy hits more often than OPT does.
HitsAreOptimal ==
    (Uniform /\ line > TraceLength) => field.hits = Best[1][{}]

BooksBalance == EachKeyOnce /\ sizes.cache = Bytes(lists.rbtree)

VictimExists == Full => lists.rbtree # << >>
=============================================================================
