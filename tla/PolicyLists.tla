---------------------------- MODULE PolicyLists ----------------------------
(***************************************************************************)
(* What the policies built by CacheInstance (cache/cacheinstance.h) have   *)
(* in common: named lists of nodes, a byte count per list, and a call of   *)
(* insert() that may be running.  A policy's module gives these variables  *)
(* their meaning and adds, in `field`, the members only it has.            *)
(*                                                                         *)
(* One iteration of a loop is one action, `phase` saying where the running *)
(* insert() stands.  Where the code dereferences the end of an empty list  *)
(* no action is enabled: what the program does then is anybody's guess,    *)
(* and VictimExists says when it cannot happen.                            *)
(***************************************************************************)
EXTENDS CacheBase, FiniteSetsExt, Functions

CONSTANT NoRequest      \* no insert() is running

VARIABLES
    algor,      \* the algorithm CreateCache was called with
    capacity,   \* Cache::cache_capacity_
    sizesOf,    \* the sizes under which the trace names each key
    lists,      \* the policy's lists, front first
    sizes,      \* its byte counts
    field,      \* its other members
    phase,      \* where the running call stands
    request     \* the arguments of the insert() that is running

configuration == <<algor, capacity, sizesOf>>
vars == <<configuration, lists, sizes, field, phase, request>>

-----------------------------------------------------------------------------
(* Lists and their counts *)

Charge(node) == ChunkSize(node.size)
Chunk == ChunkSize(request.size)

Known == UNION { KeysOf(lists[l]) : l \in DOMAIN lists }
In(k, l) == k \in KeysOf(lists[l])
ListOf(k) == CHOOSE l \in DOMAIN lists : In(k, l)
NodeOf(k) == LET s == lists[ListOf(k)] IN s[CHOOSE i \in DOMAIN s : s[i].key = k]

\* std::list's back() and pop_back(), erase() and emplace() of the i-th element.
Back(s) == s[Len(s)]
PopBack(s) == SubSeq(s, 1, Len(s) - 1)
Erased(s, i) == SubSeq(s, 1, i - 1) \o SubSeq(s, i + 1, Len(s))
EmplacedAt(s, i, node) == SubSeq(s, 1, i - 1) \o <<node>> \o SubSeq(s, i, Len(s))

\* s without the node k's iterator names, if it is one of s.
Without(s, k) ==
    IF k \in KeysOf(s) THEN Erased(s, CHOOSE i \in DOMAIN s : s[i].key = k) ELSE s

Pushed(l, node) == [lists EXCEPT ![l] = <<node>> \o @]

\* std::list::splice of k's node to the front of list l, from wherever it is.
Spliced(k, l) ==
    [m \in DOMAIN lists |->
        (IF m = l THEN <<NodeOf(k)>> ELSE << >>) \o Without(lists[m], k)]

\* Bytes taken from one count and given to another, possibly the same one.
Shifted(from, to, bytes) ==
    LET less == [sizes EXCEPT ![from] = Minus(@, bytes)]
    IN  [less EXCEPT ![to] = Plus(@, bytes)]

\* The tail of list l is erased.
DropTail(l) ==
    /\ lists[l] # << >>
    /\ lists' = [lists EXCEPT ![l] = PopBack(@)]
    /\ sizes' = [sizes EXCEPT ![l] = Minus(@, Charge(Back(lists[l])))]

\* insert() begins, and returns.
Enter(k, s, where) == request' = [key |-> k, size |-> s] /\ phase' = where
Leave == request' = NoRequest /\ phase' = "idle"

NewNode == [key |-> request.key, size |-> request.size]

-----------------------------------------------------------------------------
(* What the trace is like *)

ChunksOf(k) == { ChunkSize(s) : s \in sizesOf[k] }

\* No key is ever requested with another chunk size, nor any two keys.
Steady == \A k \in Key : Cardinality(ChunksOf(k)) = 1
Uniform == Cardinality(UNION { ChunksOf(k) : k \in Key }) = 1

-----------------------------------------------------------------------------
(* Parts of properties *)

\* A key is in one list at most, once.
EachKeyOnce ==
    /\ \A l \in DOMAIN lists : KeysDistinct(lists[l])
    /\ \A l, m \in DOMAIN lists : l # m => KeysOf(lists[l]) \cap KeysOf(lists[m]) = {}

\* The bytes of several lists.
BytesIn(names) == FoldSet(LAMBDA l, sum : Bytes(lists[l]) + sum, 0, names)
=============================================================================
