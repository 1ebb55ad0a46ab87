----------------------------- MODULE LIRSCache ------------------------------
(* LIRSCache (cache/base/lirs.h): stack S orders the blocks by recency, with *)
(* LIR blocks, resident HIR blocks and ghosts (HIR, not resident); queue Q   *)
(* holds the resident HIR blocks, the next victim at its end.  The lists     *)
(* hold keys here, and field.node what cache_stack knows of each.            *)
EXTENDS PolicyLists

S == lists["S"]
Q == lists["Q"]
node == field.node
Stored == DOMAIN node
MaxQ == (capacity * 3) \div 10

At(where) == algor = "LIRS" /\ phase = where

Init ==
    /\ lists = [l \in {"S", "Q"} |-> << >>]
    /\ sizes = [l \in {"cache", "Q"} |-> 0]
    /\ field = [node |-> [k \in {} |-> 0], misled |-> FALSE]   \* misled is a history
    /\ phase = "idle"
    /\ request = NoRequest

LirBlock(size, in, lir) == [size |-> size, in |-> in, lir |-> lir]

\* attach() and detach().
Attached(s, k) == <<k>> \o s
Detached(s, k) ==
    LET at == { i \in 1 .. Len(s) : s[i] = k }
    IN  IF at = {} THEN s ELSE Erased(s, Min(at))

\* ensure_bottom_lir(): blocks leave the end of S until a LIR block is there,
\* and are forgotten unless they are in Q.
LeftAlone(s, info) == s     \* fault: S is not pruned
Pruned(s, info) ==
    SubSeq(s, 1, Max({0} \union { i \in DOMAIN s : info[s[i]].lir }))

Stack(s, q, info, taken) ==
    LET kept == Pruned(s, info)
        left == Range(kept) \union Range(q) \union (DOMAIN info \ (Range(s) \union Range(q)))
    IN  /\ lists' = [S |-> kept, Q |-> q]
        /\ field' = [node |-> [k \in left |-> info[k]], misled |-> taken]

-----------------------------------------------------------------------------
(* get() *)

GetHitLIR(k) ==
    /\ At("idle")
    /\ k \in Stored /\ node[k].lir
    /\ Stack(Attached(Detached(S, k), k), Q, node, field.misled)
    /\ UNCHANGED <<configuration, sizes, phase, request>>

\* A resident HIR block still in S becomes LIR; demote() follows.
GetHitHIR(k) ==
    /\ At("idle")
    /\ k \in Stored /\ ~node[k].lir /\ node[k].in
    /\ k \in Range(S)
    /\ lists' = [S |-> Attached(Detached(S, k), k), Q |-> Detached(Q, k)]
    /\ field' = [field EXCEPT !.node[k].lir = TRUE]
    /\ sizes' = [sizes EXCEPT !["Q"] = Minus(@, ChunkSize(node[k].size))]
    /\ phase' = "demote"
    /\ UNCHANGED <<configuration, request>>

GetHitQ(k) ==
    /\ At("idle")
    /\ k \in Stored /\ ~node[k].lir /\ node[k].in
    /\ k \notin Range(S)
    /\ lists' = [S |-> Attached(S, k), Q |-> Attached(Detached(Q, k), k)]
    /\ UNCHANGED <<configuration, sizes, field, phase, request>>

\* get() misses, and insert() begins.
GetMiss(k, s) ==
    /\ At("idle")
    /\ k \notin Stored
    /\ Enter(k, s, "new")
    /\ UNCHANGED <<configuration, lists, sizes, field>>

\* A ghost is taken out of S and made LIR before insert() makes room for it.  One
\* that demote() has moved to Q is not in S: detach() follows a null pointer.
GetMissGhost(k, s) ==
    /\ At("idle")
    /\ k \in Stored /\ ~node[k].lir /\ ~node[k].in
    /\ k \in Range(S)
    /\ lists' = [lists EXCEPT !.S = Detached(@, k)]
    /\ field' = [field EXCEPT !.node[k] = LirBlock(s, TRUE, TRUE)]
    /\ Enter(k, s, "ghost")
    /\ UNCHANGED <<configuration, sizes>>

-----------------------------------------------------------------------------
(* demote(), evict(), insert() *)

Full == (At("new") \/ At("ghost")) /\ IsFullAt(sizes["cache"], capacity, Chunk)

\* fault: an empty Q alone is no reason to demote
OverShareOnly == S # << >> /\ Minus(sizes["cache"], sizes["Q"]) > Minus(capacity, MaxQ)
MustDemote ==
    /\ S # << >>
    /\ Minus(sizes["cache"], sizes["Q"]) > Minus(capacity, MaxQ) \/ Q = << >>

\* demote() takes the end of S for a LIR block.  A ghost there is linked into Q
\* and counted.  A block of Q would be linked into Q again, and Q be no list.
DemoteBottom ==
    /\ At("demote") \/ Full
    /\ MustDemote
    /\ Back(S) \notin Range(Q)
    /\ LET k == Back(S) IN
         /\ sizes' = [sizes EXCEPT !["Q"] = Plus(@, ChunkSize(node[k].size))]
         /\ Stack(S, Attached(Q, k), [node EXCEPT ![k].lir = FALSE],
                  field.misled \/ ~node[k].lir)
    /\ UNCHANGED <<configuration, phase, request>>

DemoteDone ==
    /\ At("demote") /\ ~MustDemote
    /\ Leave
    /\ UNCHANGED <<configuration, lists, sizes, field>>

Ghost(k) == [node EXCEPT ![k] = LirBlock(@.size, FALSE, FALSE)]

EvictTail ==
    /\ Full /\ ~MustDemote
    /\ Q # << >>
    /\ LET k == Back(Q) IN
         /\ sizes' = [l \in DOMAIN sizes |-> Minus(sizes[l], ChunkSize(node[k].size))]
         /\ lists' = [lists EXCEPT !.Q = PopBack(@)]
         /\ field' = [field EXCEPT !.node = IF k \in Range(S) THEN Ghost(k)
                                             ELSE [x \in Stored \ {k} |-> node[x]]]
    /\ UNCHANGED <<configuration, phase, request>>

InsertGhost ==
    /\ At("ghost") /\ ~Full
    /\ lists' = [lists EXCEPT !.S = Attached(@, request.key)]
    /\ sizes' = [sizes EXCEPT !["cache"] = Plus(@, Chunk)]
    /\ Leave
    /\ UNCHANGED <<configuration, field>>

InsertNew ==
    /\ At("new") /\ ~Full
    /\ lists' = [l \in DOMAIN lists |-> Attached(lists[l], request.key)]
    /\ field' = [field EXCEPT !.node = [k \in Stored \union {request.key} |->
            IF k = request.key THEN LirBlock(request.size, TRUE, FALSE) ELSE node[k]]]
    /\ sizes' = [l \in DOMAIN sizes |-> Plus(sizes[l], Chunk)]
    /\ Leave
    /\ UNCHANGED configuration

Get == \E k \in Key :
    \/ GetHitLIR(k) \/ GetHitHIR(k) \/ GetHitQ(k)
    \/ \E s \in sizesOf[k] : GetMiss(k, s) \/ GetMissGhost(k, s)

Insert == DemoteBottom \/ DemoteDone \/ EvictTail \/ InsertGhost \/ InsertNew

Next == Get \/ Insert

-----------------------------------------------------------------------------
BytesOf(keys) == MapThenSumSet(LAMBDA k : ChunkSize(node[k].size), keys)
Arriving == IF phase = "ghost" THEN {request.key} ELSE {}

\* Between the steps of any calls: Q is the resident HIR blocks, S has all the
\* LIR ones, only blocks of either are remembered, and both counts are exact;
\* as long as demote() has never met a block at the end of S that was not LIR.
BooksBalance ==
    LET in == { k \in Stored : node[k].in } \ Arriving
        lir == { k \in Stored : node[k].lir } \ Arriving
    IN  ~field.misled =>
        /\ IsInjective(S) /\ IsInjective(Q)
        /\ Range(Q) = in \ lir
        /\ lir \subseteq Range(S) \cap in
        /\ Stored = Range(S) \union Range(Q) \union Arriving
        /\ sizes = [cache |-> BytesOf(in), Q |-> BytesOf(Range(Q))]
        /\ sizes["cache"] <= capacity

\* Once a LIR block is at the bottom of S, the bottom is LIR until S is empty,
\* or demote() would take a resident or forgotten HIR block for a LIR one.
BottomLIR == S # << >> /\ node[Back(S)].lir
BottomStays == BottomLIR => BottomLIR' \/ S' = << >>

\* evict() always finds a block in Q, when demote() did.
VictimExists == (Full /\ ~MustDemote) => Q # << >>
=============================================================================
