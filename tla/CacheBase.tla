----------------------------- MODULE CacheBase -----------------------------
(***************************************************************************)
(* What every replacement cache of the simulator shares: class Cache       *)
(* (cache/base/cache.h), its size_t counters and its admission test.       *)
(*                                                                         *)
(* A cache accounts for an object by its CHUNK size, one of two constants, *)
(* and not by the object's own size.  The counters are unsigned machine    *)
(* words: Plus and Minus wrap around at WORD (2^64 in the build).          *)
(***************************************************************************)
EXTENDS Naturals, Sequences, FiniteSets

CONSTANTS
    Key,            \* the keys a trace can name
    Size,           \* the object sizes a trace can carry
    BIG,            \* constant::BIG_CHUNK_SIZE
    TINY,           \* constant::TINY_CHUNK_SIZE
    WORD,           \* one more than the largest size_t
    Capacities      \* the capacities a cache can be configured with

\* A capacity is a number of bytes that no code tests.  It is taken to be some
\* gigabytes, as in test/replace_test.cc:16, and as the names of the checkpoints
\* have it: no less than one big chunk, nor within one big chunk of the word size.
ASSUME BaseAssumption ==
    /\ Size \subseteq Nat
    /\ BIG \in Nat /\ TINY \in Nat /\ WORD \in Nat
    /\ 0 < TINY /\ TINY < BIG
    /\ \A c \in Capacities : c \in Nat /\ BIG <= c /\ c + BIG < WORD

-----------------------------------------------------------------------------
Word == 0 .. WORD - 1

\* size_t addition and subtraction of two words.
Plus(a, b)  == IF a + b < WORD THEN a + b ELSE (a + b) - WORD
Minus(a, b) == IF b <= a THEN a - b ELSE (a + WORD) - b

\* Cache::ChunkSize: anything that is not exactly a big chunk is tiny.
ChunkSize(size) == IF size = BIG THEN BIG ELSE TINY

\* Cache::IsFull(chunk_size) on a cache of the given size and capacity.
IsFullAt(size, capacity, chunk) == Plus(size, chunk) > capacity

-----------------------------------------------------------------------------
\* What `cache_size_` should be: the chunk sizes of the stored nodes added up.
\* A sum of two constants is two cardinalities, so no recursion is needed.
KeysOf(s) == { s[i].key : i \in DOMAIN s }

KeysOfChunk(s, chunk) ==
    { s[i].key : i \in { j \in DOMAIN s : ChunkSize(s[j].size) = chunk } }

Bytes(s) ==
    BIG * Cardinality(KeysOfChunk(s, BIG)) + TINY * Cardinality(KeysOfChunk(s, TINY))

\* No key occurs at two positions of s.
KeysDistinct(s) == \A i, j \in DOMAIN s : s[i].key = s[j].key => i = j
=============================================================================
