# A TLA+ development of the CDN cache simulator

This directory specifies and verifies the cache simulator of this repository.
Paths below are relative to the repository's `src/` directory unless they start
with `README.md`.

1. [Inventory](#1-inventory) – the system, part by part
2. [The modules](#2-the-modules) – how state and actions correspond to the code
3. [What TLC checks](#3-what-tlc-checks) – each run, its bounds, its result
4. [What is proved](#4-what-is-proved) – theorems, assumptions, the argument
5. [Disagreements found](#5-disagreements-found)
6. [Not modelled](#6-not-modelled)
7. [Plan](#7-plan)

## 1. Inventory

The shared library `libreplace.so` exports one function, `CacheTest`
(`simulate/replace.cc:30`). A call simulates **one day** of one cache: it loads
the previous day's checkpoint, replays the day's trace files through a
replacement policy, saves a checkpoint and returns the bytes hit and the bytes
requested. A driver outside the repository calls it once per day, capacity and
algorithm. `libstatistic.so` exports `Statistic`, a pass over the same traces
that computes the best hit ratio any cache could reach.

| Component | State | Operations | Correct when |
|---|---|---|---|
| `Cache` (`cache/base/cache.h`) | `cache_size_`, `cache_capacity_`, `name_` | `IsFull`, `Empty`, `IncreaseSize`, `DecreaseSize`, `ChunkSize` | the counter equals the chunk bytes stored; unsigned arithmetic never wraps |
| `LRUCache`, `FIFOCache`, `FIFO2Cache` | a list, a map of iterators into it | `get`, `insert`, `evict` | map, list and counter agree; eviction by age; a FIFO2 hit earns one more round; every `insert` ends |
| `SLRUCache` (S2LRU, S3LRU, S4LRU) | one list and one byte count per segment, a segment tag per node | `get` (promote, then cut every list back to its share), `insert`, `Evict`, `Move` | node, tag and map agree; counts exact; no list over its share between calls; hit nodes outlive others |
| `LRUCheckPoint`, `FIFOCheckPoint`, `FIFO2CheckPoint` (`cache/checkpoint`) | the cache's | `Push` (a line read), `Pop` (a line written) | what is written is what was held, in order; what is read fits and keeps its order |
| `SLRUCheckPoint` | the cache's and `cur_idx_` | `Push`, `Pop`, header lines | as above, and each line goes back to its segment |
| `CacheCheckpoint` (`cache/cache_checkpoint.h`) | hit, request and write counters; the cache | `Get`, `Insert`, `LoadCheckpoint`, `SaveCheckpoint` | counters are what the trace determines; the save loop empties the cache exactly |
| `CacheTester`, `CacheTest` | the day's file names | `Load`, `RunNormal`, `Save`, `Simulate` | days chain; an interrupted day leaves a usable file |
| `ThreadPool`, `BlockingQueue` (`util/threadpool`) | task queue, mutex, two condition variables, `stop_`, `break_signal_` | `Commit`/`Push`, the worker's loop/`Pop`, the destructor/`Shutdown` | every task runs once, in order; nobody sleeps while there is work; the destructor drains the queue and returns |
| `TQCache`, `MQCache`, `ARCCache`, `LIRSCache`, `LARCCache`/`LARCGhost`, `OPTCache`, `CLOCKCache` | lists, ghosts, adaptive targets | `get`, `insert`, `admit` (LARC) | sizes exact, no eviction from an empty list, the policy's own invariants |
| `TinyLFUCache` (`cache/base/tinylfu`) | a window, a main cache of two segments, a sketch | `get`, `insert`, `evict` | no key in two places, sizes exact, the share of the protected segment |
| `frequency_sketch` | 4-bit counters in 64-bit blocks, `size_` | `record_access`, `frequency`, `reset` | an estimate never undercounts by more than saturation and halving explain; every reset happens |
| `CacheInstance`, `CacheTester` of `cachereplacement.h` | a cache, the counters of a period and in total | `Get`, `Insert`, `Admit`, `Reset`, `RunNormal`, `RunOpt` | totals are those of the trace, warm-ups left out; OPT reads the right next position |
| Parsers (`parse/`) | a reader, the current line | `ParseLine`, `ParseRange`, `SliceChunk` | the chunks of a request are the blocks the range covers |
| `Statistic` (`statistic/max_bhr.cc`) | a map of keys seen, carried over days | load, count, dump | distinct bytes carry over exactly, requested bytes up to what printing loses; no total comes from a torn file |
| `FileMgr`, `util.h`, `FileLock` | paths; directories | `PreviousDT`, `MakeDir` | yesterday is yesterday; two processes may create one directory |
| `FileReader`, `FileWriter` | gzip or plain streams | `ReadLine`, `WriteLine` | a file is a sequence of lines |

**How they interact.** `CacheTester` owns a `CacheCheckpoint`, which builds one
of the checkpointing subclasses by name and calls `get`, then `insert` on a
miss, never `insert` alone. `LoadCheckpoint` calls `Push` until the file ends
and ignores its answer. `SaveCheckpoint` calls `Pop` **until `cache_size_` is
0**, not until the lists are empty. The days communicate only through files;
calls for different days, capacities and algorithms may be separate processes
that share directories. The thread pool is a library component with its own
tests. Its workers share the queue under one mutex, but read `stop_`,
`break_signal_` and `Empty()` without it.

**What is hard.** Counters that are maintained apart from what they count, in
unsigned arithmetic, and then used as loop conditions; eviction of the end of a
list nobody tested for emptiness; map entries that are list iterators; cascades
of demotions; state shared between load and save (`cur_idx_`); days cut short;
capacities that share one file name (`replace.cc:33` names files by whole
gigabytes); and,
in the pool, lost wakeups, stale unsynchronised reads and shutdown. The list,
each at its line and with the properties that watch it, is `hazards` in
`PROJECT.json`.

**Two drivers.** `CacheTest` runs `CacheCheckpoint`, which builds the list caches
and the segmented one. The policies of `2q.h`, `mq.h`, `arc.h`, `lirs.h`,
`larc.h`, `opt.h`, `clock.h` and `tinylfu.h` belong to an earlier driver,
`CacheInstance` (`cache/cacheinstance.h`, `cache/cachereplacement.h`), which
builds any of them by name, except CLOCK, whose line is commented out. They were
written against an earlier `Cache`: they use `chunksize` (now `ChunkSize`),
`chunk_size_` (commented out in `cache.h`) and `virtual` functions with another
signature, so they do not build against the present one. They are modelled with
the meaning those members had.

## 2. The modules

| Module | Models | Built on |
|---|---|---|
| `CacheBase` | `cache.h`, chunk sizes, machine words | |
| `AbstractCache` | what any policy promises: demand-filled, evicts no more than it must, within its capacity | |
| `ListCaches` | `lru.h`, `fifo.h`, `fifo2.h` | `CacheBase` |
| `LRUInclusion` | two LRU caches of different capacity over one trace | `ListCaches` twice, by `INSTANCE` |
| `CacheMetrics` | the counters of `CacheCheckpoint` over a list cache | `ListCaches` |
| `DailySimulation` | `clru.h`, `cfifo.h`, `cfifo2.h`, load/save loops, `CacheTester::Simulate`, the files, deaths | `ListCaches` |
| `SLRUCache` | `slru.h` | `CacheBase` |
| `SLRUCheckpoint` | `cslru.h` under load, replay, save | `SLRUCache` |
| `PolicyLists` | what the policies of `CacheInstance` share: lists, byte counts, a running `insert` | `CacheBase` |
| `ARCCache` | `arc.h` under the driver, a specification of its own | `PolicyLists` |
| `TwoQueueCache`, `LIRSCache`, `MQCache`, `LARCCache`, `CLOCKCache`, `OPTCache` | `2q.h`, `lirs.h`, `mq.h`, `larc.h` and `larcghost.h`, `clock.h`, `opt.h` | `PolicyLists` |
| `FrequencySketch` | `frequency_sketch.hpp` | |
| `TinyLFUCache` | `tinylfu.h`, `tinylfu/lru.h`, `tinylfu/slru.h` | `PolicyLists`, `FrequencySketch` by `INSTANCE` |
| `CacheInstance` | `CreateCache`, `RunNormal`, `RunOpt`: one of the policies but ARC, chosen at the start | the policies, by `INSTANCE` |
| `StatisticDays` | `statistic/max_bhr.cc`: one call per day, the file handed from day to day, deaths | |
| `ChunkSlicing` | `ParseRange`, `ChunkParser` | |
| `Directories` | `PathExist`, `MakeDir`, and `Save`'s use of them, by several processes | |
| `TaskPool` | what a pool promises: each task started once, in order, finished before the end | |
| `ThreadPool` | `thread_pool.h`, `thread_pool.cc` | |
| `CacheBaseProofs` | lemmas: bytes, keys and prefixes of lists, the number of keys in several of them, sums over finite sets, the optimum of a trace, lists without repetitions and LIRS's stack and queue | `CacheBase` |
| `ListCachesProofs` | theorems about `ListCaches` and about `DailySimulation` | `DailySimulation` and `CacheBaseProofs` |
| `LRUInclusionProofs` | theorems about `LRUInclusion` and about `CacheMetrics` | `MCReplay` and `CacheBaseProofs` |
| `SLRUCacheProofs` | theorems about `SLRUCache` and about `SLRUCheckpoint` | `SLRUCheckpoint` and `CacheBaseProofs` |
| `ARCCacheProofs` | theorems about `ARCCache` | `ARCCache` and `CacheBaseProofs` |
| `ToolsProofs` | theorems about `StatisticDays`, `ChunkSlicing` and `Directories` | `MCTools` and `CacheBaseProofs` |
| `PolicyProofs` | theorems about the sketch, in the cache that uses it, about OPT, about MQ's queues and about LIRS's stack | `MCCacheInstance` and `CacheBaseProofs` |
| `ThreadPoolProofs` | theorems about `ThreadPool` | that module |
| `MC…` | constants for TLC | |

`MCReplay`, `MCTools`, `MCCacheInstance` and `CacheInstance` each bundle parts that do not
interact: a variable (`subject`, or `algor`) chosen in the initial state says
which part a behaviour is about, the variables of the others stay `Unused`, and
each property is about its own part. `MCReplay` extends `LRUInclusion` and takes
`CacheMetrics` by `INSTANCE`; while a behaviour is about the counters, neither
cache of the pair is `Replaying`. `MCCacheInstance` extends `ARCCache` and takes
`CacheInstance` by `INSTANCE`, in variables of its own (`p_lists`, …): while a
behaviour is about another policy, ARC stays as its constructor left it. The
theorems about bundled parts are about the bundle's specification, for every
value of its constants: what TLC runs is what is proved.

Conventions used throughout:

* **A call that loops is a sequence of actions**, one per iteration, with the
  arguments of the running call in a variable (`request`, `level`, `phase`).
  One thread runs a cache, so no other call starts while one is running.
* **A list is a sequence of node records, front first**; an iterator in
  `cache_map_` is represented by the key of the node it points to, and
  `cache_map` is the set of keys the map holds. Dereferencing an iterator whose
  node is gone is what `BooksBalance` excludes.
* **Sizes.** An object is charged 1 MB when its size is exactly
  `BIG_CHUNK_SIZE` and 32 KB otherwise (`cache.h:40`). The models keep the
  comparison and shrink the constants: `BIG` is 2 or 3, `TINY` is 1, and `Size`
  has one size that is big and one that is not (and is not `TINY` either, so
  that charging an object's own size would show).
* **Words.** `Plus` and `Minus` wrap at `WORD`, as `size_t` does. `WORD` is 16
  in the runs, large enough that no addition wraps in a correct run and small
  enough that a subtraction below zero gives a number the loops notice.
* **Assumption on capacities.** A capacity is at least one big chunk and far from
  the largest word (`BaseAssumption`); `SLRUCheckpoint` asks for two big chunks
  (`CheckpointAssumption`). Nothing in the code tests it. The one caller in the
  repository gives 100 gigabytes (`test/replace_test.cc:16`), and checkpoints are
  named by the number of gigabytes, the capacity in bytes divided by
  `GIGABYTE` (`replace.cc:33`), so that smaller caches would all share one
  file. A load does not stop at the
  capacity, so what bounds the bytes there is the number of keys
  (`KeysAssumption`): a big chunk for each of them, and one more, fit in a word.
* **Behaviour that is undefined.** Where a policy would dereference the end of an
  empty list, link a node twice or follow a null pointer, no action is enabled
  and the behaviour ends; `VictimExists` states when it cannot happen. Where the
  code only reads a value it should not (2Q's freed iterator, TinyLFU's
  `victim_key` of an empty list), every value it may read is tried.
* **History variables** are marked so at their declaration: `order` and `used`
  (what was seen, and hit), `trace`, `resets`, `missed`, `image` (what a save began with),
  `saved`, `hits`, `loaded`, `warmFile`, `executed`, `committed`, `seen`,
  `asked`, the components `wrapped`, `misled` and `order` of `field`, and of a
  chunk the components `at` and `range`. No
  guard reads them (`asked` bounds `ParseLine` to one line).
* **Definitions marked `fault`** are one-line deviations from the code (a
  dropped statement, an off-by-one). Nothing uses them: they are put in the
  place of the definition that follows them to see that a property notices.

**ListCaches.** `GetHitLRU`, `GetHitFIFO`, `GetHitFIFO2` and `GetMiss` are the
outcomes of `get`; `EvictTail`, `RotateTail` (FIFO2's second chance) and
`InsertNode` are the iterations of `insert`. `Full` is `IsFull(ChunkSize(size))`.

**DailySimulation.** `StartDay` is a call of `CacheTest` for any day and any
capacity that shares the file name, in any order: the driver is not part of the
repository. `PushLine`/`SkipLine` are a line that fits or not; `RunGet` and
`RunInsert` are `RunNormal`; `OpenCheckpoint`, `PopLine` and `SaveDone` are
`Save`. `OpenFails` is its silent early return. `Dies` is a process killed, or
`PrintError` on a missing trace, at any point: of what was being written a
prefix reaches the file, since the stream is written in order. Checkpoints are
always gzip files (`filemgr.h:51`): a stream that was cut short makes `getline`
fail, and the `fail()` test of `LoadCheckpoint` (`cache_checkpoint.h:102`) ends
the load there, so that only whole lines are pushed.

**SLRUCache.** A hit promotes (`GetHit`), then the loop of `get` runs from the
highest list down: `Demote` moves a tail one list down while a list exceeds
`avg_capacity`, `NextLevel` goes on. `Evict` takes the tail of the lowest list
whose count is not zero.

**SLRUCheckpoint.** A file holds node lines and header lines; `PushHeader` sets
`cur_idx`, `PopHeader` writes one. `PopOutOfBounds` is `Pop` indexing past the
last list, after which anything may happen (`phase = "undefined"`).

**CacheMetrics.** `CacheCheckpoint` and `CacheInstance` count alike; `Reset`,
which only the latter has, closes a period and adds it to the totals unless it
was a warm-up.

**The policies.** In each module `GetHit…` and `GetMiss…` are the outcomes of
`get`; the rest are the iterations of the loops of `insert`, `phase` saying where
it stands. `sizesOf` gives each key the sizes under which the trace requests
it: one, or several if keys change their sizes.

* `TwoQueueCache`: `get` decides by a node's tag `q` and not by its list, so nodes
  carry theirs. `reclaimfor` may erase the very ghost `get` has found (`2q.h:60`),
  after which `insert` tests a freed entry: `InsertErased`, which puts into `Am` a
  node whose tag is the constructor's, `A1IN` (`2q.h:68` and `86`). `TagsAgree`
  in `PolicyBooksBalance` says which nodes' tags name their lists.
* `ARCCache`: `p_ - theta * chunk_size` (`arc.h:77`) is unsigned, so `std::max`
  with 0 keeps nothing: `AdaptDown` wraps, and `wrapped` records it.
* `LIRSCache`: `S`, `Q` and what `cache_stack` knows of each block. `Stack` is
  `ensure_bottom_lir`. `DemoteBottom` takes what is at the bottom of `S`, LIR
  or not, as the code does; `misled` records that it was not.
* `MQCache`: `Adjust` moves at most one node per queue, all at once; a node is
  in its queue before it is counted.
* `LARCCache`: `admit` answers false for most keys, which is `Refuse`; the two
  targets are the doubles of `larcghost.h` cut off to whole numbers.
* `CLOCKCache`: the ring as a list and the hand as a position in it; a hand left
  on the only node, when that is erased, is `Dangling`.
* `OPTCache`: the initial states are all traces of `TraceLength` lines, some of
  them to be skipped. `NextPos` is what stands in the second file `RunOpt` reads,
  and `word` is that file's own cursor: it goes on with every line of the trace, also
  with one that is skipped (`cachereplacement.h:62`).
* `TinyLFUCache`: a victim of the window is carried to the main cache in
  `field.victim`, or dropped, by the sketch's estimates.
* `FrequencySketch`: a counter is its block and its place in it. `BlockOf` and
  `GroupOf` are what the hash makes of a key. `seen` is what a counter of the
  key's own would say, saturating and halved as the shared ones are.

**ChunkSlicing.** `ParseLine` reads one line with any size and any one or two
ranges in the five forms `ParseRange` knows; `SliceBig`, `SliceTiny` and
`RangeDone` are the loops. A chunk's `key` is the number in its name; where it
begins, and for which range it was cut, are histories.

**Directories.** Each process runs `Save`'s test and `MakeDir` one system call at
a time, and may die at any point.

**StatisticDays.** A call is `StartDay`, `LoadNothing` or `LoadFile`, one
`ReadLine` per trace line, `Report`, `Dump`. Nobody sees the map while it is
loaded or dumped, so each of the two is one action; `DiesDumping` is a death in
the middle of a dump and leaves a file marked `torn`, with any part of the keys.
`LoadPreStatMap`, unlike `LoadCheckpoint`, tests only `eof()` (`max_bhr.cc:35`).
A truncated gzip stream fails without coming to its end (an assumption on the
decompressor, which is not part of the repository), so `LoadLoops` goes on for
ever, with a key that was never assigned. A sum of bytes is a `double`, exact
below 2^53, and is printed by `writer << double` with six digits: `Printed`
rounds to `PRECISION` digits of base `BASE`.

**ThreadPool.** `pc` says where a thread is. Between locking and unlocking the
steps are those the mutex allows others to see: test the predicate
(`PopFindsNothing`), then fall asleep (`PopSleep`), because `Shutdown` does not
take the mutex and can act between the two. `notify_one` (`NotifyOne`) removes
some one waiter; `SpuriousWakeup` removes one that nobody notified. The loop
condition `!stop_ || !queue_.Empty()` is two unsynchronised reads, `CheckStop`
and `CheckEmpty`: every interleaving with other threads is explored; torn reads
of a `bool` or of a list's size word are not, no build of this code produces
them. Tasks are committed only before the destructor starts, which is what
destroying an object requires of its users.

## 3. What TLC checks

State counts are distinct states.

| Run | Question | Bounds | Result |
|---|---|---|---|
| `list_caches` | Do LRU, FIFO and FIFO2 keep their books (`BooksBalance`), evict by age, honour second chances, and implement `AbstractCache`, with which every `insert` returns? | 4 keys, 2 sizes, capacities below and above one big chunk's worth of tiny ones | holds, 32 457 |
| `replay` | Is a smaller LRU cache always a prefix of a larger one, with chunk sizes mixed? Are the reported hits Mattson's stack-distance hits of the trace, and do the counters agree with each other and with the trace, the bytes being those of the objects as they were stored, over periods and warm-ups? | pairs: 4 keys, all size assignments, all pairs of capacities 3, 4, 6. Counters: traces of up to 5 requests with up to 2 resets | holds, 1 307 887 |
| `daily` | Two days in any order and capacity, killed at any point: is a finished save complete, an unfinished one a prefix, a load in order, a restart transparent? Does `evict` always have a victim, in a load as in the replay (`CacheConsistent`)? | 3 keys, 2 days, 2 calls, 3 requests a call | holds, 286 987 |
| `slru` | Does a tag always name the list its node is in, are the counts and shares exact (`BooksBalance`), is every place earned by hits and every victim one of the lowest list that holds anything (`HitsDecide`), does every call return, does the class implement `AbstractCache`? | 3 keys; 2, 3 and 4 segments; shares of one chunk and of less than one | holds, 80 829 |
| `slru_checkpoint` | Through load, replay and save: what holds every day, and what holds on a day that started cold? | 3 keys, 2 calls | holds, 406 560 |
| `slru_saves` | Is a save at least complete, or else each of its lines under the list it came from (`SavesAreUsable`)? | as above | **violated** (disagreements 1 and 2): one save that misses nodes and puts others under the wrong list |
| `policies` | Do ARC and the other policies of `CacheInstance` keep their books (`BooksBalance`, `PolicyBooksBalance`) and find their victims; is ARC's directory within its published bounds, the bottom of LIRS's stack LIR, MQ in the order of expiry, OPT optimal with its second file in step, TinyLFU's sketch never too low and halved whenever its count is due (`EstimatesHold`), 2Q's tags those of its lists; do those that evict for room implement the safety of `AbstractCache`? | 4 keys, 2 sizes; capacities and size assignments chosen per policy (`MCCapacities` and three traces for ARC, `MCCapacitiesOf`, `MCTracesOf`); MQ with 2 queues, a life time of 2 calls and 6 calls in all; OPT with all traces of 5 lines; a sketch of 2 blocks with counters up to 3 | holds, 373 246 |
| `tools` | `Statistic` over days run in any order, run again and cut short: are the distinct bytes those of each key's first request, by how much may the requested bytes drift? Are a line's chunks, range by range, exactly the blocks its ranges touch, in their order? Does a process fail to make its directory only over a rival? | statistics: 2 keys, 2 sizes, 3 days, 3 calls, 2 lines a day, one digit of base 4. Chunks: big ones of 6 bytes, tiny ones of 2, six file sizes, all pairs of ranges over seven offsets. Directories: 3 processes, 3 components, any of them there before | holds, 2 340 237 |
| `chunk_keys` | Do two chunks with one key start at one place? | the chunks of `tools`, ranges over three offsets next to one another | **violated** (disagreement 4) |
| `make_dir` | Can several processes make their directories without a lock? | the directories of `tools` | **violated** (disagreement 5) |
| `thread_pool` | No task lost, run twice, reordered or left behind; the bound respected; no lost wakeup; every task runs; a notified pool ends | 3 workers, 2 producers, 2 tasks each; queue unbounded and of size 1 and 2 | holds, 118 330 |
| `pool_destructor` | Does the destructor of an idle pool return? | 2 workers, nothing committed | **violated** (disagreement 3) |

**Conditions of properties.** Some properties hold under a condition, which is
part of their statement and which the run also leaves unmet:

* `Steady` (no key changes its chunk size): 2Q's and MQ's `get` overwrite the
  size they take off the counter later, so their counts are exact only then.
* `Uniform` (chunks of one size): ARC's bounds, its victims and its abstraction, and OPT's optimum are
  statements about caches of so many blocks; with mixed sizes ARC evicts until
  one object fits and its lists overrun their shares.
* `~field.wrapped` (ARC's target has never been taken below zero),
  `~field.misled` (LIRS's `demote` has never met a block that is not LIR), a
  CLOCK of at least two chunks: what the code relies on without testing it.
* Sizes that never change, for LRU inclusion (`sizeOf` gives each key its own).

**Why the bounds are enough.** Every branch of the list policies is decided by
comparing at most three nodes with one another and the total with the
capacity: with four keys a cache holds up to four tiny nodes, or a big one and
tiny ones, one key is always outside, and one insertion evicts up to three
nodes. SLRU's longest cascade needs one node per list and one more above; with
four lists and three keys every list overflows in turn because a share may be
smaller than a chunk. Two consecutive calls suffice for a day to depend on the
one before; longer chains repeat the step from an arbitrary file to the next.
For the pool, three workers and two producers let a notified thread lose the
race for the mutex to a thread of its own kind on both sides of the queue.
For `Statistic`, three days let a file be handed down twice, and a key be first
seen on a day before yesterday; one digit of base 4 rounds nearly every total
(up to 18 bytes), in both directions and at ties.

For the policies, each gets the capacities at which its lists and ghosts fill,
spill and are emptied within four keys: ARC with one, two and four chunks of one size, so
that each of its four cases of a miss occurs and its target moves both ways and
below zero; LIRS with
a share for Q of one and of two chunks; 2Q with all three queues in use; MQ
with two queues, between which a block is promoted, expires, is demoted and is
remembered in `out`; LARC with a ghost whose room grows and shrinks; TinyLFU
with a window, a probationary and a protected segment that each hold a chunk,
and a sketch that saturates and is halved. Every action, and every branch
within one, is taken by some behaviour of the run. Traces are unbounded except
under MQ (whose clock grows) and OPT (whose trace is read ahead).
For chunks, the file sizes are none, less than a tiny chunk, one big chunk and
part of one, of several and of whole tiny ones, two big chunks exactly, and more
than `MAX_FILE_SIZE`; the offsets are borders and places next to them.
Three processes let one be overtaken by two others at different components.

Bounds are in guards and nowhere else: `MaxRequests` (`Replay`, `RunGet`,
`ReadLine`, the requests of `CacheMetrics`), `MaxResets` (`Reset`), `MaxCalls`
(`StartDay`), `MaxTime` (MQ's `Get…`), `MaxRanges` (`ParseLine`), and one line
per behaviour of `ChunkSlicing`; `TraceLength` is the length of OPT's trace.

**Mutants.** Each property of each passing run is paired in `PROJECT.json` with a
deviation from the code that it must catch.

**Symmetry** over keys is used only in runs without liveness properties and whose
other constants do not tell keys apart (`replay`, `daily`, `tools`, `make_dir`).

**Fairness.** `ListCaches` and `SLRUCache` assume weak
fairness of the running call's steps: a single thread that runs code goes on.
`ThreadPool` assumes that each thread that can take a step eventually does
(`WF` per thread) and that spurious wakeups do not go on for ever. It assumes
nothing about who gets the mutex. `SomeoneAwake` is the safety side of
`EveryTaskRuns` and needs no fairness at all. The remaining specifications
state none and check no liveness: a policy's `insert` may meet an empty list, and
then stops.

**Deadlock** is not an error where the system really stops: when the bounded
trace, the calls or the line are used up, or a process has done its work (`replay`,
`daily`, `tools`, `chunk_keys`, `make_dir`, `slru_checkpoint`, `slru_saves`, MQ and OPT in `policies`), where a
policy has undefined behaviour (`policies`), and when the pool is gone, or its
destructor waits for ever (`thread_pool`, `pool_destructor`). The other runs,
`list_caches` and `slru`, check for it.

## 4. What is proved

Every theorem below is checked by TLAPS for all values of the constants that
satisfy the named assumptions, which TLC evaluates in the runs of the module. Each
component has one inductive invariant, which TLC checked on small instances
before it was proved. A step that preserves it has one lemma per action.

| Module | Theorems about runs' properties | Other theorems |
|---|---|---|
| `ListCachesProofs` | `TypeCorrect`, `Accounting`, `VictimExists`, `EvictionByAge`, `HitsEarnASecondChance`; of days: `CacheStaysConsistent`, `SavesAreComplete`, `CrashLeavesPrefix`, `LoadsKeepOrder`, `RestartIsTransparent` | `CapacityIsRespected`, `StepsImplementAbstractCache`, `DailyInvariant` |
| `LRUInclusionProofs` | `LRUIsAStackAlgorithm`; of the counters: `HitsAreMattsons`, `CountersAlwaysAgree` | `InclusionInvariant`, `LargerNeverMissesAlone`, `ReplayInvariant` |
| `SLRUCacheProofs` | `BooksAlwaysBalance`, `HitsAlwaysDecide`; of days: `CountersLagByLoads`, `ColdDaysRoundTrip` | `SegmentsInvariant`, `PlacesAreEarned`, `LowestAlwaysGoesFirst`, `SegmentsImplementAbstractCache`, `WarmInvariant` |
| `ARCCacheProofs` | `ARCBooksBalance`, `ARCDirectoryBounded`, `ARCVictimExists`, `ARCEvictsForRoomOnly` | `ARCInvariant` |
| `PolicyProofs` | `EstimatesAlwaysHold`, `OPTIsOptimal`, `QueuesStaySorted`, `BottomAlwaysLIR` | `SketchInvariant` |
| `ToolsProofs` | `UniqueBytesAlwaysExact`, `RequestTotalAlwaysDrifts`, `ChunksAlwaysCover`, `RivalsAlwaysToBlame` | |
| `ThreadPoolProofs` | `QueueStaysBounded`, `NoTaskLost`, `NoWakeupLost` | `PoolInvariant`, `StepsImplementTaskPool` |

(`VictimExists` of `ListCachesProofs` states `EvictHasVictim`, a part of
`CacheConsistent`.)

**Induction.** Many of the definitions compute something by recursion over a trace
or add something up over a set. The library's induction theorems take an operator
as a parameter, which the installed provers cannot instantiate. The proofs
therefore take the least (or the greatest) number a claim fails for, from a
theorem about sets of numbers, and refute it. That a recursive function exists at
all is proved the same way where a proof needs it (`SumOf` and the
optimum of a trace in `CacheBaseProofs`, powers in `ToolsProofs`).

### The list caches

For every set of keys and sizes, every capacity and word size, and each of the
three policies:

| Theorem | Statement |
|---|---|
| `TypeCorrect` | `Spec => []TypeOK`; in particular `cache_size` stays a machine word |
| `Accounting` | `Spec => []BooksBalance`: no key twice in the list, map and list agree, `cache_size` is exactly the chunk bytes stored, no `insert` of a stored key |
| `CapacityIsRespected` | `Spec => []WithinCapacity` |
| `VictimExists` | `Spec => []EvictHasVictim`: `evict` never meets an empty list |
| `EvictionByAge` | `Spec => []StoredIsMostRecent` |
| `HitsEarnASecondChance` | `Spec => SecondChance`, an action property |
| `StepsImplementAbstractCache` | `Spec => Abstract!Init /\ [][Abstract!Next]_Abstract!vars` |

**Assumptions**: `BaseAssumption` (chunks are positive, tiny below big, a
capacity holds a big chunk and is that far from the word size),
`AlgorithmsAssumption` (the three names) and `NoRequestAssumption` (the value
that stands for "no call" is neither a request nor the abstract cache's record of
one). Nothing is assumed finite.

**The argument.** One inductive invariant, `IInv`, carries all of them: the type
invariant, `BooksBalance`, `WithinCapacity`, `StoredIsMostRecent`, and two
strengthenings. `OrderDistinct` (no key twice in the history) is needed because
bringing a key to the front of `order` keeps the stored keys in front only if it
removes *all* of the key. `UsedAreFlagged` (a stored key hit since it was last
spared carries the flag) connects the history with the state: FIFO2 evicts an
unflagged node, hence one not in `used`. `EvictHasVictim` needs no conjunct of
its own: an empty list has 0 bytes, by `BooksBalance` the counter is 0, and
nothing is full at 0 because a capacity holds one chunk. Each action has its
lemma (`HitLRUKeeps`, `HitFIFO2Keeps`, `MissKeeps`, `EvictKeeps`, `RotateKeeps`,
`InsertKeeps`), put together in `NextKeeps` and `Invariance`.

The refinement maps the list to the function from stored keys to chunk sizes.
Hits and FIFO2's rotations leave that function alone (`ReorderingStutters`), a miss
is `Miss`, `EvictTail` is `Evict` and `InsertNode` is `Fill`. The step that carries
the proof is `FitsIffNotFull`: the code compares a machine word that was added to
and subtracted from, the abstract cache compares a sum, and the two agree because
the books balance and the capacity is far from the word's end.

`CacheBaseProofs` holds what this rests on: what `Bytes` becomes when a node is
added at either end, removed or moved, for sequences with distinct keys, and what
`Begins`, a prefix relation by positions, means for them. `Bytes` is defined by two
cardinalities rather than by recursion, so that the facts about finite sets apply.

### LRU inclusion

Two LRU caches of any two capacities read one trace, and their `insert` loops
interleave in any way. `LRUIsAStackAlgorithm` proves `SmallIsPrefixOfLarge` with big
and tiny chunks mixed, `LargerNeverMissesAlone` that no trace line hits in the
smaller cache alone. **Assumptions**: `BaseAssumption` and `PairAssumption`
(`NoRequest` is no request).

**The argument.** `InclusionInv` has each cache's own books (`Books`) and `Lockstep`,
one clause per combination of which cache is still inserting. When one has
finished, its head is the node the other is about to insert. The heart is `Aligned`,
which holds while the smaller cache evicts *and* while the larger one does: the two
lists agree at every position they share, and if the smaller list is the longer
one, its prefix one past the larger list does not fit in the larger cache
together with the new chunk. So the larger cache cannot stop evicting above a
place where the smaller one will stop, whatever the order of the steps. Chunk
sizes enter through `BytesPrefix` only: a longer prefix has at least the bytes of a
shorter one.

### Counters

For traces of any length, with resets and warm-ups anywhere in them:

| Theorem | Statement |
|---|---|
| `HitsAreMattsons` | `Spec => []HitsAreStackDistances`: with chunks of one size, the hits an LRU cache reports are those whose stack distance is within the capacity, computed from the trace alone |
| `CountersAlwaysAgree` | `Spec => []CountersAgree`: the counters of the period and of the whole agree with one another and with the trace, warm-ups left out; every byte counted is one of the object as its last miss stored it |

**The argument.** `ReplayInv` ties the cache to the trace read so far. The list is
ordered by last use (`ByRecency`): each node's key has a line after which exactly the
keys in front of it were asked for. A key of the trace that is not in the list was
dropped long ago (`LongUnused`): after any line of it all keys in the list were asked
for, and those are as many as the cache has places. That makes "found in the list"
and "few different keys since" the same, line by line. The counters are sums over the lines of a period; a line adds to its own
period only, a reset closes one. The bytes need to know
what is stored: a line that missed its key wrote the object (`missed`), every key in
the list has such a line (`AllWritten`), and its node has the size the last of them
gave (`AsStored`). A hit is charged the size of the node, whatever its line says
(`lru.h:33`), and so is a hit of the sum over the trace.

### Days

For any days in any order, any capacities, any of the list policies, and deaths
at any point:

| Theorem | Statement |
|---|---|
| `CacheStaysConsistent` | `DailySpec => []CacheConsistent`: the books balance and a victim exists through `Push`, replay and `Pop` |
| `SavesAreComplete` | `DailySpec => []SaveIsComplete`: the loop that looks at `cache_size_` alone ends exactly when the list has been written |
| `CrashLeavesPrefix` | `DailySpec => []CheckpointIsPrefix` |
| `LoadsKeepOrder` | `DailySpec => []LoadKeepsOrder`: what a load keeps is a subsequence of the file |
| `RestartIsTransparent` | `DailySpec => RestartTransparent`, an action property |

**Assumptions**: those of the list caches and `DailyAssumption` (days are positive
numbers, `NoFile` is no list of nodes).

**The argument.** `DailyInv` is the list caches' `IInv` (the daily actions change
the same variables, and their lemmas are cited for `RunGet` and `RunInsert`) with
`DailyTypeOK`, `OffIsEmpty` and three relations between memory and disk.
`FilesAreSound`: every file begins the list its save began with, whose keys are
distinct, and is all of it when the save returned; distinct keys are what makes
the *next* load insert no key twice. `SaveSplits`: during a save the file, followed by
the list in memory, is the list it began with; so `cache_size_ = 0` means that all
was written. `LoadSplits`: the lines still to be read end the file, and the list is a
subsequence of those read; if the file's bytes fit the capacity, it is *all* of
them (`BytesPrefix` again: what was read is a prefix, so the next line fits too).

### The segmented cache

For two, three or four lists, any keys, sizes and capacity:

| Theorem | Statement |
|---|---|
| `BooksAlwaysBalance` | `Spec => []BooksBalance`: tags, map and counters agree after every promotion, demotion, eviction and insertion; `cache_size_` is the sum of `sizes_`; between calls each upper list is within its share |
| `HitsAlwaysDecide` | `Spec => HitsDecide`: no node is higher than its hits have brought it (`EarnedPlace`), and an eviction takes the last node of a list below which all are empty (`LowestGoesFirst`, an action property) |
| `SegmentsImplementAbstractCache` | `Spec => Abstract!Init /\ [][Abstract!Next]_Abstract!vars` |

**Assumptions**: `BaseAssumption`, `SegmentAssumption`, `NoRequestAssumption`.

**The argument.** `IInv` adds to `BooksBalance` and `EarnedPlace` the types and two
strengthenings. `CutFromTheTop` (the lists above the one `get` is at are within
their share) is what `SharesRespected` becomes in the middle of a call: a
demotion only ever fills the list below, which is still to be cut. `OneCall`
(an insertion runs alone, for a key not stored) makes the new node distinct.
`Move` has one lemma for all its uses, with the case in which source and
destination are the same list treated apart. `Total`, the fold that adds the
counters up, is shown to be the sum of at most four numbers (`SumOfSizes`), from
which follows what it becomes when a counter or two change. For the refinement, the lists stand
for the function `Held` from stored keys to chunk sizes, which promotions and
demotions leave alone. `LowestGoes` needs the counters: `Evict` looks for a list
whose *count* is not zero, and by `BooksBalance` an empty list is one whose count is.

### The segmented checkpoint

For any number of days, of any trace length:

| Theorem | Statement |
|---|---|
| `CountersLagByLoads` | `CheckpointSpec => []SizeLagsByLoaded`: tags, map and the counters of the lists are exact on every day, in the middle of a load or a save too, and `cache_size_` lags by the bytes the day loaded, modulo the word |
| `WarmInvariant` | `CheckpointSpec => []WarmInv` |
| `ColdDaysRoundTrip` | `CheckpointSpec => ColdDayRoundTrips`, an action property: what was saved on a day that started cold is read back list by list and in order, and only a day that loaded something can run `cur_idx_` past the last list |

**Assumptions**: those of the segmented cache, and `KeysAssumption`. The first
bounds the bytes by the capacity, which a warm day may exceed; the second bounds
them by the keys, from `NodesWellPlaced` alone (`RoomForAll`: the bytes of four lists
with distinct keys are those of one set of keys).

**The argument.** `SizesExact` does not survive a load, so the lemmas on `Move`,
eviction and insertion are stated from `Counted` (each list's counter is exact) and
`Roomy` (one more chunk fits in a word), which both invariants give. `Lag` says
what `cache_size_` is instead: with `loaded` it makes the bytes stored. A day that
loaded more than it inserts takes `cache_size_` below zero when it evicts or
saves; `LagAfterLess` and `LagAfterMore` follow it around the word. That a load
inserts no key twice needs the files: `FilesAreSound` (distinct keys in the file; those
still to be read are not in the cache, those written no longer are).
`CurrentList` keeps `cur_idx_` a list, except in a save that has run past the last one:
then `cache_size_` is not zero and stays so, and no next day starts from there.

A cold save is read back through positions. `ColdInv` says of a file that began
from a cold day at which position in it the nodes of each list begin (`Before`: the
nodes of the lists written earlier, and one header for each), and that a load which
has read so many lines holds exactly the nodes before that position, each in its
list. That a save goes through all the lists rests on `cache_size_` being exact on a
cold day, so that zero is reached only with the last node; hence a file that is not
empty ends in a node line (`StartsFromFirst`), which is why the next save starts
where the code expects.

### ARC

For every set of keys that fits in memory, every trace and every capacity of
whole chunks:

| Theorem | Statement |
|---|---|
| `ARCBooksBalance` | `Spec => []BooksBalance`: no key in two lists or twice in one, each of the four counts exact, with chunk sizes mixed and keys that change theirs |
| `ARCDirectoryBounded` | `Spec => []DirectoryBounded`: with chunks of one size, T1 and T2 within the capacity, T1 and B1 within it too, all four lists within twice the capacity |
| `ARCVictimExists` | `Spec => []VictimExists`: with chunks of one size, `Replace` and `Evict` find a node, until `p_` has been taken below zero |
| `ARCEvictsForRoomOnly` | `Spec => EvictsForRoomOnly`: with chunks of one size, the safety of `AbstractCache`, whatever became of `p_` |
| `ARCInvariant` | `Spec => []IInv` |

**Assumptions**: `BaseAssumption`, `NoRequestAssumption`, and two of ARC's own.
`KeysAssumption`: big chunks for all the keys of a trace, and one more, fit in a
word (ghosts are counted like nodes, and nothing else bounds them when chunk sizes
are mixed). `WholeChunksAssumption`: a capacity is a multiple of both chunk sizes, as
gigabytes are of 1 MB and 32 KB. The bounds need it: the code compares the bytes
held with the capacity before it adds a chunk, without asking for that chunk's
room, so that a cache of one and a half chunks would hold two.

**The argument.** `BooksOK` holds for all traces: books, the running call, and
`p_` at most the capacity until it wraps. `Move`, `Evict` and an insertion have one
lemma each for what they do to lists, keys and counts (`MoveBooks`, `DropBooks`,
`PushBooks`), for any two lists; `SumFits` adds the four counts up over disjoint
sets of keys, so that `l1_size()` and `total_size()` never wrap.

`Directory` is about traces with chunks of one size *c*. `Within` states the bounds
at every step of a call, with the room it has made so far. `Gap` is what makes
the code's tests right: two multiples of *c* that differ do so by *c* at least, so
"less than the capacity" is "one more chunk fits". `FullUnderGhosts` is what makes
victims exist: ghosts are only kept of a cache that is full. It gives `EvictB1` its
ghost (T1 is not full and T1 with B1 is), `EvictB2` its own (the two bounds leave
no other place for the bytes), and `Replace` a node in T1 or T2. Which of the two
it asks depends on `p_`, and with `p_` at most the capacity a full T1 gives.

For the refinement, the resident keys are those of T1 and T2: moves between them
are not seen, a `Replace` or an eviction of T1 is `Evict`, the two ways to enter are
`Fill`. What the abstract cache counts is `InCache` (`LoadIsInCache`); that it may
evict follows from a full cache, and that it may fill from the room `Within`
promises. Neither reads `p_`.

### The thread pool

For any finite numbers of workers and producers, any number of tasks and any
queue bound:

| Theorem | Statement |
|---|---|
| `QueueStaysBounded` | `Spec => []QueueBounded` |
| `NoTaskLost` | `Spec => []TasksConserved` |
| `NoWakeupLost` | `Spec => []SomeoneAwake` |
| `StepsImplementTaskPool` | `Spec => Pool!Init /\ [][Pool!Next]_Pool!vars` |

**Assumption**: `PoolAssumption` (at least one worker, threads are finitely many,
`Free` is no thread). Finiteness is needed for counting sleepers.

**The argument.** Types, `MutexHeld` and `SleepersWait` say who is where and why.
`LeavesInOrder` orders the shutdown: `stop_` comes after the last `Commit`, so that
an unsynchronised read of `Empty()` that says "empty" once `stop_` is set says so
for ever. Two parts carry the absence of lost wakeups, and neither follows from
looking at one thread. `WorkIsSeen`: while a task waits, some worker is neither
asleep nor past its last look at the queue; `notify_one` is sent for each push, and
a worker decides to sleep on an empty queue while it holds the mutex.
`SleepersAreOwed` is a count: while a producer sleeps, the tasks in the queue and
the producers awake with a task left are together at least `max_size`. A pop takes one
task out and moves one sleeper to the other side of the sum; a producer falls
asleep only at a full queue. If all workers slept, the queue would be empty by
`WorkIsSeen`, and the count would give a producer awake that has something to push.
`TasksConserved` is inductive with `TasksDistinct` (no task has a number not yet
given out).

### The frequency sketch

For every set of keys, every hash (`BlockOf`, `GroupOf`), every finite number of
blocks and every counter width (`MAX`), under `SketchAssumption`, and in every
policy of the driver, of which only TinyLFU has a sketch:

| Theorem | Statement |
|---|---|
| `SketchInvariant` | `AnySpec => []SketchInv`: no counter passes `MAX`, hence none carries into its neighbour in the word, and every counter dominates |
| `EstimatesAlwaysHold` | `AnySpec => []EstimatesHold`: `frequency(k)` is at least what a counter of `k`'s own, saturating and halved with the others, would say (`NeverUndercounts`); between accesses the count of accesses is below the sample size, so that the test for equality with it (`frequency_sketch.hpp`) is never jumped over and the halving never missed (`ResetInTime`) |

**The argument.** `NeverUndercounts` speaks of the least of four counters and is
not inductive: an access moves each counter of the key by itself, and other keys
share them. `SketchInv` says it of *every* counter of every key: an access moves
all four of the key's counters at least as far as its history
(`IncrementDominates`, where saturation enters), never lowers a counter of another
key, and halving is monotone (`HalvedOrder`). The steps of the other policies each
ask for an algorithm of their own, and leave the sketch alone. `ResetInTime` is inductive with
the types: the count goes up by one at most, and is halved when it arrives.

### OPT

For every set of keys, every trace of any length with lines skipped anywhere, every
capacity and word size, when all objects are charged one chunk size:

| Theorem | Statement |
|---|---|
| `OPTIsOptimal` | `AnySpec => []HitsAreOptimal`: when the trace is read, the hits are `Best[1][{}]`, the most that any choice of victims could have given |

**Assumption**: `PoliciesAssumption` (capacities hold a big chunk and are that far
from the word's end, `NoFile` is no key, no position of the trace is
`OUT_OF_TRACE`).

**The argument.** `Best` maximises over every victim at every line. The lemmas about
it, in `CacheBaseProofs`, go down from the end of the trace: a cache that holds one
key more is worth no less and at most one hit more (`WorthOneMore`); of two caches
that differ in one key the one whose key is asked for sooner is worth no less
(`WorthSooner`: the exchange argument, with a case for each thing a line can ask
for, with room and without). So evicting what is asked for last is a best choice
(`FarthestIsBest`). `Served` says of a running cache that its hits so far, together
with what `Best` promises from here on for the keys it holds, are the optimum, and
that the tree is in the order of the next lines. `IsDue` is what makes this an
invariant: the position in a node is that of the first line *from here on* that
asks for its key, although it was read when the key was asked for last. `OPTInStep` says that
the number read is that of the line, because the two cursors move together. Reading
a line that asks for another key leaves it true, a hit replaces it, and it is why
the first node of the tree is what is asked for last. Between a miss and
the insertion `Served` speaks of the line before, since room is still to be made
for what that line asked for. The byte count enters by `OPTFull`: a cache of chunks
of one size is full exactly when it holds as many as fit.

### MQ

For any keys, sizes, number of queues, life time and length of the run, with keys
that change their size too:

| Theorem | Statement |
|---|---|
| `QueuesStaySorted` | `AnySpec => []ExpirySorted`: in every queue no node expires after the ones before it, and no node is in a higher queue than its number of requests earns |

**Assumption**: `PoliciesAssumption`, of which it uses that there is a queue and
that the life time is a number (8 queues and 4 M calls, `cacheinstance.h:176`).

**The argument.** `ExpirySorted` alone is not inductive: a node put at the front
must expire after whatever it is put before. `MQInv` adds that nothing in any queue
expires later than a life time from now (`Expiring`, with `top` for that instant),
and that a ghost, which keeps the expiry it left with, is in no order but is a
well-formed node, since it may come back. A reinserted and a new node expire
exactly at `top`. A node that sinks is given the `top` of the *next* call, which is
why `MQAdjusts` needs the clock to advance before any node is compared
(`current_time_++` is the first thing `Adjust` does) and every queue to have been
within the old one. A sunk node is one queue below one it had earned. What the
provers are told of `QueueNum` is that it is the number of a queue
(`MQEarned`); that no power of two is looked into is enough for both conjuncts.

### LIRS

For any keys, sizes, capacity and trace:

| Theorem | Statement |
|---|---|
| `BottomAlwaysLIR` | `AnySpec => BottomStaysLIR`, an action property: no step of a call leaves a block that is not LIR at the bottom of a stack that had a LIR one there, unless the stack is then empty |

**Assumption**: `PoliciesAssumption`.

**The argument.** Pruning ends at a LIR block, and a block put on top leaves the
bottom alone; so what could go wrong is a block that loses its mark, or leaves the
stack, and is the bottom. `LIRSInv` excludes it. No block of the queue is LIR, so
that the queue's tail, the victim, is not the bottom. A block in both lists is
resident, so that a ghost taken back from the stack is in no list. What `insert`
is bringing in is not in the stack. `StackQueue` says this of any stack and queue,
and the lemmas about it in `CacheBaseProofs` (`LIRToFront`, `HIRPromoted`, …,
`BottomDemoted`) do one operation each, with `PruneKeeps` for `ensure_bottom_lir`.
The demotion of a bottom block that is *not* LIR can leave a ghost in the queue, so
the invariant asks nothing of such ghosts but that they are not in the stack. The
theorem needs no condition that this has not happened.

### Statistics

For any number of days, calls, lines, keys and sizes, and calls cut short at any
point:

| Theorem | Statement |
|---|---|
| `UniqueBytesAlwaysExact` | `Spec => []UniqueBytesExact`: the bytes of distinct keys that a call reports are exactly those of each key's first request since the first day |
| `RequestTotalAlwaysDrifts` | `Spec => []RequestTotalDrifts`: the total of requested bytes is off by at most half a unit of the last digit printed, once for each file it went through |

**Assumption**: `StatisticAssumption`.

**The argument.** `Mirrors` says of a map and a trace that the keys are the same and
each has the size of its first request. `FilesMirror` says it of every file that is
not torn and the trace that led to it, `MemoryMirrors` of the two maps in memory, in
every phase. Two sums, one over the keys of the map, one over the first lines of
the trace, are then equal by the bijection between them. For the drift, `DriftInv`
gives each file the number of files before it and bounds its error by that number
of half units. A unit depends on the number printed: it is the power of the base
that leaves `PRECISION` digits. It never shrinks as totals grow, and rounding never
takes a number past a multiple of its unit, so that a total that was rounded up
does not print with a larger unit than the one the bound uses.

### Chunks

For any sizes of file and of chunk (`BIG` a multiple of `TINY`), and any ranges in
any of the five forms:

| Theorem | Statement |
|---|---|
| `ChunksAlwaysCover` | `Spec => []ChunksCoverRange`: a line is cut into exactly the blocks of the file that its ranges touch, each with its size, range by range, from the first to the last, none twice |

**Assumption**: `SlicingAssumption`.

**The argument.** `TouchedAre` turns the blocks a range touches, which are defined by
their places, into the numbers of big and of tiny chunks that the loops run
through: a division for each end (`MultipleWithin`, `MultipleOrder`), and for the
tail of the file the remark that tiny chunks begin where the last big one ended
(`TinyTouched`). `SliceInv` is about the loops. `LineInv`: the ranges still to do
are the tail of those asked. `DoneInv`: finished ranges have been cut exactly.
`WorkInv`: the one at work has been cut up to the next chunk, and tiny chunks begin
only when the big ones are done. `OrderInv`: the chunks are in the order of their
ranges and places. `ParseRange` gives ranges that begin beyond the end of the file
and ranges that end before they begin; those touch no block, or the last, as the
loops have it, and are not a case of their own.

### Directories

For any processes and any depth of path, with deaths at any point:

| Theorem | Statement |
|---|---|
| `RivalsAlwaysToBlame` | `Spec => []RivalsAreToBlame`: a process fails only over a component that another made while it was in `MakeDir`; not all processes fail that way; one that opens its checkpoint finds the whole path |

**Assumption**: `DirectoriesAssumption` (there is a process, the two marks are none).

**The argument.** `Rooted`: no component exists without those above it.
`BehindIsThere`: what a process has gone past exists. `MadeByRivals` and
`BeyondItsOwn`: a component a process was told is missing, and one it is still to
come to, was not made by itself. That not all fail is an argument on depths: of
those that failed take one that failed at the deepest component; who made that
component went past it, and has not failed there or above.

### Only model-checked

* Liveness (`CallReturns`, `EveryTaskRuns`, `NotifiedPoolEnds`) and with it the fairness part of the refinements: the theorems
  `StepsImplement…` and `SegmentsImplement…` are the safety part of
  `ImplementsAbstractCache` and `ImplementsTaskPool`, which TLC checks whole.
* `PolicyBooksBalance`, `PolicyVictimExists` and `PolicyEvictsForRoomOnly`, of the policies
  other than ARC: one statement about seven policies, of which each needs an
  invariant of its own size.

## 5. Disagreements found

1. **Segmented saves stop early** (`slru_saves`). `SLRUCheckPoint::Push`
   increases `sizes_` but not `cache_size_` (`LRUCheckPoint::Push` does), so on
   a day that loaded a checkpoint `SaveCheckpoint`'s loop stops with nodes
   unsaved. `SizeLagsByLoaded` states exactly by how much the counter is off.
2. **Segmented saves mix segments** (`slru_saves`, in the same trace). `Pop` starts from the
   `cur_idx_` that `Push` left behind, and so may write nodes before any header.
3. **The pool's destructor may hang** (`pool_destructor`). `Shutdown` sets
   `break_signal_` and notifies without the mutex. Both may fall between a
   worker's test and its sleep. `NotifiedPoolEnds` shows that this window is the
   only way to hang.
4. **Different chunks share a key** (`chunk_keys`). `SliceChunk` numbers the tiny
   chunks of a range from `big_begin` on (`parse/chunk_parser.h:114`), so two ranges
   that begin at different places of a file's tail give their chunks the same
   names, although `README.md:7` has each chunk treated as a file of its own.
   Their places and sizes are right (`ChunksCoverRange`).
5. **Directories need a lock** (`make_dir`). `checkpoint_replacement.h:58` says of
   `MakeDir` "here is safe, no need for file lock". Two processes may both find a
   component missing; the second `mkdir` fails (`util.h:114`) and ends its process
   after a whole day's simulation, unsaved. `RivalsAreToBlame` shows that nothing
   else makes it fail.

Behaviour that contradicts no line of the repository, or that only code nobody
builds shows, has no run of its own:

* **Requested bytes.** `CacheCheckpoint::Get` passes its `size` to `cache_->get` by
  reference, which overwrites it with the stored size (`cache_checkpoint.h:63`,
  `lru.h:33`), and then adds *that* to the bytes requested. `CountersAgree` states
  exactly which bytes are counted: those of the object as it was stored. They are the
  trace's, the "sum of request objects/bytes" of `cache_checkpoint.h:68`, when keys
  keep their sizes.
* **A load that does not end.** After a death in the dump of `Statistic`, the
  next day's call never returns (`LoadLoops`). Ending the loop at a failed read,
  as `LoadCheckpoint` does, would not be enough: the totals would silently miss
  keys, which is what the fault `OverAtFailure` makes `UniqueBytesExact` report.
* **LIRS.** Before the first hit of a LIR block prunes the stack, `demote` can
  meet a block at the bottom that is not LIR (`misled`); from then on a block may
  be linked into Q twice, and a ghost moved to Q without being in S makes
  `detach` follow a null pointer. TLC reaches each of these with a capacity of a few
  chunks.
* **ARC.** Once the unsigned target has wrapped, T2 is emptied and then asked for
  a victim (`VictimExists` without `~field.wrapped`).
* **2Q.** A ghost that `reclaimfor` erased while its own key was coming back is
  entered into `Am` with the tag `A1IN`: later hits find it, do not move it to the
  front, and so it leaves `Am` as if it had never been hit. `TagsAgree` shows that
  no node's tag is wrong in any other list, and that no ghost passes for a cached
  object or the reverse.
* **2Q, TinyLFU, CLOCK.** 2Q tests a ghost entry that `reclaimfor` may have freed;
  TinyLFU reads the end of an empty list in `victim_key`; CLOCK's hand is left on
  the erased node when it was the only one. The models try every value such a
  read may give.

## 6. Not modelled

* `FileLock` (`util/mutex/file_lock.h`): used by its test only, the use in
  `replace.cc:45` being commented out. `PreviousDT`: the
  calendar is `mktime`'s, which is not part of the repository; the models take
  "the day before" as given (`StatisticDays`, `DailySimulation`). `filemgr.h:85` hands it a
  year that it reads as 1900 years later; the two calendars agree from March
  2000 to February 2100.
* The text side of the parsers, that is the splitting of a line into columns and the
  conversion of numbers: `FeatureParser` and `SimpleParser` hand a key and a size
  per line to the models as a choice from `Key` and `Size`. `ParseRange`'s five
  forms are modelled by the range each gives.
* Compression, paths as strings, logging, `MurmurHash64A`, `Singleton`, printed
  ratios: no state the properties speak of. Two keys that collide under the hash
  are one key.
* `CacheCheckpoint`'s move constructor: nothing calls it.
* The unit tests and build files, which are read as statements about the code.

## 7. Plan

The order puts first what `CacheTest` runs every day, then concurrency, then
the policies that are not wired in.

1. *(done)* `CacheBase`, `ListCaches`, their abstraction, proofs.
2. *(done)* `CacheMetrics`, `DailySimulation`, `SLRUCache`, `SLRUCheckpoint`.
3. *(done)* `ThreadPool` against `TaskPool`.
4. *(done)* `Directories`, `ChunkSlicing`, `StatisticDays`.
5. *(done)* `FrequencySketch` and the proof of its error bound; `TinyLFUCache`.
6. *(done)* The policies of `CacheInstance`, each with its own invariant, under
   their driver; OPT against the optimum; periods and warm-ups in `CacheMetrics`.
7. Proofs. *(done)* the list caches, their days and their abstraction; LRU
   inclusion, stack distances and the counters; the segmented cache, its
   abstraction, its warm days and its cold ones; the pool's safety and its
   abstraction; the sketch and its ageing; OPT's optimum; the order of MQ's
   queues; the bottom of LIRS's stack; ARC's books, bounds, victims and abstraction; the
   statistics, the chunks and the directories. Left, in this order: the books of 2Q
   and LARC, for which the lemmas of `ARCCacheProofs` on named lists would have to be
   stated apart from ARC; then those of MQ, LIRS and CLOCK.
