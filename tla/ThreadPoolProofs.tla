-------------------------- MODULE ThreadPoolProofs --------------------------
(***************************************************************************)
(* The thread pool, for any number of workers, producers and tasks and any *)
(* queue size: the queue keeps its bound, no task is lost or run twice, no *)
(* wakeup is lost, and every step is one that TaskPool allows.             *)
(***************************************************************************)
EXTENDS ThreadPool, FiniteSetTheorems, TLAPS

\* Where a producer and a worker can be.
ProducerAt == {"push", "push_check"}
WorkerAt ==
    {"pop", "pop_check", "pop_sleep", "run", "check_stop", "check_empty", "done"}

\* The shape of the state.
TypeOK ==
    /\ max_size \in MaxSizes
    /\ task_queue \in Seq(Task)
    /\ lock \in Thread \union {Free}
    /\ push_waiters \subseteq Producer /\ pop_waiters \subseteq Worker
    /\ break_signal \in BOOLEAN /\ stop \in BOOLEAN
    /\ pc \in [Thread -> ProducerAt \union WorkerAt]
    /\ \A p \in Producer : pc[p] \in ProducerAt
    /\ \A w \in Worker : pc[w] \in WorkerAt
    /\ task \in [Worker -> Task \union {NoTask}]
    /\ sent \in [Producer -> 0 .. TasksEach]
    /\ owner \in {"alive", "stopped", "broken", "joining", "gone"}
    /\ executed \subseteq Task
    /\ committed \in Seq(Task)

\* A thread inside Push() or Pop() holds the mutex.
Holding == {"push_check", "pop_check", "pop_sleep"}
MutexHeld == \A t \in Thread : pc[t] \in Holding => lock = t

\* Sleepers are where they fell asleep, and did so for a reason that holds: a
\* producer has a task left to push, and a worker about to sleep, who has the
\* mutex, keeps others from pushing what it did not see.
SleepersWait ==
    /\ \A w \in pop_waiters : pc[w] = "pop"
    /\ \A p \in push_waiters : pc[p] = "push" /\ sent[p] < TasksEach
    /\ \A p \in Producer : pc[p] = "push_check" => sent[p] < TasksEach
    /\ \A w \in Worker : pc[w] = "pop_sleep" => Empty

\* No task is waiting twice, none has a number not yet given out, and a worker
\* has a task in its hands exactly while it runs one.
TasksDistinct ==
    /\ \A i, j \in DOMAIN task_queue : task_queue[i] = task_queue[j] => i = j
    /\ \A i \in DOMAIN committed : committed[i][2] <= sent[committed[i][1]]
    /\ \A w \in Worker : task[w] # NoTask <=> pc[w] = "run"

\* The destructor comes after the last Commit(), a worker leaves after stop_ is
\* set, with the queue empty for good, and the pool is gone after the workers.
LeavesInOrder ==
    /\ stop => CommitsOver
    /\ owner = "alive" <=> ~stop
    /\ \A w \in Worker : pc[w] = "check_empty" => stop
    /\ \A w \in Worker : pc[w] = "done" => stop /\ Empty
    /\ owner = "gone" => WorkersDone

\* The producers that are awake and have a task left.
Pushing == { p \in Producer \ push_waiters : sent[p] < TasksEach }

\* While a producer sleeps, the queue and the producers still awake make up for
\* a full queue: each pop took one task out and woke one sleeper.
SleepersAreOwed ==
    push_waiters # {} =>
        max_size > 0 /\ max_size <= Len(task_queue) + Cardinality(Pushing)

\* While a task waits, some worker is awake to find it.
WorkIsSeen == ~Empty => \E w \in Worker : w \notin pop_waiters /\ pc[w] # "pop_sleep"

\* The inductive invariant.
IInv ==
    /\ TypeOK /\ MutexHeld /\ SleepersWait /\ TasksDistinct /\ LeavesInOrder
    /\ SleepersAreOwed /\ WorkIsSeen /\ QueueBounded /\ TasksConserved

-----------------------------------------------------------------------------
\* A task is a producer and a number, and NoTask is none.
LEMMA TaskFacts ==
    /\ Worker \cap Producer = {} /\ Worker # {} /\ TasksEach \in Nat
    /\ Free \notin Thread /\ MaxSizes \subseteq Nat
    /\ NoTask \notin Task
    /\ \A t \in Task : t[1] \in Producer /\ t[2] \in 1 .. TasksEach
    /\ \A t, u \in Task : t[1] = u[1] /\ t[2] = u[2] => t = u
<1>1. NoTask \notin Task
  BY DEF NoTask, Task
<1> QED
  BY <1>1, PoolAssumption DEF Task, PoolAssumption, Thread

\* The first task leaves the queue.
LEMMA RemovedFacts ==
    ASSUME task_queue \in Seq(Task), ~Empty
    PROVE  /\ Removed \in Seq(Task) /\ Len(task_queue) \in Nat \ {0}
           /\ Len(Removed) = Len(task_queue) - 1
           /\ \A i \in 1 .. Len(task_queue) - 1 : Removed[i] = task_queue[i + 1]
           /\ Head(task_queue) = task_queue[1] /\ task_queue[1] \in Task
  BY DEF Removed, Empty

\* A task pushed goes to the end.
LEMMA QueuedFacts ==
    ASSUME NEW s \in Seq(Task), NEW t \in Task
    PROVE  /\ Append(s, t) \in Seq(Task) /\ Len(s) \in Nat
           /\ Len(Append(s, t)) = Len(s) + 1
           /\ \A i \in 1 .. Len(s) : Append(s, t)[i] = s[i]
           /\ Append(s, t)[Len(s) + 1] = t
           /\ DOMAIN Append(s, t) = (DOMAIN s) \union {Len(s) + 1}
  OBVIOUS

\* The task a Commit() in progress passes on is one that nobody has seen.
LEMMA NextTaskFacts ==
    ASSUME TypeOK, SleepersWait, TasksDistinct, TasksConserved,
           NEW p \in Producer, pc[p] = "push_check"
    PROVE  /\ NextTask(p) \in Task /\ sent[p] + 1 \in 1 .. TasksEach
           /\ NextTask(p) \notin Queued \union InHand \union executed
<1>1. sent[p] \in Nat /\ sent[p] + 1 \in 1 .. TasksEach
  BY TaskFacts DEF TypeOK, SleepersWait
<1>2. NextTask(p) \in Task /\ NextTask(p)[1] = p /\ NextTask(p)[2] = sent[p] + 1
  BY <1>1 DEF NextTask, Task
<1>3. ASSUME NEW i \in DOMAIN committed PROVE committed[i] # NextTask(p)
  BY <1>1, <1>2 DEF TasksDistinct
<1> QED
  BY <1>1, <1>2, <1>3 DEF TasksConserved

-----------------------------------------------------------------------------
\* The invariant holds of a new pool.
LEMMA InitIInv == Init => IInv
<1> SUFFICES ASSUME Init PROVE IInv
  OBVIOUS
<1> USE DEF Init
<1>1. TypeOK
  <2>1. /\ pc \in [Thread -> ProducerAt \union WorkerAt]
        /\ \A p \in Producer : pc[p] \in ProducerAt
        /\ \A w \in Worker : pc[w] \in WorkerAt
    BY TaskFacts DEF Thread, ProducerAt, WorkerAt
  <2>2. task \in [Worker -> Task \union {NoTask}] /\ sent \in [Producer -> 0 .. TasksEach]
    BY TaskFacts
  <2>3. task_queue \in Seq(Task) /\ committed \in Seq(Task)
    OBVIOUS
  <2> HIDE DEF Init
  <2>4. /\ max_size \in MaxSizes /\ lock = Free /\ owner = "alive"
        /\ push_waiters = {} /\ pop_waiters = {} /\ executed = {}
        /\ break_signal = FALSE /\ stop = FALSE
    BY DEF Init
  <2> QED
    BY <2>1, <2>2, <2>3, <2>4 DEF TypeOK
<1>2. MutexHeld /\ SleepersWait
  BY TaskFacts DEF MutexHeld, Holding, SleepersWait, Thread
<1>3. TasksDistinct /\ TasksConserved
  BY TaskFacts DEF TasksDistinct, TasksConserved, Queued, InHand, Thread
<1>4. LeavesInOrder
  BY TaskFacts DEF LeavesInOrder, Thread
<1>5. SleepersAreOwed /\ WorkIsSeen /\ QueueBounded
  BY TaskFacts DEF SleepersAreOwed, WorkIsSeen, QueueBounded, Empty, TypeOK
<1> QED
  BY <1>1, <1>2, <1>3, <1>4, <1>5 DEF IInv

\* One worker moves on, or one producer.
LEMMA WorkerMoves ==
    ASSUME TypeOK, NEW w \in Worker, NEW x \in WorkerAt, pc' = [pc EXCEPT ![w] = x]
    PROVE  /\ pc' \in [Thread -> ProducerAt \union WorkerAt]
           /\ \A p \in Producer : pc'[p] = pc[p]
           /\ \A v \in Worker : pc'[v] \in WorkerAt /\ pc'[v] = IF v = w THEN x ELSE pc[v]
  BY TaskFacts DEF TypeOK, Thread

LEMMA ProducerMoves ==
    ASSUME TypeOK, NEW p \in Producer, NEW x \in ProducerAt, pc' = [pc EXCEPT ![p] = x]
    PROVE  /\ pc' \in [Thread -> ProducerAt \union WorkerAt]
           /\ \A w \in Worker : pc'[w] = pc[w]
           /\ \A q \in Producer : pc'[q] \in ProducerAt /\ pc'[q] = IF q = p THEN x ELSE pc[q]
  BY TaskFacts DEF TypeOK, Thread

\* A step keeps the shape of the state.
LEMMA TypeStep == ASSUME TypeOK, SleepersWait, TasksDistinct, Next PROVE TypeOK'
<1> USE DEF sync, flags, history
<1>1. ASSUME NEW p \in Producer, Produce(p)
      PROVE  TypeOK'
  <2>1. CASE PushLock(p)
    <3>1. pc' = [pc EXCEPT ![p] = "push_check"] /\ "push_check" \in ProducerAt
      BY <2>1 DEF PushLock, ProducerAt
    <3> QED
      BY <2>1, <3>1, ProducerMoves DEF PushLock, TypeOK, Thread
  <2>2. CASE PushWait(p)
    <3>1. pc' = [pc EXCEPT ![p] = "push"] /\ "push" \in ProducerAt
      BY <2>2 DEF PushWait, ProducerAt
    <3> QED
      BY <2>2, <3>1, ProducerMoves DEF PushWait, TypeOK
  <2>3. CASE PushTask(p)
    <3>1. pc' = [pc EXCEPT ![p] = "push"] /\ "push" \in ProducerAt
      BY <2>3 DEF PushTask, ProducerAt
    <3>2. NextTask(p) \in Task /\ sent[p] + 1 \in 0 .. TasksEach
      BY <2>3, TaskFacts DEF PushTask, SleepersWait, TypeOK, NextTask, Task
    <3>3. task_queue' \in Seq(Task) /\ committed' \in Seq(Task)
      BY <2>3, <3>2 DEF PushTask, QueuedLast, TypeOK
    <3>4. sent' \in [Producer -> 0 .. TasksEach]
      BY <2>3, <3>2 DEF PushTask, TypeOK
    <3>5. pop_waiters' \subseteq Worker
      BY <2>3 DEF PushTask, TypeOK
    <3> QED
      BY <2>3, <3>1, <3>3, <3>4, <3>5, ProducerMoves DEF PushTask, TypeOK
  <2> QED
    BY <1>1, <2>1, <2>2, <2>3 DEF Produce
<1>2. ASSUME NEW w \in Worker, Work(w)
      PROVE  TypeOK'
  <2>1. PICK x \in WorkerAt : pc' = [pc EXCEPT ![w] = x]
    BY <1>2 DEF Work, PopLock, PopFindsNothing, PopSleep, PopTask, PopNothing, RunTask,
                CheckStop, CheckEmpty, WorkerAt
  <2>2. /\ pc' \in [Thread -> ProducerAt \union WorkerAt]
        /\ \A p \in Producer : pc'[p] \in ProducerAt
        /\ \A v \in Worker : pc'[v] \in WorkerAt
    BY <2>1, WorkerMoves DEF TypeOK
  <2>3. task_queue' \in Seq(Task) /\ task' \in [Worker -> Task \union {NoTask}]
    <3>1. CASE PopTask(w)
      <4>1. task_queue' \in Seq(Task) /\ Head(task_queue) \in Task
        BY <3>1, RemovedFacts DEF PopTask, TypeOK
      <4> QED
        BY <3>1, <4>1 DEF PopTask, TypeOK
    <3>2. CASE ~PopTask(w)
      BY <1>2, <3>2 DEF Work, PopLock, PopFindsNothing, PopSleep, PopNothing, RunTask,
                CheckStop, CheckEmpty, TypeOK
    <3> QED
      BY <3>1, <3>2
  <2>4. executed' \subseteq Task
    <3>1. CASE RunTask(w)
      BY <3>1 DEF RunTask, TypeOK, TasksDistinct
    <3>2. CASE ~RunTask(w)
      BY <1>2, <3>2 DEF Work, PopLock, PopFindsNothing, PopSleep, PopTask, PopNothing,
                CheckStop, CheckEmpty, TypeOK
    <3> QED
      BY <3>1, <3>2
  <2>5. /\ lock' \in Thread \union {Free}
        /\ push_waiters' \subseteq Producer /\ pop_waiters' \subseteq Worker
        /\ UNCHANGED <<max_size, flags, sent, committed>>
    BY <1>2 DEF Work, PopLock, PopFindsNothing, PopSleep, PopTask, PopNothing, RunTask,
                CheckStop, CheckEmpty, TypeOK, Thread
  <2> QED
    BY <2>2, <2>3, <2>4, <2>5 DEF TypeOK
<1>3. CASE DestroyPool \/ SpuriousWakeup
  BY <1>3 DEF DestroyPool, SetStop, SetBreak, NotifyAll, JoinAll, SpuriousWakeup, TypeOK
<1> QED
  BY <1>1, <1>2, <1>3 DEF Next

-----------------------------------------------------------------------------
\* Only the thread that takes the mutex gets to where it is held, and only the
\* thread that holds it leaves.
LEMMA MutexStep == ASSUME TypeOK, MutexHeld, Next PROVE MutexHeld'
<1> USE TaskFacts DEF MutexHeld, Holding
<1>1. ASSUME NEW p \in Producer, Produce(p)
      PROVE  MutexHeld'
  BY <1>1 DEF Produce, PushLock, PushWait, PushTask, MutexFree, TypeOK, Thread
<1>2. ASSUME NEW w \in Worker, Work(w)
      PROVE  MutexHeld'
  BY <1>2 DEF Work, PopLock, PopFindsNothing, PopSleep, PopTask, PopNothing, RunTask,
              CheckStop, CheckEmpty, MutexFree, TypeOK, Thread
<1>3. CASE DestroyPool \/ SpuriousWakeup
  BY <1>3 DEF DestroyPool, SetStop, SetBreak, NotifyAll, JoinAll, SpuriousWakeup
<1> QED
  BY <1>1, <1>2, <1>3 DEF Next

\* So no two threads are inside Push() or Pop() at once.
LEMMA OneInside ==
    ASSUME MutexHeld, NEW t \in Thread, NEW u \in Thread, t # u, pc[t] \in Holding
    PROVE  pc[u] \notin Holding
  BY DEF MutexHeld

LEMMA SleepersStep ==
    ASSUME TypeOK, MutexHeld, SleepersWait, Next
    PROVE  SleepersWait'
<1> USE TaskFacts DEF SleepersWait, sync, flags, history
<1>1. ASSUME NEW p \in Producer, PushLock(p) \/ PushWait(p)
      PROVE  SleepersWait'
  <2>1. \A w \in Worker : pc'[w] = pc[w]
    BY <1>1 DEF PushLock, PushWait, TypeOK, Thread
  <2>2. \A q \in Producer : pc'[q] = IF q # p THEN pc[q]
                                     ELSE IF PushLock(p) THEN "push_check" ELSE "push"
    BY <1>1 DEF PushLock, PushWait, TypeOK, Thread
  <2> QED
    BY <1>1, <2>1, <2>2 DEF PushLock, PushWait, TypeOK, Empty
<1>2. ASSUME NEW p \in Producer, PushTask(p)
      PROVE  SleepersWait'
  <2>1. pc[p] \in Holding /\ p \in Thread
    BY <1>2 DEF PushTask, Holding, Thread
  <2>2. \A w \in Worker : pc'[w] = pc[w] /\ pc[w] # "pop_sleep"
    BY <1>2, <2>1, OneInside DEF PushTask, TypeOK, Thread, Holding
  <2>3. \A q \in Producer : q # p => pc'[q] = pc[q] /\ sent'[q] = sent[q]
    BY <1>2 DEF PushTask, TypeOK, Thread
  <2>4. p \notin push_waiters /\ pc'[p] = "push" /\ push_waiters' = push_waiters
    BY <1>2 DEF PushTask, TypeOK, Thread
  <2>5. pop_waiters' \subseteq pop_waiters
    BY <1>2 DEF PushTask
  <2> QED
    BY <2>2, <2>3, <2>4, <2>5 DEF TypeOK
<1>3. ASSUME NEW w \in Worker, Work(w)
      PROVE  SleepersWait'
  <2>1. \A p \in Producer : pc'[p] = pc[p] /\ sent'[p] = sent[p]
    BY <1>3 DEF Work, PopLock, PopFindsNothing, PopSleep, PopTask, PopNothing, RunTask,
                CheckStop, CheckEmpty, TypeOK, Thread
  <2>2. push_waiters' \subseteq push_waiters
    BY <1>3 DEF Work, PopLock, PopFindsNothing, PopSleep, PopTask, PopNothing, RunTask,
                CheckStop, CheckEmpty
  <2>3. \A v \in Worker : v # w => pc'[v] = pc[v]
    BY <1>3 DEF Work, PopLock, PopFindsNothing, PopSleep, PopTask, PopNothing, RunTask,
                CheckStop, CheckEmpty, TypeOK, Thread
  <2>4. \A v \in pop_waiters' : pc'[v] = "pop"
    BY <1>3, <2>3 DEF Work, PopLock, PopFindsNothing, PopSleep, PopTask, PopNothing, RunTask,
                CheckStop, CheckEmpty, TypeOK, Thread
  <2>5. \A v \in Worker : pc'[v] = "pop_sleep" => Empty'
    <3>1. CASE PopTask(w)
      <4>1. pc[w] \in Holding /\ w \in Thread /\ pc'[w] = "run"
        BY <3>1 DEF PopTask, Holding, Thread, TypeOK
      <4>2. \A v \in Worker : v # w => pc[v] # "pop_sleep"
        BY <4>1, OneInside DEF Holding, Thread
      <4> QED
        BY <2>3, <4>1, <4>2
    <3>2. CASE ~PopTask(w)
      <4>1. Empty' = Empty
        BY <1>3, <3>2 DEF Work, PopLock, PopFindsNothing, PopSleep, PopNothing, RunTask,
                CheckStop, CheckEmpty, Empty
      <4>2. pc'[w] = "pop_sleep" => Empty
        BY <1>3, <3>2 DEF Work, PopLock, PopFindsNothing, PopSleep, PopNothing, RunTask,
                CheckStop, CheckEmpty, TypeOK, Thread
      <4> QED
        BY <2>3, <4>1, <4>2
    <3> QED
      BY <3>1, <3>2
  <2> QED
    BY <2>1, <2>2, <2>4, <2>5 DEF TypeOK
<1>4. CASE DestroyPool \/ SpuriousWakeup
  BY <1>4 DEF DestroyPool, SetStop, SetBreak, NotifyAll, JoinAll, SpuriousWakeup, Empty
<1> QED
  BY <1>1, <1>2, <1>3, <1>4 DEF Next, Produce

-----------------------------------------------------------------------------
\* Once stop_ is set nobody pushes, so an empty queue stays empty.
LEMMA LeavesStep ==
    ASSUME TypeOK, SleepersWait, LeavesInOrder, Next
    PROVE  LeavesInOrder'
<1> USE TaskFacts DEF LeavesInOrder, CommitsOver, sync, flags, history
<1>1. ASSUME NEW p \in Producer, PushLock(p) \/ PushWait(p)
      PROVE  LeavesInOrder'
  <2>1. \A w \in Worker : pc'[w] = pc[w]
    BY <1>1 DEF PushLock, PushWait, TypeOK, Thread
  <2> QED
    BY <1>1, <2>1 DEF PushLock, PushWait, Empty, WorkersDone
<1>2. ASSUME NEW p \in Producer, PushTask(p)
      PROVE  LeavesInOrder'
  <2>1. ~stop
    <3>1. sent[p] < TasksEach /\ sent[p] \in Nat
      BY <1>2 DEF PushTask, SleepersWait, TypeOK
    <3> QED
      BY <3>1
  <2>2. \A w \in Worker : pc'[w] = pc[w] /\ pc[w] # "done" /\ pc[w] # "check_empty"
    BY <1>2, <2>1 DEF PushTask, TypeOK, Thread
  <2> QED
    BY <1>2, <2>1, <2>2 DEF PushTask, WorkersDone
<1>3. ASSUME NEW w \in Worker, Work(w)
      PROVE  LeavesInOrder'
  <2>1. /\ \A v \in Worker : v # w => pc'[v] = pc[v]
        /\ UNCHANGED <<flags, sent>>
    BY <1>3 DEF Work, PopLock, PopFindsNothing, PopSleep, PopTask, PopNothing, RunTask,
                CheckStop, CheckEmpty, TypeOK, Thread
  <2>2. pc[w] # "done"
    BY <1>3 DEF Work, PopLock, PopFindsNothing, PopSleep, PopTask, PopNothing, RunTask,
                CheckStop, CheckEmpty
  <2>3. /\ pc'[w] = "check_empty" => stop
        /\ pc'[w] = "done" => stop /\ Empty
    BY <1>3 DEF Work, PopLock, PopFindsNothing, PopSleep, PopTask, PopNothing, RunTask,
                CheckStop, CheckEmpty, TypeOK, Thread
  <2>4. Empty => Empty'
    BY <1>3 DEF Work, PopLock, PopFindsNothing, PopSleep, PopTask, PopNothing, RunTask,
                CheckStop, CheckEmpty, Empty
  <2> QED
    BY <2>1, <2>2, <2>3, <2>4 DEF WorkersDone
<1>4. CASE DestroyPool \/ SpuriousWakeup
  BY <1>4 DEF DestroyPool, SetStop, SetBreak, NotifyAll, JoinAll, SpuriousWakeup, Empty,
              CommitsOver, WorkersDone, TypeOK
<1> QED
  BY <1>1, <1>2, <1>3, <1>4 DEF Next, Produce

-----------------------------------------------------------------------------
\* What a push adds to the tasks, a pop passes on and a run finishes.
LEMMA PushMoves ==
    ASSUME TypeOK, SleepersWait, TasksDistinct, TasksConserved,
           NEW p \in Producer, PushTask(p)
    PROVE  TasksDistinct' /\ TasksConserved'
<1> USE TaskFacts
<1> DEFINE t == NextTask(p)
           n == Len(task_queue)
           m == Len(committed)
<1>1. /\ t \in Task /\ t \notin Queued /\ t \notin InHand /\ t \notin executed
      /\ sent[p] \in Nat /\ t[1] = p /\ t[2] = sent[p] + 1
  BY NextTaskFacts DEF PushTask, TypeOK, NextTask
<1>2. /\ task_queue' \in Seq(Task) /\ n \in Nat /\ DOMAIN task_queue' = 1 .. n + 1
      /\ DOMAIN task_queue = 1 .. n
      /\ \A i \in 1 .. n : task_queue'[i] = task_queue[i]
      /\ task_queue'[n + 1] = t
  BY <1>1, QueuedFacts DEF PushTask, QueuedLast, TypeOK
<1>3. /\ committed' \in Seq(Task) /\ m \in Nat /\ DOMAIN committed' = 1 .. m + 1
      /\ DOMAIN committed = 1 .. m
      /\ \A i \in 1 .. m : committed'[i] = committed[i]
      /\ committed'[m + 1] = t
  BY <1>1, QueuedFacts DEF PushTask, TypeOK
<1> HIDE DEF t, n, m
<1>4. /\ task' = task /\ executed' = executed /\ InHand' = InHand
      /\ \A w \in Worker : pc'[w] = pc[w]
      /\ \A q \in Producer : sent'[q] = IF q = p THEN sent[p] + 1 ELSE sent[q]
  BY DEF PushTask, TypeOK, InHand, Thread
<1>5. Queued' = Queued \union {t}
  BY <1>2 DEF Queued
<1>6. TasksConserved'
  <2>1. { committed'[i] : i \in DOMAIN committed' }
          = { committed[i] : i \in DOMAIN committed } \union {t}
    BY <1>3
  <2> QED
    BY <1>1, <1>4, <1>5, <2>1 DEF TasksConserved
<1>7. TasksDistinct'
  <2>1. \A i, j \in DOMAIN task_queue' : task_queue'[i] = task_queue'[j] => i = j
    <3>1. \A i \in 1 .. n : task_queue[i] # t
      BY <1>1, <1>2 DEF Queued
    <3>2. \A i \in 1 .. n + 1 : i \in 1 .. n \/ i = n + 1
      BY <1>2
    <3> QED
      BY <1>2, <3>1, <3>2 DEF TasksDistinct
  <2>2. \A i \in DOMAIN committed' : committed'[i][2] <= sent'[committed'[i][1]]
    <3>1. sent'[t[1]] = t[2] /\ t[2] \in Nat
      BY <1>1, <1>4
    <3>2. ASSUME NEW i \in 1 .. m
          PROVE  committed[i][2] <= sent'[committed[i][1]]
      <4>1. committed[i] \in Task /\ committed[i][1] \in Producer /\ committed[i][2] \in Nat
        BY <1>3 DEF TypeOK
      <4>2. committed[i][2] <= sent[committed[i][1]]
        <5>1. i \in DOMAIN committed
          BY <1>3
        <5> QED
          BY <5>1 DEF TasksDistinct
      <4>3. sent[committed[i][1]] \in Nat
        BY <4>1 DEF TypeOK
      <4> QED
        BY <1>1, <1>4, <4>1, <4>2, <4>3
    <3>3. \A i \in 1 .. m + 1 : i \in 1 .. m \/ i = m + 1
      BY <1>3
    <3> QED
      BY <1>3, <3>1, <3>2, <3>3
  <2> QED
    BY <1>4, <2>1, <2>2 DEF TasksDistinct
<1> QED
  BY <1>6, <1>7

LEMMA PopMoves ==
    ASSUME TypeOK, TasksDistinct, TasksConserved, NEW w \in Worker, PopTask(w)
    PROVE  TasksDistinct' /\ TasksConserved'
<1> USE TaskFacts
<1> DEFINE t == Head(task_queue)
           n == Len(task_queue)
<1>1. /\ task_queue' \in Seq(Task) /\ n \in Nat \ {0} /\ DOMAIN task_queue' = 1 .. n - 1
      /\ DOMAIN task_queue = 1 .. n
      /\ \A i \in 1 .. n - 1 : task_queue'[i] = task_queue[i + 1]
      /\ task_queue[1] = t /\ t \in Task
  BY RemovedFacts DEF PopTask, TypeOK
<1>2. /\ pc[w] # "run" /\ pc'[w] = "run" /\ task[w] = NoTask /\ task'[w] = t
      /\ \A v \in Worker : v # w => pc'[v] = pc[v] /\ task'[v] = task[v]
      /\ UNCHANGED <<sent, executed, committed>>
  BY DEF PopTask, TypeOK, Thread, flags, history, TasksDistinct
<1> HIDE DEF t, n
<1>3. Queued' = Queued \ {t} /\ t \in Queued
  <2>1. \A i \in 1 .. n : i = 1 \/ (i - 1 \in 1 .. n - 1 /\ (i - 1) + 1 = i)
    BY <1>1
  <2>2. \A i \in 1 .. n - 1 : i + 1 \in 1 .. n /\ i + 1 # 1
    BY <1>1
  <2>3. 1 \in 1 .. n
    BY <1>1
  <2>4. Queued' \subseteq Queued \ {t}
    <3> SUFFICES ASSUME NEW i \in 1 .. n - 1
                 PROVE  task_queue[i + 1] \in Queued /\ task_queue[i + 1] # t
      BY <1>1 DEF Queued
    <3>1. i + 1 \in DOMAIN task_queue /\ 1 \in DOMAIN task_queue /\ i + 1 # 1
      BY <1>1, <2>2, <2>3
    <3>2. task_queue[i + 1] # task_queue[1]
      BY <3>1 DEF TasksDistinct
    <3> QED
      BY <1>1, <3>1, <3>2 DEF Queued
  <2>5. Queued \ {t} \subseteq Queued'
    <3> SUFFICES ASSUME NEW i \in 1 .. n, task_queue[i] # t
                 PROVE  task_queue[i] \in Queued'
      BY <1>1 DEF Queued
    <3>1. i - 1 \in 1 .. n - 1 /\ task_queue'[i - 1] = task_queue[i]
      BY <1>1, <2>1
    <3> QED
      BY <1>1, <3>1 DEF Queued
  <2> QED
    BY <1>1, <2>3, <2>4, <2>5 DEF Queued
<1>4. InHand' = InHand \union {t}
  BY <1>1, <1>2 DEF InHand
<1>5. TasksConserved'
  <2>1. \A v \in Worker : v # w => task'[v] # t
    BY <1>1, <1>2, <1>3 DEF TasksConserved, InHand
  <2> QED
    BY <1>2, <1>3, <1>4, <2>1 DEF TasksConserved
<1>6. TasksDistinct'
  <2>1. \A i, j \in DOMAIN task_queue' : task_queue'[i] = task_queue'[j] => i = j
    <3> SUFFICES ASSUME NEW i \in 1 .. n - 1, NEW j \in 1 .. n - 1,
                        task_queue[i + 1] = task_queue[j + 1]
                 PROVE  i = j
      BY <1>1
    <3>1. i + 1 \in DOMAIN task_queue /\ j + 1 \in DOMAIN task_queue
      BY <1>1
    <3>2. i + 1 = j + 1
      BY <3>1 DEF TasksDistinct
    <3> QED
      BY <3>2
  <2> QED
    BY <1>1, <1>2, <2>1 DEF TasksDistinct
<1> QED
  BY <1>5, <1>6

LEMMA RunMoves ==
    ASSUME TypeOK, TasksDistinct, TasksConserved, NEW w \in Worker, RunTask(w)
    PROVE  TasksDistinct' /\ TasksConserved'
<1> USE TaskFacts
<1>1. /\ pc[w] = "run" /\ pc'[w] = "check_stop" /\ task[w] # NoTask /\ task'[w] = NoTask
      /\ \A v \in Worker : v # w => pc'[v] = pc[v] /\ task'[v] = task[v]
      /\ executed' = executed \union {task[w]}
      /\ UNCHANGED <<task_queue, sent, committed>>
  BY DEF RunTask, TypeOK, Thread, TasksDistinct
<1>2. InHand' = InHand \ {task[w]} /\ task[w] \in InHand /\ Queued' = Queued
  <2>1. \A v \in Worker : v # w => task[v] # task[w]
    BY <1>1 DEF TasksConserved
  <2> QED
    BY <1>1, <2>1 DEF InHand, Queued
<1>3. TasksConserved'
  BY <1>1, <1>2 DEF TasksConserved
<1>4. TasksDistinct'
  BY <1>1 DEF TasksDistinct
<1> QED
  BY <1>3, <1>4

LEMMA TasksStep ==
    ASSUME TypeOK, SleepersWait, TasksDistinct, TasksConserved, Next
    PROVE  TasksDistinct' /\ TasksConserved'
<1>1. CASE \E p \in Producer : PushTask(p)
  BY <1>1, PushMoves
<1>2. CASE \E w \in Worker : PopTask(w)
  BY <1>2, PopMoves
<1>3. CASE \E w \in Worker : RunTask(w)
  BY <1>3, RunMoves
<1>4. ASSUME NEW w \in Worker,
             \/ PopLock(w) \/ PopFindsNothing(w) \/ PopSleep(w) \/ PopNothing(w)
             \/ CheckStop(w) \/ CheckEmpty(w)
      PROVE  TasksDistinct' /\ TasksConserved'
  <2>1. \A v \in Worker : pc'[v] = "run" <=> pc[v] = "run"
    BY <1>4, TaskFacts DEF PopLock, PopFindsNothing, PopSleep, PopNothing, CheckStop,
                           CheckEmpty, TypeOK, Thread
  <2>2. UNCHANGED <<task_queue, task, sent, executed, committed>>
    BY <1>4 DEF PopLock, PopFindsNothing, PopSleep, PopNothing, CheckStop, CheckEmpty, history
  <2> QED
    BY <2>1, <2>2 DEF TasksDistinct, TasksConserved, Queued, InHand
<1>5. ASSUME NEW p \in Producer, PushLock(p) \/ PushWait(p)
      PROVE  TasksDistinct' /\ TasksConserved'
  <2>1. \A v \in Worker : pc'[v] = pc[v]
    BY <1>5, TaskFacts DEF PushLock, PushWait, TypeOK, Thread
  <2>2. UNCHANGED <<task_queue, task, sent, executed, committed>>
    BY <1>5 DEF PushLock, PushWait, history
  <2> QED
    BY <2>1, <2>2 DEF TasksDistinct, TasksConserved, Queued, InHand
<1>6. CASE DestroyPool \/ SpuriousWakeup
  <2>1. UNCHANGED <<task_queue, task, sent, executed, committed, pc>>
    BY <1>6 DEF DestroyPool, SetStop, SetBreak, NotifyAll, JoinAll, SpuriousWakeup, history
  <2>2. TasksDistinct'
    BY <2>1 DEF TasksDistinct
  <2>3. Queued' = Queued /\ InHand' = InHand
    BY <2>1 DEF Queued, InHand
  <2> QED
    BY <2>1, <2>2, <2>3 DEF TasksConserved
<1> QED
  BY <1>1, <1>2, <1>3, <1>4, <1>5, <1>6 DEF Next, Produce, Work

\* A push happens only below the bound.
LEMMA BoundStep == ASSUME TypeOK, QueueBounded, Next PROVE QueueBounded'
<1> USE DEF QueueBounded, sync, flags, history
<1>0. max_size \in Nat /\ max_size' = max_size
  BY TaskFacts DEF TypeOK, Next, Produce, PushLock, PushWait, PushTask, Work, PopLock,
     PopFindsNothing, PopSleep, PopTask, PopNothing, RunTask, CheckStop, CheckEmpty,
     DestroyPool, SetStop, SetBreak, NotifyAll, JoinAll, SpuriousWakeup
<1>1. ASSUME NEW p \in Producer, PushTask(p)
      PROVE  QueueBounded'
  <2>1. Len(task_queue') = Len(task_queue) + 1 /\ Len(task_queue) \in Nat
    BY <1>1 DEF PushTask, QueuedLast, TypeOK
  <2> QED
    BY <1>0, <1>1, <2>1 DEF PushTask, Full
<1>2. ASSUME NEW w \in Worker, PopTask(w)
      PROVE  QueueBounded'
  <2>1. Len(task_queue') = Len(task_queue) - 1 /\ Len(task_queue) \in Nat
    BY <1>2, RemovedFacts DEF PopTask, TypeOK
  <2> QED
    BY <1>0, <2>1
<1>3. CASE ~(\E p \in Producer : PushTask(p)) /\ ~(\E w \in Worker : PopTask(w))
  <2>1. task_queue' = task_queue
    BY <1>3 DEF Next, Produce, PushLock, PushWait, Work, PopLock,
     PopFindsNothing, PopSleep, PopNothing, RunTask, CheckStop, CheckEmpty,
     DestroyPool, SetStop, SetBreak, NotifyAll, JoinAll, SpuriousWakeup
  <2> QED
    BY <1>0, <2>1
<1> QED
  BY <1>1, <1>2, <1>3

-----------------------------------------------------------------------------
\* The producers are finitely many, so those that are awake can be counted.
LEMMA PushingFacts ==
    ASSUME TypeOK
    PROVE  /\ IsFiniteSet(Producer) /\ IsFiniteSet(Pushing)
           /\ Cardinality(Pushing) \in Nat
           /\ max_size \in Nat /\ Len(task_queue) \in Nat
<1>1. IsFiniteSet(Producer)
  BY PoolAssumption, FS_Subset, Producer \subseteq Worker \union Producer DEF PoolAssumption
<1>2. IsFiniteSet(Pushing)
  BY <1>1, FS_Subset, Pushing \subseteq Producer DEF Pushing
<1> QED
  BY <1>1, <1>2, FS_CardinalityType, TaskFacts DEF TypeOK

\* A sleeper leaves its bound behind: Push() adds a task for the producer that
\* may be done, Pop() wakes a producer for the task it takes.
LEMMA OwedStep ==
    ASSUME TypeOK, SleepersWait, SleepersAreOwed, Next
    PROVE  SleepersAreOwed'
<1> USE TaskFacts DEF sync, flags, history
<1>0. /\ IsFiniteSet(Pushing) /\ Cardinality(Pushing) \in Nat
      /\ max_size \in Nat /\ Len(task_queue) \in Nat /\ max_size' = max_size
  BY PushingFacts DEF Next, Produce, PushLock, PushWait, PushTask, Work, PopLock,
     PopFindsNothing, PopSleep, PopTask, PopNothing, RunTask, CheckStop, CheckEmpty,
     DestroyPool, SetStop, SetBreak, NotifyAll, JoinAll, SpuriousWakeup
<1>0a. IsFiniteSet(Pushing')
  <2>1. IsFiniteSet(Producer) /\ Pushing' \subseteq Producer
    BY PushingFacts DEF Pushing
  <2> QED
    BY <2>1, FS_Subset
<1>0b. Cardinality(Pushing') \in Nat
  BY <1>0a, FS_CardinalityType
<1>1. ASSUME NEW p \in Producer, PushWait(p)
      PROVE  SleepersAreOwed'
  BY <1>0, <1>0b, <1>1 DEF PushWait, Full, SleepersAreOwed
<1>2. ASSUME NEW p \in Producer, PushTask(p)
      PROVE  SleepersAreOwed'
  <2>1. Len(task_queue') = Len(task_queue) + 1 /\ push_waiters' = push_waiters
    BY <1>2 DEF PushTask, QueuedLast, TypeOK
  <2>2. \A q \in Producer : q # p => sent'[q] = sent[q]
    BY <1>2 DEF PushTask, TypeOK
  <2>3. Pushing \ {p} \subseteq Pushing'
    BY <2>1, <2>2 DEF Pushing
  <2>4. Cardinality(Pushing \ {p}) >= Cardinality(Pushing) - 1
        /\ Cardinality(Pushing \ {p}) \in Nat
    <3> DEFINE P == Pushing
    <3>1. IsFiniteSet(P) /\ Cardinality(P) \in Nat
      BY <1>0
    <3> HIDE DEF P
    <3>2. /\ IsFiniteSet(P \ {p})
          /\ Cardinality(P \ {p}) = IF p \in P THEN Cardinality(P) - 1 ELSE Cardinality(P)
      BY <3>1, FS_RemoveElement
    <3>3. Cardinality(P \ {p}) \in Nat
      BY <3>2, FS_CardinalityType
    <3> QED
      BY <3>1, <3>2, <3>3 DEF P
  <2>5. Cardinality(Pushing') >= Cardinality(Pushing \ {p})
    BY <2>3, <1>0a, FS_Subset
  <2> QED
    BY <1>0, <1>0b, <2>1, <2>4, <2>5 DEF SleepersAreOwed
<1>3. ASSUME NEW w \in Worker, PopTask(w)
      PROVE  SleepersAreOwed'
  <2>1. Len(task_queue') = Len(task_queue) - 1 /\ sent' = sent
    BY <1>3, RemovedFacts DEF PopTask, TypeOK
  <2>2. CASE push_waiters = {}
    BY <1>3, <2>2 DEF PopTask, NotifyOne, SleepersAreOwed
  <2>3. CASE push_waiters # {}
    <3>1. PICK t \in push_waiters : push_waiters' = push_waiters \ {t}
      BY <1>3, <2>3 DEF PopTask, NotifyOne
    <3>2. Pushing' = Pushing \union {t} /\ t \notin Pushing
      BY <2>1, <3>1 DEF Pushing, SleepersWait, TypeOK
    <3>3. Cardinality(Pushing') = Cardinality(Pushing) + 1
      BY <1>0, <3>2, FS_AddElement
    <3> QED
      BY <1>0, <1>0b, <2>1, <2>3, <3>3 DEF SleepersAreOwed
  <2> QED
    BY <2>2, <2>3
<1>4. CASE SpuriousWakeup
  <2>1. push_waiters' \subseteq push_waiters /\ task_queue' = task_queue /\ sent' = sent
    BY <1>4 DEF SpuriousWakeup
  <2>2. Pushing \subseteq Pushing'
    BY <2>1 DEF Pushing
  <2>3. Cardinality(Pushing') >= Cardinality(Pushing)
    BY <2>2, <1>0a, FS_Subset
  <2> QED
    BY <1>0, <1>0b, <2>1, <2>3 DEF SleepersAreOwed
<1>5. CASE /\ ~(\E p \in Producer : PushWait(p) \/ PushTask(p))
           /\ ~(\E w \in Worker : PopTask(w)) /\ ~SpuriousWakeup
  <2>1. UNCHANGED <<push_waiters, task_queue, sent>>
    BY <1>5 DEF Next, Produce, PushLock, Work, PopLock, PopFindsNothing, PopSleep,
       PopNothing, RunTask, CheckStop, CheckEmpty, DestroyPool, SetStop, SetBreak,
       NotifyAll, JoinAll
  <2> QED
    BY <1>0, <2>1 DEF SleepersAreOwed, Pushing
<1> QED
  BY <1>1, <1>2, <1>3, <1>4, <1>5

\* A task arrives with a notification, or finds a worker awake; a worker falls
\* asleep only over an empty queue.
LEMMA SeenStep ==
    ASSUME TypeOK, MutexHeld, SleepersWait, WorkIsSeen, Next
    PROVE  WorkIsSeen'
<1> USE TaskFacts DEF WorkIsSeen, sync, flags, history
<1>1. ASSUME NEW p \in Producer, PushTask(p)
      PROVE  WorkIsSeen'
  <2>1. pc[p] \in Holding /\ p \in Thread
    BY <1>1 DEF PushTask, Holding, Thread
  <2>2. \A w \in Worker : pc'[w] = pc[w] /\ pc[w] # "pop_sleep"
    BY <1>1, <2>1, OneInside DEF PushTask, TypeOK, Thread, Holding
  <2>3. \E w \in Worker : w \notin pop_waiters'
    BY <1>1 DEF PushTask, NotifyOne, TypeOK
  <2> QED
    BY <2>2, <2>3
<1>2. ASSUME NEW p \in Producer, PushLock(p) \/ PushWait(p)
      PROVE  WorkIsSeen'
  <2>1. \A w \in Worker : pc'[w] = pc[w]
    BY <1>2 DEF PushLock, PushWait, TypeOK, Thread
  <2> QED
    BY <1>2, <2>1 DEF PushLock, PushWait, Empty
<1>3. ASSUME NEW w \in Worker, PopTask(w)
      PROVE  WorkIsSeen'
  <2>1. w \notin pop_waiters /\ pop_waiters' = pop_waiters /\ pc'[w] = "run"
    BY <1>3 DEF PopTask, SleepersWait, TypeOK, Thread
  <2> QED
    BY <2>1
<1>4. ASSUME NEW w \in Worker, Work(w), ~PopTask(w)
      PROVE  WorkIsSeen'
  <2>1. CASE PopFindsNothing(w) \/ PopSleep(w)
    BY <2>1 DEF PopFindsNothing, PopSleep, SleepersWait, Empty
  <2>2. CASE ~PopFindsNothing(w) /\ ~PopSleep(w)
    <3>1. /\ pc'[w] # "pop_sleep" /\ UNCHANGED <<task_queue, pop_waiters>>
          /\ \A v \in Worker : v # w => pc'[v] = pc[v]
      BY <1>4, <2>2 DEF Work, PopLock, PopNothing, RunTask, CheckStop, CheckEmpty, TypeOK, Thread
    <3> QED
      BY <3>1 DEF Empty
  <2> QED
    BY <2>1, <2>2
<1>5. CASE DestroyPool \/ SpuriousWakeup
  BY <1>5 DEF DestroyPool, SetStop, SetBreak, NotifyAll, JoinAll, SpuriousWakeup, Empty
<1> QED
  BY <1>1, <1>2, <1>3, <1>4, <1>5 DEF Next, Produce

-----------------------------------------------------------------------------
\* The invariant holds of every state.
LEMMA NextKeepsIInv == IInv /\ [Next]_vars => IInv'
<1> SUFFICES ASSUME IInv, [Next]_vars PROVE IInv'
  OBVIOUS
<1>1. CASE Next
  BY <1>1, TypeStep, MutexStep, SleepersStep, TasksStep, LeavesStep, OwedStep, SeenStep,
     BoundStep DEF IInv
<1>2. CASE UNCHANGED vars
  <2>1. /\ Empty' = Empty /\ CommitsOver' = CommitsOver /\ WorkersDone' = WorkersDone
        /\ Pushing' = Pushing /\ Queued' = Queued /\ InHand' = InHand
    BY <1>2 DEF vars, Empty, CommitsOver, WorkersDone, Pushing, Queued, InHand
  <2>2. TypeOK'
    BY <1>2 DEF IInv, vars, TypeOK
  <2>3. MutexHeld' /\ SleepersWait' /\ LeavesInOrder'
    BY <1>2, <2>1 DEF IInv, vars, MutexHeld, SleepersWait, LeavesInOrder
  <2>4. TasksDistinct'
    BY <1>2 DEF IInv, vars, TasksDistinct
  <2>5. SleepersAreOwed' /\ WorkIsSeen' /\ QueueBounded'
    BY <1>2, <2>1 DEF IInv, vars, SleepersAreOwed, WorkIsSeen, QueueBounded
  <2>6. TasksConserved'
    BY <1>2, <2>1 DEF IInv, vars, TasksConserved
  <2> QED
    BY <2>2, <2>3, <2>4, <2>5, <2>6 DEF IInv
<1> QED
  BY <1>1, <1>2

\* Every state of the pool has the shape and the order the proofs below use: the
\* mutex has one holder, sleepers have a reason to sleep, and the workers leave
\* only after the last Commit().
THEOREM PoolInvariant == Spec => []IInv
  BY InitIInv, NextKeepsIInv, PTL DEF Spec

\* Push() never takes a bounded queue beyond max_size_, whatever the number of
\* producers that sleep and come in between.
THEOREM QueueStaysBounded == Spec => []QueueBounded
<1>1. IInv => QueueBounded
  BY DEF IInv
<1> QED
  BY <1>1, PoolInvariant, PTL

\* Every task committed is in the queue, in one worker's hands or done, and in
\* no two of them.
THEOREM NoTaskLost == Spec => []TasksConserved
<1>1. IInv => TasksConserved
  BY DEF IInv
<1> QED
  BY <1>1, PoolInvariant, PTL

\* notify_one() without a wakeup kept in store suffices: while tasks wait a
\* worker is awake, and while a producer sleeps somebody is awake to wake it.
THEOREM NoWakeupLost == Spec => []SomeoneAwake
<1>1. ASSUME IInv PROVE SomeoneAwake
  <2>1. ASSUME push_waiters # {}, \A w \in Worker : w \in pop_waiters
        PROVE  \E p \in Producer \ push_waiters : sent[p] < TasksEach
    <3>1. Empty
      BY <1>1, <2>1 DEF IInv, WorkIsSeen
    <3>2. Len(task_queue) = 0
      BY <3>1 DEF Empty
    <3>3. Cardinality(Pushing) # 0 /\ IsFiniteSet(Pushing)
      BY <1>1, <2>1, <3>2, PushingFacts DEF IInv, SleepersAreOwed
    <3>4. Pushing # {}
      BY <3>3, FS_EmptySet
    <3> QED
      BY <3>4 DEF Pushing
  <2> QED
    BY <1>1, <2>1 DEF IInv, WorkIsSeen, SomeoneAwake
<1> QED
  BY <1>1, PoolInvariant, PTL

-----------------------------------------------------------------------------
\* One commit, start and finish of TaskPool each.
Busy == { w \in Worker : task[w] # NoTask }

LEMMA PushCommits ==
    ASSUME IInv, NEW p \in Producer, PushTask(p)
    PROVE  Pool!Commit(NextTask(p)) /\ NextTask(p) \in Task
<1> USE TaskFacts
<1>1. /\ NextTask(p) \in Task
      /\ NextTask(p) \notin Queued \union InHand \union executed
  BY NextTaskFacts DEF IInv, PushTask
<1>2. ~stop /\ owner # "gone"
  <2>1. sent[p] < TasksEach /\ sent[p] \in Nat
    BY DEF IInv, TypeOK, PushTask, SleepersWait
  <2> QED
    BY <2>1 DEF IInv, LeavesInOrder, CommitsOver
<1>3. NextTask(p) \notin Pool!Started
  BY <1>1 DEF Pool!Started, InHand
<1>4. \A i \in DOMAIN task_queue : task_queue[i] # NextTask(p)
  BY <1>1 DEF Queued
<1>5. max_size > 0 => Len(task_queue) < max_size
  BY DEF IInv, TypeOK, PushTask, Full
<1>6. /\ task_queue' = Append(task_queue, NextTask(p))
      /\ UNCHANGED <<max_size, task, executed, owner>>
  BY DEF PushTask, QueuedLast, flags
<1> QED
  BY <1>1, <1>2, <1>3, <1>4, <1>5, <1>6 DEF Pool!Commit

LEMMA PopStarts ==
    ASSUME IInv, NEW w \in Worker, PopTask(w)
    PROVE  Pool!Start(w)
<1> USE TaskFacts
<1>1. /\ task[w] = NoTask /\ task' = [task EXCEPT ![w] = Head(task_queue)]
      /\ Head(task_queue) # NoTask /\ task \in [Worker -> Task \union {NoTask}]
      /\ task_queue # << >> /\ task_queue' = Tail(task_queue)
      /\ UNCHANGED <<max_size, executed, owner>>
  BY RemovedFacts DEF PopTask, Removed, IInv, TypeOK, TasksDistinct, flags, history, Empty
<1>2. Busy' = Busy \union {w} /\ w \notin Busy
  BY <1>1 DEF Busy
<1>3. [v \in Busy |-> task[v]]' = [v \in Busy \union {w} |->
                    IF v = w THEN Head(task_queue) ELSE [u \in Busy |-> task[u]][v]]
  BY <1>1, <1>2 DEF Busy
<1> QED
  BY <1>1, <1>2, <1>3 DEF Pool!Start, Busy

LEMMA RunFinishes ==
    ASSUME IInv, NEW w \in Worker, RunTask(w)
    PROVE  Pool!Finish(w)
<1> USE TaskFacts
<1>1. /\ task[w] # NoTask /\ task' = [task EXCEPT ![w] = NoTask]
      /\ task \in [Worker -> Task \union {NoTask}]
      /\ executed' = executed \union {task[w]}
      /\ UNCHANGED <<max_size, task_queue, owner>>
  BY DEF RunTask, IInv, TypeOK, TasksDistinct, flags
<1>2. Busy' = Busy \ {w} /\ w \in Busy
  BY <1>1 DEF Busy
<1>3. [v \in Busy |-> task[v]]' = [v \in Busy \ {w} |-> [u \in Busy |-> task[u]][v]]
  BY <1>1, <1>2 DEF Busy
<1> QED
  BY <1>1, <1>2, <1>3 DEF Pool!Finish, Busy

\* join() returns when the workers are gone, so there is a worker that found the
\* queue empty, and none has a task in its hands.
LEMMA JoinDestroys == ASSUME IInv, JoinAll PROVE Pool!Destroy
<1>1. \A w \in Worker : pc[w] = "done"
  BY DEF JoinAll, WorkersDone
<1>2. task_queue = << >>
  BY <1>1, TaskFacts DEF IInv, LeavesInOrder, Empty
<1>3. \A w \in Worker : task[w] = NoTask
  BY <1>1 DEF IInv, TasksDistinct
<1>4. DOMAIN [w \in { v \in Worker : task[v] # NoTask } |-> task[w]] = {}
  BY <1>3
<1> QED
  BY <1>2, <1>4 DEF JoinAll, Pool!Destroy, history

\* Each step of the pool is one that TaskPool allows or leaves TaskPool's state
\* alone: tasks start in the order of the Commit() calls, each once, and the
\* destructor returns after the last of them.  (That tasks do start and finish
\* is the fairness part of ImplementsTaskPool, which TLC checks.)
THEOREM StepsImplementTaskPool == Spec => Pool!Init /\ [][Pool!Next]_Pool!vars
<1>1. Init => Pool!Init
  BY DEF Init, Pool!Init
<1>2. ASSUME IInv, [Next]_vars PROVE [Pool!Next]_Pool!vars
  <2>1. ASSUME NEW p \in Producer, Produce(p)
        PROVE  Pool!Next \/ UNCHANGED Pool!vars
    <3>1. CASE PushTask(p)
      BY <1>2, <3>1, PushCommits DEF Pool!Next
    <3>2. CASE PushLock(p) \/ PushWait(p)
      BY <3>2 DEF PushLock, PushWait, Pool!vars, flags, history
    <3> QED
      BY <2>1, <3>1, <3>2 DEF Produce
  <2>2. ASSUME NEW w \in Worker, Work(w)
        PROVE  Pool!Next \/ UNCHANGED Pool!vars
    <3>1. CASE PopTask(w)
      BY <1>2, <3>1, PopStarts DEF Pool!Next
    <3>2. CASE RunTask(w)
      BY <1>2, <3>2, RunFinishes DEF Pool!Next
    <3>3. CASE ~PopTask(w) /\ ~RunTask(w)
      BY <2>2, <3>3 DEF Work, PopLock, PopFindsNothing, PopSleep, PopNothing, CheckStop,
                        CheckEmpty, Pool!vars, flags, history
    <3> QED
      BY <3>1, <3>2, <3>3
  <2>3. CASE DestroyPool
    <3>1. CASE JoinAll
      BY <1>2, <3>1, JoinDestroys DEF Pool!Next
    <3>2. CASE ~JoinAll
      BY <1>2, <2>3, <3>2 DEF DestroyPool, SetStop, SetBreak, NotifyAll, Pool!vars, history
    <3> QED
      BY <3>1, <3>2
  <2>4. CASE SpuriousWakeup
    BY <2>4 DEF SpuriousWakeup, Pool!vars, flags, history
  <2>5. CASE UNCHANGED vars
    BY <2>5 DEF vars, Pool!vars
  <2> QED
    BY <1>2, <2>1, <2>2, <2>3, <2>4, <2>5 DEF Next
<1> QED
  BY <1>1, <1>2, PoolInvariant, PTL DEF Spec
=============================================================================
