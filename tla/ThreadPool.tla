----------------------------- MODULE ThreadPool ----------------------------
(***************************************************************************)
(* ThreadPool and its BlockingQueue (util/threadpool): producers Commit()  *)
(* tasks, workers pop and run them, and the owner destroys the pool once   *)
(* every Commit() has returned.                                            *)
(*                                                                         *)
(* The mutex is `lock`; a condition variable is the set of threads asleep  *)
(* on it.  What a thread does while it holds the mutex is one action,      *)
(* except that the test of pop_cv_'s predicate and falling asleep on it    *)
(* are two: the owner sets stop_ and break_signal_ and notifies without    *)
(* the mutex.  Workers read stop_ and Empty() without it too.  Those races *)
(* are interleavings of the reads and the writes: after stop_ is set only  *)
(* pops touch the queue, so a torn read of Empty() is a read of one side   *)
(* of a pop.                                                               *)
(***************************************************************************)
EXTENDS Naturals, Sequences, FiniteSets

CONSTANTS
    Worker,         \* threads_
    Producer,       \* the threads that call Commit()
    TasksEach,      \* bound: the tasks each producer commits
    MaxSizes,       \* the queue sizes a pool is built with; 0 is unbounded
    Free            \* no thread holds the mutex

ASSUME PoolAssumption ==
    /\ Worker # {} /\ Worker \cap Producer = {}
    /\ IsFiniteSet(Worker \union Producer)
    /\ Free \notin Worker \union Producer
    /\ TasksEach \in Nat
    /\ MaxSizes \subseteq Nat

Thread == Worker \union Producer
Task   == Producer \X (1 .. TasksEach)
NoTask == << >>     \* a default-constructed std::function

VARIABLES
    max_size,       \* BlockingQueue::max_size_
    task_queue,     \* task_queue_
    lock,           \* the owner of mutex_, or Free
    push_waiters,   \* the producers asleep on push_cv_
    pop_waiters,    \* the workers asleep on pop_cv_
    break_signal,   \* break_signal_
    stop,           \* stop_
    pc,             \* where each thread is
    task,           \* each worker's local task
    sent,           \* how many tasks each producer has committed
    owner,          \* where the owner is: "alive" until the destructor runs
    executed,       \* history: the tasks run
    committed       \* history: the tasks committed, in order

vars == <<max_size, task_queue, lock, push_waiters, pop_waiters, break_signal,
          stop, pc, task, sent, owner, executed, committed>>

sync == <<push_waiters, pop_waiters>>
flags == <<break_signal, stop, owner>>
history == <<executed, committed>>

FullTooLate == max_size > 0 /\ Len(task_queue) > max_size   \* fault: off by one
Full  == max_size > 0 /\ Len(task_queue) >= max_size
Empty == task_queue = << >>

Init ==
    /\ max_size \in MaxSizes
    /\ task_queue = << >>
    /\ lock = Free
    /\ push_waiters = {} /\ pop_waiters = {}
    /\ break_signal = FALSE /\ stop = FALSE
    /\ pc = [t \in Thread |-> IF t \in Worker THEN "pop" ELSE "push"]
    /\ task = [w \in Worker |-> NoTask]
    /\ sent = [p \in Producer |-> 0]
    /\ owner = "alive"
    /\ executed = {} /\ committed = << >>

\* The mutex can be taken.
MutexFree == lock = Free

\* task_queue_ after a push, and after a pop.
QueuedFirst(t) == <<t>> \o task_queue                       \* fault: last in, first out
QueuedLast(t) == Append(task_queue, t)
NotRemoved == task_queue                                    \* fault: front() without pop()
Removed == Tail(task_queue)

\* notify_one: some sleeper, if there is one, is woken.
NotifyNobody(waiters, woken) == woken = {}                  \* fault: no notify
NotifyOne(waiters, woken) ==
    IF waiters = {} THEN woken = {} ELSE \E t \in waiters : woken = {t}

-----------------------------------------------------------------------------
(* BlockingQueue::Push, called by Commit *)

PushLock(p) ==
    /\ pc[p] = "push" /\ p \notin push_waiters
    /\ sent[p] < TasksEach
    /\ MutexFree
    /\ lock' = p
    /\ pc' = [pc EXCEPT ![p] = "push_check"]
    /\ UNCHANGED <<max_size, task_queue, sync, flags, task, sent, history>>

\* The predicate fails: release the mutex and sleep, then take it again.
PushWait(p) ==
    /\ pc[p] = "push_check"
    /\ Full
    /\ lock' = Free
    /\ push_waiters' = push_waiters \union {p}
    /\ pc' = [pc EXCEPT ![p] = "push"]
    /\ UNCHANGED <<max_size, task_queue, pop_waiters, flags, task, sent, history>>

\* The task a Commit() call passes on.
NextTask(p) == <<p, sent[p] + 1>>

PushTask(p) ==
    /\ pc[p] = "push_check"
    /\ ~Full
    /\ task_queue' = QueuedLast(NextTask(p))
    /\ committed' = Append(committed, NextTask(p))
    /\ \E woken \in SUBSET pop_waiters :
         NotifyOne(pop_waiters, woken) /\ pop_waiters' = pop_waiters \ woken
    /\ sent' = [sent EXCEPT ![p] = @ + 1]
    /\ lock' = Free
    /\ pc' = [pc EXCEPT ![p] = "push"]
    /\ UNCHANGED <<max_size, push_waiters, flags, task, executed>>

-----------------------------------------------------------------------------
(* BlockingQueue::Pop, called by a worker *)

PopLock(w) ==
    /\ pc[w] = "pop" /\ w \notin pop_waiters
    /\ MutexFree
    /\ lock' = w
    /\ pc' = [pc EXCEPT ![w] = "pop_check"]
    /\ UNCHANGED <<max_size, task_queue, sync, flags, task, sent, history>>

SleepAnyway(w) ==                                           \* fault: break_signal_ is not tested
    /\ pc[w] = "pop_check"
    /\ Empty
    /\ pc' = [pc EXCEPT ![w] = "pop_sleep"]
    /\ UNCHANGED <<max_size, task_queue, lock, sync, flags, task, sent, history>>

\* The predicate is false as it is read ...
PopFindsNothing(w) ==
    /\ pc[w] = "pop_check"
    /\ Empty /\ ~break_signal
    /\ pc' = [pc EXCEPT ![w] = "pop_sleep"]
    /\ UNCHANGED <<max_size, task_queue, lock, sync, flags, task, sent, history>>

\* ... and the worker falls asleep, whatever has happened to it since.
PopSleep(w) ==
    /\ pc[w] = "pop_sleep"
    /\ lock' = Free
    /\ pop_waiters' = pop_waiters \union {w}
    /\ pc' = [pc EXCEPT ![w] = "pop"]
    /\ UNCHANGED <<max_size, task_queue, push_waiters, flags, task, sent, history>>

PopTask(w) ==
    /\ pc[w] = "pop_check"
    /\ ~Empty
    /\ task' = [task EXCEPT ![w] = Head(task_queue)]
    /\ task_queue' = Removed
    /\ \E woken \in SUBSET push_waiters :
         NotifyOne(push_waiters, woken) /\ push_waiters' = push_waiters \ woken
    /\ lock' = Free
    /\ pc' = [pc EXCEPT ![w] = "run"]
    /\ UNCHANGED <<max_size, pop_waiters, flags, sent, history>>

\* Shut down with nothing left: Pop() returns an empty function.
PopNothing(w) ==
    /\ pc[w] = "pop_check"
    /\ Empty /\ break_signal
    /\ lock' = Free
    /\ pc' = [pc EXCEPT ![w] = "check_stop"]
    /\ UNCHANGED <<max_size, task_queue, sync, flags, task, sent, history>>

-----------------------------------------------------------------------------
(* The worker's loop *)

RunTask(w) ==
    /\ pc[w] = "run"
    /\ executed' = executed \union {task[w]}
    /\ task' = [task EXCEPT ![w] = NoTask]
    /\ pc' = [pc EXCEPT ![w] = "check_stop"]
    /\ UNCHANGED <<max_size, task_queue, lock, sync, flags, sent, committed>>

CheckStop(w) ==
    /\ pc[w] = "check_stop"
    /\ pc' = [pc EXCEPT ![w] = IF stop THEN "check_empty" ELSE "pop"]
    /\ UNCHANGED <<max_size, task_queue, lock, sync, flags, task, sent, history>>

CheckEmpty(w) ==
    /\ pc[w] = "check_empty"
    /\ pc' = [pc EXCEPT ![w] = IF Empty THEN "done" ELSE "pop"]
    /\ UNCHANGED <<max_size, task_queue, lock, sync, flags, task, sent, history>>

-----------------------------------------------------------------------------
(* ~ThreadPool, after the last Commit() has returned *)

CommitsOver == \A p \in Producer : sent[p] = TasksEach

SetStop ==
    /\ owner = "alive" /\ CommitsOver
    /\ stop' = TRUE
    /\ owner' = "stopped"
    /\ UNCHANGED <<max_size, task_queue, lock, sync, break_signal, pc, task, sent, history>>

\* Shutdown() sets break_signal_ without the mutex ...
SetBreak ==
    /\ owner = "stopped"
    /\ break_signal' = TRUE
    /\ owner' = "broken"
    /\ UNCHANGED <<max_size, task_queue, lock, sync, stop, pc, task, sent, history>>

\* ... and wakes whoever is asleep at this moment.
NotifyAll ==
    /\ owner = "broken"
    /\ pop_waiters' = {}
    /\ owner' = "joining"
    /\ UNCHANGED <<max_size, task_queue, lock, push_waiters, break_signal, stop, pc, task, sent, history>>

WorkersDone == \A w \in Worker : pc[w] = "done"

JoinAll ==
    /\ owner = "joining"
    /\ WorkersDone
    /\ owner' = "gone"
    /\ UNCHANGED <<max_size, task_queue, lock, sync, break_signal, stop, pc, task, sent, history>>

-----------------------------------------------------------------------------
\* A condition variable may wake a thread nobody notified.
SpuriousWakeup ==
    /\ \E t \in push_waiters \union pop_waiters :
         /\ push_waiters' = push_waiters \ {t}
         /\ pop_waiters' = pop_waiters \ {t}
    /\ UNCHANGED <<max_size, task_queue, lock, flags, pc, task, sent, history>>

Produce(p) == PushLock(p) \/ PushWait(p) \/ PushTask(p)

Work(w) ==
    \/ PopLock(w) \/ PopFindsNothing(w) \/ PopSleep(w) \/ PopTask(w) \/ PopNothing(w)
    \/ RunTask(w) \/ CheckStop(w) \/ CheckEmpty(w)

DestroyPool == SetStop \/ SetBreak \/ NotifyAll \/ JoinAll

Next ==
    \/ \E p \in Producer : Produce(p)
    \/ \E w \in Worker : Work(w)
    \/ DestroyPool
    \/ SpuriousWakeup

\* Each thread that can run does run, and spurious wakeups do not go on for
\* ever.  Nothing is assumed of who gets the mutex: the tasks are finitely many
\* and so are the turns in which one thread can keep it from another.
Spec ==
    /\ Init /\ [][Next]_vars
    /\ \A p \in Producer : WF_vars(Produce(p))
    /\ \A w \in Worker : WF_vars(Work(w))
    /\ WF_vars(DestroyPool)
    /\ <>[][~SpuriousWakeup]_vars

-----------------------------------------------------------------------------
(* Properties *)

InHand == { task[w] : w \in Worker } \ {NoTask}
Queued == { task_queue[i] : i \in DOMAIN task_queue }

\* Push() blocks rather than overfill a bounded queue, also after it has slept
\* and another producer has come in between.
QueueBounded == max_size > 0 => Len(task_queue) <= max_size

\* No committed task is lost or run twice: it is waiting, in one worker's hands,
\* or done.
TasksConserved ==
    /\ { committed[i] : i \in DOMAIN committed } = Queued \union InHand \union executed
    /\ Queued \cap InHand = {} /\ Queued \cap executed = {} /\ InHand \cap executed = {}
    /\ \A v, w \in Worker : task[v] = task[w] /\ task[v] # NoTask => v = w

\* No wakeup is lost to a task: while tasks are waiting some worker is awake,
\* and a producer sleeps only while a worker, or a producer that will push and
\* so wake a worker, is awake to wake it in turn.
SomeoneAwake ==
    /\ ~Empty => \E w \in Worker : w \notin pop_waiters /\ pc[w] # "pop_sleep"
    /\ push_waiters # {} =>
         \/ \E w \in Worker : w \notin pop_waiters
         \/ \E p \in Producer \ push_waiters : sent[p] < TasksEach

\* Every task is eventually run, and so every Commit() returns, even when the
\* queue is bounded, producers sleep and notify_one() may wake the wrong thread.
EveryTaskRuns == \A t \in Task : <>(t \in executed)

\* The destructor returns when its notification finds no worker between the
\* test of the predicate and falling asleep: the workers it wakes all leave.
NotifiedPoolEnds ==
    (/\ owner = "joining" /\ pop_waiters = {}
     /\ \A w \in Worker : pc[w] # "pop_sleep") ~> owner = "gone"

Pool == INSTANCE TaskPool WITH
    Limits   <- MaxSizes,
    limit    <- max_size,
    waiting  <- task_queue,
    running  <- [w \in { v \in Worker : task[v] # NoTask } |-> task[w]],
    finished <- executed,
    gone     <- (owner = "gone")

\* The pool keeps the promises of TaskPool.
ImplementsTaskPool == Pool!Spec

\* thread_pool_test.cc:37-40 builds a pool, commits nothing and lets it go out
\* of scope: the destructor returns.
DestructorReturns == (owner = "stopped") ~> (owner = "gone")
=============================================================================
