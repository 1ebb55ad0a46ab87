------------------------------ MODULE TaskPool -----------------------------
(***************************************************************************)
(* What a pool of workers promises to those who commit tasks: tasks start  *)
(* in the order they were committed, each once, at most one per worker at  *)
(* a time; no more than `limit` wait (0: any number); every task is run;   *)
(* and the pool is gone only after the last one has finished.              *)
(***************************************************************************)
EXTENDS Naturals, Sequences, FiniteSets

CONSTANTS Task, Worker, Limits

VARIABLES
    limit,
    waiting,    \* the tasks committed and not started, oldest first
    running,    \* which task each worker runs: a function from busy workers
    finished,   \* the tasks run
    gone        \* the pool is destroyed

vars == <<limit, waiting, running, finished, gone>>

Started == { running[w] : w \in DOMAIN running } \union finished

Init ==
    /\ limit \in Limits
    /\ waiting = << >>
    /\ running = [w \in {} |-> {}]
    /\ finished = {}
    /\ gone = FALSE

Commit(t) ==
    /\ ~gone
    /\ t \notin Started
    /\ \A i \in DOMAIN waiting : waiting[i] # t
    /\ limit > 0 => Len(waiting) < limit
    /\ waiting' = Append(waiting, t)
    /\ UNCHANGED <<limit, running, finished, gone>>

Start(w) ==
    /\ w \notin DOMAIN running
    /\ waiting # << >>
    /\ running' = [v \in DOMAIN running \union {w} |->
                     IF v = w THEN Head(waiting) ELSE running[v]]
    /\ waiting' = Tail(waiting)
    /\ UNCHANGED <<limit, finished, gone>>

Finish(w) ==
    /\ w \in DOMAIN running
    /\ finished' = finished \union {running[w]}
    /\ running' = [v \in DOMAIN running \ {w} |-> running[v]]
    /\ UNCHANGED <<limit, waiting, gone>>

Destroy ==
    /\ ~gone
    /\ waiting = << >>
    /\ DOMAIN running = {}
    /\ gone' = TRUE
    /\ UNCHANGED <<limit, waiting, running, finished>>

Next ==
    \/ \E t \in Task : Commit(t)
    \/ \E w \in Worker : Start(w) \/ Finish(w)
    \/ Destroy

Spec ==
    /\ Init /\ [][Next]_vars
    /\ WF_vars(\E w \in Worker : Start(w))
    /\ \A w \in Worker : WF_vars(Finish(w))
=============================================================================
