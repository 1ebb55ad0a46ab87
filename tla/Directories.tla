---------------------------- MODULE Directories -----------------------------
(***************************************************************************)
(* CacheTester::Save (cache/checkpoint_replacement.h) of several simulator *)
(* processes whose checkpoints go to one directory, as those of different  *)
(* algorithms and capacities for one bucket and day do: if it is not there *)
(* MakeDir (util/util.h) creates what is missing of its path, one          *)
(* component after the other, testing for each before creating it.         *)
(***************************************************************************)
EXTENDS Naturals

CONSTANTS
    Process,
    Depth,          \* the components of the path
    Before, Nobody  \* who made a component: it was there already; it is not there

Component == 1 .. Depth

\* What a module that instantiates this one assumes.
DirectoriesAssumption ==
    /\ Depth \in Nat \ {0} /\ Process # {}
    /\ Before \notin Process /\ Nobody \notin Process /\ Before # Nobody

VARIABLES
    pc,             \* where each process is
    component,      \* the component it is at, in MakeDir's loop
    madeBy          \* the file system, and who made it

dirVars == <<pc, component, madeBy>>

PathExists(i) == madeBy[i] # Nobody

\* Some of the path is there.
Init ==
    /\ pc = [p \in Process |-> "save"]
    /\ component = [p \in Process |-> 1]
    /\ \E n \in 0 .. Depth : madeBy = [i \in Component |-> IF i <= n THEN Before ELSE Nobody]

Goes(p, from, to) == pc[p] = from /\ pc' = [pc EXCEPT ![p] = to]

\* Save's own test, and MakeDir's first.
TestPath(p) ==
    /\ \/ Goes(p, "save", IF PathExists(Depth) THEN "open" ELSE "makedir")
       \/ Goes(p, "makedir", IF PathExists(Depth) THEN "open" ELSE "test")
    /\ UNCHANGED <<component, madeBy>>

AllMissing(i) == TRUE       \* fault: a component is created untested
Missing(i) == ~PathExists(i)

\* On to the next component, or out of MakeDir.
Advance(p, from) ==
    IF component[p] < Depth
    THEN Goes(p, from, "test") /\ component' = [component EXCEPT ![p] = @ + 1]
    ELSE Goes(p, from, "open") /\ UNCHANGED component

TestComponent(p) ==
    /\ IF Missing(component[p])
       THEN Goes(p, "test", "create") /\ UNCHANGED component
       ELSE Advance(p, "test")
    /\ UNCHANGED madeBy

Create(p) ==
    /\ ~PathExists(component[p])
    /\ Advance(p, "create")
    /\ madeBy' = [madeBy EXCEPT ![component[p]] = p]

\* mkdir() finds the component there: PrintError ends the process, and what it
\* simulated all day is lost.
CreateFails(p) ==
    /\ PathExists(component[p])
    /\ Goes(p, "create", "failed")
    /\ UNCHANGED <<component, madeBy>>

Dies(p) ==
    /\ pc[p] \notin {"failed", "dead"}
    /\ pc' = [pc EXCEPT ![p] = "dead"]
    /\ UNCHANGED <<component, madeBy>>

Next == \E p \in Process :
    TestPath(p) \/ TestComponent(p) \/ Create(p) \/ CreateFails(p) \/ Dies(p)

Spec == Init /\ [][Next]_dirVars

-----------------------------------------------------------------------------
\* A process fails only over a component another one made while it was in
\* MakeDir, never over what was there; not all of them fail that way; and one
\* that gets as far as opening its checkpoint finds the whole path there,
\* whoever made which part of it, and whoever died over it.
RivalsAreToBlame ==
    /\ \A p \in Process : pc[p] = "failed" => madeBy[component[p]] \in Process \ {p}
    /\ \E p \in Process : pc[p] # "failed"
    /\ \A p \in Process : pc[p] = "open" => \A i \in Component : PathExists(i)

\* checkpoint_replacement.h:58, "here is safe, no need for file lock": between its
\* tests and its mkdir() no process is overtaken, and so none is ended.
NoLockNeeded == \A p \in Process : pc[p] # "failed"
=============================================================================
