------------------------------ MODULE TaskBag -------------------------------
(***************************************************************************)
(* What thread_pool (thread_pool.hpp) promises to those who push: a task   *)
(* that has been pushed is started at most once, by one thread, and the    *)
(* calls that wait (wait_work, wait_sleep, run, and resize to no threads)  *)
(* return only when every task pushed before the call has ended.  Nothing  *)
(* is said of the order of tasks, nor of the number of threads.            *)
(***************************************************************************)
CONSTANT Tasks

VARIABLES pushed, running, done, awaited    \* sets of tasks

bagVars == <<pushed, running, done, awaited>>

Init ==
    /\ pushed = {} /\ running = {} /\ done = {} /\ awaited = {}

\* Tasks are pushed; run keeps one of them for the calling thread.
Push(S, own) ==
    /\ S \cap pushed = {} /\ own \subseteq S
    /\ pushed' = pushed \cup S
    /\ running' = running \cup own
    /\ UNCHANGED done

Start(t) ==
    /\ t \in pushed \ (running \cup done)
    /\ running' = running \cup {t}
    /\ UNCHANGED <<pushed, done, awaited>>

End(t) ==
    /\ t \in running
    /\ running' = running \ {t}
    /\ done' = done \cup {t}
    /\ UNCHANGED <<pushed, awaited>>

\* A call that waits: it begins, perhaps with a push, and it returns.
Await ==
    /\ awaited = {} /\ awaited' = pushed
    /\ UNCHANGED <<pushed, running, done>>

Return ==
    /\ awaited \subseteq done /\ awaited' = {}
    /\ UNCHANGED <<pushed, running, done>>

Next ==
    \/ \E S, own \in SUBSET Tasks :
           Push(S, own) /\ awaited' \in {awaited, awaited \cup pushed'}
    \/ \E t \in Tasks : Start(t) \/ End(t)
    \/ Await \/ Return

Spec == Init /\ [][Next]_bagVars
=============================================================================
