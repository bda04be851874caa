----------------------------- MODULE PoolSafety -----------------------------
(* What makes thread_pool correct, over ThreadPool.                        *)
EXTENDS ThreadPool

\* wait_work has returned, or resize has joined the last thread (206-212, 301):
\* every task pushed before the call has ended, be it queued, taken but not yet
\* counted, or running when the call was made.
WaitedDone == pc[Owner] = "waited" => awaited \subseteq done

\* thread_pool.hpp:86 calls run (249-289) a "blocking run" of a function on all
\* threads: when it returns, or wait_sleep with which it ends, every task that
\* it has pushed has ended.
RunBlocks == pc[Owner] = "slept" => awaited \subseteq done

\* The pool is a TaskBag: a task is started once, by one thread, whatever
\* workers, wait_work and resize do to the queue between them (192-204, 329-350).
InHand == {job[a] : a \in Agents} \ {None}
Bag == INSTANCE TaskBag WITH running <- InHand
ImplementsBag == Bag!Spec

\* A task that has been pushed (220-236) is run, if the pool has a thread: no
\* notification is lost between a worker's test of the queue and its sleep, and
\* a thread told to stop does not take one with it.
TasksDone == \A t \in Tasks : t \in pushed ~> t \in done \/ size = 0

\* A call that waits or resizes returns (206-218, 291-322); wait_sleep alone
\* needs a thread to empty the queue for it.
WaitEnds ==
    pc[Owner] \notin {"idle", "waited", "slept"}
        ~> pc[Owner] \in {"idle", "waited", "slept"} \/ size = 0

\* manager.hpp:64 says of wait_work "wait until all tasks are done": those that
\* a task has pushed (manager.hpp:686) before it ended included.
WaitedForAll ==
    pc[Owner] = "waited" => \A t \in awaited : {t} \cup Follow[t] \subseteq done
=============================================================================
