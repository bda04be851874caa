----------------------------- MODULE ThreadPool -----------------------------
(***************************************************************************)
(* thread_pool (thread_pool.hpp): a queue of tasks, a mutex and a          *)
(* condition variable, and worker threads that sleep while the queue is    *)
(* empty.  The loading and the syncing pool of CacheManager are two of     *)
(* them, and every worker of the GPU code owns one.                        *)
(*                                                                         *)
(* The agents are the threads that push (Callers) and the pool's workers   *)
(* (Slots, the index of the thread).  A task may push further tasks while  *)
(* it runs (manager.hpp:686).  As everywhere in the repository, one thread *)
(* (Owner) constructs the pool, waits for it and resizes it: one caller    *)
(* in wait_work does not see a task that another runs there.               *)
(*                                                                         *)
(* A step is one critical section, or one unlocked access that matters.    *)
(* The critical section in which a worker takes a task is two steps        *)
(* (WorkerBusy, WorkerPop), because wait_work and wait_sleep read          *)
(* _threads_busy without the mutex.  In between it holds the mutex:        *)
(* LockFree is false.  wait_sleep reads the queue's size without it, too,  *)
(* in several loads (LoadSize).                                            *)
(*                                                                         *)
(* A task is an element of Tasks, one per call of push, so that "runs      *)
(* once" can be said.                                                      *)
(***************************************************************************)
EXTENDS Integers, Sequences, FiniteSets

CONSTANTS Callers, Owner,   \* the threads that push; the one that waits
          MaxThreads,       \* the largest nrthreads of resize
          Tasks,            \* everything that is ever pushed
          Follow,           \* Follow[t]: the tasks that t pushes
          Block             \* tasks in one node of the std::deque (16)

None == -1

Slots == 0 .. MaxThreads - 1
Agents == Callers \cup Slots

ASSUME PoolAssumption ==
    /\ MaxThreads \in Nat /\ Block \in Nat \ {0}
    /\ Owner \in Callers
    /\ Callers \cap Slots = {} /\ None \notin Tasks
    /\ Follow \in [Tasks -> SUBSET Tasks]

Roots == Tasks \ UNION {Follow[t] : t \in Tasks}    \* pushed by callers

VARIABLES
    tasks,      \* _tasks
    front,      \* tasks taken from it so far: where its front is
    seen,       \* what the owner has loaded of its size
    busy,       \* _threads_busy
    size,       \* _threads.size()
    stop,       \* *_threads_stop[w]
    pc, job,    \* an agent's position, and the task it is running
    todo,       \* what its task pushes
    ret,        \* where it goes on when the task has ended
    target,     \* nrthreads, while the owner is in resize
    pushed, done, awaited   \* history: tasks pushed, ended, waited for

poolVars == <<tasks, front, busy, size, stop>>
agentVars == <<pc, job, todo, ret>>
history == <<pushed, done, awaited>>
vars == <<poolVars, agentVars, seen, target, history>>

WorkerPCs == {"off", "check", "asleep", "pop", "drop"}
OwnerPCs == {"idle", "work", "busy", "grow", "join", "size", "still",
             "notifyall", "waited", "slept"}

\* The loads of std::deque::size(): the node and the place of either end.  A
\* place is loaded as a pointer into the node; those that delimit its node are
\* taken to be loaded with it.
Loads == {"backNode", "backPlace", "frontNode", "frontPlace"}

Unseen == [x \in Loads |-> None]

SizeTypeOK == front \in Nat /\ seen \in [Loads -> Nat \cup {None}]

TypeOK ==
    /\ SizeTypeOK
    /\ tasks \in Seq(Tasks) /\ busy \in 0 .. MaxThreads
    /\ size \in 0 .. MaxThreads /\ target \in 0 .. MaxThreads
    /\ stop \in [Slots -> BOOLEAN]
    /\ pc \in [Agents -> WorkerPCs \cup OwnerPCs \cup {"run", "notify"}]
    /\ \A w \in Slots : pc[w] \notin OwnerPCs
    /\ \A a \in Callers : pc[a] \notin WorkerPCs
    /\ job \in [Agents -> Tasks \cup {None}]
    /\ todo \in [Agents -> SUBSET Tasks]
    /\ ret \in [Agents -> {"idle", "drop", "work", "size"}]
    /\ {pushed, done, awaited} \subseteq SUBSET Tasks

Init ==
    /\ tasks = <<>> /\ front = 0 /\ busy = 0 /\ size = 0
    /\ seen = Unseen
    /\ stop = [w \in Slots |-> FALSE]
    /\ pc = [a \in Agents |-> IF a \in Slots THEN "off" ELSE "idle"]
    /\ job = [a \in Agents |-> None]
    /\ todo = [a \in Agents |-> {}]
    /\ ret = [a \in Agents |-> IF a \in Slots THEN "drop" ELSE "idle"]
    /\ target = 0
    /\ pushed = {} /\ done = {} /\ awaited = {}

LockFree == \A w \in Slots : pc[w] # "pop"

Goto(a, l) == pc' = [pc EXCEPT ![a] = l]

-----------------------------------------------------------------------------
(* Pushing, by a caller or by a task that runs.                            *)

SleepersMissed == {}

Sleepers == {w \in Slots : pc[w] = "asleep"}

\* notify_one wakes a sleeping thread if there is one, notify_all wakes all.
WokenNobody == {{}}

WokenOne == IF Sleepers = {} THEN {{}} ELSE {{w} : w \in Sleepers}

Wake(woken, a, l) ==
    pc' = [b \in Agents |-> IF b = a THEN l
                            ELSE IF b \in woken THEN "check" ELSE pc[b]]

Emplace(s) ==
    /\ LockFree
    /\ tasks' = tasks \o s
    /\ pushed' = pushed \cup {s[i] : i \in DOMAIN s}

Push(a) ==
    /\ pc[a] = "idle"
    /\ \E t \in Roots \ pushed : Emplace(<<t>>)
    /\ Goto(a, "notify")
    /\ UNCHANGED <<seen, front, job, todo, ret, done, awaited, target, busy,
                   size, stop>>

RunPush(a) ==
    /\ pc[a] = "run"
    /\ \E t \in todo[a] \ pushed : Emplace(<<t>>)
    /\ Goto(a, "notify")
    /\ UNCHANGED <<seen, front, job, todo, ret, done, awaited, target, busy,
                   size, stop>>

\* The mutex has been given back before notify_one.
NotifyOne(a) ==
    /\ pc[a] = "notify"
    /\ \E woken \in WokenOne :
           Wake(woken, a, IF job[a] = None THEN "idle" ELSE "run")
    /\ UNCHANGED <<seen, poolVars, job, todo, ret, target, history>>

RunEnd(a) ==
    /\ pc[a] = "run" /\ todo[a] \subseteq pushed
    /\ done' = done \cup {job[a]}
    /\ job' = [job EXCEPT ![a] = None]
    /\ todo' = [todo EXCEPT ![a] = {}]
    /\ Goto(a, ret[a])
    /\ UNCHANGED <<seen, poolVars, ret, target, pushed, awaited>>

\* task = std::move(_tasks.front()); _tasks.pop();
RestKept(q) == q

Rest(q) == Tail(q)

Take(a, back) ==
    /\ job' = [job EXCEPT ![a] = Head(tasks)]
    /\ todo' = [todo EXCEPT ![a] = Follow[Head(tasks)]]
    /\ ret' = [ret EXCEPT ![a] = back]
    /\ tasks' = Rest(tasks) /\ front' = front + 1
    /\ Goto(a, "run")

-----------------------------------------------------------------------------
(* A worker: the function that _init_thread gives to its thread.           *)

WorkerStop(w) ==
    /\ pc[w] = "check" /\ LockFree
    /\ tasks = <<>> /\ stop[w]
    /\ Goto(w, "off")
    /\ UNCHANGED <<seen, poolVars, job, todo, ret, target, history>>

WorkerSleep(w) ==
    /\ pc[w] = "check" /\ LockFree
    /\ tasks = <<>> /\ ~stop[w]
    /\ Goto(w, "asleep")
    /\ UNCHANGED <<seen, poolVars, job, todo, ret, target, history>>

\* A condition variable may wake a thread that nobody notified.
WorkerWake(w) ==
    /\ pc[w] = "asleep"
    /\ Goto(w, "check")
    /\ UNCHANGED <<seen, poolVars, job, todo, ret, target, history>>

WorkerBusy(w) ==
    /\ pc[w] = "check" /\ LockFree
    /\ tasks # <<>>
    /\ busy' = busy + 1
    /\ Goto(w, "pop")
    /\ UNCHANGED <<seen, tasks, front, size, stop, job, todo, ret, target,
                   history>>

WorkerPop(w) ==
    /\ pc[w] = "pop"
    /\ Take(w, "drop")
    /\ UNCHANGED <<seen, busy, size, stop, target, history>>

WorkerDropUncounted(w) ==
    /\ pc[w] = "drop"
    /\ Goto(w, "check")
    /\ UNCHANGED <<seen, poolVars, job, todo, ret, target, history>>

WorkerDrop(w) ==
    /\ pc[w] = "drop"
    /\ busy' = busy - 1
    /\ Goto(w, "check")
    /\ UNCHANGED <<seen, tasks, front, size, stop, job, todo, ret, target,
                   history>>

-----------------------------------------------------------------------------
(* The owner: wait_work, wait_sleep, run and resize.                       *)

WaitWork ==
    /\ pc[Owner] = "idle"
    /\ Goto(Owner, "work")
    /\ awaited' = pushed /\ target' = size
    /\ UNCHANGED <<seen, poolVars, job, todo, ret, pushed, done>>

\* work(): takes the task at the front and runs it.
Work ==
    /\ pc[Owner] = "work" /\ LockFree
    /\ tasks # <<>>
    /\ Take(Owner, "work")
    /\ UNCHANGED <<seen, busy, size, stop, target, history>>

WorkOnce ==     \* if (work()) where the code has while (work())
    /\ pc[Owner] = "work"
    /\ Goto(Owner, "busy")
    /\ UNCHANGED <<seen, poolVars, job, todo, ret, target, history>>

WorkNone ==
    /\ pc[Owner] = "work" /\ LockFree
    /\ tasks = <<>>
    /\ Goto(Owner, "busy")
    /\ UNCHANGED <<seen, poolVars, job, todo, ret, target, history>>

\* wait_work ends here, for its caller or for resize.
NobodyBusy ==
    /\ pc[Owner] = "busy"
    /\ busy = 0
    /\ Goto(Owner, IF target > size THEN "grow" ELSE "waited")
    /\ UNCHANGED <<seen, poolVars, job, todo, ret, target, history>>

\* resize upwards: wait_work first, then all new threads in one critical section.
Grow ==
    /\ pc[Owner] = "idle"
    /\ target' \in size + 1 .. MaxThreads
    /\ awaited' = pushed
    /\ Goto(Owner, "work")
    /\ UNCHANGED <<seen, poolVars, job, todo, ret, pushed, done>>

InitThreads ==
    /\ pc[Owner] = "grow" /\ LockFree
    /\ size' = target
    /\ stop' = [w \in Slots |-> IF w \in size .. target - 1 THEN FALSE
                                                          ELSE stop[w]]
    /\ Wake(size .. target - 1, Owner, "waited")
    /\ UNCHANGED <<seen, tasks, front, busy, job, todo, ret, target, history>>

\* resize downwards: flags and notify_all under the mutex, then the joins.
Surplus(n) == {w \in Slots : n <= w /\ w < size}

Shrink ==
    /\ pc[Owner] = "idle" /\ LockFree
    /\ \E n \in 0 .. size - 1 :
           /\ target' = n
           /\ stop' = [w \in Slots |-> w \in Surplus(n) \/ stop[w]]
           /\ awaited' = IF n = 0 THEN pushed ELSE {}
    /\ Wake(Sleepers, Owner, "join")
    /\ UNCHANGED <<seen, tasks, front, busy, size, job, todo, ret, pushed,
                   done>>

Join ==
    /\ pc[Owner] = "join" /\ LockFree
    /\ \A w \in Surplus(target) : pc[w] = "off"
    /\ size' = target
    /\ Goto(Owner, "waited")
    /\ UNCHANGED <<seen, tasks, front, busy, stop, job, todo, ret, target,
                   history>>

WaitSleep ==
    /\ pc[Owner] = "idle"
    /\ Goto(Owner, "size")
    /\ awaited' = pushed
    /\ UNCHANGED <<seen, poolVars, job, todo, ret, target, pushed, done>>

\* _tasks.size() is read without the mutex: loads in any order the compiler
\* chooses, with pushes and pops between them.
Now(x) ==
    LET back == front + Len(tasks)
    IN  CASE x = "backNode" -> back \div Block
          [] x = "backPlace" -> back
          [] x = "frontNode" -> front \div Block
          [] x = "frontPlace" -> front

LoadSize ==
    /\ pc[Owner] = "size"
    /\ \E x \in Loads : seen[x] = None /\ seen' = [seen EXCEPT ![x] = Now(x)]
    /\ UNCHANGED <<poolVars, agentVars, target, history>>

\* The full nodes between the two ends, and the tasks in the nodes of the ends.
SizeSeen ==
    Block * (seen["backNode"] - seen["frontNode"] - 1)
        + (seen["backPlace"] % Block) + (Block - (seen["frontPlace"] % Block))

SizeRead ==
    /\ pc[Owner] = "size" /\ \A x \in Loads : seen[x] # None
    /\ seen' = Unseen

SizeZero ==
    /\ SizeRead
    /\ SizeSeen = 0
    /\ Goto(Owner, "still")
    /\ UNCHANGED <<poolVars, job, todo, ret, target, history>>

SizeAgain ==
    /\ SizeRead
    /\ SizeSeen # 0
    /\ UNCHANGED <<poolVars, agentVars, target, history>>

BusyAgain ==
    /\ pc[Owner] = "still" /\ busy # 0
    /\ Goto(Owner, "size")
    /\ UNCHANGED <<seen, poolVars, job, todo, ret, target, history>>

AllStillUnchecked ==
    /\ pc[Owner] = "still"
    /\ Goto(Owner, "slept")
    /\ UNCHANGED <<seen, poolVars, job, todo, ret, target, history>>

\* wait_sleep ends here, for its caller or for run.
AllStill ==
    /\ pc[Owner] = "still" /\ busy = 0
    /\ Goto(Owner, "slept")
    /\ UNCHANGED <<seen, poolVars, job, todo, ret, target, history>>

\* run: k tasks for the workers and one for the calling thread.  notify_all
\* comes after the critical section, but f() is the first thing to follow it.
Run ==
    /\ pc[Owner] = "idle"
    /\ \E k \in 0 .. size : \E s \in [1 .. k -> Roots \ pushed] :
       \E t \in Roots \ (pushed \cup {s[i] : i \in 1 .. k}) :
           /\ \A i, j \in 1 .. k : s[i] = s[j] => i = j
           /\ LockFree
           /\ tasks' = tasks \o s
           /\ pushed' = pushed \cup {s[i] : i \in 1 .. k} \cup {t}
           /\ job' = [job EXCEPT ![Owner] = t]
           /\ todo' = [todo EXCEPT ![Owner] = Follow[t]]
    /\ awaited' = pushed'
    /\ ret' = [ret EXCEPT ![Owner] = "size"]
    /\ Goto(Owner, "notifyall")
    /\ UNCHANGED <<seen, front, busy, size, stop, target, done>>

NotifyAll ==
    /\ pc[Owner] = "notifyall"
    /\ Wake(Sleepers, Owner, "run")
    /\ UNCHANGED <<seen, poolVars, job, todo, ret, target, history>>

Return ==
    /\ pc[Owner] \in {"waited", "slept"}
    /\ Goto(Owner, "idle")
    /\ awaited' = {}
    /\ UNCHANGED <<seen, poolVars, job, todo, ret, target, pushed, done>>

-----------------------------------------------------------------------------

Worker(w) ==
    \/ WorkerStop(w) \/ WorkerSleep(w)
    \/ WorkerBusy(w) \/ WorkerPop(w) \/ WorkerDrop(w)

Running(a) == RunPush(a) \/ NotifyOne(a) \/ RunEnd(a)

Waiting ==
    \/ Work \/ WorkNone \/ NobodyBusy \/ InitThreads \/ Join
    \/ LoadSize \/ SizeZero \/ SizeAgain \/ BusyAgain \/ AllStill \/ NotifyAll

Next ==
    \/ \E a \in Agents : Running(a)
    \/ \E w \in Slots : Worker(w) \/ WorkerWake(w)
    \/ \E a \in Callers : Push(a)
    \/ WaitWork \/ WaitSleep \/ Run \/ Grow \/ Shrink
    \/ Waiting \/ Return

Spec == Init /\ [][Next]_vars

\* Threads go on; nothing makes a caller begin an operation, and nothing makes
\* a condition variable wake a thread that was not notified.
FairSpec ==
    /\ Spec
    /\ \A a \in Agents : WF_vars(Running(a))
    /\ \A w \in Slots : WF_vars(Worker(w))
    /\ WF_vars(Waiting)
=============================================================================
