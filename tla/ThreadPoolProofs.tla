-------------------------- MODULE ThreadPoolProofs --------------------------
(***************************************************************************)
(* Proofs about PoolSafety, for any sets of callers and tasks, any number  *)
(* of threads and whatever tasks push: the types of the variables, that a  *)
(* wait returns only when what was pushed before it has ended, and that    *)
(* the pool implements TaskBag; the last two, for wait_sleep, as long as   *)
(* fewer tasks than fill a node of the queue come in during one reading.   *)
(***************************************************************************)
EXTENDS PoolSafety, TLAPS, FiniteSetTheorems

-----------------------------------------------------------------------------
(* The inductive invariant.                                                *)

Counted == {w \in Slots : pc[w] \in {"pop", "run", "notify", "drop"}}

\* _threads_busy counts the workers from ++ (341) to -- (347).
BusyExact == busy = Cardinality(Counted)

\* An agent has a task exactly while it runs it, or notifies for it.
HasJob ==
    /\ \A a \in Agents :
           job[a] # None => pc[a] \in {"run", "notify", "notifyall"}
    /\ \A a \in Agents : pc[a] \in {"run", "notifyall"} => job[a] # None
    /\ \A w \in Slots : pc[w] = "notify" => job[w] # None
    /\ \A a \in Callers \ {Owner} : job[a] = None /\ pc[a] \in {"idle", "notify"}

GoesBack ==
    /\ \A w \in Slots : ret[w] = "drop"
    /\ \A a \in Callers : ret[a] # "drop"
    /\ \A a \in Callers : job[a] # None => ret[a] \in {"work", "size"}

\* One worker at a time is between the two halves of its critical section, and
\* the task it has seen is still there.
Popping ==
    \A w \in Slots : pc[w] = "pop" =>
        /\ tasks # <<>>
        /\ \A v \in Slots : pc[v] = "pop" => v = w

\* The threads that are there, but for those that resize is joining.
Staying == IF pc[Owner] = "join" THEN target ELSE size

Threads ==
    /\ \A w \in Slots : w >= size => pc[w] = "off"
    /\ \A w \in Slots : w < Staying => pc[w] # "off" /\ ~stop[w]
    /\ pc[Owner] = "join" => target < size /\ (target # 0 => awaited = {})
    /\ pc[Owner] = "grow" => size < target

Control == TypeOK /\ BusyExact /\ HasJob /\ GoesBack /\ Popping /\ Threads

\* A task that has been pushed is in one place: the queue, an agent, or done.
QueueOnce ==
    \A i, j \in 1 .. Len(tasks) : tasks[i] = tasks[j] => i = j

QueueFresh ==
    \A i \in 1 .. Len(tasks) :
        /\ tasks[i] \in pushed \ done
        /\ \A a \in Agents : job[a] # tasks[i]

JobOnce ==
    \A a \in Agents : job[a] # None =>
        /\ job[a] \in pushed \ done
        /\ \A b \in Agents : job[b] = job[a] => a = b

Kept ==
    \A t \in pushed :
        \/ t \in done
        \/ \E a \in Agents : job[a] = t
        \/ \E i \in 1 .. Len(tasks) : tasks[i] = t

Places ==
    QueueOnce /\ QueueFresh /\ JobOnce /\ Kept
        /\ done \subseteq pushed /\ awaited \subseteq pushed

\* What was waited for has left the queue, and then has ended.
NotQueued == \A i \in 1 .. Len(tasks) : tasks[i] \notin awaited

Waits ==
    /\ pc[Owner] = "busy" => NotQueued
    /\ pc[Owner] = "join" /\ (\E w \in Slots : w < size /\ pc[w] = "off")
           => NotQueued
    /\ pc[Owner] \in {"grow", "waited"} => awaited \subseteq done
    /\ pc[Owner] = "idle" => awaited = {}
    /\ pc[Owner] = "notify" /\ job[Owner] = None => awaited = {}

\* What wait_sleep has loaded of the size: no end is beyond the queue's, and the
\* back is behind everything it waits for.
Loaded ==
    /\ pc[Owner] # "size" => seen = Unseen
    /\ seen["frontPlace"] # None => seen["frontPlace"] <= front
    /\ seen["backPlace"] # None => seen["backPlace"] <= front + Len(tasks)
    /\ seen["backPlace"] # None =>
           \A i \in 1 .. Len(tasks) :
               tasks[i] \in awaited => front + i <= seen["backPlace"]

PoolInv == Control /\ Places /\ Waits /\ Loaded

\* The same for wait_sleep, which may be told a size that never was.
Still ==
    /\ pc[Owner] = "still" => NotQueued
    /\ pc[Owner] = "slept" => awaited \subseteq done

-----------------------------------------------------------------------------
(* Facts about the constants, about counting and about the queue.          *)

LEMMA SlotFacts ==
    /\ Slots \subseteq Int /\ Agents = Callers \cup Slots
    /\ Callers \cap Slots = {} /\ Owner \in Callers /\ None \notin Tasks
    /\ IsFiniteSet(Slots) /\ Cardinality(Slots) = MaxThreads
  <1>1. MaxThreads \in Nat /\ 0 \in Int /\ MaxThreads - 1 \in Int
    BY PoolAssumption
  <1>2. /\ IsFiniteSet(0 .. MaxThreads - 1)
        /\ Cardinality(0 .. MaxThreads - 1) =
               IF 0 > MaxThreads - 1 THEN 0 ELSE MaxThreads - 1 - 0 + 1
    BY <1>1, FS_Interval
  <1>3. Cardinality(Slots) = MaxThreads
    BY <1>1, <1>2 DEF Slots
  <1> QED
    BY <1>1, <1>2, <1>3, PoolAssumption DEF Slots, Agents

LEMMA SlotsCounted ==
    ASSUME NEW S \in SUBSET Slots
    PROVE  IsFiniteSet(S) /\ Cardinality(S) \in 0 .. MaxThreads
  <1>1. IsFiniteSet(S) /\ Cardinality(S) <= MaxThreads
    BY SlotFacts, FS_Subset
  <1> QED
    BY <1>1, FS_CardinalityType, PoolAssumption

LEMMA CountSame ==
    ASSUME BusyExact, busy' = busy,
           \A w \in Slots : pc'[w] \in {"pop", "run", "notify", "drop"}
                                <=> pc[w] \in {"pop", "run", "notify", "drop"}
    PROVE  BusyExact'
  <1>1. Counted' = Counted
    BY DEF Counted
  <1> QED
    BY <1>1 DEF BusyExact

\* When _threads_busy is 0, nobody but the owner has a task.
LEMMA NobodyRuns ==
    ASSUME Control, busy = 0
    PROVE  \A a \in Agents : a # Owner => job[a] = None
  <1>1. Counted = {}
    BY SlotsCounted, FS_EmptySet DEF Control, BusyExact, Counted
  <1> QED
    BY <1>1, SlotFacts DEF Counted, Control, HasJob, TypeOK, OwnerPCs

LEMMA Joined ==
    ASSUME NEW q \in Seq(Tasks), NEW s \in Seq(Tasks)
    PROVE  /\ q \o s \in Seq(Tasks)
           /\ Len(q \o s) = Len(q) + Len(s)
           /\ \A i \in 1 .. Len(q) : (q \o s)[i] = q[i]
           /\ \A i \in 1 .. Len(s) : (q \o s)[i + Len(q)] = s[i]
           /\ \A i \in 1 .. Len(q \o s) :
                  \/ i \in 1 .. Len(q) /\ (q \o s)[i] = q[i]
                  \/ i - Len(q) \in 1 .. Len(s) /\ (q \o s)[i] = s[i - Len(q)]
  OBVIOUS

LEMMA Fronted ==
    ASSUME NEW q \in Seq(Tasks), q # <<>>
    PROVE  /\ Rest(q) \in Seq(Tasks) /\ Len(Rest(q)) = Len(q) - 1
           /\ Head(q) = q[1] /\ q[1] \in Tasks /\ 1 \in 1 .. Len(q)
           /\ \A i \in 1 .. Len(Rest(q)) :
                  i + 1 \in 1 .. Len(q) /\ Rest(q)[i] = q[i + 1]
           /\ \A i \in 1 .. Len(q) :
                  i = 1 \/ (i - 1 \in 1 .. Len(Rest(q)) /\ Rest(q)[i - 1] = q[i])
  BY DEF Rest

LEMMA DivMod ==
    ASSUME NEW n \in Nat
    PROVE  /\ n \div Block \in Nat /\ n % Block \in Nat /\ n % Block < Block
           /\ n = Block * (n \div Block) + (n % Block)
  <1>1. Block \in Nat /\ Block > 0
    BY PoolAssumption
  <1>2. n \div Block \in Int /\ n \div Block >= 0
    BY <1>1
  <1>3. n % Block \in 0 .. Block - 1
    BY <1>1
  <1>4. n = Block * (n \div Block) + (n % Block)
    BY <1>1
  <1> QED
    BY <1>1, <1>2, <1>3, <1>4

-----------------------------------------------------------------------------
(* The steps that change where a task is.                                  *)

\* Fresh tasks join the queue; the agent b may keep one of them.
LEMMA EmplacePlaces ==
    ASSUME Control, Places, NEW s \in Seq(Tasks),
           \A i \in 1 .. Len(s) : s[i] \notin pushed,
           \A i, j \in 1 .. Len(s) : s[i] = s[j] => i = j,
           tasks' = tasks \o s,
           NEW own \in SUBSET Tasks, own \cap pushed = {},
           \A i \in 1 .. Len(s) : s[i] \notin own,
           pushed' = (pushed \cup {s[i] : i \in 1 .. Len(s)}) \cup own,
           \/ own = {} /\ job' = job
           \/ \E b \in Agents, t \in Tasks :
                  /\ own = {t} /\ job[b] = None
                  /\ job' = [job EXCEPT ![b] = t],
           done' = done, awaited' \in {awaited, pushed', {}}
    PROVE  Places'
  <1>1. tasks \in Seq(Tasks) /\ job \in [Agents -> Tasks \cup {None}]
    BY DEF Control, TypeOK
  <1> DEFINE n == Len(tasks)
  <1>2. n \in Nat /\ Len(s) \in Nat
    BY <1>1
  <1>3. \A i \in 1 .. Len(tasks') :
            \/ i \in 1 .. n /\ tasks'[i] = tasks[i]
            \/ i - n \in 1 .. Len(s) /\ tasks'[i] = s[i - n]
    BY <1>1, Joined
  <1>4. \A i \in 1 .. n : i \in 1 .. Len(tasks') /\ tasks'[i] = tasks[i]
    BY <1>1, <1>2, Joined
  <1>5. \A i \in 1 .. Len(s) :
            i + n \in 1 .. Len(tasks') /\ tasks'[i + n] = s[i]
    BY <1>1, <1>2, Joined
  <1>6. QueueOnce'
    <2> SUFFICES ASSUME NEW i \in 1 .. Len(tasks'), NEW j \in 1 .. Len(tasks'),
                        tasks'[i] = tasks'[j]
                 PROVE  i = j
      BY DEF QueueOnce
    <2>1. CASE i \in 1 .. n /\ j \in 1 .. n
      BY <1>4, <2>1 DEF Places, QueueOnce
    <2>2. CASE i - n \in 1 .. Len(s) /\ j - n \in 1 .. Len(s)
      <3>1. tasks'[i] = s[i - n] /\ tasks'[j] = s[j - n]
        BY <1>2, <1>3, <2>2
      <3> DEFINE k == i - n
                 l == j - n
      <3>2. k \in 1 .. Len(s) /\ l \in 1 .. Len(s) /\ s[k] = s[l]
        BY <2>2, <3>1
      <3> HIDE DEF k, l
      <3>3. k = l
        BY <3>2
      <3> QED
        BY <1>2, <2>2, <3>3 DEF k, l
    <2> QED
      BY <1>2, <1>3, <2>1, <2>2 DEF Places, QueueFresh
  <1>7. QueueFresh'
    <2> SUFFICES ASSUME NEW i \in 1 .. Len(tasks')
                 PROVE  /\ tasks'[i] \in pushed' \ done'
                        /\ \A a \in Agents : job'[a] # tasks'[i]
      BY DEF QueueFresh
    <2>1. CASE i \in 1 .. n /\ tasks'[i] = tasks[i]
      BY <1>1, <2>1 DEF Places, QueueFresh
    <2>2. CASE i - n \in 1 .. Len(s) /\ tasks'[i] = s[i - n]
      <3>1. s[i - n] \in Tasks /\ s[i - n] \notin pushed \cup own
        BY <2>2
      <3> QED
        BY <1>1, <2>2, <3>1, SlotFacts DEF Places, JobOnce
    <2> QED
      BY <1>3, <2>1, <2>2
  <1>8. JobOnce'
    BY <1>1, SlotFacts DEF Places, JobOnce
  <1>9. Kept'
    <2> SUFFICES ASSUME NEW t \in pushed'
                 PROVE  \/ t \in done'
                        \/ \E a \in Agents : job'[a] = t
                        \/ \E i \in 1 .. Len(tasks') : tasks'[i] = t
      BY DEF Kept
    <2>1. CASE t \in own
      BY <1>1, <2>1
    <2>2. CASE t \in pushed
      <3>1. ASSUME NEW a \in Agents, job[a] = t
            PROVE  job'[a] = t
        BY <1>1, <2>2, <3>1, SlotFacts DEF Places, Control, TypeOK
      <3>2. \/ t \in done \/ \E a \in Agents : job[a] = t
            \/ \E i \in 1 .. n : tasks[i] = t
        BY <2>2 DEF Places, Kept
      <3> QED
        BY <1>4, <3>1, <3>2
    <2>3. CASE \E i \in 1 .. Len(s) : t = s[i]
      BY <1>5, <2>3
    <2> QED
      BY <2>1, <2>2, <2>3
  <1> QED
    BY <1>6, <1>7, <1>8, <1>9 DEF Places

LEMMA EmplaceAllPlaces ==
    ASSUME Control, Places, NEW s \in Seq(Tasks),
           \A i \in 1 .. Len(s) : s[i] \notin pushed,
           \A i, j \in 1 .. Len(s) : s[i] = s[j] => i = j,
           tasks' = tasks \o s,
           pushed' = pushed \cup {s[i] : i \in 1 .. Len(s)},
           job' = job, done' = done, awaited' \in {awaited, pushed', {}}
    PROVE  Places'
  <1>1. pushed' = (pushed \cup {s[i] : i \in 1 .. Len(s)}) \cup {}
    OBVIOUS
  <1> DEFINE own == {}
  <1>2. own \in SUBSET Tasks /\ own = {} /\ own \cap pushed = {}
    OBVIOUS
  <1>3. \A i \in 1 .. Len(s) : s[i] \notin own
    OBVIOUS
  <1>4. pushed' = (pushed \cup {s[i] : i \in 1 .. Len(s)}) \cup own
    BY <1>1
  <1> HIDE DEF own
  <1> QED
    BY <1>2, <1>3, <1>4, EmplacePlaces

LEMMA EmplaceKeepPlaces ==
    ASSUME Control, Places, NEW s \in Seq(Tasks), NEW t \in Tasks,
           \A i \in 1 .. Len(s) : s[i] \notin pushed,
           \A i, j \in 1 .. Len(s) : s[i] = s[j] => i = j,
           tasks' = tasks \o s, t \notin pushed,
           \A i \in 1 .. Len(s) : s[i] # t,
           pushed' = (pushed \cup {s[i] : i \in 1 .. Len(s)}) \cup {t},
           job[Owner] = None, job' = [job EXCEPT ![Owner] = t],
           done' = done, awaited' \in {awaited, pushed', {}}
    PROVE  Places'
  <1> DEFINE own == {t}
  <1>2. own \in SUBSET Tasks /\ own \cap pushed = {}
    OBVIOUS
  <1>3. \A i \in 1 .. Len(s) : s[i] \notin own
    OBVIOUS
  <1>4. pushed' = (pushed \cup {s[i] : i \in 1 .. Len(s)}) \cup own
    OBVIOUS
  <1>5. \E b \in Agents, u \in Tasks :
            own = {u} /\ job[b] = None /\ job' = [job EXCEPT ![b] = u]
    BY SlotFacts
  <1> HIDE DEF own
  <1> QED
    BY <1>2, <1>3, <1>4, <1>5, EmplacePlaces

\* A task leaves the queue for an agent that has none.
LEMMA TakePlaces ==
    ASSUME Control, Places, NEW a \in Agents, NEW back, job[a] = None,
           tasks # <<>>, Take(a, back), UNCHANGED history
    PROVE  Places'
  <1>1. tasks \in Seq(Tasks) /\ job \in [Agents -> Tasks \cup {None}]
    BY DEF Control, TypeOK
  <1>2. /\ tasks' = Rest(tasks) /\ tasks[1] \in Tasks
        /\ job' = [job EXCEPT ![a] = tasks[1]]
        /\ 1 \in 1 .. Len(tasks) /\ Len(tasks) \in Nat
    BY <1>1, Fronted DEF Take
  <1>3. \A i \in 1 .. Len(tasks') :
            i + 1 \in 1 .. Len(tasks) /\ tasks'[i] = tasks[i + 1]
    BY <1>1, <1>2, Fronted
  <1>4. \A i \in 1 .. Len(tasks) :
            i = 1 \/ (i - 1 \in 1 .. Len(tasks') /\ tasks'[i - 1] = tasks[i])
    BY <1>1, <1>2, Fronted
  <1>5. QueueOnce'
    BY <1>2, <1>3 DEF Places, QueueOnce
  <1>6. QueueFresh'
    <2> SUFFICES ASSUME NEW i \in 1 .. Len(tasks')
                 PROVE  /\ tasks'[i] \in pushed \ done
                        /\ \A b \in Agents : job'[b] # tasks'[i]
      BY DEF QueueFresh, history
    <2>1. tasks'[i] = tasks[i + 1] /\ i + 1 \in 1 .. Len(tasks) /\ i + 1 # 1
      BY <1>3
    <2>2. tasks[i + 1] # tasks[1]
      BY <1>2, <2>1 DEF Places, QueueOnce
    <2> QED
      BY <1>1, <1>2, <2>1, <2>2 DEF Places, QueueFresh
  <1>7. JobOnce'
    BY <1>1, <1>2, SlotFacts DEF Places, QueueFresh, JobOnce, history
  <1>8. Kept'
    <2> SUFFICES ASSUME NEW t \in pushed
                 PROVE  \/ t \in done
                        \/ \E b \in Agents : job'[b] = t
                        \/ \E i \in 1 .. Len(tasks') : tasks'[i] = t
      BY DEF Kept, history
    <2>1. ASSUME NEW b \in Agents, job[b] = t
          PROVE  job'[b] = t
      BY <1>1, <1>2, <2>1, SlotFacts DEF Places, Control, TypeOK
    <2>2. ASSUME NEW i \in 1 .. Len(tasks), tasks[i] = t
          PROVE  job'[a] = t \/ \E j \in 1 .. Len(tasks') : tasks'[j] = t
      BY <1>1, <1>2, <1>4, <2>2
    <2> QED
      BY <2>1, <2>2 DEF Places, Kept
  <1> QED
    BY <1>5, <1>6, <1>7, <1>8 DEF Places, history

-----------------------------------------------------------------------------
(* Every step keeps the invariant, one lemma for each of its parts.        *)

\* The steps of the owner that change no more than where it is, and what it has
\* loaded.
OwnerMoves ==
    \/ WorkNone \/ NobodyBusy \/ BusyAgain \/ AllStill
    \/ LoadSize \/ SizeZero \/ SizeAgain

\* The calls and the returns of the owner.
OwnerCalls == WaitWork \/ Grow \/ WaitSleep \/ Return

WorkerMoves(w) == WorkerStop(w) \/ WorkerSleep(w) \/ WorkerWake(w)

\* What run does to the queue, in terms of sequences of tasks.
RunBatch(q, t) ==
    /\ \A i \in 1 .. Len(q) : q[i] \in Roots \ pushed /\ q[i] # t
    /\ \A i, j \in 1 .. Len(q) : q[i] = q[j] => i = j
    /\ t \in Roots \ pushed
    /\ tasks' = tasks \o q
    /\ pushed' = pushed \cup {q[i] : i \in 1 .. Len(q)} \cup {t}
    /\ job' = [job EXCEPT ![Owner] = t]
    /\ todo' = [todo EXCEPT ![Owner] = Follow[t]]

LEMMA RunPicks ==
    ASSUME Control, Run
    PROVE  \E q \in Seq(Tasks), t \in Tasks : RunBatch(q, t)
  <1>1. PICK k \in 0 .. size : \E q \in [1 .. k -> Roots \ pushed] :
            \E t \in Roots \ (pushed \cup {q[i] : i \in 1 .. k}) :
                /\ \A i, j \in 1 .. k : q[i] = q[j] => i = j
                /\ LockFree
                /\ tasks' = tasks \o q
                /\ pushed' = pushed \cup {q[i] : i \in 1 .. k} \cup {t}
                /\ job' = [job EXCEPT ![Owner] = t]
                /\ todo' = [todo EXCEPT ![Owner] = Follow[t]]
    BY Zenon DEF Run
  <1>2. PICK q \in [1 .. k -> Roots \ pushed] :
            \E t \in Roots \ (pushed \cup {q[i] : i \in 1 .. k}) :
                /\ \A i, j \in 1 .. k : q[i] = q[j] => i = j
                /\ LockFree
                /\ tasks' = tasks \o q
                /\ pushed' = pushed \cup {q[i] : i \in 1 .. k} \cup {t}
                /\ job' = [job EXCEPT ![Owner] = t]
                /\ todo' = [todo EXCEPT ![Owner] = Follow[t]]
    BY <1>1
  <1>3. PICK t \in Roots \ (pushed \cup {q[i] : i \in 1 .. k}) :
            /\ \A i, j \in 1 .. k : q[i] = q[j] => i = j
            /\ tasks' = tasks \o q
            /\ pushed' = pushed \cup {q[i] : i \in 1 .. k} \cup {t}
            /\ job' = [job EXCEPT ![Owner] = t]
            /\ todo' = [todo EXCEPT ![Owner] = Follow[t]]
    BY <1>2
  <1>4. k \in Nat
    BY PoolAssumption DEF Control, TypeOK
  <1>5. q \in Seq(Tasks) /\ Len(q) = k
    BY <1>4 DEF Roots
  <1>6. RunBatch(q, t)
    BY <1>3, <1>5 DEF RunBatch
  <1> QED
    BY <1>3, <1>5, <1>6 DEF Roots

LEMMA KeepCount ==
    ASSUME Control, Next PROVE BusyExact'
  <1> USE SlotFacts
  <1> USE DEF Control, TypeOK, HasJob, WorkerPCs, OwnerPCs, Goto, Wake, Sleepers
  <1>1. ASSUME NEW a \in Agents, RunPush(a) \/ RunEnd(a) PROVE BusyExact'
    BY <1>1, CountSame DEF RunPush, RunEnd, GoesBack, poolVars
  <1>2. ASSUME NEW a \in Agents, NotifyOne(a) PROVE BusyExact'
    BY <1>2, CountSame DEF NotifyOne, WokenOne, poolVars
  <1>3. ASSUME NEW w \in Slots, WorkerMoves(w) \/ WorkerPop(w) PROVE BusyExact'
    BY <1>3, CountSame
    DEF WorkerMoves, WorkerStop, WorkerSleep, WorkerWake, WorkerPop, Take,
        poolVars
  <1>4. ASSUME NEW w \in Slots, WorkerBusy(w) PROVE BusyExact'
    <2>1. Counted' = Counted \cup {w} /\ w \notin Counted
      BY <1>4 DEF WorkerBusy, Counted
    <2>2. Cardinality(Counted') = Cardinality(Counted) + 1
      <3>1. IsFiniteSet(Counted) /\ Cardinality(Counted) \in Int
        BY SlotsCounted DEF Counted
      <3> QED
        BY <2>1, <3>1, FS_AddElement
    <2> QED
      BY <1>4, <2>2 DEF WorkerBusy, BusyExact
  <1>5. ASSUME NEW w \in Slots, WorkerDrop(w) PROVE BusyExact'
    <2>1. Counted' = Counted \ {w} /\ w \in Counted
      BY <1>5 DEF WorkerDrop, Counted
    <2>2. Cardinality(Counted') = Cardinality(Counted) - 1
      <3>1. IsFiniteSet(Counted) /\ Cardinality(Counted) \in Int
        BY SlotsCounted DEF Counted
      <3> QED
        BY <2>1, <3>1, FS_RemoveElement
    <2> QED
      BY <1>5, <2>2 DEF WorkerDrop, BusyExact
  <1>6. CASE \E a \in Callers : Push(a)
    BY <1>6, CountSame DEF Push
  <1>7. CASE OwnerMoves \/ OwnerCalls \/ Work \/ Run
    BY <1>7, CountSame
    DEF OwnerMoves, WorkNone, NobodyBusy, agentVars, LoadSize,
        SizeRead, SizeZero, SizeAgain, BusyAgain, AllStill,
        OwnerCalls, WaitWork, Grow, WaitSleep, Return, Work, Take, Run, poolVars
  <1>8. CASE Shrink \/ Join \/ NotifyAll
    BY <1>8, CountSame DEF Shrink, Join, NotifyAll, poolVars
  <1>9. CASE InitThreads
    <2>1. size .. target - 1 \subseteq Slots
      BY PoolAssumption DEF Slots
    <2>2. \A w \in size .. target - 1 : pc[w] = "off"
      BY <2>1 DEF Threads
    <2> QED
      BY <1>9, <2>1, <2>2, CountSame DEF InitThreads
  <1> QED
    BY <1>1, <1>2, <1>3, <1>4, <1>5, <1>6, <1>7, <1>8, <1>9
    DEF Next, Running, Worker, Waiting, WorkerMoves, OwnerMoves, OwnerCalls

LEMMA Notified ==
    ASSUME Control, NEW a \in Agents, NotifyOne(a)
    PROVE  /\ pc' \in [Agents -> WorkerPCs \cup OwnerPCs \cup {"run", "notify"}]
           /\ pc[a] = "notify" /\ pc'[a] \in {"idle", "run"}
           /\ pc'[a] = "idle" <=> job[a] = None
           /\ \A b \in Agents \ {a} :
                  \/ pc'[b] = pc[b]
                  \/ b \in Slots /\ pc[b] = "asleep" /\ pc'[b] = "check"
  <1>1. PICK woken \in SUBSET Sleepers :
            Wake(woken, a, IF job[a] = None THEN "idle" ELSE "run")
    BY DEF NotifyOne, WokenOne
  <1>2. pc \in [Agents -> WorkerPCs \cup OwnerPCs \cup {"run", "notify"}]
    BY DEF Control, TypeOK
  <1> QED
    BY <1>1, <1>2, SlotFacts DEF Wake, Sleepers, NotifyOne, WorkerPCs, OwnerPCs

LEMMA KeepSizeType ==
    ASSUME Control, Next PROVE SizeTypeOK'
  <1> USE DEF SizeTypeOK
  <1>0. SizeTypeOK /\ tasks \in Seq(Tasks) /\ Len(tasks) \in Nat
    BY DEF Control, TypeOK
  <1>1. CASE UNCHANGED <<front, seen>>
    BY <1>0, <1>1
  <1>2. CASE Work \/ \E w \in Slots : WorkerPop(w)
    BY <1>0, <1>2 DEF Work, WorkerPop, Take
  <1>3. CASE LoadSize
    <2>1. \A x \in Loads : Now(x) \in Nat
      <3>1. PICK n \in Nat, back \in Nat :
                n = front /\ back = front + Len(tasks)
        BY <1>0
      <3>2. n \div Block \in Nat /\ back \div Block \in Nat
        BY <3>1, DivMod
      <3> QED
        BY <3>1, <3>2 DEF Now, Loads
    <2> QED
      BY <1>0, <1>3, <2>1 DEF LoadSize, poolVars
  <1>4. CASE SizeZero \/ SizeAgain
    BY <1>0, <1>4 DEF SizeZero, SizeAgain, SizeRead, Unseen, poolVars
  <1> QED
    BY <1>1, <1>2, <1>3, <1>4
    DEF Next, Running, RunPush, NotifyOne, RunEnd, Worker, WorkerStop,
        WorkerSleep, WorkerBusy, WorkerDrop, WorkerWake, Push, WaitWork,
        WaitSleep, Run, Grow, Shrink, Waiting, WorkNone, NobodyBusy,
        InitThreads, Join, BusyAgain, AllStill, NotifyAll, Return, poolVars

LEMMA KeepType ==
    ASSUME Control, Next PROVE TypeOK'
  <1> USE SlotFacts, PoolAssumption
  <1> USE DEF Control, TypeOK, HasJob, GoesBack, WorkerPCs, OwnerPCs, Goto,
              Wake, Sleepers, poolVars, history
  <1>0. busy' \in 0 .. MaxThreads /\ SizeTypeOK'
    <2>1. BusyExact' /\ Counted' \subseteq Slots
      BY KeepCount DEF Counted
    <2> QED
      BY <2>1, SlotsCounted, KeepSizeType DEF BusyExact
  <1>1. ASSUME NEW a \in Agents, RunPush(a) PROVE TypeOK'
    <2>1. PICK t \in Tasks : Emplace(<<t>>)
      BY <1>1 DEF RunPush
    <2>2. tasks' \in Seq(Tasks) /\ pushed' \subseteq Tasks
      BY <2>1 DEF Emplace
    <2> QED
      BY <1>0, <1>1, <2>2 DEF RunPush
  <1>2. ASSUME NEW a \in Agents, NotifyOne(a) \/ RunEnd(a) PROVE TypeOK'
    <2>1. CASE NotifyOne(a)
      <3>1. \A w \in Slots : pc'[w] \notin OwnerPCs
        BY <2>1, Notified
      <3>2. \A b \in Callers : pc'[b] \notin WorkerPCs
        BY <2>1, Notified
      <3> QED
        BY <1>0, <2>1, <3>1, <3>2, Notified DEF NotifyOne
    <2>2. CASE RunEnd(a)
      BY <1>0, <2>2 DEF RunEnd
    <2> QED
      BY <1>2, <2>1, <2>2
  <1>3. ASSUME NEW w \in Slots,
               WorkerMoves(w) \/ WorkerBusy(w) \/ WorkerDrop(w)
        PROVE  TypeOK'
    BY <1>0, <1>3
    DEF WorkerMoves, WorkerStop, WorkerSleep, WorkerWake, WorkerBusy, WorkerDrop
  <1>4. ASSUME NEW a \in Agents, NEW back \in {"drop", "work"}, tasks # <<>>,
               Take(a, back), UNCHANGED <<busy, size, stop, target, history>>
        PROVE  TypeOK'
    <2>1. Head(tasks) \in Tasks /\ tasks' \in Seq(Tasks)
      BY <1>4, Fronted DEF Take
    <2> QED
      BY <1>0, <1>4, <2>1 DEF Take
  <1>5. CASE Work \/ \E w \in Slots : WorkerPop(w)
    BY <1>4, <1>5 DEF Work, WorkerPop, Popping
  <1>6. CASE \E a \in Callers : Push(a)
    BY <1>0, <1>6 DEF Push, Emplace, Roots
  <1>7. CASE OwnerMoves \/ OwnerCalls
    BY <1>0, <1>7
    DEF OwnerMoves, WorkNone, NobodyBusy, agentVars, LoadSize,
        SizeRead, SizeZero, SizeAgain, BusyAgain, AllStill,
        OwnerCalls, WaitWork, Grow, WaitSleep, Return
  <1>8. CASE Join \/ NotifyAll
    BY <1>0, <1>8 DEF Join, NotifyAll
  <1>11. CASE Shrink
    <2>1. target' \in 0 .. MaxThreads /\ stop' \in [Slots -> BOOLEAN]
      BY <1>11 DEF Shrink
    <2>2. awaited' \subseteq Tasks
      BY <1>11 DEF Shrink
    <2> QED
      BY <1>0, <1>11, <2>1, <2>2 DEF Shrink
  <1>9. CASE InitThreads
    <2>1. size .. target - 1 \subseteq Slots
      BY DEF Slots
    <2> QED
      BY <1>0, <1>9, <2>1 DEF InitThreads
  <1>10. CASE Run
    <2>1. PICK q \in Seq(Tasks), t \in Tasks : RunBatch(q, t)
      BY <1>10, RunPicks
    <2>2. tasks' \in Seq(Tasks)
      BY <2>1, Joined DEF RunBatch
    <2>3. pushed' \subseteq Tasks /\ awaited' = pushed'
      BY <1>10, <2>1 DEF Run, RunBatch, Roots
    <2>4. /\ job' \in [Agents -> Tasks \cup {None}]
          /\ todo' \in [Agents -> SUBSET Tasks]
      BY <2>1 DEF RunBatch
    <2> QED
      BY <1>0, <1>10, <2>2, <2>3, <2>4 DEF Run
  <1> QED
    BY <1>1, <1>2, <1>3, <1>5, <1>6, <1>7, <1>8, <1>9, <1>10,
       <1>11
    DEF Next, Running, Worker, Waiting, WorkerMoves, OwnerMoves, OwnerCalls

LEMMA KeepJob ==
    ASSUME Control, Next PROVE HasJob' /\ GoesBack'
  <1> USE SlotFacts
  <1> USE DEF Control, TypeOK, HasJob, GoesBack, WorkerPCs, OwnerPCs, Goto,
              Wake, Sleepers, poolVars, history
  <1>1. ASSUME NEW a \in Agents, RunPush(a) \/ RunEnd(a)
        PROVE  HasJob' /\ GoesBack'
    BY <1>1 DEF RunPush, RunEnd
  <1>2. ASSUME NEW a \in Agents, NotifyOne(a) PROVE HasJob' /\ GoesBack'
    BY <1>2 DEF NotifyOne, WokenOne
  <1>3. ASSUME NEW w \in Slots,
               WorkerMoves(w) \/ WorkerBusy(w) \/ WorkerDrop(w)
        PROVE  HasJob' /\ GoesBack'
    BY <1>3
    DEF WorkerMoves, WorkerStop, WorkerSleep, WorkerWake, WorkerBusy, WorkerDrop
  <1>4. CASE Work \/ \E w \in Slots : WorkerPop(w)
    <2>1. tasks # <<>>
      BY <1>4 DEF Work, WorkerPop, Popping
    <2>2. Head(tasks) \in Tasks
      BY <2>1, Fronted
    <2>3. CASE Work
      <3>1. HasJob'
        BY <2>2, <2>3 DEF Work, Take
      <3> QED
        BY <2>2, <2>3, <3>1 DEF Work, Take
    <2>4. ASSUME NEW w \in Slots, WorkerPop(w) PROVE HasJob' /\ GoesBack'
      <3>1. HasJob'
        BY <2>2, <2>4 DEF WorkerPop, Take
      <3> QED
        BY <2>2, <2>4, <3>1 DEF WorkerPop, Take
    <2> QED
      BY <1>4, <2>3, <2>4
  <1>5. CASE \E a \in Callers : Push(a)
    BY <1>5 DEF Push
  <1>6. CASE OwnerMoves \/ OwnerCalls
    BY <1>6
    DEF OwnerMoves, WorkNone, NobodyBusy, agentVars, LoadSize,
        SizeRead, SizeZero, SizeAgain, BusyAgain, AllStill,
        OwnerCalls, WaitWork, Grow, WaitSleep, Return
  <1>7. CASE Shrink \/ Join \/ NotifyAll
    BY <1>7 DEF Shrink, Join, NotifyAll
  <1>8. CASE InitThreads
    <2>1. size .. target - 1 \subseteq Slots
      BY PoolAssumption DEF Slots
    <2>2. \A w \in size .. target - 1 : pc[w] = "off"
      BY <2>1 DEF Threads
    <2> QED
      BY <1>8, <2>1, <2>2 DEF InitThreads
  <1>9. CASE Run
    <2>1. PICK q \in Seq(Tasks), t \in Tasks : RunBatch(q, t)
      BY <1>9, RunPicks
    <2> QED
      BY <1>9, <2>1 DEF Run, RunBatch
  <1> QED
    BY <1>1, <1>2, <1>3, <1>4, <1>5, <1>6, <1>7, <1>8, <1>9
    DEF Next, Running, Worker, Waiting, WorkerMoves, OwnerMoves, OwnerCalls

LEMMA KeepPopping ==
    ASSUME Control, Next PROVE Popping'
  <1> USE SlotFacts
  <1> USE DEF Control, TypeOK, HasJob, GoesBack, Popping, LockFree, WorkerPCs,
              OwnerPCs, Goto, Wake, Sleepers, poolVars, history
  <1>1. CASE \E a \in Agents : RunPush(a) \/ (a \in Callers /\ Push(a))
    <2>1. PICK t \in Tasks : tasks' = tasks \o <<t>>
      BY <1>1 DEF RunPush, Push, Emplace, Roots
    <2> QED
      BY <1>1 DEF RunPush, Push, Emplace
  <1>2. ASSUME NEW a \in Agents, NotifyOne(a) \/ RunEnd(a) PROVE Popping'
    BY <1>2 DEF NotifyOne, WokenOne, RunEnd
  <1>3. ASSUME NEW w \in Slots,
               WorkerMoves(w) \/ WorkerBusy(w) \/ WorkerDrop(w)
        PROVE  Popping'
    BY <1>3
    DEF WorkerMoves, WorkerStop, WorkerSleep, WorkerWake, WorkerBusy, WorkerDrop
  <1>4. CASE Work \/ \E w \in Slots : WorkerPop(w)
    BY <1>4 DEF Work, WorkerPop, Take
  <1>5. CASE OwnerMoves \/ OwnerCalls
    BY <1>5
    DEF OwnerMoves, WorkNone, NobodyBusy, agentVars, LoadSize,
        SizeRead, SizeZero, SizeAgain, BusyAgain, AllStill,
        OwnerCalls, WaitWork, Grow, WaitSleep, Return
  <1>6. CASE Shrink \/ Join \/ NotifyAll
    BY <1>6 DEF Shrink, Join, NotifyAll
  <1>8. CASE InitThreads
    <2>1. size .. target - 1 \subseteq Slots
      BY PoolAssumption DEF Slots
    <2> QED
      BY <1>8, <2>1 DEF InitThreads
  <1>7. CASE Run
    BY <1>7 DEF Run
  <1> QED
    BY <1>1, <1>2, <1>3, <1>4, <1>5, <1>6, <1>7, <1>8
    DEF Next, Running, Worker, Waiting, WorkerMoves, OwnerMoves, OwnerCalls

LEMMA KeepThreads ==
    ASSUME Control, Next PROVE Threads'
  <1> USE SlotFacts
  <1> USE DEF Control, TypeOK, HasJob, GoesBack, Threads, Staying, WorkerPCs,
              OwnerPCs, Goto, Wake, Sleepers, poolVars, history
  <1>1. ASSUME NEW a \in Agents,
               RunPush(a) \/ RunEnd(a) \/ (a \in Callers /\ Push(a))
        PROVE  Threads'
    <2>1. CASE RunPush(a)
      BY <2>1 DEF RunPush
    <2>2. CASE RunEnd(a)
      BY <2>2 DEF RunEnd
    <2>3. CASE a \in Callers /\ Push(a)
      BY <2>3 DEF Push
    <2> QED
      BY <1>1, <2>1, <2>2, <2>3
  <1>2. ASSUME NEW a \in Agents, NotifyOne(a) PROVE Threads'
    <2>1. UNCHANGED <<size, stop, target, awaited>>
      BY <1>2 DEF NotifyOne
    <2>2. \A b \in Agents : pc'[b] \in {"off", "join", "grow"} \/
                              pc[b] \in {"off", "join", "grow"} => pc'[b] = pc[b]
      BY <1>2, Notified
    <2> QED
      BY <2>1, <2>2
  <1>3. ASSUME NEW w \in Slots,
               WorkerMoves(w) \/ WorkerBusy(w) \/ WorkerPop(w) \/ WorkerDrop(w)
        PROVE  Threads'
    BY <1>3
    DEF WorkerMoves, WorkerStop, WorkerSleep, WorkerWake, WorkerBusy,
        WorkerPop, Take, WorkerDrop
  <1>4. CASE OwnerMoves \/ OwnerCalls \/ Work
    BY <1>4
    DEF OwnerMoves, WorkNone, NobodyBusy, agentVars, LoadSize,
        SizeRead, SizeZero, SizeAgain, BusyAgain, AllStill,
        OwnerCalls, WaitWork, Grow, WaitSleep, Return, Work, Take
  <1>5. CASE Shrink
    BY <1>5 DEF Shrink, Surplus
  <1>6. CASE Join
    BY <1>6 DEF Join, Surplus
  <1>7. CASE NotifyAll \/ Run
    BY <1>7 DEF NotifyAll, Run
  <1>8. CASE InitThreads
    BY <1>8, PoolAssumption DEF InitThreads, Slots
  <1> QED
    BY <1>1, <1>2, <1>3, <1>4, <1>5, <1>6, <1>7, <1>8
    DEF Next, Running, Worker, Waiting, WorkerMoves, OwnerMoves, OwnerCalls

LEMMA KeepPlaces ==
    ASSUME Control, Places, Next PROVE Places'
  <1> USE SlotFacts
  <1>1. CASE UNCHANGED <<tasks, job, pushed, done>>
    <2>1. awaited' \in {awaited, pushed, {}}
      BY <1>1
      DEF Next, Running, RunPush, NotifyOne, RunEnd, Worker, WorkerStop,
          WorkerSleep, WorkerBusy, WorkerPop, WorkerDrop, WorkerWake, Push,
          WaitWork, WaitSleep, Run, Grow, Shrink, Waiting, Work, WorkNone,
          NobodyBusy, InitThreads, Join, agentVars, LoadSize,
        SizeRead, SizeZero, SizeAgain, BusyAgain, AllStill,
          NotifyAll, Return, history
    <2> QED
      BY <1>1, <2>1 DEF Places, QueueOnce, QueueFresh, JobOnce, Kept
  <1>2. CASE \E a \in Agents : RunPush(a) \/ (a \in Callers /\ Push(a))
    <2>1. PICK t \in Tasks \ pushed : Emplace(<<t>>)
      BY <1>2 DEF RunPush, Push, Roots, Control, TypeOK
    <2>2. PICK s \in Seq(Tasks) : s = <<t>>
      <3>1. <<t>> \in Seq(Tasks)
        OBVIOUS
      <3> QED
        BY <3>1
    <2>3. /\ \A i \in 1 .. Len(s) : s[i] \notin pushed
          /\ \A i, j \in 1 .. Len(s) : s[i] = s[j] => i = j
      BY <2>2
    <2>4. tasks' = tasks \o s /\ done' = done /\ job' = job
      BY <1>2, <2>1, <2>2 DEF RunPush, Push, Emplace
    <2>5. pushed' = pushed \cup {s[i] : i \in 1 .. Len(s)}
      BY <2>1, <2>2 DEF Emplace
    <2>6. awaited' \in {awaited, pushed', {}}
      BY <1>2 DEF RunPush, Push
    <2> QED
      BY <2>3, <2>4, <2>5, <2>6, EmplaceAllPlaces
  <1>3. ASSUME NEW a \in Agents, RunEnd(a) PROVE Places'
    <2>1. /\ job[a] # None /\ job \in [Agents -> Tasks \cup {None}]
          /\ job' = [job EXCEPT ![a] = None] /\ done' = done \cup {job[a]}
          /\ UNCHANGED <<tasks, pushed, awaited>>
      BY <1>3 DEF RunEnd, Control, HasJob, TypeOK, poolVars
    <2>2. QueueOnce' /\ awaited' \subseteq pushed'
      BY <2>1 DEF Places, QueueOnce
    <2>3. QueueFresh'
      BY <2>1, PoolAssumption DEF Places, QueueFresh, Control, TypeOK
    <2>4. JobOnce' /\ done' \subseteq pushed'
      BY <2>1 DEF Places, JobOnce
    <2>5. Kept'
      BY <2>1 DEF Places, Kept
    <2> QED
      BY <2>2, <2>3, <2>4, <2>5 DEF Places
  <1>4. CASE Work \/ \E w \in Slots : WorkerPop(w)
    <2>1. /\ tasks # <<>> /\ UNCHANGED history
          /\ \E a \in Agents, back \in {"work", "drop"} :
                 job[a] = None /\ Take(a, back)
      BY <1>4 DEF Work, WorkerPop, Control, Popping, HasJob, OwnerPCs, TypeOK
    <2> QED
      BY <2>1, TakePlaces
  <1>5. CASE Run
    <2>1. PICK q \in Seq(Tasks), t \in Tasks : RunBatch(q, t)
      BY <1>5, RunPicks
    <2>2. job[Owner] = None /\ done' = done /\ awaited' = pushed'
      BY <1>5 DEF Run, Control, HasJob
    <2>3. /\ \A i \in 1 .. Len(q) : q[i] \notin pushed
          /\ \A i, j \in 1 .. Len(q) : q[i] = q[j] => i = j
      BY <2>1 DEF RunBatch
    <2>4. /\ tasks' = tasks \o q /\ t \notin pushed
          /\ \A i \in 1 .. Len(q) : q[i] # t
          /\ pushed' = (pushed \cup {q[i] : i \in 1 .. Len(q)}) \cup {t}
          /\ job' = [job EXCEPT ![Owner] = t]
      BY <2>1 DEF RunBatch
    <2>5. awaited' \in {awaited, pushed', {}}
      BY <2>2
    <2> QED
      BY <2>2, <2>3, <2>4, <2>5, EmplaceKeepPlaces
  <1> QED
    BY <1>1, <1>2, <1>3, <1>4, <1>5
    DEF Next, Running, NotifyOne, Worker, WorkerStop, WorkerSleep, WorkerBusy,
        WorkerDrop, WorkerWake, WaitWork, WaitSleep, Grow, Shrink, Waiting,
        WorkNone, NobodyBusy, InitThreads, Join, agentVars, LoadSize,
        SizeRead, SizeZero, SizeAgain, BusyAgain, AllStill,
        NotifyAll, Return, history, poolVars

\* When nobody has a task, what has left the queue has ended.
LEMMA AllEnded ==
    ASSUME Control, Places, NotQueued, \A a \in Agents : job[a] = None
    PROVE  awaited \subseteq done
  BY SlotFacts DEF Control, TypeOK, Places, Kept, NotQueued

\* What a push adds is not waited for; a pop moves the rest up.
LEMMA QueueGrows ==
    ASSUME Control, Places, NEW a \in Agents,
           RunPush(a) \/ (a \in Callers /\ Push(a))
    PROVE  /\ awaited' = awaited /\ front' = front /\ tasks' \in Seq(Tasks)
           /\ \A i \in 1 .. Len(tasks') :
                  \/ i \in 1 .. Len(tasks) /\ tasks'[i] = tasks[i]
                  \/ tasks'[i] \notin awaited
  <1>1. PICK t \in Tasks \ pushed : Emplace(<<t>>)
    BY DEF RunPush, Push, Roots, Control, TypeOK
  <1>2. awaited' = awaited /\ front' = front /\ t \notin awaited
    BY <1>1 DEF RunPush, Push, Places
  <1>3. tasks' = tasks \o <<t>> /\ <<t>> \in Seq(Tasks) /\ tasks \in Seq(Tasks)
    BY <1>1 DEF Emplace, Control, TypeOK
  <1> QED
    BY <1>2, <1>3

LEMMA QueueShrinks ==
    ASSUME Control, Work \/ \E w \in Slots : WorkerPop(w)
    PROVE  /\ awaited' = awaited /\ front' = front + 1 /\ tasks' \in Seq(Tasks)
           /\ Len(tasks') = Len(tasks) - 1
           /\ \A i \in 1 .. Len(tasks') :
                  i + 1 \in 1 .. Len(tasks) /\ tasks'[i] = tasks[i + 1]
  <1>1. tasks # <<>> /\ tasks' = Rest(tasks) /\ front' = front + 1
    BY DEF Work, WorkerPop, Take, Popping, Control
  <1>2. awaited' = awaited /\ tasks \in Seq(Tasks)
    BY DEF Work, WorkerPop, history, Control, TypeOK
  <1> QED
    BY <1>1, <1>2, Fronted

LEMMA KeepNotQueued ==
    ASSUME Control, Places, NotQueued,
           \/ Work \/ \E w \in Slots : WorkerPop(w)
           \/ \E a \in Agents : RunPush(a) \/ (a \in Callers /\ Push(a))
    PROVE  NotQueued'
  <1>1. CASE Work \/ \E w \in Slots : WorkerPop(w)
    BY <1>1, QueueShrinks DEF NotQueued
  <1>2. CASE \E a \in Agents : RunPush(a) \/ (a \in Callers /\ Push(a))
    BY <1>2, QueueGrows DEF NotQueued
  <1> QED
    BY <1>1, <1>2

LEMMA KeepWaits ==
    ASSUME Control, Places, Waits, Next PROVE Waits'
  <1> USE SlotFacts
  <1> USE DEF Control, TypeOK, HasJob, GoesBack, Waits, WorkerPCs, OwnerPCs,
              Goto, Wake, Sleepers, poolVars, agentVars, history
  <1>1. ASSUME NEW a \in Agents, RunPush(a) \/ (a \in Callers /\ Push(a))
        PROVE  Waits'
    <2>1. NotQueued => NotQueued'
      BY <1>1, KeepNotQueued
    <2> QED
      BY <1>1, <2>1 DEF RunPush, Push
  <1>2. ASSUME NEW a \in Agents, NotifyOne(a) \/ RunEnd(a) PROVE Waits'
    BY <1>2 DEF NotifyOne, WokenOne, RunEnd, NotQueued
  <1>3. ASSUME NEW w \in Slots,
               WorkerMoves(w) \/ WorkerBusy(w) \/ WorkerDrop(w)
        PROVE  Waits'
    BY <1>3
    DEF WorkerMoves, WorkerStop, WorkerSleep, WorkerWake, WorkerBusy,
        WorkerDrop, NotQueued
  <1>4. CASE Work \/ \E w \in Slots : WorkerPop(w)
    <2>1. NotQueued => NotQueued'
      BY <1>4, KeepNotQueued
    <2> QED
      BY <1>4, <2>1 DEF Work, WorkerPop, Take
  <1>5. CASE WorkNone \/ BusyAgain \/ AllStill
    BY <1>5 DEF WorkNone, BusyAgain, AllStill, NotQueued
  <1>6. CASE LoadSize \/ SizeZero \/ SizeAgain
    BY <1>6 DEF LoadSize, SizeRead, SizeZero, SizeAgain, NotQueued
  <1>7. CASE NobodyBusy
    <2>1. \A a \in Agents : job[a] = None
      BY <1>7, NobodyRuns DEF NobodyBusy
    <2>2. NotQueued => awaited \subseteq done
      BY <2>1, AllEnded
    <2> QED
      BY <1>7, <2>2 DEF NobodyBusy
  <1>8. CASE OwnerCalls \/ NotifyAll \/ Run
    BY <1>8
    DEF OwnerCalls, WaitWork, Grow, WaitSleep, Return, NotifyAll, Run, NotQueued
  <1>9. CASE Shrink
    BY <1>9 DEF Shrink, Threads, Staying, NotQueued
  <1>10. CASE Join
    <2>1. CASE target = 0
      <3>1. \A w \in Slots : pc[w] = "off"
        BY <1>10, <2>1 DEF Join, Surplus, Threads, Slots
      <3>2. \A a \in Agents : job[a] = None
        BY <1>10, <3>1 DEF Join
      <3>3. 0 \in Slots /\ 0 < size
        BY <1>10, <2>1, PoolAssumption DEF Join, Threads, Slots
      <3>4. awaited \subseteq done
        BY <1>10, <3>1, <3>2, <3>3, AllEnded DEF Join
      <3> QED
        BY <1>10, <3>4 DEF Join
    <2>2. CASE target # 0
      BY <1>10, <2>2 DEF Join, Threads
    <2> QED
      BY <2>1, <2>2
  <1>11. CASE InitThreads
    BY <1>11 DEF InitThreads, NotQueued
  <1> QED
    BY <1>1, <1>2, <1>3, <1>4, <1>5, <1>6, <1>7, <1>8, <1>9, <1>10, <1>11
    DEF Next, Running, Worker, Waiting, WorkerMoves, OwnerCalls

-----------------------------------------------------------------------------
(* What wait_sleep is told of the queue.                                   *)

\* A multiple of Block that is closer to zero than Block is zero.
LEMMA Multiple ==
    ASSUME NEW k \in Int, NEW n \in Int, n = Block * k, -Block < n, n < Block
    PROVE  n = 0
  <1> DEFINE b == Block
  <1>1. b \in Nat /\ b > 0 /\ n = b * k /\ -b < n /\ n < b
    BY PoolAssumption
  <1> HIDE DEF b
  <1>2. CASE k >= 1
    <2>1. b * (k - 1) >= 0 /\ b * (k - 1) = b * k - b
      BY <1>1, <1>2
    <2> QED
      BY <1>1, <2>1
  <1>3. CASE k <= -1
    <2>1. b * (-1 - k) >= 0 /\ b * (-1 - k) = -b - b * k
      BY <1>1, <1>3
    <2> QED
      BY <1>1, <2>1
  <1>4. CASE k = 0
    BY <1>1, <1>4
  <1> QED
    BY <1>2, <1>3, <1>4

\* In the course of one reading fewer than Block tasks: those that are queued when
\* the front is loaded, and those pushed before the reading ends.
FewQueued ==
    seen["frontPlace"] # None =>
        front + Len(tasks) - seen["frontPlace"] < Block

\* Of so few tasks only those at one place have the same place in a node: a
\* reading of zero has seen the front at, or past, the back it saw.
LEMMA ZeroSeen ==
    ASSUME Control, Loaded, FewQueued, SizeRead, SizeSeen = 0
    PROVE  seen["backPlace"] <= front
  <1>1. /\ seen["backNode"] \in Nat /\ seen["backPlace"] \in Nat
        /\ seen["frontNode"] \in Nat /\ seen["frontPlace"] \in Nat
        /\ seen["frontPlace"] <= front /\ front \in Nat /\ Len(tasks) \in Nat
    BY PoolAssumption DEF SizeRead, Loads, Control, TypeOK, SizeTypeOK, Loaded
  <1>2. PICK bn \in Nat, bp \in Nat, fn \in Nat, fp \in Nat :
            /\ bn = seen["backNode"] /\ bp = seen["backPlace"]
            /\ fn = seen["frontNode"] /\ fp = seen["frontPlace"]
    BY <1>1
  <1>3. PICK b \in Nat, p \in Nat, q \in Nat, f \in Nat, r \in Nat :
            /\ b = Block /\ b > 0
            /\ p = bp \div b /\ q = bp % b /\ q < b /\ bp = b * p + q
            /\ f = fp \div b /\ r = fp % b /\ r < b /\ fp = b * f + r
    <2> Block \in Nat /\ Block > 0
      BY PoolAssumption
    <2> /\ bp \div Block \in Nat /\ bp % Block \in Nat
        /\ fp \div Block \in Nat /\ fp % Block \in Nat
      BY DivMod
    <2> WITNESS Block \in Nat, bp \div Block \in Nat, bp % Block \in Nat,
                fp \div Block \in Nat, fp % Block \in Nat
    <2> QED
      BY DivMod
  <1>4. b * (bn - fn - 1) + q + (b - r) = 0
    BY <1>2, <1>3 DEF SizeSeen
  <1>5. r - q = b * (bn - fn)
    BY <1>3, <1>4
  <1>6. r - q = 0
    <2>1. PICK n \in Int, k \in Int :
              n = r - q /\ n = Block * k /\ -Block < n /\ n < Block
      BY <1>3, <1>5
    <2> QED
      BY <2>1, Multiple
  <1>7. bp - fp = b * (p - f)
    BY <1>3, <1>6
  <1>8. bp < fp + b
    <2>1. seen["frontPlace"] # None /\ seen["backPlace"] # None
      BY DEF SizeRead, Loads
    <2>2. bp <= front + Len(tasks)
      BY <1>2, <2>1 DEF Loaded
    <2>3. front + Len(tasks) - fp < b
      BY <1>2, <1>3, <2>1 DEF FewQueued
    <2> QED
      BY <1>1, <2>2, <2>3
  <1>9. CASE bp <= fp
    BY <1>1, <1>2, <1>9
  <1>10. CASE bp > fp
    <2>1. PICK n \in Int, k \in Int :
              n = bp - fp /\ n = b * k
      BY <1>7
    <2>2. n = Block * k /\ -Block < n /\ n < Block
      BY <1>3, <1>8, <1>10, <2>1
    <2> QED
      BY <1>10, <2>1, <2>2, Multiple
  <1> QED
    BY <1>9, <1>10

LEMMA KeepLoaded ==
    ASSUME Control, Places, Loaded, Next PROVE Loaded'
  <1> USE SlotFacts, PoolAssumption
  <1>0. /\ tasks \in Seq(Tasks) /\ Len(tasks) \in Nat /\ front \in Nat
        /\ seen \in [Loads -> Nat \cup {None}] /\ Owner \notin Slots
        /\ {"backPlace", "frontPlace"} \subseteq Loads
    BY DEF Control, TypeOK, SizeTypeOK, Loads
  <1>1. CASE UNCHANGED <<tasks, front, seen, awaited>>
             /\ (pc'[Owner] = "size" <=> pc[Owner] = "size")
    BY <1>1 DEF Loaded
  <1>2. CASE LoadSize
    <2>1. PICK x \in Loads :
              seen[x] = None /\ seen' = [seen EXCEPT ![x] = Now(x)]
      BY <1>2 DEF LoadSize
    <2>2. UNCHANGED <<tasks, front, awaited, pc>> /\ pc[Owner] = "size"
      BY <1>2 DEF LoadSize, poolVars, agentVars, history
    <2>3. CASE x = "backPlace"
      <3>1. /\ seen'["backPlace"] = front + Len(tasks)
            /\ seen'["frontPlace"] = seen["frontPlace"]
        BY <1>0, <2>1, <2>3 DEF Now
      <3> QED
        BY <1>0, <2>2, <3>1 DEF Loaded
    <2>4. CASE x = "frontPlace"
      <3>1. /\ seen'["frontPlace"] = front
            /\ seen'["backPlace"] = seen["backPlace"]
        BY <1>0, <2>1, <2>4 DEF Now
      <3> QED
        BY <1>0, <2>2, <3>1 DEF Loaded
    <2>5. CASE x \notin {"backPlace", "frontPlace"}
      <3>1. /\ seen'["frontPlace"] = seen["frontPlace"]
            /\ seen'["backPlace"] = seen["backPlace"]
        BY <1>0, <2>1, <2>5
      <3> QED
        BY <1>0, <2>2, <3>1 DEF Loaded
    <2> QED
      BY <2>3, <2>4, <2>5
  <1>3. CASE SizeZero \/ SizeAgain
    <2>1. seen' = Unseen
      BY <1>3 DEF SizeZero, SizeAgain, SizeRead
    <2> QED
      BY <1>0, <2>1 DEF Unseen, Loaded
  <1>4. CASE seen = Unseen /\ seen' = seen
    BY <1>0, <1>4 DEF Unseen, Loaded
  <1>5. ASSUME NEW a \in Agents, RunPush(a) \/ (a \in Callers /\ Push(a))
        PROVE  Loaded'
    <2>1. seen' = seen /\ Len(tasks') \in Nat /\ Len(tasks') = Len(tasks) + 1
      <3>1. PICK t \in Tasks : tasks' = tasks \o <<t>>
        BY <1>5 DEF RunPush, Push, Roots, Emplace, Control, TypeOK
      <3> QED
        BY <1>0, <1>5, <3>1 DEF RunPush, Push
    <2>2. pc'[Owner] = "size" => pc[Owner] = "size"
      BY <1>5 DEF RunPush, Push, Goto, Control, TypeOK
    <2>3. /\ awaited' = awaited /\ front' = front
          /\ \A i \in 1 .. Len(tasks') :
                 \/ i \in 1 .. Len(tasks) /\ tasks'[i] = tasks[i]
                 \/ tasks'[i] \notin awaited
      BY <1>5, QueueGrows
    <2>4. pc[Owner] = "size" => pc'[Owner] = "size"
      BY <1>5 DEF RunPush, Push, Goto, Control, TypeOK
    <2> QED
      BY <1>0, <2>1, <2>2, <2>3, <2>4 DEF Loaded
  <1>6. CASE Work \/ \E w \in Slots : WorkerPop(w)
    <2>1. seen' = seen /\ (pc'[Owner] = "size" <=> pc[Owner] = "size")
      BY <1>6 DEF Work, WorkerPop, Take, Goto, Control, TypeOK
    <2>2. /\ awaited' = awaited /\ front' = front + 1
          /\ Len(tasks') = Len(tasks) - 1
          /\ \A i \in 1 .. Len(tasks') :
                 i + 1 \in 1 .. Len(tasks) /\ tasks'[i] = tasks[i + 1]
      BY <1>6, QueueShrinks
    <2>3. \A b \in Nat :
              (\A i \in 1 .. Len(tasks) : tasks[i] \in awaited => front + i <= b)
              => (\A i \in 1 .. Len(tasks') :
                      tasks'[i] \in awaited => front + 1 + i <= b)
      <3> SUFFICES ASSUME NEW b \in Nat,
                          \A i \in 1 .. Len(tasks) :
                              tasks[i] \in awaited => front + i <= b,
                          NEW i \in 1 .. Len(tasks'), tasks'[i] \in awaited
                   PROVE  front + 1 + i <= b
        OBVIOUS
      <3>1. PICK j \in 1 .. Len(tasks) : j = i + 1 /\ tasks'[i] = tasks[j]
        BY <2>2
      <3>2. front + j <= b
        BY <3>1
      <3> QED
        BY <1>0, <3>1, <3>2
    <2>4. /\ seen["backPlace"] \in Nat \cup {None}
          /\ seen["frontPlace"] \in Nat \cup {None}
      BY <1>0
    <2>5. seen["frontPlace"] # None => seen["frontPlace"] <= front + 1
      BY <1>0, <2>4 DEF Loaded
    <2>6. seen["backPlace"] # None =>
              seen["backPlace"] <= front + 1 + Len(tasks')
      BY <1>0, <2>2, <2>4 DEF Loaded
    <2>7. seen["backPlace"] # None =>
              \A i \in 1 .. Len(tasks') :
                  tasks'[i] \in awaited => front + 1 + i <= seen["backPlace"]
      BY <2>3, <2>4 DEF Loaded
    <2> QED
      BY <2>1, <2>2, <2>5, <2>6, <2>7 DEF Loaded
  <1>7. ASSUME NEW a \in Agents, NotifyOne(a) \/ RunEnd(a), a # Owner
        PROVE  UNCHANGED <<tasks, front, seen, awaited>>
               /\ (pc'[Owner] = "size" <=> pc[Owner] = "size")
    BY <1>7 DEF NotifyOne, RunEnd, WokenOne, Sleepers, Wake, Goto, Control,
                TypeOK, poolVars, history
  <1>8. ASSUME NEW w \in Slots,
               WorkerMoves(w) \/ WorkerBusy(w) \/ WorkerDrop(w)
        PROVE  UNCHANGED <<tasks, front, seen, awaited>>
               /\ (pc'[Owner] = "size" <=> pc[Owner] = "size")
    BY <1>8
    DEF WorkerMoves, WorkerStop, WorkerSleep, WorkerWake, WorkerBusy,
        WorkerDrop, Goto, Control, TypeOK, poolVars, history
  <1>9. CASE NotifyOne(Owner) \/ RunEnd(Owner) \/ OwnerCalls \/ Run
             \/ WorkNone \/ NobodyBusy \/ BusyAgain \/ AllStill
             \/ Shrink \/ Join \/ NotifyAll \/ InitThreads
    <2>1. pc[Owner] # "size" /\ seen' = seen
      BY <1>9
      DEF NotifyOne, RunEnd, OwnerCalls, WaitWork, Grow, WaitSleep, Return, Run,
          WorkNone, NobodyBusy, BusyAgain, AllStill, Shrink, Join, NotifyAll,
          InitThreads
    <2> QED
      BY <1>4, <2>1 DEF Loaded
  <1> QED
    BY <1>1, <1>2, <1>3, <1>5, <1>6, <1>7, <1>8, <1>9
    DEF Next, Running, Worker, Waiting, WorkerMoves, OwnerCalls

LEMMA KeepStill ==
    ASSUME Control, Places, Waits, Loaded, FewQueued, Still, Next
    PROVE  Still'
  <1> USE SlotFacts
  <1> USE DEF Control, TypeOK, HasJob, GoesBack, Still, WorkerPCs, OwnerPCs,
              Goto, Wake, Sleepers, poolVars, agentVars, history
  <1>1. ASSUME NEW a \in Agents, RunPush(a) \/ (a \in Callers /\ Push(a))
        PROVE  Still'
    <2>1. NotQueued => NotQueued'
      BY <1>1, KeepNotQueued
    <2> QED
      BY <1>1, <2>1 DEF RunPush, Push
  <1>2. ASSUME NEW a \in Agents, NotifyOne(a) \/ RunEnd(a) PROVE Still'
    BY <1>2 DEF NotifyOne, WokenOne, RunEnd, NotQueued
  <1>3. ASSUME NEW w \in Slots,
               WorkerMoves(w) \/ WorkerBusy(w) \/ WorkerDrop(w)
        PROVE  Still'
    BY <1>3
    DEF WorkerMoves, WorkerStop, WorkerSleep, WorkerWake, WorkerBusy,
        WorkerDrop, NotQueued
  <1>4. CASE Work \/ \E w \in Slots : WorkerPop(w)
    <2>1. NotQueued => NotQueued'
      BY <1>4, KeepNotQueued
    <2> QED
      BY <1>4, <2>1 DEF Work, WorkerPop, Take
  <1>5. CASE SizeZero
    <2>1. seen["backPlace"] # None /\ seen["backPlace"] <= front
      BY <1>5, ZeroSeen DEF SizeZero, SizeRead, Loads
    <2>2. /\ front \in Nat /\ seen["backPlace"] \in Nat \cup {None}
          /\ Len(tasks) \in Nat
      BY DEF Loads, SizeTypeOK
    <2>3. NotQueued
      BY <2>1, <2>2, PoolAssumption DEF Loaded, NotQueued
    <2> QED
      BY <1>5, <2>3 DEF SizeZero, NotQueued
  <1>6. CASE AllStill
    <2>1. \A a \in Agents : job[a] = None
      BY <1>6, NobodyRuns DEF AllStill
    <2>2. NotQueued => awaited \subseteq done
      BY <2>1, AllEnded
    <2> QED
      BY <1>6, <2>2 DEF AllStill
  <1>7. CASE LoadSize \/ SizeAgain \/ WorkNone \/ NobodyBusy \/ BusyAgain
    BY <1>7
    DEF LoadSize, SizeRead, SizeAgain, WorkNone, NobodyBusy, BusyAgain
  <1>8. CASE OwnerCalls \/ NotifyAll \/ Run \/ Shrink \/ Join \/ InitThreads
    BY <1>8
    DEF OwnerCalls, WaitWork, Grow, WaitSleep, Return, NotifyAll, Run, Shrink,
        Join, InitThreads
  <1> QED
    BY <1>1, <1>2, <1>3, <1>4, <1>5, <1>6, <1>7, <1>8
    DEF Next, Running, Worker, Waiting, WorkerMoves, OwnerCalls

-----------------------------------------------------------------------------
(* The theorems.                                                           *)

LEMMA StartsControlled == Init => Control
  <1> SUFFICES ASSUME Init PROVE Control
    OBVIOUS
  <1> USE SlotFacts, PoolAssumption DEF Init
  <1>1. TypeOK
    BY DEF TypeOK, SizeTypeOK, Unseen, WorkerPCs, OwnerPCs
  <1>2. BusyExact
    <2>1. Counted = {}
      BY DEF Counted
    <2> QED
      BY <2>1, FS_EmptySet DEF BusyExact
  <1>3. HasJob /\ GoesBack /\ Popping /\ Threads
    BY DEF HasJob, GoesBack, Popping, Threads, Staying, Slots
  <1> QED
    BY <1>1, <1>2, <1>3 DEF Control

LEMMA StartsPlaced == Init => Places
  BY SlotFacts DEF Init, Places, QueueOnce, QueueFresh, JobOnce, Kept

LEMMA KeepControl == ASSUME Control, [Next]_vars PROVE Control'
  <1>1. CASE Next
    BY <1>1, KeepType, KeepCount, KeepJob, KeepPopping, KeepThreads DEF Control
  <1>2. CASE UNCHANGED vars
    BY <1>2
    DEF vars, poolVars, agentVars, history, Control, TypeOK, SizeTypeOK,
        BusyExact, Counted,
        HasJob, GoesBack, Popping, Threads, Staying
  <1> QED
    BY <1>1, <1>2

LEMMA KeepsPlaces == ASSUME Control, Places, [Next]_vars PROVE Places'
  <1>1. CASE UNCHANGED vars
    BY <1>1
    DEF vars, poolVars, agentVars, history, Places, QueueOnce, QueueFresh,
        JobOnce, Kept
  <1> QED
    BY <1>1, KeepPlaces

\* The variables of the pool and of its threads keep their types, and
\* _threads_busy (148) is exactly the number of workers between the ++ of line
\* 341 and the -- of line 347.
THEOREM PoolTyped == Spec => [](TypeOK /\ BusyExact)
  <1>1. Init => Control
    BY StartsControlled
  <1>2. Control /\ [Next]_vars => Control'
    BY KeepControl
  <1>3. Control => TypeOK /\ BusyExact
    BY DEF Control
  <1> QED
    BY <1>1, <1>2, <1>3, PTL DEF Spec

\* No task is lost and none is in two places: every task pushed (220-236) is in
\* the queue once, or run by one thread, or has ended.
THEOREM PlacesCorrect == Spec => []Places
  <1>1. Init => Control /\ Places
    BY StartsControlled, StartsPlaced
  <1>2. Control /\ Places /\ [Next]_vars => (Control /\ Places)'
    BY KeepControl, KeepsPlaces
  <1> QED
    BY <1>1, <1>2, PTL DEF Spec

LEMMA KeepInv == ASSUME PoolInv, [Next]_vars PROVE PoolInv'
  <1>1. CASE UNCHANGED vars
    BY <1>1, KeepControl, KeepsPlaces
    DEF PoolInv, vars, poolVars, agentVars, history, Waits, Loaded, NotQueued
  <1> QED
    BY <1>1, KeepControl, KeepsPlaces, KeepWaits, KeepLoaded DEF PoolInv

LEMMA InvHolds == Spec => []PoolInv
  <1>1. Init => PoolInv
    BY StartsControlled, StartsPlaced, SlotFacts
    DEF PoolInv, Waits, Loaded, Unseen, Loads, Init
  <1>2. PoolInv /\ [Next]_vars => PoolInv'
    BY KeepInv
  <1> QED
    BY <1>1, <1>2, PTL DEF Spec

\* Whoever calls wait_work, or shrinks the pool to nothing, finds everything that
\* was pushed before the call done (206-212, 291-306).
THEOREM WaitedDoneCorrect == Spec => []WaitedDone
  <1>1. PoolInv => WaitedDone
    BY DEF PoolInv, Waits, WaitedDone
  <1> QED
    BY <1>1, InvHolds, PTL

LEMMA StillHolds == Spec /\ []FewQueued => []Still
  <1>1. Init => Still
    BY SlotFacts DEF Init, Still
  <1>2. PoolInv /\ FewQueued /\ Still /\ [Next]_vars => Still'
    <2>1. CASE UNCHANGED vars
      BY <2>1 DEF vars, poolVars, agentVars, history, Still, NotQueued
    <2> QED
      BY <2>1, KeepStill DEF PoolInv
  <1> QED
    BY <1>1, <1>2, InvHolds, PTL DEF Spec

\* So does whoever calls wait_sleep or run (214-218, 249-289), although the size
\* of the queue is read in pieces: as long as fewer tasks go through the queue
\* during a reading than a node of the deque holds.
THEOREM RunBlocksCorrect == Spec /\ []FewQueued => []RunBlocks
  <1>1. Still => RunBlocks
    BY DEF Still, RunBlocks
  <1> QED
    BY <1>1, StillHolds, PTL

-----------------------------------------------------------------------------
(* The pool implements TaskBag.                                            *)

\* An agent that has no task is given one.
LEMMA JobGiven ==
    ASSUME Control, NEW a \in Agents, job[a] = None, NEW t \in Tasks,
           job' = [job EXCEPT ![a] = t]
    PROVE  InHand' = InHand \cup {t}
  BY SlotFacts DEF InHand, Control, TypeOK

LEMMA JobEnded ==
    ASSUME Control, Places, NEW a \in Agents, job[a] # None,
           job' = [job EXCEPT ![a] = None]
    PROVE  InHand' = InHand \ {job[a]} /\ job[a] \in InHand
  BY DEF InHand, Control, TypeOK, Places, JobOnce

LEMMA BagTake ==
    ASSUME Control, Places, NEW a \in Agents, NEW back, job[a] = None,
           tasks # <<>>, Take(a, back), UNCHANGED history
    PROVE  Bag!Next
  <1>1. /\ tasks[1] \in Tasks /\ 1 \in 1 .. Len(tasks)
        /\ job' = [job EXCEPT ![a] = tasks[1]]
    BY Fronted DEF Take, Control, TypeOK
  <1>2. InHand' = InHand \cup {tasks[1]}
    BY <1>1, JobGiven
  <1>3. tasks[1] \in pushed \ (InHand \cup done)
    BY <1>1 DEF Places, QueueFresh, InHand
  <1>4. Bag!Start(tasks[1])
    BY <1>2, <1>3 DEF Bag!Start, history
  <1> QED
    BY <1>1, <1>4 DEF Bag!Next

\* The pushes of one task.
LEMMA BagPushOne ==
    ASSUME Control, NEW t \in Tasks \ pushed, Emplace(<<t>>),
           UNCHANGED <<job, done, awaited>>
    PROVE  Bag!Next
  <1>1. {<<t>>[i] : i \in DOMAIN <<t>>} = {t}
    OBVIOUS
  <1>2. pushed' = pushed \cup {t}
    BY <1>1 DEF Emplace
  <1>3. InHand' = InHand \cup {}
    BY DEF InHand
  <1>4. Bag!Push({t}, {})
    BY <1>2, <1>3 DEF Bag!Push
  <1> QED
    BY <1>4 DEF Bag!Next

LEMMA BagRun == ASSUME Control, Places, Waits, Run PROVE Bag!Next
  <1>1. PICK q \in Seq(Tasks), t \in Tasks : RunBatch(q, t)
    BY RunPicks
  <1> DEFINE S == {q[i] : i \in 1 .. Len(q)} \cup {t}
  <1>2. S \subseteq Tasks /\ S \cap pushed = {} /\ pushed' = pushed \cup S
    <2>1. pushed' = pushed \cup S /\ t \notin pushed
      BY <1>1 DEF RunBatch
    <2>2. ASSUME NEW i \in 1 .. Len(q) PROVE q[i] \in Tasks \ pushed
      BY <1>1 DEF RunBatch
    <2> QED
      BY <2>1, <2>2
  <1>3. InHand' = InHand \cup {t}
    <2>1. job[Owner] = None
      BY SlotFacts DEF Run, Control, HasJob
    <2> QED
      BY <1>1, <2>1, SlotFacts, JobGiven DEF RunBatch
  <1>4. {t} \subseteq S /\ done' = done /\ awaited' = awaited \cup pushed'
    BY <1>2 DEF Run, Places
  <1> HIDE DEF S
  <1>5. Bag!Push(S, {t})
    BY <1>2, <1>3, <1>4 DEF Bag!Push
  <1> QED
    BY <1>2, <1>4, <1>5 DEF Bag!Next

LEMMA BagStep ==
    ASSUME PoolInv, Still, [Next]_vars
    PROVE  [Bag!Next]_(Bag!bagVars)
  <1> USE SlotFacts DEF PoolInv
  <1>1. CASE UNCHANGED <<job, pushed, done>> /\ awaited' = awaited
    BY <1>1 DEF InHand, Bag!bagVars
  <1>2. CASE OwnerCalls \/ Shrink
    <2>1. InHand' = InHand /\ UNCHANGED <<pushed, done>>
      BY <1>2
      DEF OwnerCalls, WaitWork, Grow, WaitSleep, Return, Shrink, InHand,
          poolVars, history
    <2>2. CASE Return
      BY <2>1, <2>2 DEF Return, Waits, Still, Bag!Next, Bag!Return
    <2>3. CASE ~Return
      <3>1. awaited = {} /\ awaited' \in {pushed, {}}
        BY <1>2, <2>3 DEF OwnerCalls, WaitWork, Grow, WaitSleep, Shrink, Waits
      <3> QED
        BY <2>1, <3>1 DEF Bag!Next, Bag!Await, Bag!bagVars
    <2> QED
      BY <2>2, <2>3
  <1>3. CASE \E a \in Agents : RunPush(a) \/ (a \in Callers /\ Push(a))
    <2>1. PICK t \in Tasks \ pushed : Emplace(<<t>>)
      BY <1>3 DEF RunPush, Push, Roots, Control, TypeOK
    <2>2. UNCHANGED <<job, done, awaited>>
      BY <1>3 DEF RunPush, Push
    <2> QED
      BY <2>1, <2>2, BagPushOne
  <1>4. ASSUME NEW a \in Agents, RunEnd(a) PROVE Bag!Next
    <2>1. /\ job[a] # None /\ job[a] \in Tasks
          /\ job' = [job EXCEPT ![a] = None] /\ done' = done \cup {job[a]}
          /\ UNCHANGED <<pushed, awaited>>
      BY <1>4 DEF RunEnd, Control, HasJob, TypeOK
    <2>2. Bag!End(job[a])
      BY <2>1, JobEnded DEF Bag!End
    <2> QED
      BY <2>1, <2>2 DEF Bag!Next
  <1>5. CASE Work \/ \E w \in Slots : WorkerPop(w)
    <2>1. /\ tasks # <<>> /\ UNCHANGED history
          /\ \E a \in Agents, back \in {"work", "drop"} :
                 job[a] = None /\ Take(a, back)
      BY <1>5 DEF Work, WorkerPop, Control, Popping, HasJob, OwnerPCs, TypeOK
    <2> QED
      BY <2>1, BagTake
  <1>6. CASE Run
    BY <1>6, BagRun
  <1> QED
    BY <1>1, <1>2, <1>3, <1>4, <1>5, <1>6
    DEF Next, Running, NotifyOne, Worker, WorkerStop, WorkerSleep, WorkerBusy,
        WorkerDrop, WorkerWake, Waiting, WorkNone, NobodyBusy, InitThreads,
        Join, agentVars, LoadSize,
        SizeRead, SizeZero, SizeAgain, BusyAgain, AllStill, NotifyAll, OwnerCalls, history,
        vars, poolVars, agentVars

\* Under the same condition the pool implements TaskBag: each task is run once,
\* by one thread, and calls that wait return after what they wait for.
THEOREM BagImplemented == Spec /\ []FewQueued => ImplementsBag
  <1>1. Init => Bag!Init
    BY DEF Init, InHand, Bag!Init
  <1>2. PoolInv /\ Still /\ [Next]_vars => [Bag!Next]_(Bag!bagVars)
    BY BagStep
  <1> QED
    BY <1>1, <1>2, InvHolds, StillHolds, PTL DEF Spec, Bag!Spec, ImplementsBag
=============================================================================
