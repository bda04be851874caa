------------------------- MODULE CacheHistoryProofs -------------------------
(* What is left in the queue when all is done, for any number of threads,  *)
(* chunks and slots: each sync that ends starts the next.                  *)
EXTENDS CacheHistory, CacheCountProofs

-----------------------------------------------------------------------------
(* The inductive invariant.  A chunk that waits and has no excuse is not   *)
(* busy, so that whoever takes it from the queue starts its sync; and      *)
(* somebody will take it: it is among the entries that a worker's pass has *)
(* still to try, or a sync is in flight whose end begins another pass.     *)

\* A chunk that must not be left: it waits, and no pass may skip it.
Waits(c) == "to_sync" \in bits[c] /\ c \notin excused

\* c is among the first n of the queue.
InFirst(q, n, c) == \E i \in 1 .. Len(q) : i <= n /\ q[i] = c

\* The worker is in its pass over the queue (657-688), with n entries left to try.
PassSteps == {"try", "pop", "check", "put", "inc"}
Passing(s) == spc[s] \in PassSteps
LeftToTry(s) == squeue[s] - stry[s]
InTurn(s, c) == Passing(s) /\ InFirst(to_sync, LeftToTry(s), c)

\* A sync is queued or running, or its worker has not yet read the queue (627).
Signals(s) == spc[s] \in {"sync", "count", "size"}
Coming == (\E c \in Ids : pending_sync[c] > 0) \/ \E s \in Syncers : Signals(s)

\* A worker is about to start the sync of c (673).
Starting(c) == \E s \in Syncers : spc[s] = "check" /\ schunk[s] = c

Due(c) ==
    \/ Starting(c)
    \/ InQueue(to_sync, c) /\ (Coming \/ \E s \in Syncers : InTurn(s, c))

\* A pass begins with the first try.
FreshTries == \A s \in Syncers : Signals(s) \/ spc[s] = "idle" => stry[s] = 0

LeftInv == \A c \in Ids : Waits(c) => ~Has(c, FetchBusy) /\ ~Purging /\ Due(c)

\* What is known already of the states before a step.
Known == ReuseInRam /\ Shape /\ SyncShape /\ SafeInv /\ SyncOnce /\ SyncCountInv
             /\ squeue \in [Syncers -> Nat] /\ stry \in [Syncers -> Nat]

-----------------------------------------------------------------------------
(* Positions in the queue.                                                 *)

LEMMA FirstAppend ==
  ASSUME NEW q \in Seq(Ids), NEW x \in Ids, NEW n \in Int, NEW c, InFirst(q, n, c)
  PROVE  InFirst(Append(q, x), n, c)
<1>1. /\ Len(q) \in Nat /\ Len(Append(q, x)) = Len(q) + 1
      /\ \A i \in 1 .. Len(q) : Append(q, x)[i] = q[i]
  BY AppendProperties, LenProperties
<1> QED BY <1>1 DEF InFirst

LEMMA FirstTail ==
  ASSUME NEW q \in Seq(Ids), q # <<>>, NEW n \in Int, NEW c, InFirst(q, n, c), Head(q) # c
  PROVE  InFirst(Tail(q), n - 1, c)
<1>1. /\ Head(q) = q[1] /\ Len(q) \in Nat /\ Len(Tail(q)) = Len(q) - 1
      /\ \A i \in 1 .. Len(Tail(q)) : Tail(q)[i] = q[i + 1]
  BY HeadTailProperties, LenProperties
<1>2. PICK i \in 1 .. Len(q) : i <= n /\ q[i] = c
  BY DEF InFirst
<1>3. i - 1 \in 1 .. Len(Tail(q)) /\ i - 1 <= n - 1 /\ Tail(q)[i - 1] = c
  BY <1>1, <1>2
<1> QED BY <1>3 DEF InFirst

LEMMA FirstMore ==
  ASSUME NEW q \in Seq(Ids), NEW n \in Int, NEW m \in Int, n <= m, NEW c, InFirst(q, n, c)
  PROVE  InFirst(q, m, c)
<1>1. Len(q) \in Nat
  BY LenProperties
<1> QED BY <1>1 DEF InFirst

\* A pass over the whole queue reaches every entry.
LEMMA FirstAll ==
  ASSUME NEW q \in Seq(Ids), NEW c, InQueue(q, c)
  PROVE  InFirst(q, Len(q) - 0, c) /\ q # <<>>
<1>1. Len(q) \in Nat
  BY LenProperties
<1> QED BY <1>1 DEF InFirst, InQueue

\* A worker with an entry left to try has tries left.
LEMMA FirstSome ==
  ASSUME NEW q \in Seq(Ids), NEW n \in Int, NEW c, InFirst(q, n, c)
  PROVE  n > 0 /\ InQueue(q, c)
<1>1. Len(q) \in Nat
  BY LenProperties
<1> QED BY <1>1 DEF InFirst, InQueue

-----------------------------------------------------------------------------
(* A sync in flight, counted or not, is followed by another pass.          *)

\* The limit of syncs (657) keeps a worker from going on only if another will.
LEMMA LimitMeansComing ==
  ASSUME Known, num_syncing >= SyncLimit PROVE Coming
<1> USE Constants DEF Known
<1>1. /\ Cardinality(InSync) \in Nat /\ Cardinality(Counts) \in Nat
      /\ Cardinality(Incs) \in Nat /\ Cardinality(RsCounts) \in Nat
  BY SyncCountNat
<1>2. Cardinality(InSync) + Cardinality(Counts) > 0
  BY <1>1, SizesAssumption DEF SyncCountInv
<1>3. InSync # {} \/ Counts # {}
  BY <1>1, <1>2, FS_EmptySet
<1>4. CASE Counts # {}
  BY <1>4 DEF Counts, At, Coming, Signals
<1>5. CASE InSync # {}
  <2>1. PICK c \in Ids : "syncing" \in bits[c]
    BY <1>5 DEF InSync
  <2>2. pending_sync[c] = 1 \/ \E s \in Syncers : Syncing(s, c)
    BY <2>1 DEF SyncOnce
  <2> QED BY <2>2 DEF Coming, Signals, Syncing
<1> QED BY <1>3, <1>4, <1>5

LEMMA ClientComing ==
  ASSUME Known, NEW t \in Clients, ClientCalls(t) \/ ClientRuns(t), Coming PROVE Coming'
<1> USE DEF Known, SyncShape
<1>1. UNCHANGED spc
  BY ClientSyncs DEF syncer
<1>2. \A c \in Ids : pending_sync[c] > 0 => pending_sync'[c] > 0
  <2>1. ASSUME NEW d \in Ids, ReleaseSyncStart(t, d), NEW c \in Ids, pending_sync[c] > 0
        PROVE  pending_sync'[c] > 0
    BY <2>1 DEF ReleaseSyncStart
  <2> QED BY <2>1, ClientSyncs
<1> QED BY <1>1, <1>2 DEF Coming, Signals

LEMMA SyncerComing ==
  ASSUME Known, NEW s \in Syncers, SyncerStep(s), ~SignalSize(s), Coming PROVE Coming'
<1> USE DEF Known, SyncShape, SyncerAt
<1>1. CASE TryStart(s)
  <2>1. PICK c \in Ids : c = schunk[s]
    BY <1>1 DEF TryStart
  <2>2. pending_sync'[c] > 0
    BY <1>1, <2>1 DEF TryStart
  <2> QED BY <2>2 DEF Coming
<1>2. CASE SyncDone(s) \/ \E c \in Ids : SyncTake(s, c)
  <2>1. Signals(s)'
    BY <1>2 DEF SyncDone, SyncTake, Signals
  <2> QED BY <2>1 DEF Coming
<1>3. CASE Count(s, "count", "size", -1)
  <2>1. Signals(s)'
    BY <1>3 DEF Count, Signals
  <2> QED BY <2>1 DEF Coming
<1>4. ASSUME UNCHANGED pending_sync, ~Signals(s),
             \A u \in Syncers \ {s} : spc'[u] = spc[u]
      PROVE  Coming'
  BY <1>4 DEF Coming, Signals
<1>5. CASE PurgePop(s) \/ TryPop(s)
  BY <1>4, <1>5 DEF PurgePop, TryPop, PopOrRotate, Signals
<1>6. ASSUME NEW mask, NEW from \in {"purge_check", "check"}, NEW to,
             Busy(s, mask, from, to) \/ Stale(s, mask, from, to)
      PROVE  Coming'
  BY <1>4, <1>6 DEF Busy, Stale, Signals, syncs
<1>7. CASE PutBack(s, "purge_put", "purge") \/ PutBack(s, "put", "try")
  BY <1>4, <1>7 DEF PutBack, Signals
<1>8. CASE \/ PurgeEnd(s) \/ TryNext(s) \/ SignalEnd(s) \/ Count(s, "inc", "try", 1)
  BY <1>4, <1>8 DEF PurgeEnd, TryNext, SignalEnd, Count, Signals, syncs
<1> QED BY <1>1, <1>2, <1>3, <1>5, <1>6, <1>7, <1>8 DEF SyncerStep

-----------------------------------------------------------------------------
(* A chunk that waits is not busy until it is fetched again.               *)

\* No step but fetch's makes a chunk busy that waits and goes on waiting.
LEMMA StaysIdle ==
  ASSUME Known, Next, NEW c \in Ids, "to_sync" \in bits[c], "to_sync" \in bits'[c],
         ~Has(c, FetchBusy), ~Held(c)'
  PROVE  ~Has(c, FetchBusy)'
<1> USE Constants DEF Known, Shape
<1>0. bits'[c] \subseteq bits[c] => ~Has(c, FetchBusy)'
  BY DEF Has
<1>1. "caching" \in bits[c]
  BY DEF SafeInv, LoadWord
<1>2. ASSUME NEW d \in Ids, StartLoad(d), ~Has(d, {"caching"}) PROVE bits'[c] \subseteq bits[c]
  BY <1>1, <1>2 DEF StartLoad, Has
<1>3. ASSUME NEW t \in Clients, ClientCalls(t) \/ ClientRuns(t) PROVE ~Has(c, FetchBusy)'
  <2>1. ASSUME NEW d \in Ids, ReleaseSyncStart(t, d) PROVE bits'[c] \subseteq bits[c]
    BY <2>1 DEF ReleaseSyncStart, Has
  <2>2. ASSUME NEW d \in Ids, ReleaseSyncQueue(t, d) PROVE bits'[c] \subseteq bits[c]
    BY <2>2 DEF ReleaseSyncQueue, Has
  <2>3. ASSUME NEW d \in Ids, Release(t, d) PROVE bits'[c] \subseteq bits[c]
    BY <2>3 DEF Release, Unlocked
  <2>4. ASSUME FetchTake(t) PROVE bits'[c] \subseteq bits[c]
    <3>1. arg[t] \in Ids /\ low[arg[t]] # None
      BY <2>4 DEF FetchTake, Fetchable, Has, None, Slots
    <3>2. c # arg[t]
      BY <2>4, <3>1 DEF FetchTake, Held, Holds
    <3> QED BY <2>4, <3>1, <3>2 DEF FetchTake
  <2>5. ASSUME NEW d \in Ids, TakeDeleted(t, d) PROVE bits'[c] \subseteq bits[c]
    BY <2>5 DEF TakeDeleted
  <2>6. ASSUME CreateTake(t) PROVE bits'[c] \subseteq bits[c]
    BY <2>6 DEF CreateTake, word
  <2>7. ASSUME ReleaseDelMark(t) PROVE bits'[c] \subseteq bits[c]
    BY <2>7 DEF ReleaseDelMark
  <2>8. ASSUME NEW d \in Ids, Prefetch(t, d) PROVE bits'[c] \subseteq bits[c]
    BY <1>2, <2>8 DEF Prefetch, Has, LoadedOrLoading
  <2>9. ASSUME FetchLoad(t) PROVE bits'[c] \subseteq bits[c]
    BY <1>2, <2>9 DEF FetchLoad, Has, LoadedOrLoading
  <2>10. UNCHANGED word => bits'[c] \subseteq bits[c]
    BY DEF word
  <2>11. CASE ClientCalls(t)
    BY <1>0, <2>1, <2>2, <2>3, <2>8, <2>10, <2>11
    DEF ClientCalls, CreateCall, FetchCall, Write, ReleaseDelReset
  <2>12. CASE CreateStep(t)
    BY <1>0, <2>5, <2>6, <2>10, <2>12 DEF CreateStep, CreatePop, CreateNext
  <2>13. CASE ClientRuns(t) /\ ~CreateStep(t)
    BY <1>0, <2>4, <2>7, <2>9, <2>10, <2>13
    DEF ClientRuns, FetchNull, ReleaseSyncCount, ReleaseDelPush
  <2> QED BY <1>3, <2>11, <2>12, <2>13
<1>4. ASSUME NEW l \in Loaders, LoaderStep(l) PROVE ~Has(c, FetchBusy)'
  <2>1. ASSUME EvictMark(l) PROVE bits'[c] \subseteq bits[c]
    <3>1. lold[l] = c => ~MayEvict(lold[l])
      BY DEF MayEvict, Has, EvictBusy
    <3> QED BY <2>1, <3>1 DEF EvictMark
  <2>2. ASSUME EvictUndo(l) PROVE bits'[c] \subseteq bits[c]
    BY <2>2 DEF EvictUndo, Unlocked
  <2>3. ASSUME EvictUnmap(l) PROVE bits'[c] \subseteq bits[c]
    BY <2>3 DEF EvictUnmap, Unmapped, Unlocked
  <2>4. ASSUME LoadPublish(l) PROVE bits'[c] \subseteq bits[c]
    BY <1>1, <2>4 DEF LoadPublish
  <2>5. UNCHANGED word => bits'[c] \subseteq bits[c]
    BY DEF word
  <2> QED
    BY <1>0, <1>4, <2>1, <2>2, <2>3, <2>4, <2>5
    DEF LoaderStep, LoadTake, Scan, Look, Claim, EvictSwap, LoadData
<1>5. ASSUME NEW s \in Syncers, SyncerStep(s) PROVE ~Has(c, FetchBusy)'
  <2>1. ASSUME TryStart(s) PROVE bits'[c] \subseteq bits[c]
    BY <2>1 DEF TryStart, SyncStarted
  <2>2. ASSUME SyncDone(s) PROVE bits'[c] \subseteq bits[c]
    BY <2>2 DEF SyncDone, Synced
  <2>3. UNCHANGED word => bits'[c] \subseteq bits[c]
    BY DEF word
  <2>4. UNCHANGED word \/ SyncDone(s) \/ TryStart(s)
    BY <1>5
    DEF SyncerStep, SyncTake, Count, SignalSize, PurgePop, TryPop, PopOrRotate,
        PurgeEnd, Busy, PutBack, Stale, TryNext, SignalEnd
  <2> QED BY <1>0, <2>1, <2>2, <2>3, <2>4
<1> QED BY <1>3, <1>4, <1>5 DEF Next

-----------------------------------------------------------------------------
(* A chunk that is due stays due until its sync starts.                    *)

LEMMA Numbers ==
  ASSUME Known
  PROVE  to_sync \in Seq(Ids) /\ \A s \in Syncers : LeftToTry(s) \in Int
  BY DEF Known, SyncShape, LeftToTry

LEMMA ClientDue ==
  ASSUME Known, NEW t \in Clients, ClientCalls(t) \/ ClientRuns(t), NEW c \in Ids, Due(c)
  PROVE  Due(c)'
<1> USE DEF Known, SyncShape
<1>1. UNCHANGED <<spc, schunk, squeue, stry>>
  BY ClientSyncs DEF syncer
<1>2. Starting(c) => Starting(c)'
  BY <1>1 DEF Starting
<1>3. Coming => Coming'
  BY ClientComing
<1>4. CASE UNCHANGED to_sync
  BY <1>1, <1>2, <1>3, <1>4 DEF Due, InTurn, Passing, PassSteps, LeftToTry
<1>5. ASSUME NEW d \in Ids, to_sync' = Append(to_sync, d) PROVE Due(c)'
  <2>1. InQueue(to_sync, c) => InQueue(to_sync', c)
    BY <1>5, QueueAppend
  <2>2. ASSUME NEW s \in Syncers, InTurn(s, c) PROVE InTurn(s, c)'
    <3>1. InFirst(to_sync', LeftToTry(s), c)
      BY <1>5, <2>2, Numbers, FirstAppend DEF InTurn
    <3> QED BY <1>1, <2>2, <3>1 DEF InTurn, Passing, PassSteps, LeftToTry
  <2> QED BY <1>2, <1>3, <2>1, <2>2 DEF Due
<1>6. UNCHANGED to_sync \/ \E d \in Ids : to_sync' = Append(to_sync, d)
  BY DEF ClientCalls, ClientRuns, CreateFrame, FetchFrame, syncs, Write, Release,
         ReleaseSyncStart, ReleaseSyncQueue, ReleaseDelReset, ReleaseSyncCount,
         ReleaseDelMark, ReleaseDelPush
<1> QED BY <1>4, <1>5, <1>6

\* The steps of a worker that move the queue.
LEMMA PopDue ==
  ASSUME Known, NEW s \in Syncers, TryPop(s), NEW c \in Ids, ~Has(c, FetchBusy),
         Coming => Coming', Due(c)
  PROVE  Due(c)'
<1>0. /\ to_sync \in Seq(Ids) /\ squeue \in [Syncers -> Nat] /\ stry \in [Syncers -> Nat]
      /\ spc = [u \in Syncers |-> spc[u]] /\ schunk = [u \in Syncers |-> schunk[u]]
  BY DEF Known, SyncShape
<1>1. /\ to_sync # <<>> /\ spc[s] = "pop" /\ stry' = [stry EXCEPT ![s] = @ + 1]
      /\ UNCHANGED squeue /\ Passing(s)' /\ Passing(s)
      /\ \A u \in Syncers \ {s} : spc'[u] = spc[u] /\ schunk'[u] = schunk[u]
  BY <1>0 DEF TryPop, PopOrRotate, Passing, PassSteps, SyncerAt
<1>2. Starting(c) => Starting(c)'
  BY <1>1 DEF Starting
<1>3. CASE Head(to_sync) = c
  <2>1. spc'[s] = "check" /\ schunk'[s] = c
    BY <1>0, <1>3 DEF TryPop, PopOrRotate, SyncerAt
  <2> QED BY <2>1 DEF Due, Starting
<1>4. CASE Head(to_sync) # c
  <2>0. Head(to_sync) \in Ids /\ Tail(to_sync) \in Seq(Ids)
    BY <1>0, <1>1, QueueTail
  <2>1. to_sync' = Tail(to_sync) \/ to_sync' = Append(Tail(to_sync), Head(to_sync))
    BY DEF TryPop, PopOrRotate
  <2>2. InQueue(to_sync, c) => InQueue(to_sync', c)
    <3>1. InQueue(to_sync, c) => InQueue(Tail(to_sync), c)
      BY <1>0, <1>1, <1>4, QueueTail
    <3> QED BY <2>0, <2>1, <3>1, QueueAppend
  <2>3. ASSUME NEW n \in Int, InFirst(to_sync, n, c) PROVE InFirst(to_sync', n - 1, c)
    <3>1. InFirst(Tail(to_sync), n - 1, c)
      BY <1>0, <1>1, <1>4, <2>3, FirstTail
    <3>2. n - 1 \in Int
      BY <2>3
    <3>3. InFirst(Append(Tail(to_sync), Head(to_sync)), n - 1, c)
      BY <2>0, <3>1, <3>2, FirstAppend
    <3> QED BY <2>1, <3>1, <3>3
  <2>4. ASSUME NEW u \in Syncers, InTurn(u, c) PROVE InTurn(u, c)'
    <3>1. /\ LeftToTry(u) \in Int /\ LeftToTry(u)' \in Int
          /\ LeftToTry(u) - 1 <= LeftToTry(u)'
      BY <1>0, <1>1 DEF LeftToTry
    <3>2. InFirst(to_sync', LeftToTry(u) - 1, c)
      BY <2>3, <2>4, <3>1 DEF InTurn
    <3>3. to_sync' \in Seq(Ids)
      BY <2>0, <2>1, QueueAppend
    <3>4. InFirst(to_sync', LeftToTry(u)', c)
      <4>1. LeftToTry(u) - 1 \in Int
        BY <3>1
      <4> QED BY <3>1, <3>2, <3>3, <4>1, FirstMore
    <3>5. Passing(u)'
      BY <1>1, <2>4 DEF InTurn, Passing, PassSteps
    <3> QED BY <3>4, <3>5 DEF InTurn
  <2> QED BY <1>2, <2>2, <2>4 DEF Due
<1> QED BY <1>3, <1>4

LEMMA PutDue ==
  ASSUME Known, NEW s \in Syncers, PutBack(s, "put", "try"), NEW c \in Ids,
         Coming => Coming', Due(c)
  PROVE  Due(c)'
<1> USE DEF Known, SyncShape, SyncerAt
<1>1. /\ spc[s] = "put" /\ spc'[s] = "try" /\ UNCHANGED <<squeue, stry>>
      /\ schunk[s] \in Ids /\ to_sync' = Append(to_sync, schunk[s])
      /\ \A u \in Syncers \ {s} : spc'[u] = spc[u] /\ schunk'[u] = schunk[u]
  BY DEF PutBack, Forget
<1>2. Starting(c) => Starting(c)'
  BY <1>1 DEF Starting
<1>3. InQueue(to_sync, c) => InQueue(to_sync', c)
  BY <1>1, QueueAppend
<1>4. ASSUME NEW u \in Syncers, InTurn(u, c) PROVE InTurn(u, c)'
  <2>1. InFirst(to_sync', LeftToTry(u), c)
    BY <1>1, <1>4, Numbers, FirstAppend DEF InTurn
  <2> QED BY <1>1, <1>4, <2>1 DEF InTurn, Passing, PassSteps, LeftToTry
<1> QED BY <1>2, <1>3, <1>4 DEF Due

\* A worker that reads the length of the queue (628) will try every entry, unless
\* it purges first.
LEMMA SizeDue ==
  ASSUME Known, NEW s \in Syncers, SignalSize(s), stry[s] = 0, ~Purging', NEW c \in Ids, Due(c)
  PROVE  Due(c)'
<1> USE DEF Known, SyncShape, SyncerAt
<1>1. /\ spc' = [spc EXCEPT ![s] = "try"] /\ squeue' = [squeue EXCEPT ![s] = Len(to_sync)]
      /\ UNCHANGED <<schunk, stry, to_sync>>
  BY DEF SignalSize, Purging, Purges, syncs
<1>2. Starting(c) => Starting(c)'
  BY <1>1 DEF Starting, SignalSize
<1>3. InQueue(to_sync, c) => InTurn(s, c)'
  <2>1. Passing(s)' /\ LeftToTry(s)' = Len(to_sync) - 0
    BY <1>1 DEF Passing, PassSteps, LeftToTry
  <2> QED BY <1>1, <2>1, FirstAll DEF InTurn
<1> QED BY <1>1, <1>2, <1>3 DEF Due

\* A worker ends its pass when it has tried every entry, or when others go on.
LEMMA EndDue ==
  ASSUME Known, NEW s \in Syncers, SignalEnd(s), NEW c \in Ids, Coming => Coming', Due(c)
  PROVE  Due(c)'
<1> USE DEF Known, SyncShape, SyncerAt
<1>1. /\ spc' = [spc EXCEPT ![s] = "idle"] /\ UNCHANGED <<schunk, to_sync>>
      /\ \A u \in Syncers \ {s} : squeue'[u] = squeue[u] /\ stry'[u] = stry[u]
  BY DEF SignalEnd, syncs
<1>2. Starting(c) => Starting(c)'
  BY <1>1 DEF Starting, SignalEnd
<1>3. InTurn(s, c) => Coming
  <2>1. ASSUME InTurn(s, c) PROVE num_syncing >= SyncLimit
    <3>1. LeftToTry(s) \in Int
      BY DEF LeftToTry
    <3>2. LeftToTry(s) > 0 /\ to_sync # <<>>
      BY <2>1, <3>1, FirstSome, FirstAll DEF InTurn
    <3>3. stry[s] < squeue[s]
      BY <3>2 DEF LeftToTry
    <3> QED BY <3>2, <3>3, Constants, SizesAssumption DEF SignalEnd, MoreToTry
  <2> QED BY <2>1, LimitMeansComing
<1>4. ASSUME NEW u \in Syncers \ {s}, InTurn(u, c) PROVE InTurn(u, c)'
  BY <1>1, <1>4 DEF InTurn, Passing, PassSteps, LeftToTry
<1> QED BY <1>1, <1>2, <1>3, <1>4 DEF Due

\* The steps of a worker that leave the queue alone.
LEMMA QuietDue ==
  ASSUME Known, NEW s \in Syncers, NEW c \in Ids, Due(c), Coming => Coming',
         UNCHANGED <<to_sync, squeue, stry>>, Passing(s) => spc'[s] \in PassSteps,
         ~(spc[s] = "check" /\ schunk[s] = c),
         \A u \in Syncers \ {s} : spc'[u] = spc[u] /\ schunk'[u] = schunk[u]
  PROVE  Due(c)'
<1>1. Starting(c) => Starting(c)'
  BY DEF Starting
<1>2. ASSUME NEW u \in Syncers, InTurn(u, c) PROVE InTurn(u, c)'
  BY <1>2 DEF InTurn, Passing, LeftToTry
<1> QED BY <1>1, <1>2 DEF Due

LEMMA SyncerDue ==
  ASSUME Known, FreshTries, NEW s \in Syncers, SyncerStep(s), ~Purging, ~Purging',
         NEW c \in Ids, "to_sync" \in bits[c], "to_sync" \in bits'[c],
         ~Has(c, FetchBusy), Due(c)
  PROVE  Due(c)'
<1>0. /\ spc = [u \in Syncers |-> spc[u]] /\ schunk = [u \in Syncers |-> schunk[u]]
      /\ bits \in [Ids -> SUBSET Flags] /\ (spc[s] = "check" => schunk[s] \in Ids)
  BY DEF Known, Shape, SyncShape
<1>1. spc[s] \notin {"purge", "purge_check", "purge_put"}
  BY DEF Purging, Purges
<1>2. ASSUME ~SignalSize(s) PROVE Coming => Coming'
  BY <1>2, SyncerComing
<1>3. CASE SignalSize(s)
  <2>1. stry[s] = 0
    BY <1>3 DEF FreshTries, Signals, SignalSize, SyncerAt
  <2> QED BY <1>3, <2>1, SizeDue
<1>4. CASE ~SignalSize(s) /\ TryPop(s)
  BY <1>2, <1>4, PopDue
<1>5. CASE ~SignalSize(s) /\ PutBack(s, "put", "try")
  BY <1>2, <1>5, PutDue
<1>6. CASE ~SignalSize(s) /\ SignalEnd(s)
  BY <1>2, <1>6, EndDue
<1>7. CASE ~SignalSize(s) /\ Busy(s, FetchBusy, "check", "put")
  <2>1. /\ UNCHANGED <<to_sync, squeue, stry>> /\ (Passing(s) => spc'[s] \in PassSteps)
        /\ schunk[s] # c
        /\ \A u \in Syncers \ {s} : spc'[u] = spc[u] /\ schunk'[u] = schunk[u]
    BY <1>0, <1>7 DEF Busy, SyncerAt, Passing, PassSteps, syncs
  <2> QED BY <1>2, <1>7, <2>1, QuietDue
<1>8. CASE ~SignalSize(s) /\ Stale(s, EvictBusy, "check", "try")
  <2>1. /\ UNCHANGED <<to_sync, squeue, stry>> /\ (Passing(s) => spc'[s] \in PassSteps)
        /\ \A u \in Syncers \ {s} : spc'[u] = spc[u] /\ schunk'[u] = schunk[u]
    BY <1>0, <1>8 DEF Stale, Forget, SyncerAt, Passing, PassSteps, syncs
  <2>2. schunk[s] # c
    BY <1>8 DEF Stale, Has, EvictBusy
  <2> QED BY <1>2, <1>8, <2>1, <2>2, QuietDue
<1>9. CASE ~SignalSize(s) /\ TryStart(s)
  <2>1. /\ UNCHANGED <<to_sync, squeue, stry>> /\ (Passing(s) => spc'[s] \in PassSteps)
        /\ \A u \in Syncers \ {s} : spc'[u] = spc[u] /\ schunk'[u] = schunk[u]
    BY <1>0, <1>9 DEF TryStart, Forget, SyncerAt, Passing, PassSteps
  <2>2. schunk[s] # c
    BY <1>0, <1>9 DEF TryStart, SyncStarted, Flags
  <2> QED BY <1>2, <1>9, <2>1, <2>2, QuietDue
<1>10. CASE ~SignalSize(s) /\ (TryNext(s) \/ Count(s, "inc", "try", 1)
                                 \/ Count(s, "count", "size", -1))
  <2>1. /\ UNCHANGED <<to_sync, squeue, stry>> /\ (Passing(s) => spc'[s] \in PassSteps)
        /\ spc[s] # "check"
        /\ \A u \in Syncers \ {s} : spc'[u] = spc[u] /\ schunk'[u] = schunk[u]
    BY <1>0, <1>10 DEF TryNext, Count, SyncerAt, Passing, PassSteps, syncs
  <2> QED BY <1>2, <1>10, <2>1, QuietDue
<1>11. CASE ~SignalSize(s) /\ (SyncDone(s) \/ \E d \in Ids : SyncTake(s, d))
  <2>1. /\ UNCHANGED <<to_sync, squeue, stry>> /\ ~Passing(s) /\ spc[s] # "check"
        /\ \A u \in Syncers \ {s} : spc'[u] = spc[u] /\ schunk'[u] = schunk[u]
    BY <1>0, <1>11 DEF SyncDone, SyncTake, Forget, SyncerAt, Passing, PassSteps, syncs
  <2> QED BY <1>2, <1>11, <2>1, QuietDue
<1> QED
  BY <1>1, <1>3, <1>4, <1>5, <1>6, <1>7, <1>8, <1>9, <1>10, <1>11
  DEF SyncerStep, PurgePop, PurgeEnd, Busy, PutBack, Stale, SyncerAt

LEMMA FreshTriesNext ==
  ASSUME Known, FreshTries, [Next]_vars PROVE FreshTries'
<1> USE DEF Known, SyncShape
<1>1. UNCHANGED <<spc, stry>> => FreshTries'
  BY DEF FreshTries, Signals
<1>2. ASSUME NEW s \in Syncers, SyncerStep(s) PROVE FreshTries'
  <2>1. ASSUME \A u \in Syncers \ {s} : spc'[u] = spc[u] /\ stry'[u] = stry[u],
               Signals(s)' \/ spc'[s] = "idle" => stry'[s] = 0
        PROVE  FreshTries'
    BY <2>1 DEF FreshTries, Signals
  <2>2. CASE PurgePop(s) \/ TryPop(s)
    BY <2>1, <2>2 DEF PurgePop, TryPop, PopOrRotate, SyncerAt, Signals
  <2>3. CASE \E d \in Ids : SyncTake(s, d)
    BY <2>1, <2>3 DEF SyncTake, SyncerAt, Signals, FreshTries
  <2>4. CASE SyncDone(s) \/ Count(s, "count", "size", -1) \/ Count(s, "inc", "try", 1)
    BY <2>1, <2>4 DEF SyncDone, Count, SyncerAt, Signals, FreshTries
  <2>5. CASE PurgeEnd(s) \/ SignalEnd(s)
    BY <2>1, <2>5 DEF PurgeEnd, SignalEnd, SyncerAt, Signals
  <2>6. CASE SignalSize(s) \/ TryNext(s) \/ TryStart(s)
    BY <2>1, <2>6 DEF SignalSize, TryNext, TryStart, SyncerAt, Signals
  <2>7. ASSUME NEW mask, NEW from, NEW to \in {"purge_put", "put", "purge", "try"},
               Busy(s, mask, from, to) \/ PutBack(s, from, to) \/ Stale(s, mask, from, to)
        PROVE  FreshTries'
    BY <2>1, <2>7 DEF Busy, PutBack, Stale, SyncerAt, Signals
  <2> QED BY <1>2, <2>2, <2>3, <2>4, <2>5, <2>6, <2>7 DEF SyncerStep
<1>3. ASSUME NEW t \in Clients, ClientCalls(t) \/ ClientRuns(t) PROVE FreshTries'
  BY <1>1, <1>3, ClientSyncs DEF syncer
<1>4. ASSUME NEW l \in Loaders, LoaderStep(l) PROVE FreshTries'
  BY <1>1, <1>4 DEF LoaderStep, LoaderFrame, syncer
<1>5. CASE UNCHANGED vars
  BY <1>1, <1>5 DEF vars, syncer
<1> QED BY <1>2, <1>3, <1>4, <1>5 DEF Next

-----------------------------------------------------------------------------
\* A chunk begins to wait when release_sync queues it, with the limit reached.
LEMMA QueuedDue ==
  ASSUME Known, NEW t \in Clients, NEW c \in Ids, ReleaseSyncQueue(t, c),
         Coming => Coming'
  PROVE  ~Has(c, FetchBusy)' /\ Due(c)'
<1>1. /\ bits \in [Ids -> SUBSET Flags] /\ to_sync \in Seq(Ids) /\ Held(c)
      /\ bits' = [bits EXCEPT ![c] = Unlocked(@) \cup {"to_sync"}]
      /\ to_sync' = Append(to_sync, c) /\ num_syncing >= SyncLimit
  BY DEF Known, Shape, SyncShape, ReleaseSyncQueue, HolderCalls, Held
<1>2. "loading" \notin bits[c] /\ "syncing" \notin bits[c]
  BY <1>1 DEF Known, SafeInv, UsedWord, InUse
<1>3. ~Has(c, FetchBusy)'
  BY <1>1, <1>2 DEF Has, FetchBusy, Unlocked
<1>4. InQueue(to_sync', c)
  BY <1>1, QueueAppend
<1>5. Coming'
  BY <1>1, LimitMeansComing
<1> QED BY <1>3, <1>4, <1>5 DEF Due

LEMMA LeftNext ==
  ASSUME Known, FreshTries, LeftInv, [HNext]_<<vars, excused>> PROVE LeftInv'
<1>1. CASE UNCHANGED <<vars, excused>>
  <2>1. UNCHANGED <<bits, ptr, to_sync, pending_sync, spc, schunk, squeue, stry, excused>>
    BY <1>1 DEF vars, word, syncs, syncer, client
  <2> QED
    BY <2>1
    DEF LeftInv, Waits, Has, Purging, Purges, Due, Starting, Coming, Signals, InTurn,
        Passing, PassSteps, LeftToTry
<1>2. CASE HNext
  <2> SUFFICES ASSUME NEW c \in Ids, Waits(c)'
               PROVE  ~Has(c, FetchBusy)' /\ ~Purging' /\ Due(c)'
    BY DEF LeftInv
  <2>1. /\ Next /\ "to_sync" \in bits'[c] /\ c \notin excused
        /\ ~Held(c)' /\ ~Purging'
    BY <1>2 DEF HNext, Waits
  <2>2. "to_sync" \in bits[c] => ~Has(c, FetchBusy) /\ ~Purging /\ Due(c)
    BY <2>1 DEF LeftInv, Waits
  <2>3. CASE "to_sync" \in bits[c]
    <3>1. ~Has(c, FetchBusy)'
      BY <2>1, <2>2, <2>3, StaysIdle
    <3>2. ASSUME NEW t \in Clients, ClientCalls(t) \/ ClientRuns(t) PROVE Due(c)'
      BY <2>2, <2>3, <3>2, ClientDue
    <3>3. ASSUME NEW l \in Loaders, LoaderStep(l) PROVE Due(c)'
      <4>1. UNCHANGED <<to_sync, pending_sync, spc, schunk, squeue, stry>>
        BY <3>3 DEF LoaderStep, LoaderFrame, syncs, syncer
      <4> QED
        BY <2>2, <2>3, <4>1
        DEF Due, Starting, Coming, Signals, InTurn, Passing, PassSteps, LeftToTry
    <3>4. ASSUME NEW s \in Syncers, SyncerStep(s) PROVE Due(c)'
      BY <2>1, <2>2, <2>3, <3>4, SyncerDue
    <3> QED BY <2>1, <3>1, <3>2, <3>3, <3>4 DEF Next
  <2>4. CASE "to_sync" \notin bits[c]
    <3>1. ASSUME NEW t \in Clients, ClientCalls(t) \/ ClientRuns(t)
          PROVE  ~Has(c, FetchBusy)' /\ Due(c)'
      <4>1. ReleaseSyncQueue(t, c)
        BY <2>1, <2>4, <3>1, ClientWord DEF ClientMayChange, Known
      <4> QED BY <3>1, <4>1, QueuedDue, ClientComing
    <3>2. ASSUME NEW l \in Loaders, LoaderStep(l) PROVE FALSE
      BY <2>1, <2>4, <3>2, LoaderWord DEF LoaderMayChange, Known
    <3>3. ASSUME NEW s \in Syncers, SyncerStep(s) PROVE FALSE
      BY <2>1, <2>4, <3>3, SyncerWord DEF SyncerMayChange, Known
    <3> QED BY <2>1, <3>1, <3>2, <3>3 DEF Next
  <2> QED BY <2>3, <2>4
<1> QED BY <1>1, <1>2

\* When all is done, only those chunks are still to be synced that were fetched
\* again, or moved by a purge, while they waited: for every other one the worker
\* whose sync ends last reads a queue with the chunk in it, or another goes on.
THEOREM OnlyExcusedLeftCorrect ==
  ASSUME ReuseInRam PROVE HSpec => []OnlyExcusedLeft
<1>1. HSpec => Spec
  <2>1. HInit => Init
    BY DEF HInit
  <2>2. [HNext]_<<vars, excused>> => [Next]_vars
    BY DEF HNext
  <2> QED BY <2>1, <2>2, PTL DEF HSpec, Spec
<1>2. ReuseInRam /\ TypeInv /\ SafeInv /\ SyncOnce /\ SyncCountInv => Known
  <2>1. TypeInv => Shape /\ SyncShape
    BY SyncShapes
  <2>2. TypeInv => squeue \in [Syncers -> Nat] /\ stry \in [Syncers -> Nat]
    BY DEF TypeInv, SyncerInv, SyncerType
  <2> QED BY <2>1, <2>2 DEF Known
<1>3. Spec => []Known
  BY <1>2, ReuseStays, Invariants, SyncOnceHolds, SyncCountHolds, PTL
<1>4. HInit => FreshTries /\ LeftInv
  BY DEF HInit, Init, FreshTries, LeftInv, Waits
<1>5. Known /\ FreshTries /\ LeftInv /\ [HNext]_<<vars, excused>>
          => FreshTries' /\ LeftInv'
  <2>1. [HNext]_<<vars, excused>> => [Next]_vars
    BY DEF HNext
  <2> QED BY <2>1, FreshTriesNext, LeftNext
<1>6. LeftInv => OnlyExcusedLeft
  <2> SUFFICES ASSUME LeftInv, Quiet, NEW c \in Ids, "to_sync" \in bits[c],
                      c \notin excused
               PROVE  FALSE
    BY DEF OnlyExcusedLeft, Has
  <2>1. Due(c)
    BY DEF LeftInv, Waits
  <2>2. \A s \in Syncers : spc[s] = "idle"
    BY DEF Quiet
  <2>3. ~Coming /\ ~Starting(c) /\ \A s \in Syncers : ~InTurn(s, c)
    BY <2>2 DEF Quiet, Coming, Signals, Starting, InTurn, Passing, PassSteps
  <2> QED BY <2>1, <2>3 DEF Due
<1> QED BY <1>1, <1>3, <1>4, <1>5, <1>6, PTL DEF HSpec
=============================================================================
