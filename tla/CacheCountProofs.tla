-------------------------- MODULE CacheCountProofs --------------------------
(* What cache_manager_t counts and queues, for any number of threads,      *)
(* chunks and slots: one task per mark, no mark without its task, and no   *)
(* id, slot or queued chunk lost.                                          *)
EXTENDS CacheSafetyProofs, FiniteSetTheorems

\* The constants do not change.
LEMMA ReuseStays == ReuseInRam => ReuseInRam'
  BY DEF ReuseInRam

-----------------------------------------------------------------------------
(* What a step does to the status words, said once for every action.       *)

\* The word of c keeps its place and its caching flag.
SamePlace(c) ==
    low'[c] = low[c] /\ ("caching" \in bits'[c] <=> "caching" \in bits[c])

\* What a client's step may do to the word of c.
ClientMayChange(t, c) ==
    /\ "loading" \in bits'[c] => "loading" \in bits[c] \/ StartLoad(c)
    /\ ("syncing" \in bits'[c] <=> "syncing" \in bits[c]) \/ ReleaseSyncStart(t, c)
    /\ "to_sync" \in bits'[c] => "to_sync" \in bits[c] \/ ReleaseSyncQueue(t, c)
    /\ \/ SamePlace(c)
       \/ ReleaseDelMark(t) /\ arg[t] = c
       \/ bits[c] = {} /\ bits'[c] = {} /\ low'[c] = 0

\* A deleted id that create_chunk takes from the stack has no flag: where ids are
\* reused nobody marks a deleted chunk to evict it.
LEMMA TakenWord ==
  ASSUME ReuseInRam, SafeInv, Shape, NEW t \in Clients, NEW c \in Ids,
         pc[t] \in {"pop", "last"}, TakeDeleted(t, c)
  PROVE  bits[c] = {}
<1>1. deleted[c] = 1 /\ Gone(c)
  BY DEF TakeDeleted, SafeInv, DeletedOnce
<1>2. CacheOnly
  BY <1>1, Constants DEF ReuseInRam, SafeInv, NoCreation, NoDeletion, Creating
<1>3. ~Marked(c)
  BY <1>2 DEF Shape, Marked, Marks, Evicts
<1> QED BY <1>1, <1>3 DEF SafeInv, GoneWord

LEMMA ClientWord ==
  ASSUME ReuseInRam, SafeInv, Shape,
         NEW t \in Clients, ClientCalls(t) \/ ClientRuns(t), NEW c \in Ids
  PROVE  ClientMayChange(t, c)
<1> USE Constants DEF Shape
<1>1. CASE UNCHANGED word
  BY <1>1 DEF word, ClientMayChange, SamePlace
<1>2. ASSUME NEW d \in Ids, pc[t] \in {"pop", "last"}, TakeDeleted(t, d)
      PROVE  ClientMayChange(t, c)
  <2>1. bits[d] = {}
    BY <1>2, TakenWord
  <2>2. bits' = [bits EXCEPT ![d] = {}] /\ low' = [low EXCEPT ![d] = 0]
    BY <1>2 DEF TakeDeleted
  <2> QED BY <2>1, <2>2 DEF ClientMayChange, SamePlace
<1>3. ASSUME CreateTake(t) PROVE ClientMayChange(t, c)
  <2>1. CASE StillNext(t)
    <3>1. bits[arg[t]] = {} /\ arg[t] \in Ids
      <4>1. arg[t] \in Ids /\ arg[t] = num_chunks
        BY <1>3, <2>1 DEF CreateTake, StillNext
      <4> QED BY <4>1 DEF SafeInv, FreshId, Ids
    <3>2. /\ bits' = [bits EXCEPT ![arg[t]] = {}]
          /\ low' = [low EXCEPT ![arg[t]] = 0]
      BY <1>3, <2>1 DEF CreateTake
    <3> QED BY <3>1, <3>2 DEF ClientMayChange, SamePlace
  <2>2. CASE ~StillNext(t)
    BY <1>1, <1>3, <2>2 DEF CreateTake
  <2> QED BY <2>1, <2>2
<1>4. ASSUME NEW d \in Ids, StartLoad(d) PROVE ClientMayChange(t, c)
  BY <1>4 DEF StartLoad, ClientMayChange, SamePlace
<1>5. ASSUME FetchTake(t) PROVE ClientMayChange(t, c)
  BY <1>5 DEF FetchTake, ClientMayChange, SamePlace
<1>6. ASSUME NEW d \in Ids, Release(t, d) PROVE ClientMayChange(t, c)
  <2>1. bits'[c] = bits[c] \/ bits'[c] = Unlocked(bits[c])
    BY <1>6 DEF Release
  <2> QED BY <1>6, <2>1 DEF Release, Unlocked, ClientMayChange, SamePlace
<1>7. ASSUME NEW d \in Ids, ReleaseSyncStart(t, d) PROVE ClientMayChange(t, c)
  <2>1. bits'[c] = IF c = d THEN SyncStarted(bits[c]) ELSE bits[c]
    BY <1>7 DEF ReleaseSyncStart
  <2>2. low' = low
    BY <1>7 DEF ReleaseSyncStart
  <2> QED BY <1>7, <2>1, <2>2 DEF SyncStarted, ClientMayChange, SamePlace
<1>8. ASSUME NEW d \in Ids, ReleaseSyncQueue(t, d) PROVE ClientMayChange(t, c)
  <2>1. bits'[c] = IF c = d THEN Unlocked(bits[c]) \cup {"to_sync"} ELSE bits[c]
    BY <1>8 DEF ReleaseSyncQueue
  <2>2. low' = low
    BY <1>8 DEF ReleaseSyncQueue
  <2> QED BY <1>8, <2>1, <2>2 DEF Unlocked, ClientMayChange, SamePlace
<1>9. ASSUME ReleaseDelMark(t) PROVE ClientMayChange(t, c)
  <2>1. "syncing" \notin bits[arg[t]]
    BY <1>9 DEF ReleaseDelMark, SafeInv, UsedWord, InUse, Dying
  <2> QED BY <1>9, <2>1 DEF ReleaseDelMark, ClientMayChange, SamePlace
<1>10. CASE ClientCalls(t)
  BY <1>1, <1>4, <1>6, <1>7, <1>8, <1>10
  DEF ClientCalls, CreateCall, Prefetch, FetchCall, Write, ReleaseDelReset
<1>11. CASE CreateStep(t)
  BY <1>1, <1>2, <1>3, <1>11 DEF CreateStep, CreatePop, CreateNext
<1>12. CASE ClientRuns(t) /\ ~CreateStep(t)
  <2>1. FetchLoad(t) => arg[t] \in Ids
    BY DEF FetchLoad
  <2> QED
    BY <1>1, <1>4, <1>5, <1>9, <1>12, <2>1
    DEF ClientRuns, FetchNull, FetchLoad, ReleaseSyncCount, ReleaseDelPush
<1> QED BY <1>10, <1>11, <1>12

\* A client gives loading_pool a task only together with the mark.
LEMMA ClientLoads ==
  ASSUME Shape, NEW t \in Clients, ClientCalls(t) \/ ClientRuns(t)
  PROVE  /\ UNCHANGED loader
         /\ \/ UNCHANGED pending_load
            \/ \E c \in Ids : StartLoad(c) /\ "loading" \notin bits[c]
<1>1. ASSUME NEW c \in Ids, StartLoad(c), ~Has(c, LoadedOrLoading)
      PROVE  \E d \in Ids : StartLoad(d) /\ "loading" \notin bits[d]
  BY <1>1 DEF Has, LoadedOrLoading
<1>2. UNCHANGED loader
  BY DEF ClientCalls, ClientRuns, CreateFrame, FetchFrame, HolderFrame
<1>3. CASE UNCHANGED pending_load
  BY <1>2, <1>3
<1>4. CASE \E c \in Ids : Prefetch(t, c)
  BY <1>1, <1>2, <1>4 DEF Prefetch
<1>5. CASE FetchLoad(t)
  BY <1>1, <1>2, <1>5 DEF FetchLoad, Has, LoadedOrLoading, Shape
<1> QED
  BY <1>3, <1>4, <1>5
  DEF ClientCalls, ClientRuns, CreateFrame, FetchFrame, HolderFrame, loads,
      FetchCall, FetchNull, FetchTake

\* A loading worker changes where a chunk is when it publishes it, or evicts it.
LoaderMayChange(l, c) ==
    /\ "loading" \in bits'[c] => "loading" \in bits[c]
    /\ "syncing" \in bits'[c] <=> "syncing" \in bits[c]
    /\ "to_sync" \in bits'[c] => "to_sync" \in bits[c]
    /\ \/ SamePlace(c)
       \/ LoadPublish(l) /\ lchunk[l] = c /\ "caching" \in bits'[c]
       \/ EvictUnmap(l) /\ lold[l] = c /\ low'[c] = 0

LEMMA LoaderWord ==
  ASSUME Shape, NEW l \in Loaders, LoaderStep(l), NEW c \in Ids
  PROVE  LoaderMayChange(l, c)
<1>1. ASSUME NEW flags, NEW d \in Ids, low' = low, bits' = [bits EXCEPT ![d] = flags],
             flags = bits[d] \cup {"writing", "reading"} \/ flags = Unlocked(bits[d])
      PROVE  LoaderMayChange(l, c)
  <2>1. bits'[c] = IF c = d THEN flags ELSE bits[c]
    BY <1>1 DEF Shape
  <2> QED BY <1>1, <2>1 DEF Unlocked, LoaderMayChange, SamePlace
<1>2. CASE UNCHANGED word
  BY <1>2 DEF word, LoaderMayChange, SamePlace
<1>3. CASE LoadPublish(l)
  <2>1. bits'[c] = IF c = lchunk[l] THEN (bits[c] \cup {"caching"}) \ {"loading"}
                                    ELSE bits[c]
    BY <1>3 DEF LoadPublish, Shape
  <2>2. c # lchunk[l] => low'[c] = low[c]
    BY <1>3 DEF LoadPublish, Shape
  <2> QED BY <1>3, <2>1, <2>2 DEF LoaderMayChange, SamePlace
<1>4. CASE EvictMark(l) \/ EvictUndo(l)
  <2>1. lold[l] \in Ids
    BY <1>4 DEF EvictMark, EvictUndo, Evicts, Shape
  <2>2. CASE EvictMark(l) /\ MayEvict(lold[l])
    BY <1>1, <2>1, <2>2 DEF EvictMark
  <2>3. CASE EvictMark(l) /\ ~MayEvict(lold[l])
    BY <1>2, <2>3 DEF EvictMark, word
  <2>4. CASE EvictUndo(l)
    BY <1>1, <2>1, <2>4 DEF EvictUndo
  <2> QED BY <1>4, <2>2, <2>3, <2>4
<1>5. CASE EvictUnmap(l)
  <2>1. /\ bits'[c] = IF c = lold[l] THEN Unmapped(bits[c]) ELSE bits[c]
        /\ low'[c] = IF c = lold[l] THEN 0 ELSE low[c]
    BY <1>5 DEF EvictUnmap, Shape
  <2> QED BY <1>5, <2>1 DEF Unmapped, Unlocked, LoaderMayChange, SamePlace
<1> QED
  BY <1>2, <1>3, <1>4, <1>5
  DEF LoaderStep, LoadTake, Scan, Look, Claim, EvictSwap, LoadData

\* A syncing worker changes one word, when it ends a sync or starts one.
SyncerMayChange(s, c) ==
    /\ SamePlace(c)
    /\ "loading" \in bits'[c] <=> "loading" \in bits[c]
    /\ "to_sync" \in bits'[c] => "to_sync" \in bits[c]
    /\ \/ "syncing" \in bits'[c] <=> "syncing" \in bits[c]
       \/ (SyncDone(s) \/ TryStart(s)) /\ schunk[s] = c

LEMMA SyncerWord ==
  ASSUME Shape, NEW s \in Syncers, SyncerStep(s), NEW c \in Ids
  PROVE  SyncerMayChange(s, c)
<1>1. CASE UNCHANGED word
  BY <1>1 DEF word, SyncerMayChange, SamePlace
<1>2. CASE SyncDone(s)
  <2>1. bits'[c] = IF c = schunk[s] THEN Synced(bits[c]) ELSE bits[c]
    BY <1>2 DEF SyncDone, Shape
  <2>2. low' = low
    BY <1>2 DEF SyncDone
  <2> QED BY <1>2, <2>1, <2>2 DEF Synced, SyncerMayChange, SamePlace
<1>3. CASE TryStart(s)
  <2>1. bits'[c] = IF c = schunk[s] THEN SyncStarted(bits[c]) ELSE bits[c]
    BY <1>3 DEF TryStart, Shape
  <2>2. low' = low
    BY <1>3 DEF TryStart
  <2> QED BY <1>3, <2>1, <2>2 DEF SyncStarted, SyncerMayChange, SamePlace
<1>4. UNCHANGED word \/ SyncDone(s) \/ TryStart(s)
  BY DEF SyncerStep, SyncTake, Count, SignalSize, PurgePop, TryPop, PopOrRotate,
         PurgeEnd, Busy, PutBack, Stale, TryNext, SignalEnd
<1> QED BY <1>1, <1>2, <1>3, <1>4

-----------------------------------------------------------------------------
(* A chunk is marked as loading exactly while one task for it is queued or *)
(* running.  SafeInv says that there is at most one task and that the mark *)
(* is there; LoadKept, that the mark is not left behind.                   *)

LoadKept ==
    \A c \in Ids : "loading" \in bits[c] =>
        pending_load[c] = 1 \/ \E l \in Loaders : Loading(l, c)

LEMMA LoadKeptNext ==
  ASSUME ReuseInRam, TypeInv, SafeInv, LoadKept, [Next]_vars PROVE LoadKept'
<1> USE Constants
<1>0. Shape
  BY Shapes
<1>1. ASSUME UNCHANGED <<pending_load, lpc, lchunk>>,
             \A c \in Ids : "loading" \in bits'[c] => "loading" \in bits[c]
      PROVE  LoadKept'
  BY <1>1 DEF LoadKept, Loading
<1>2. ASSUME NEW t \in Clients, ClientCalls(t) \/ ClientRuns(t) PROVE LoadKept'
  <2>1. \A c \in Ids : "loading" \in bits'[c] => "loading" \in bits[c] \/ StartLoad(c)
    BY <1>0, <1>2, ClientWord DEF ClientMayChange
  <2>2. UNCHANGED <<lpc, lchunk>>
    BY <1>0, <1>2, ClientLoads DEF loader
  <2>3. CASE UNCHANGED pending_load
    <3>1. \A c \in Ids : ~StartLoad(c)
      BY <1>0, <2>3 DEF StartLoad, Shape
    <3> QED BY <1>1, <2>1, <2>2, <2>3, <3>1
  <2>4. ASSUME NEW d \in Ids, StartLoad(d), "loading" \notin bits[d] PROVE LoadKept'
    <3>1. pending_load[d] = 0
      BY <2>4 DEF SafeInv, LoadWord
    <3> QED BY <1>0, <2>2, <2>4, <3>1 DEF LoadKept, Loading, StartLoad, Shape
  <2> QED BY <1>0, <1>2, <2>3, <2>4, ClientLoads
<1>3. ASSUME NEW l \in Loaders, LoaderStep(l) PROVE LoadKept'
  <2>1. ASSUME NEW c \in Ids, LoadTake(l, c) PROVE LoadKept'
    BY <1>0, <2>1 DEF LoadTake, LoaderAt, LoadKept, Loading, Shape, word
  <2>2. CASE LoadPublish(l)
    BY <1>0, <2>2
    DEF LoadPublish, LoaderAt, LoadKept, Loading, Shape, SafeInv, LoadOnce
  <2>3. CASE \/ Scan(l) \/ Look(l) \/ Claim(l) \/ LoadData(l)
             \/ EvictMark(l) \/ EvictSwap(l) \/ EvictUndo(l) \/ EvictUnmap(l)
    <3>1. /\ UNCHANGED <<pending_load, lchunk>> /\ lpc[l] # "idle"
          /\ \E to : to # "idle" /\ lpc' = [lpc EXCEPT ![l] = to]
      BY <2>3
      DEF Scan, Look, Claim, LoadData, EvictMark, EvictSwap, EvictUndo, EvictUnmap, ScanOn,
          LoaderAt, loads
    <3>2. \A c \in Ids : "loading" \in bits'[c] => "loading" \in bits[c]
      BY <1>0, <1>3, LoaderWord DEF LoaderMayChange
    <3> QED BY <1>0, <3>1, <3>2 DEF LoadKept, Loading, Shape
  <2> QED BY <1>3, <2>1, <2>2, <2>3 DEF LoaderStep
<1>4. ASSUME NEW s \in Syncers, SyncerStep(s) PROVE LoadKept'
  <2>1. UNCHANGED <<pending_load, lpc, lchunk>>
    BY <1>4 DEF SyncerStep, SyncerFrame, loads, loader
  <2>2. \A c \in Ids : "loading" \in bits'[c] => "loading" \in bits[c]
    BY <1>0, <1>4, SyncerWord DEF SyncerMayChange
  <2> QED BY <1>1, <2>1, <2>2
<1>5. CASE UNCHANGED vars
  BY <1>1, <1>5 DEF vars, word, loads, loader
<1> QED BY <1>2, <1>3, <1>4, <1>5 DEF Next

\* A mark and its task come together: load requests are neither lost nor doubled.
THEOREM OneLoadCorrect ==
  ASSUME ReuseInRam PROVE Spec => []OneLoad
<1>1. Init => LoadKept
  BY DEF Init, LoadKept
<1>2. ReuseInRam /\ TypeInv /\ SafeInv /\ LoadKept /\ [Next]_vars => LoadKept'
  BY LoadKeptNext
<1>3. TypeInv /\ SafeInv /\ LoadKept => OneLoad
  <2> SUFFICES ASSUME TypeInv, SafeInv, LoadKept, NEW c \in Ids
               PROVE  LoadsOf(c) = IF Has(c, {"loading"}) THEN 1 ELSE 0
    BY DEF OneLoad
  <2> DEFINE S == {l \in Loaders : Loading(l, c)}
  <2>1. Has(c, {"loading"}) <=> "loading" \in bits[c]
    BY DEF Has
  <2>2. CASE \E l \in Loaders : Loading(l, c)
    <3>1. PICK l \in Loaders : Loading(l, c)
      BY <2>2
    <3>2. "loading" \in bits[c] /\ pending_load[c] = 0 /\ S = {l}
      BY <3>1 DEF SafeInv, LoadOnce, Loading
    <3>3. Cardinality(S) = 1
      BY <3>2, FS_Singleton
    <3> QED BY <2>1, <3>2, <3>3 DEF LoadsOf
  <2>3. CASE ~\E l \in Loaders : Loading(l, c)
    <3>1. Cardinality(S) = 0
      BY <2>3, FS_EmptySet
    <3>2. pending_load[c] = IF "loading" \in bits[c] THEN 1 ELSE 0
      BY <2>3 DEF SafeInv, LoadWord, LoadKept
    <3> QED BY <2>1, <3>1, <3>2 DEF LoadsOf
  <2> QED BY <2>2, <2>3
<1> QED BY <1>1, <1>2, <1>3, Invariants, ReuseStays, PTL DEF Spec

-----------------------------------------------------------------------------
(* Likewise for syncing: SyncOnce is to the syncing mark what LoadWord,    *)
(* LoadOnce and LoadKept are to the loading one.                           *)

Syncing(s, c) == spc[s] = "sync" /\ schunk[s] = c

SyncOnce ==
    /\ \A c \in Ids :
           /\ pending_sync[c] \in {0, 1}
           /\ pending_sync[c] = 1 => "syncing" \in bits[c]
           /\ "syncing" \in bits[c] =>
                  pending_sync[c] = 1 \/ \E s \in Syncers : Syncing(s, c)
    /\ \A s \in Syncers : spc[s] = "sync" =>
           "syncing" \in bits[schunk[s]] /\ pending_sync[schunk[s]] = 0
    /\ \A s, u \in Syncers :
           spc[s] = "sync" /\ spc[u] = "sync" /\ schunk[s] = schunk[u] => s = u

\* What of TypeInv the proofs about syncing use.
SyncShape ==
    /\ pending_sync \in [Ids -> Nat] /\ num_syncing \in Int /\ to_sync \in Seq(Ids)
    /\ spc = [s \in Syncers |-> spc[s]] /\ schunk = [s \in Syncers |-> schunk[s]]
    /\ \A s \in Syncers :
           spc[s] \in {"sync", "purge_check", "purge_put", "check", "put"}
               => schunk[s] \in Ids

LEMMA SyncShapes ==
  ASSUME TypeInv PROVE Shape /\ SyncShape
<1>1. SyncShape
  BY DEF TypeInv, SyncType, SyncerInv, SyncerType, SyncShape
<1> QED BY <1>1, Shapes

\* The steps that push a sync task, and where they find the chunk.
LEMMA StartsUnsynced ==
  /\ SafeInv => \A t \in Clients, c \in Ids :
                    ReleaseSyncStart(t, c) => "syncing" \notin bits[c]
  /\ \A s \in Syncers : TryStart(s) => "syncing" \notin bits[schunk[s]]
<1>1. ASSUME SafeInv, NEW t \in Clients, NEW c \in Ids, ReleaseSyncStart(t, c)
      PROVE  "syncing" \notin bits[c]
  BY <1>1 DEF ReleaseSyncStart, HolderCalls, SafeInv, UsedWord, InUse, Held
<1>2. ASSUME NEW s \in Syncers, TryStart(s) PROVE "syncing" \notin bits[schunk[s]]
  BY <1>2 DEF TryStart, MaySync, Has, FetchBusy
<1> QED BY <1>1, <1>2

\* A client gives syncing_pool a task only in release_sync.
LEMMA ClientSyncs ==
  ASSUME NEW t \in Clients, ClientCalls(t) \/ ClientRuns(t)
  PROVE  /\ UNCHANGED syncer
         /\ \/ UNCHANGED pending_sync
            \/ \E c \in Ids : ReleaseSyncStart(t, c)
  BY DEF ClientCalls, ClientRuns, CreateFrame, FetchFrame, HolderFrame, syncs, Write,
         Release, ReleaseSyncQueue, ReleaseDelReset, ReleaseSyncCount, ReleaseDelMark,
         ReleaseDelPush

\* A syncing worker that neither takes a task, nor ends one, nor pushes one.
SyncerQuiet(s) ==
    /\ UNCHANGED <<word, pending_sync>> /\ spc[s] # "sync" /\ spc'[s] # "sync"
    /\ \A u \in Syncers \ {s} : spc'[u] = spc[u] /\ schunk'[u] = schunk[u]

LEMMA SyncerSyncs ==
  ASSUME SyncShape, NEW s \in Syncers, SyncerStep(s)
  PROVE  \/ SyncDone(s) \/ TryStart(s) \/ \E c \in Ids : SyncTake(s, c)
         \/ SyncerQuiet(s)
<1> USE DEF SyncShape, SyncerQuiet, SyncerAt
<1>1. CASE PurgePop(s) \/ TryPop(s)
  BY <1>1 DEF PurgePop, TryPop, PopOrRotate
<1>2. ASSUME NEW mask, NEW from \in {"purge_check", "check"},
             NEW to \in {"purge_put", "put", "purge", "try"},
             Busy(s, mask, from, to) \/ Stale(s, mask, from, to)
      PROVE  SyncerQuiet(s)
  BY <1>2 DEF Busy, Stale, Forget, syncs
<1>3. CASE PutBack(s, "purge_put", "purge") \/ PutBack(s, "put", "try")
  BY <1>3 DEF PutBack, Forget
<1>4. CASE Count(s, "count", "size", -1) \/ Count(s, "inc", "try", 1)
  BY <1>4 DEF Count
<1>5. CASE SignalSize(s) \/ PurgeEnd(s) \/ TryNext(s) \/ SignalEnd(s)
  BY <1>5 DEF SignalSize, PurgeEnd, TryNext, SignalEnd, syncs
<1> QED BY <1>1, <1>2, <1>3, <1>4, <1>5 DEF SyncerStep

LEMMA SyncOnceNext ==
  ASSUME ReuseInRam, TypeInv, SafeInv, SyncOnce, [Next]_vars PROVE SyncOnce'
<1>0. Shape /\ SyncShape
  BY SyncShapes
<1>1. ASSUME UNCHANGED <<pending_sync, spc, schunk>>,
             \A c \in Ids : "syncing" \in bits'[c] <=> "syncing" \in bits[c]
      PROVE  SyncOnce'
  BY <1>0, <1>1 DEF SyncOnce, Syncing, SyncShape
<1>2. ASSUME NEW t \in Clients, ClientCalls(t) \/ ClientRuns(t) PROVE SyncOnce'
  <2>1. UNCHANGED <<spc, schunk>>
    BY <1>2, ClientSyncs DEF syncer
  <2>2. CASE UNCHANGED pending_sync
    <3>1. \A c \in Ids : ~ReleaseSyncStart(t, c)
      BY <1>0, <2>2 DEF ReleaseSyncStart, SyncShape
    <3>2. \A c \in Ids : "syncing" \in bits'[c] <=> "syncing" \in bits[c]
      BY <1>0, <1>2, <3>1, ClientWord DEF ClientMayChange
    <3> QED BY <1>1, <2>1, <2>2, <3>2
  <2>3. ASSUME NEW c \in Ids, ReleaseSyncStart(t, c) PROVE SyncOnce'
    <3>1. "syncing" \notin bits[c]
      BY <2>3, StartsUnsynced
    <3>2. /\ \A d \in Ids : bits'[d] = IF d = c THEN SyncStarted(bits[c]) ELSE bits[d]
          /\ "syncing" \in SyncStarted(bits[c])
      BY <1>0, <2>3 DEF ReleaseSyncStart, SyncStarted, Shape
    <3>3. pending_sync' = [pending_sync EXCEPT ![c] = @ + 1]
      BY <2>3 DEF ReleaseSyncStart
    <3> QED BY <1>0, <2>1, <3>1, <3>2, <3>3 DEF SyncOnce, Syncing, SyncShape
  <2> QED BY <1>2, <2>2, <2>3, ClientSyncs
<1>3. ASSUME NEW l \in Loaders, LoaderStep(l) PROVE SyncOnce'
  <2>1. UNCHANGED <<pending_sync, spc, schunk>>
    BY <1>3 DEF LoaderStep, LoaderFrame, syncs, syncer
  <2>2. \A c \in Ids : "syncing" \in bits'[c] <=> "syncing" \in bits[c]
    BY <1>0, <1>3, LoaderWord DEF LoaderMayChange
  <2> QED BY <1>1, <2>1, <2>2
<1>4. ASSUME NEW s \in Syncers, SyncerStep(s) PROVE SyncOnce'
  <2>0. \A c \in Ids : SyncerMayChange(s, c)
    BY <1>0, <1>4, SyncerWord
  <2>1. ASSUME NEW c \in Ids, SyncTake(s, c) PROVE SyncOnce'
    BY <1>0, <2>1 DEF SyncTake, SyncerAt, SyncOnce, Syncing, SyncShape, word
  <2>2. CASE SyncDone(s)
    <3>1. /\ schunk[s] \in Ids /\ pending_sync' = pending_sync
          /\ spc[s] = "sync" /\ spc' = [spc EXCEPT ![s] = "count"]
          /\ schunk' = [schunk EXCEPT ![s] = None]
      BY <1>0, <2>2 DEF SyncDone, SyncerAt, Forget, syncs, SyncShape
    <3>2. \A c \in Ids : "syncing" \in bits'[c]
                              <=> "syncing" \in bits[c] /\ c # schunk[s]
      BY <1>0, <2>2, <3>1 DEF SyncDone, Synced, Shape
    <3> QED BY <1>0, <3>1, <3>2 DEF SyncOnce, Syncing, SyncShape
  <2>3. CASE TryStart(s)
    <3>0. PICK c \in Ids : c = schunk[s]
      BY <1>0, <2>3 DEF TryStart, SyncShape
    <3>1. "syncing" \notin bits[c]
      BY <2>3, <3>0, StartsUnsynced
    <3>2. /\ \A d \in Ids : bits'[d] = IF d = c THEN SyncStarted(bits[c]) ELSE bits[d]
          /\ "syncing" \in SyncStarted(bits[c])
      BY <1>0, <2>3, <3>0 DEF TryStart, SyncStarted, Shape
    <3>3. /\ pending_sync' = [pending_sync EXCEPT ![c] = @ + 1]
          /\ spc[s] = "check" /\ spc' = [spc EXCEPT ![s] = "inc"]
          /\ schunk' = [schunk EXCEPT ![s] = None]
      BY <2>3, <3>0 DEF TryStart, SyncerAt, Forget
    <3> QED BY <1>0, <3>1, <3>2, <3>3 DEF SyncOnce, Syncing, SyncShape
  <2>4. CASE SyncerQuiet(s)
    BY <2>4 DEF SyncerQuiet, SyncOnce, Syncing, word
  <2> QED BY <1>0, <1>4, <2>1, <2>2, <2>3, <2>4, SyncerSyncs
<1>5. CASE UNCHANGED vars
  BY <1>1, <1>5 DEF vars, word, syncs, syncer
<1> QED BY <1>2, <1>3, <1>4, <1>5 DEF Next

LEMMA SyncOnceHolds ==
  ASSUME ReuseInRam PROVE Spec => []SyncOnce
<1>1. Init => SyncOnce
  BY DEF Init, SyncOnce
<1>2. ReuseInRam /\ TypeInv /\ SafeInv /\ SyncOnce /\ [Next]_vars => SyncOnce'
  BY SyncOnceNext
<1> QED BY <1>1, <1>2, Invariants, ReuseStays, PTL DEF Spec

\* What is in the slots and in the files.  A sync reads the slot of its chunk (739),
\* which is in memory for as long as its task lasts.
DataInv == slot_data \in [Slots -> Values] /\ disk \in [Ids -> Values \cup {None}]

LEMMA DataNext ==
  ASSUME TypeInv, SafeInv, SyncOnce, DataInv, [Next]_vars PROVE DataInv'
<1> USE Constants DEF DataInv
<1>0. Shape /\ SyncShape
  BY SyncShapes
<1>1. UNCHANGED <<slot_data, disk>> => DataInv'
  OBVIOUS
<1>2. ASSUME NEW t \in Clients, ClientCalls(t) \/ ClientRuns(t) PROVE DataInv'
  <2>1. ASSUME NEW c \in Ids, NEW v \in Values, Write(t, c, v) PROVE DataInv'
    BY <2>1 DEF Write
  <2>2. CASE ReleaseDelMark(t)
    BY <2>2 DEF ReleaseDelMark
  <2>3. \/ UNCHANGED <<slot_data, disk>>
        \/ ReleaseDelMark(t) \/ \E c \in Ids, v \in Values : Write(t, c, v)
    BY <1>2
    DEF ClientCalls, ClientRuns, CreateFrame, FetchFrame, cache, Release,
        ReleaseSyncStart, ReleaseSyncQueue, ReleaseDelReset, ReleaseSyncCount,
        ReleaseDelPush
  <2> QED BY <1>1, <2>1, <2>2, <2>3
<1>3. ASSUME NEW l \in Loaders, LoaderStep(l) PROVE DataInv'
  <2>1. CASE LoadData(l)
    <3>1. lchunk[l] \in Ids
      BY <1>0, <2>1 DEF LoadData, LoaderAt, Shape
    <3>2. FileData(lchunk[l]) \in Values
      BY <3>1, SizesAssumption DEF FileData
    <3> QED BY <2>1, <3>2 DEF LoadData
  <2>2. UNCHANGED <<slot_data, disk>> \/ LoadData(l)
    BY <1>3
    DEF LoaderStep, LoadTake, Scan, Look, Claim, EvictMark, EvictSwap, EvictUndo, EvictUnmap,
        LoadPublish, cache
  <2> QED BY <1>1, <2>1, <2>2
<1>4. ASSUME NEW s \in Syncers, SyncerStep(s) PROVE DataInv'
  <2>1. slot_data' = slot_data
    BY <1>4 DEF SyncerStep, SyncerFrame
  <2>2. CASE SyncDone(s)
    <3>1. schunk[s] \in Ids /\ "syncing" \in bits[schunk[s]]
      BY <1>0, <2>2 DEF SyncDone, SyncerAt, SyncShape, SyncOnce
    <3>2. slot_data[low[schunk[s]]] \in Values
      BY <1>0, <3>1 DEF SafeInv, LoadWord, Shape
    <3> QED BY <2>1, <2>2, <3>2 DEF SyncDone
  <2>3. UNCHANGED disk \/ SyncDone(s)
    BY <1>4
    DEF SyncerStep, SyncTake, Count, SignalSize, PurgePop, TryPop, PopOrRotate,
        PurgeEnd, Busy, PutBack, Stale, TryNext, TryStart, SignalEnd
  <2> QED BY <1>1, <2>1, <2>2, <2>3
<1>5. CASE UNCHANGED vars
  BY <1>1, <1>5 DEF vars, cache
<1> QED BY <1>2, <1>3, <1>4, <1>5 DEF Next

LEMMA DataHolds ==
  ASSUME ReuseInRam PROVE Spec => []DataInv
<1>1. Init => DataInv
  BY SizesAssumption DEF Init, DataInv
<1>2. TypeInv /\ SafeInv /\ SyncOnce /\ DataInv /\ [Next]_vars => DataInv'
  BY DataNext
<1> QED BY <1>1, <1>2, Invariants, SyncOnceHolds, PTL DEF Spec

\* Every variable keeps its type, whatever the threads do: no word, slot, queue or
\* position ever holds a value the code does not expect there.
THEOREM TypeCorrect ==
  ASSUME ReuseInRam PROVE Spec => []TypeOK
<1>1. TypeInv /\ DataInv => TypeOK
  BY DEF TypeInv, DataInv, WordInv, CacheInv, CacheType, ClientInv, LoaderInv,
         SyncerInv, TypeOK
<1> QED BY <1>1, Invariants, DataHolds, PTL

\* A chunk is marked as syncing exactly while one task writes it out: no two
\* workers write the same file, and no mark is left behind.
THEOREM OneSyncCorrect ==
  ASSUME ReuseInRam PROVE Spec => []OneSync
<1>1. SyncOnce => OneSync
  <2> SUFFICES ASSUME SyncOnce, NEW c \in Ids
               PROVE  SyncsOf(c) = IF Has(c, {"syncing"}) THEN 1 ELSE 0
    BY DEF OneSync
  <2> DEFINE S == {s \in Syncers : spc[s] = "sync" /\ schunk[s] = c}
  <2>1. Has(c, {"syncing"}) <=> "syncing" \in bits[c]
    BY DEF Has
  <2>2. CASE \E s \in Syncers : Syncing(s, c)
    <3>1. PICK s \in Syncers : Syncing(s, c)
      BY <2>2
    <3>2. "syncing" \in bits[c] /\ pending_sync[c] = 0 /\ S = {s}
      BY <3>1 DEF SyncOnce, Syncing
    <3>3. Cardinality(S) = 1
      BY <3>2, FS_Singleton
    <3> QED BY <2>1, <3>2, <3>3 DEF SyncsOf
  <2>3. CASE ~\E s \in Syncers : Syncing(s, c)
    <3>1. Cardinality(S) = 0
      BY <2>3, FS_EmptySet DEF Syncing
    <3>2. pending_sync[c] = IF "syncing" \in bits[c] THEN 1 ELSE 0
      BY <2>3 DEF SyncOnce
    <3> QED BY <2>1, <3>1, <3>2 DEF SyncsOf
  <2> QED BY <2>2, <2>3
<1> QED BY <1>1, SyncOnceHolds, PTL

-----------------------------------------------------------------------------
(* The ids.  DeletedOnce says that an id is on the stack at most once, and *)
(* only if deleted; IdKept, that every deleted id is there or about to be. *)

Dead(c) == c < num_chunks /\ Gone(c)
Pushing(t, c) == pc[t] = "del_push" /\ arg[t] = c

IdKept ==
    \A c \in Ids : Dead(c) => deleted[c] = 1 \/ \E t \in Clients : Pushing(t, c)

\* What a client's step may do to the ids handed out and given back.
LEMMA ClientIds ==
  ASSUME Shape, NEW t \in Clients, ClientCalls(t) \/ ClientRuns(t)
  PROVE  /\ \A u \in Clients \ {t} : pc'[u] = pc[u] /\ arg'[u] = arg[u]
         /\ \/ ReleaseDelPush(t)
            \/ \E c \in Ids : TakeDeleted(t, c) /\ pc[t] \in {"pop", "last"}
            \/ CreateTake(t) /\ StillNext(t)
            \/ UNCHANGED ids /\ pc[t] # "del_push"
<1> USE DEF Shape, GoTo, Return, ids
<1>1. CASE CreateStep(t)
  <2>1. ASSUME NEW from \in {"pop", "last"}, NEW else \in {"next", "abort"},
               CreatePop(t, from, else)
        PROVE  /\ \A u \in Clients \ {t} : pc'[u] = pc[u] /\ arg'[u] = arg[u]
               /\ \/ \E c \in Ids : TakeDeleted(t, c) /\ pc[t] \in {"pop", "last"}
                  \/ UNCHANGED ids /\ pc[t] # "del_push"
    BY <2>1 DEF CreatePop, TakeDeleted
  <2>2. CASE CreateNext(t)
    BY <2>2 DEF CreateNext
  <2>3. CASE CreateTake(t)
    BY <2>3 DEF CreateTake
  <2> QED BY <1>1, <2>1, <2>2, <2>3 DEF CreateStep
<1>2. CASE ReleaseDelPush(t)
  BY <1>2 DEF ReleaseDelPush
<1>3. ASSUME FetchFrame, FetchNull(t) \/ FetchLoad(t) \/ FetchTake(t)
             \/ \E c \in Ids : Prefetch(t, c) \/ FetchCall(t, c)
      PROVE  /\ \A u \in Clients \ {t} : pc'[u] = pc[u] /\ arg'[u] = arg[u]
             /\ UNCHANGED ids /\ pc[t] # "del_push"
  BY <1>3
  DEF FetchFrame, FetchNull, FetchLoad, FetchTake, Prefetch, FetchCall, client
<1>4. ASSUME NEW c \in Ids, HolderFrame,
             \/ \E v \in Values : Write(t, c, v)
             \/ Release(t, c) \/ ReleaseSyncStart(t, c) \/ ReleaseSyncQueue(t, c)
             \/ ReleaseDelReset(t, c)
      PROVE  /\ \A u \in Clients \ {t} : pc'[u] = pc[u] /\ arg'[u] = arg[u]
             /\ UNCHANGED ids /\ pc[t] # "del_push"
  BY <1>4
  DEF HolderFrame, Write, Release, ReleaseSyncStart, ReleaseSyncQueue,
      ReleaseDelReset, HolderCalls, client
<1>5. ASSUME HolderFrame, ReleaseSyncCount(t) \/ ReleaseDelMark(t)
      PROVE  /\ \A u \in Clients \ {t} : pc'[u] = pc[u] /\ arg'[u] = arg[u]
             /\ UNCHANGED ids /\ pc[t] # "del_push"
  BY <1>5 DEF HolderFrame, ReleaseSyncCount, ReleaseDelMark
<1>6. CASE CreateCall(t)
  BY <1>6 DEF CreateCall
<1> QED BY <1>1, <1>2, <1>3, <1>4, <1>5, <1>6 DEF ClientCalls, ClientRuns

LEMMA IdKeptNext ==
  ASSUME ReuseInRam, TypeInv, SafeInv, IdKept, [Next]_vars PROVE IdKept'
<1> USE Constants
<1>0. Shape
  BY Shapes
<1>1. ASSUME UNCHANGED <<ids, pc, arg>>,
             \A c \in Ids : \/ SamePlace(c) \/ "caching" \in bits'[c]
                            \/ low'[c] # SizeMask
      PROVE  IdKept'
  BY <1>1 DEF IdKept, Dead, Gone, Pushing, SamePlace, ids
<1>2. ASSUME NEW t \in Clients, ClientCalls(t) \/ ClientRuns(t) PROVE IdKept'
  <2>0. \A c \in Ids : \/ SamePlace(c)
                       \/ ReleaseDelMark(t) /\ arg[t] = c
                       \/ low'[c] # SizeMask
    BY <1>0, <1>2, ClientWord DEF ClientMayChange
  <2>1. \A u \in Clients \ {t} : pc'[u] = pc[u] /\ arg'[u] = arg[u]
    BY <1>0, <1>2, ClientIds
  <2>2. CASE ReleaseDelPush(t)
    <3>1. arg[t] \in Ids /\ deleted[arg[t]] = 0
      BY <1>0, <2>2 DEF ReleaseDelPush, Shape, SafeInv, DeletedOnce
    <3>2. /\ deleted' = [deleted EXCEPT ![arg[t]] = @ + 1] /\ pc[t] = "del_push"
          /\ UNCHANGED <<num_chunks, bits, low>>
      BY <2>2 DEF ReleaseDelPush, word
    <3> QED BY <1>0, <2>1, <3>1, <3>2 DEF IdKept, Dead, Gone, Pushing, Shape
  <2>3. ASSUME NEW c \in Ids, TakeDeleted(t, c), pc[t] \in {"pop", "last"}
        PROVE  IdKept'
    BY <1>0, <2>1, <2>3 DEF TakeDeleted, IdKept, Dead, Gone, Pushing, Shape
  <2>4. CASE CreateTake(t) /\ StillNext(t)
    <3>1. /\ arg[t] \in Ids /\ arg[t] = num_chunks /\ num_chunks' = num_chunks + 1
          /\ low' = [low EXCEPT ![arg[t]] = 0] /\ deleted' = deleted
          /\ bits' = [bits EXCEPT ![arg[t]] = {}] /\ pc[t] = "take"
      BY <1>0, <2>4 DEF CreateTake, StillNext, Shape
    <3>2. \A c \in Ids : Dead(c)' => Dead(c)
      BY <1>0, <3>1 DEF Dead, Gone, Shape, Ids
    <3> QED BY <2>1, <3>1, <3>2 DEF IdKept, Pushing
  <2>5. CASE UNCHANGED ids /\ pc[t] # "del_push"
    <3>1. \A c \in Ids : Dead(c)' => Dead(c) \/ (ReleaseDelMark(t) /\ arg[t] = c)
      BY <2>0, <2>5 DEF Dead, Gone, SamePlace, ids
    <3>2. ReleaseDelMark(t) => pc'[t] = "del_push" /\ arg'[t] = arg[t]
      BY <1>0 DEF ReleaseDelMark, GoTo, Shape
    <3> QED BY <2>1, <2>5, <3>1, <3>2 DEF IdKept, Pushing, ids
  <2> QED BY <1>0, <1>2, <2>2, <2>3, <2>4, <2>5, ClientIds
<1>3. ASSUME NEW l \in Loaders, LoaderStep(l) PROVE IdKept'
  <2>1. UNCHANGED <<ids, pc, arg>>
    BY <1>3 DEF LoaderStep, LoaderFrame, client
  <2> QED BY <1>0, <1>1, <1>3, <2>1, LoaderWord DEF LoaderMayChange
<1>4. ASSUME NEW s \in Syncers, SyncerStep(s) PROVE IdKept'
  <2>1. UNCHANGED <<ids, pc, arg>>
    BY <1>4 DEF SyncerStep, SyncerFrame, client
  <2> QED BY <1>0, <1>1, <1>4, <2>1, SyncerWord DEF SyncerMayChange
<1>5. CASE UNCHANGED vars
  BY <1>1, <1>5 DEF vars, word, client, SamePlace
<1> QED BY <1>2, <1>3, <1>4, <1>5 DEF Next

\* An id is on the stack of deleted ids, or about to be pushed, exactly while its
\* word says deleted: create_chunk returns no chunk in use, and loses no id.
THEOREM IdsKeptCorrect ==
  ASSUME ReuseInRam PROVE Spec => []IdsKept
<1>1. Init => IdKept
  BY DEF Init, IdKept, Dead, Ids
<1>2. ReuseInRam /\ TypeInv /\ SafeInv /\ IdKept /\ [Next]_vars => IdKept'
  BY IdKeptNext
<1>3. TypeInv /\ SafeInv /\ IdKept => IdsKept
  <2> SUFFICES ASSUME TypeInv, SafeInv, IdKept, NEW c \in Ids
               PROVE  deleted[c] + Cardinality({t \in Clients : Pushing(t, c)})
                          = IF Dead(c) THEN 1 ELSE 0
    BY DEF IdsKept, Dead, Gone, Pushing, Has
  <2> DEFINE S == {t \in Clients : Pushing(t, c)}
  <2>0. Shape
    BY Shapes
  <2>1. deleted[c] = 1 \/ S # {} => Dead(c)
    <3>1. deleted[c] = 1 \/ S # {} => Gone(c)
      BY DEF SafeInv, DeletedOnce, Pushing
    <3>2. Gone(c) => Dead(c)
      BY <2>0, Constants DEF Gone, Dead, SafeInv, FreshId, Shape, Ids
    <3> QED BY <3>1, <3>2
  <2>2. CASE S # {}
    <3>1. PICK t \in Clients : Pushing(t, c)
      BY <2>2
    <3>2. deleted[c] = 0 /\ S = {t}
      BY <3>1 DEF SafeInv, DeletedOnce, Pushing
    <3> QED BY <2>1, <2>2, <3>2, FS_Singleton
  <2>3. CASE S = {}
    <3>1. deleted[c] = IF Dead(c) THEN 1 ELSE 0
      BY <2>1, <2>3 DEF SafeInv, DeletedOnce, IdKept
    <3> QED BY <2>3, <3>1, FS_EmptySet
  <2> QED BY <2>2, <2>3
<1> QED BY <1>1, <1>2, <1>3, Invariants, ReuseStays, PTL DEF Spec

-----------------------------------------------------------------------------
(* The slots.  Every slot taken belongs to the chunk that is cached there  *)
(* or to the one that is being loaded into it (SlotOwner); so, without a   *)
(* disk, a slot is free while a worker still looks for one, there being as *)
(* many slots as ids.                                                      *)

\* Without a disk some slot is free whenever a worker looks for one (571-583): not
\* that the scan comes to it before another worker takes it.
THEOREM SlotForLoadCorrect == Spec => []SlotForLoad
<1> USE Constants
<1>1. CASE ~CacheOnly
  <2>1. SlotForLoad
    BY <1>1 DEF SlotForLoad
  <2> QED BY <2>1, PTL
<1>2. CASE CacheOnly
  <2>1. ASSUME TypeInv, SafeInv, NEW l \in Loaders, lpc[l] \in {"scan", "claim"},
               \A s \in Slots : slot_id[s] # None
        PROVE  FALSE
    <3> DEFINE Others == Ids \ {lchunk[l]}
    <3>0. Shape
      BY <2>1, Shapes
    <3>1. lchunk[l] \in Ids /\ \A s \in Slots : slot_id[s] # lchunk[l]
      <4>1. lchunk[l] \in Ids /\ "caching" \notin bits[lchunk[l]]
        BY <2>1, <3>0 DEF Shape, SafeInv, LoadOnce, LoadWord
      <4>2. \A s \in Slots : ~Owns(lchunk[l], s)
        BY <2>1, <4>1 DEF Owns, InSlot, Filling, SafeInv, LoadOnce
      <4> QED BY <2>1, <4>1, <4>2 DEF SafeInv, SlotOwner
    <3>2. slot_id \in [Slots -> Others]
      BY <2>1, <3>0, <3>1 DEF Shape
    <3>3. ASSUME NEW s \in Slots, NEW r \in Slots, slot_id[s] = slot_id[r]
          PROVE  s = r
      <4>1. PICK c \in Ids : c = slot_id[s] /\ Owns(c, s) /\ Owns(c, r)
        BY <2>1, <3>0, <3>3 DEF SafeInv, SlotOwner, Shape
      <4>2. CASE "caching" \in bits[c]
        <5>1. \A m \in Loaders : Filling(m) => lchunk[m] # c
          BY <2>1, <4>2 DEF Filling, SafeInv, LoadOnce, LoadWord
        <5> QED BY <4>1, <5>1 DEF Owns
      <4>3. CASE "caching" \notin bits[c]
        BY <2>1, <4>1, <4>3 DEF Owns, InSlot, Filling, SafeInv, LoadOnce
      <4> QED BY <4>2, <4>3
    <3>4. Slots = Ids /\ IsFiniteSet(Ids) /\ Cardinality(Ids) = MaxChunks
      BY <1>2, ModeAssumption, FS_Interval DEF Slots, Ids
    <3>5. IsFiniteSet(Others) /\ Cardinality(Others) = MaxChunks - 1
      BY <3>1, <3>4, FS_RemoveElement
    <3>6. \E s, r \in Slots : s # r /\ slot_id[s] = slot_id[r]
      BY <3>2, <3>4, <3>5, FS_PigeonHole
    <3> QED BY <3>3, <3>6
  <2>2. TypeInv /\ SafeInv => SlotForLoad
    BY <2>1 DEF SlotForLoad
  <2>3. ReuseInRam
    BY <1>2 DEF ReuseInRam
  <2> QED BY <2>2, <2>3, Invariants, PTL
<1> QED BY <1>1, <1>2

-----------------------------------------------------------------------------
(* The queue of chunks to be synced.                                       *)

InQueue(q, c) == \E i \in 1 .. Len(q) : q[i] = c

LEMMA QueueAppend ==
  ASSUME NEW q \in Seq(Ids), NEW x \in Ids, NEW c
  PROVE  /\ Append(q, x) \in Seq(Ids)
         /\ InQueue(q, c) => InQueue(Append(q, x), c)
         /\ InQueue(Append(q, x), x)
<1>1. /\ Append(q, x) \in Seq(Ids) /\ Len(q) \in Nat
      /\ Len(Append(q, x)) = Len(q) + 1
      /\ \A i \in 1 .. Len(q) : Append(q, x)[i] = q[i]
      /\ Append(q, x)[Len(q) + 1] = x
  BY AppendProperties, LenProperties
<1> HIDE DEF InQueue
<1>2. InQueue(q, c) => InQueue(Append(q, x), c)
  BY <1>1 DEF InQueue
<1>3. InQueue(Append(q, x), x)
  <2>1. Len(q) + 1 \in 1 .. Len(Append(q, x))
    BY <1>1
  <2> QED BY <1>1, <2>1 DEF InQueue
<1> QED BY <1>1, <1>2, <1>3

LEMMA QueueTail ==
  ASSUME NEW q \in Seq(Ids), q # <<>>, NEW c
  PROVE  /\ Head(q) \in Ids /\ Tail(q) \in Seq(Ids)
         /\ InQueue(q, c) => InQueue(Tail(q), c) \/ Head(q) = c
<1>1. /\ Head(q) \in Ids /\ Tail(q) \in Seq(Ids) /\ Head(q) = q[1]
      /\ Len(q) \in Nat /\ Len(Tail(q)) = Len(q) - 1
      /\ \A i \in 1 .. Len(Tail(q)) : Tail(q)[i] = q[i + 1]
  BY HeadTailProperties, LenProperties
<1>2. ASSUME NEW i \in 1 .. Len(q), q[i] = c, i # 1 PROVE InQueue(Tail(q), c)
  <2>1. i - 1 \in 1 .. Len(Tail(q)) /\ Tail(q)[i - 1] = q[i]
    BY <1>1, <1>2
  <2> QED BY <1>2, <2>1 DEF InQueue
<1> QED BY <1>1, <1>2 DEF InQueue

\* A chunk that is queued, or in the hands of a worker.
Kept(c) == InQueue(to_sync, c) \/ \E s \in Syncers : InHand(s, c)

LEMMA ToSyncQueuedIs ==
  /\ ToSyncQueued <=> \A c \in Ids : "to_sync" \in bits[c] => Kept(c)
  /\ ToSyncQueued' <=> \A c \in Ids : "to_sync" \in bits'[c] => Kept(c)'
<1>1. ToSyncQueued <=> \A c \in Ids : "to_sync" \in bits[c] => Kept(c)
  BY DEF ToSyncQueued, InQueue, Has, Kept
<1>2. ToSyncQueued' <=> \A c \in Ids : "to_sync" \in bits'[c] => Kept(c)'
  BY DEF ToSyncQueued, InQueue, Has, Kept
<1> QED BY <1>1, <1>2

\* A syncing worker lets go of a chunk only when it has queued it again, or when
\* the chunk is no longer marked.
LEMMA SyncerQueue ==
  ASSUME Shape, SyncShape, NEW s \in Syncers, SyncerStep(s),
         NEW c \in Ids, "to_sync" \in bits'[c], "to_sync" \in bits[c], Kept(c)
  PROVE  Kept(c)'
<1> USE DEF SyncShape, SyncerAt
<1>1. ASSUME InQueue(to_sync, c) => InQueue(to_sync', c) \/ InHand(s, c)',
             InHand(s, c) => InQueue(to_sync', c) \/ InHand(s, c)',
             \A u \in Syncers \ {s} : spc'[u] = spc[u] /\ schunk'[u] = schunk[u]
      PROVE  Kept(c)'
  BY <1>1 DEF Kept, InHand
<1>2. ASSUME NEW busy, NEW from \in {"purge", "pop"}, NEW rotated,
             NEW popped \in {"purge_check", "check"},
             PopOrRotate(s, busy, from, rotated, popped)
      PROVE  Kept(c)'
  <2>1. /\ ~InHand(s, c) /\ to_sync # <<>>
        /\ \A u \in Syncers \ {s} : spc'[u] = spc[u] /\ schunk'[u] = schunk[u]
    BY <1>2 DEF PopOrRotate, InHand
  <2>2. CASE Has(Head(to_sync), busy)
    <3>1. to_sync' = Append(Tail(to_sync), Head(to_sync))
      BY <1>2, <2>2 DEF PopOrRotate
    <3>2. InQueue(to_sync, c) => InQueue(to_sync', c)
      BY <2>1, <3>1, QueueTail, QueueAppend
    <3> QED BY <1>1, <2>1, <3>2
  <2>3. CASE ~Has(Head(to_sync), busy)
    <3>1. /\ to_sync' = Tail(to_sync) /\ schunk'[s] = Head(to_sync)
          /\ spc'[s] \in {"purge_check", "check"}
      BY <1>2, <2>3 DEF PopOrRotate
    <3>2. InQueue(to_sync, c) => InQueue(to_sync', c) \/ InHand(s, c)'
      BY <2>1, <3>1, QueueTail DEF InHand
    <3> QED BY <1>1, <2>1, <3>2
  <2> QED BY <2>2, <2>3
<1>3. ASSUME NEW from \in {"purge_put", "put"}, NEW to, PutBack(s, from, to)
      PROVE  Kept(c)'
  <2>1. /\ to_sync' = Append(to_sync, schunk[s]) /\ schunk[s] \in Ids
        /\ \A u \in Syncers \ {s} : spc'[u] = spc[u] /\ schunk'[u] = schunk[u]
    BY <1>3 DEF PutBack, Forget
  <2>2. InQueue(to_sync, c) \/ InHand(s, c) => InQueue(to_sync', c)
    BY <2>1, QueueAppend DEF InHand
  <2> QED BY <1>1, <2>1, <2>2
<1>4. ASSUME NEW mask, NEW from \in {"purge_check", "check"},
             NEW to \in {"purge_put", "put"}, Busy(s, mask, from, to)
      PROVE  Kept(c)'
  <2>1. /\ to_sync' = to_sync
        /\ InHand(s, c) => InHand(s, c)'
        /\ \A u \in Syncers \ {s} : spc'[u] = spc[u] /\ schunk'[u] = schunk[u]
    BY <1>4 DEF Busy, InHand, syncs
  <2> QED BY <1>1, <2>1
<1>5. ASSUME UNCHANGED to_sync, ~InHand(s, c),
             \A u \in Syncers \ {s} : spc'[u] = spc[u] /\ schunk'[u] = schunk[u]
      PROVE  Kept(c)'
  BY <1>1, <1>5
<1>6. ASSUME NEW from, NEW to, Stale(s, EvictBusy, from, to) PROVE Kept(c)'
  <2>1. "to_sync" \notin bits[schunk[s]]
    BY <1>6 DEF Stale, Has, EvictBusy
  <2>2. /\ UNCHANGED to_sync
        /\ \A u \in Syncers \ {s} : spc'[u] = spc[u] /\ schunk'[u] = schunk[u]
    BY <1>6 DEF Stale, Forget, syncs
  <2> QED BY <1>5, <2>1, <2>2 DEF InHand
<1>7. CASE TryStart(s)
  <2>1. "to_sync" \notin bits'[schunk[s]]
    BY <1>7 DEF TryStart, SyncStarted, Shape
  <2>2. /\ UNCHANGED to_sync
        /\ \A u \in Syncers \ {s} : spc'[u] = spc[u] /\ schunk'[u] = schunk[u]
    BY <1>7 DEF TryStart, Forget
  <2> QED BY <1>5, <2>1, <2>2 DEF InHand
<1>8. CASE SyncDone(s) \/ \E d \in Ids : SyncTake(s, d)
  BY <1>5, <1>8 DEF SyncDone, SyncTake, Forget, InHand, syncs
<1>9. CASE \/ Count(s, "count", "size", -1) \/ Count(s, "inc", "try", 1)
           \/ SignalSize(s) \/ PurgeEnd(s) \/ TryNext(s) \/ SignalEnd(s)
  BY <1>5, <1>9 DEF Count, SignalSize, PurgeEnd, TryNext, SignalEnd, InHand, syncs
<1> QED
  BY <1>2, <1>3, <1>4, <1>6, <1>7, <1>8, <1>9
  DEF SyncerStep, PurgePop, TryPop, PurgeKeeps

LEMMA ToSyncQueuedNext ==
  ASSUME ReuseInRam, TypeInv, SafeInv, ToSyncQueued, [Next]_vars PROVE ToSyncQueued'
<1>0. Shape /\ SyncShape
  BY SyncShapes
<1> SUFFICES ASSUME NEW c \in Ids, "to_sync" \in bits'[c] PROVE Kept(c)'
  BY ToSyncQueuedIs
<1>1. "to_sync" \in bits[c] => Kept(c)
  BY ToSyncQueuedIs
<1>2. ASSUME UNCHANGED <<to_sync, spc, schunk>>, "to_sync" \in bits[c] PROVE Kept(c)'
  BY <1>1, <1>2 DEF Kept, InHand
<1>3. ASSUME NEW t \in Clients, ClientCalls(t) \/ ClientRuns(t) PROVE Kept(c)'
  <2>1. UNCHANGED <<spc, schunk>>
    BY <1>3, ClientSyncs DEF syncer
  <2>2. "to_sync" \in bits[c] \/ ReleaseSyncQueue(t, c)
    BY <1>0, <1>3, ClientWord DEF ClientMayChange
  <2>3. ASSUME NEW d \in Ids, ReleaseSyncQueue(t, d) PROVE Kept(c)'
    <3>1. to_sync' = Append(to_sync, d) /\ (c # d => bits'[c] = bits[c])
      BY <1>0, <2>3 DEF ReleaseSyncQueue, Shape
    <3>2. CASE c = d
      BY <1>0, <3>1, <3>2, QueueAppend DEF Kept, SyncShape
    <3>3. CASE c # d
      BY <1>0, <1>1, <2>1, <3>1, <3>3, QueueAppend DEF Kept, InHand, SyncShape
    <3> QED BY <3>2, <3>3
  <2>4. UNCHANGED to_sync \/ \E d \in Ids : ReleaseSyncQueue(t, d)
    BY <1>3
    DEF ClientCalls, ClientRuns, CreateFrame, FetchFrame, syncs, Write, Release,
        ReleaseSyncStart, ReleaseDelReset, ReleaseSyncCount, ReleaseDelMark,
        ReleaseDelPush
  <2> QED BY <1>2, <2>1, <2>2, <2>3, <2>4
<1>4. ASSUME NEW l \in Loaders, LoaderStep(l) PROVE Kept(c)'
  <2>1. UNCHANGED <<to_sync, spc, schunk>>
    BY <1>4 DEF LoaderStep, LoaderFrame, syncs, syncer
  <2> QED BY <1>0, <1>2, <1>4, <2>1, LoaderWord DEF LoaderMayChange
<1>5. ASSUME NEW s \in Syncers, SyncerStep(s) PROVE Kept(c)'
  <2>1. "to_sync" \in bits[c]
    BY <1>0, <1>5, SyncerWord DEF SyncerMayChange
  <2> QED BY <1>0, <1>1, <1>5, <2>1, SyncerQueue
<1>6. CASE UNCHANGED vars
  BY <1>2, <1>6 DEF vars, word, syncs, syncer
<1> QED BY <1>3, <1>4, <1>5, <1>6 DEF Next

\* A chunk marked to be synced is queued, or in the hands of the worker that took
\* it from the queue: however often the queue is rotated, none is forgotten.
THEOREM ToSyncQueuedCorrect ==
  ASSUME ReuseInRam PROVE Spec => []ToSyncQueued
<1>1. Init => ToSyncQueued
  BY DEF Init, ToSyncQueued, Has
<1>2. ReuseInRam /\ TypeInv /\ SafeInv /\ ToSyncQueued /\ [Next]_vars => ToSyncQueued'
  BY ToSyncQueuedNext
<1> QED BY <1>1, <1>2, Invariants, ReuseStays, PTL DEF Spec

-----------------------------------------------------------------------------
(* The count of syncs in flight.  Only finitely many threads are ever in   *)
(* the middle of something, however many there are: that is part of the    *)
(* invariant, and no assumption about the sets of threads.                 *)

\* The members of S at place v of f, and how their number changes in a step.
At(S, f, v) == {x \in S : f[x] = v}
One(b) == IF b THEN 1 ELSE 0

LEMMA AtMoves ==
  ASSUME NEW S, NEW f, NEW g, NEW v, NEW x \in S, IsFiniteSet(At(S, f, v)),
         \A y \in S \ {x} : g[y] = f[y]
  PROVE  /\ IsFiniteSet(At(S, g, v))
         /\ Cardinality(At(S, g, v))
                = Cardinality(At(S, f, v)) + One(g[x] = v) - One(f[x] = v)
<1> DEFINE F == At(S, f, v)
           G == At(S, g, v)
<1>1. Cardinality(F) \in Nat
  BY FS_CardinalityType
<1>2. CASE (f[x] = v) = (g[x] = v)
  <2>1. F = G
    BY <1>2 DEF At
  <2> QED BY <1>1, <1>2, <2>1 DEF One
<1>3. CASE f[x] # v /\ g[x] = v
  <2>1. G = F \cup {x} /\ x \notin F
    BY <1>3 DEF At
  <2>2. IsFiniteSet(G) /\ Cardinality(G) = Cardinality(F) + 1
    BY <2>1, FS_AddElement
  <2> QED BY <1>1, <1>3, <2>2 DEF One
<1>4. CASE f[x] = v /\ g[x] # v
  <2>1. G = F \ {x} /\ x \in F
    BY <1>4 DEF At
  <2>2. IsFiniteSet(G) /\ Cardinality(G) = Cardinality(F) - 1
    BY <2>1, FS_RemoveElement
  <2> QED BY <1>1, <1>4, <2>2 DEF One
<1> QED BY <1>2, <1>3, <1>4

InSync == {c \in Ids : "syncing" \in bits[c]}
Counts == At(Syncers, spc, "count")
Incs == At(Syncers, spc, "inc")
RsCounts == At(Clients, pc, "rs_count")

SyncCountInv ==
    /\ IsFiniteSet(InSync) /\ IsFiniteSet(Counts) /\ IsFiniteSet(Incs)
    /\ IsFiniteSet(RsCounts)
    /\ num_syncing = Cardinality(InSync) + Cardinality(Counts) - Cardinality(Incs)
                         - Cardinality(RsCounts)

LEMMA SyncCountNat ==
  ASSUME SyncCountInv
  PROVE  /\ Cardinality(InSync) \in Nat /\ Cardinality(Counts) \in Nat
         /\ Cardinality(Incs) \in Nat /\ Cardinality(RsCounts) \in Nat
  BY FS_CardinalityType DEF SyncCountInv

\* What the syncers' places say is the same, or what the clients' say.
LEMMA CountsFrame ==
  /\ UNCHANGED spc => UNCHANGED <<Counts, Incs>>
  /\ UNCHANGED pc => UNCHANGED RsCounts
  /\ (\A c \in Ids : "syncing" \in bits'[c] <=> "syncing" \in bits[c])
         => UNCHANGED InSync
  BY DEF Counts, Incs, RsCounts, InSync, At

\* Where a client is in the middle of counting.
LEMMA ClientCounts ==
  ASSUME Shape, NEW t \in Clients, ClientCalls(t) \/ ClientRuns(t)
  PROVE  /\ \A u \in Clients \ {t} : pc'[u] = pc[u]
         /\ \/ \E c \in Ids : ReleaseSyncStart(t, c)
            \/ ReleaseSyncCount(t)
            \/ /\ UNCHANGED num_syncing /\ pc[t] # "rs_count" /\ pc'[t] # "rs_count"
               /\ \A c \in Ids : ~ReleaseSyncStart(t, c)
<1> DEFINE Elsewhere == /\ UNCHANGED num_syncing
                        /\ pc[t] # "rs_count" /\ pc'[t] # "rs_count"
<1> USE DEF Shape, GoTo, Return
<1>1. \A u \in Clients \ {t} : pc'[u] = pc[u]
  BY ClientIds
<1>2. ASSUME CreateStep(t), CreateFrame PROVE Elsewhere
  <2>1. ASSUME NEW from \in {"pop", "last"}, NEW else \in {"next", "abort"},
               CreatePop(t, from, else)
        PROVE  pc[t] # "rs_count" /\ pc'[t] # "rs_count"
    BY <2>1 DEF CreatePop, TakeDeleted
  <2>2. CreateNext(t) => pc[t] # "rs_count" /\ pc'[t] # "rs_count"
    BY DEF CreateNext
  <2>3. CreateTake(t) => pc[t] # "rs_count" /\ pc'[t] # "rs_count"
    BY DEF CreateTake
  <2> QED BY <1>2, <2>1, <2>2, <2>3 DEF CreateStep, CreateFrame, syncs
<1>3. ASSUME CreateCall(t), CreateFrame PROVE Elsewhere
  BY <1>3 DEF CreateCall, CreateFrame, syncs
<1>4. ASSUME FetchFrame, FetchNull(t) \/ FetchLoad(t) \/ FetchTake(t)
             \/ \E c \in Ids : Prefetch(t, c) \/ FetchCall(t, c)
      PROVE  Elsewhere
  BY <1>4
  DEF FetchFrame, FetchNull, FetchLoad, FetchTake, Prefetch, FetchCall, client, syncs
<1>5. ASSUME NEW c \in Ids,
             \/ \E v \in Values : Write(t, c, v)
             \/ Release(t, c) \/ ReleaseSyncQueue(t, c) \/ ReleaseDelReset(t, c)
      PROVE  Elsewhere
  BY <1>5
  DEF Write, Release, ReleaseSyncQueue, ReleaseDelReset, HolderCalls, client, syncs
<1>6. ASSUME ReleaseDelMark(t) \/ ReleaseDelPush(t) PROVE Elsewhere
  BY <1>6 DEF ReleaseDelMark, ReleaseDelPush, syncs
<1>7. \/ \E c \in Ids : ReleaseSyncStart(t, c)
      \/ ReleaseSyncCount(t)
      \/ Elsewhere
  BY <1>2, <1>3, <1>4, <1>5, <1>6 DEF ClientCalls, ClientRuns
<1> QED BY <1>1, <1>7

\* Where a syncing worker is.
LEMMA SyncerCounts ==
  ASSUME SyncShape, NEW s \in Syncers, SyncerStep(s)
  PROVE  /\ \A u \in Syncers \ {s} : spc'[u] = spc[u]
         /\ \/ SyncDone(s) \/ TryStart(s)
            \/ Count(s, "count", "size", -1) \/ Count(s, "inc", "try", 1)
            \/ /\ UNCHANGED num_syncing
               /\ spc[s] \notin {"count", "inc"} /\ spc'[s] \notin {"count", "inc"}
<1> DEFINE Elsewhere ==
               /\ UNCHANGED num_syncing
               /\ spc[s] \notin {"count", "inc"} /\ spc'[s] \notin {"count", "inc"}
<1> USE DEF SyncShape, SyncerAt
<1>1. \A u \in Syncers \ {s} : spc'[u] = spc[u]
  BY DEF SyncerStep, SyncTake, SyncDone, Count, SignalSize, PurgePop, TryPop,
         PopOrRotate, PurgeEnd, Busy, PutBack, Stale, TryNext, TryStart, SignalEnd
<1>2. CASE PurgePop(s) \/ TryPop(s)
  <2>1. Elsewhere
    BY <1>2 DEF PurgePop, TryPop, PopOrRotate
  <2> QED BY <1>1, <2>1
<1>3. ASSUME NEW mask, NEW from \in {"purge_check", "check"},
             NEW to \in {"purge_put", "put", "purge", "try"},
             Busy(s, mask, from, to) \/ Stale(s, mask, from, to)
      PROVE  Elsewhere
  BY <1>3 DEF Busy, Stale, syncs
<1>4. CASE PutBack(s, "purge_put", "purge") \/ PutBack(s, "put", "try")
  <2>1. Elsewhere
    BY <1>4 DEF PutBack
  <2> QED BY <1>1, <2>1
<1>5. CASE \/ SignalSize(s) \/ PurgeEnd(s) \/ TryNext(s) \/ SignalEnd(s)
           \/ \E c \in Ids : SyncTake(s, c)
  <2>1. Elsewhere
    BY <1>5 DEF SignalSize, PurgeEnd, TryNext, SignalEnd, SyncTake, syncs
  <2> QED BY <1>1, <2>1
<1> QED BY <1>1, <1>2, <1>3, <1>4, <1>5 DEF SyncerStep

\* One chunk gets the syncing mark, or loses it.
LEMMA MarkMoves ==
  ASSUME NEW c \in Ids, IsFiniteSet(InSync),
         \A d \in Ids \ {c} : "syncing" \in bits'[d] <=> "syncing" \in bits[d]
  PROVE  /\ "syncing" \notin bits[c] /\ "syncing" \in bits'[c]
                => IsFiniteSet(InSync') /\ Cardinality(InSync') = Cardinality(InSync) + 1
         /\ "syncing" \in bits[c] /\ "syncing" \notin bits'[c]
                => IsFiniteSet(InSync') /\ Cardinality(InSync') = Cardinality(InSync) - 1
<1>1. ASSUME "syncing" \notin bits[c], "syncing" \in bits'[c]
      PROVE  IsFiniteSet(InSync') /\ Cardinality(InSync') = Cardinality(InSync) + 1
  <2>1. InSync' = InSync \cup {c} /\ c \notin InSync
    BY <1>1 DEF InSync
  <2> HIDE DEF InSync
  <2> QED BY <2>1, FS_AddElement
<1>2. ASSUME "syncing" \in bits[c], "syncing" \notin bits'[c]
      PROVE  IsFiniteSet(InSync') /\ Cardinality(InSync') = Cardinality(InSync) - 1
  <2>1. InSync' = InSync \ {c} /\ c \in InSync
    BY <1>2 DEF InSync
  <2> HIDE DEF InSync
  <2> QED BY <2>1, FS_RemoveElement
<1> QED BY <1>1, <1>2

\* How the places of the workers count, and of the clients.
LEMMA PlacesMove ==
  ASSUME SyncCountInv
  PROVE  /\ \A s \in Syncers : (\A u \in Syncers \ {s} : spc'[u] = spc[u]) =>
                /\ IsFiniteSet(Counts') /\ IsFiniteSet(Incs')
                /\ Cardinality(Counts') = Cardinality(Counts)
                       + One(spc'[s] = "count") - One(spc[s] = "count")
                /\ Cardinality(Incs') = Cardinality(Incs)
                       + One(spc'[s] = "inc") - One(spc[s] = "inc")
         /\ \A t \in Clients : (\A u \in Clients \ {t} : pc'[u] = pc[u]) =>
                /\ IsFiniteSet(RsCounts')
                /\ Cardinality(RsCounts') = Cardinality(RsCounts)
                       + One(pc'[t] = "rs_count") - One(pc[t] = "rs_count")
<1> USE DEF SyncCountInv, Counts, Incs, RsCounts
<1>1. ASSUME NEW s \in Syncers, \A u \in Syncers \ {s} : spc'[u] = spc[u],
             NEW v, IsFiniteSet(At(Syncers, spc, v))
      PROVE  /\ IsFiniteSet(At(Syncers, spc', v))
             /\ Cardinality(At(Syncers, spc', v)) = Cardinality(At(Syncers, spc, v))
                    + One(spc'[s] = v) - One(spc[s] = v)
  BY <1>1, AtMoves
<1>2. ASSUME NEW t \in Clients, \A u \in Clients \ {t} : pc'[u] = pc[u]
      PROVE  /\ IsFiniteSet(At(Clients, pc', "rs_count"))
             /\ Cardinality(At(Clients, pc', "rs_count"))
                    = Cardinality(At(Clients, pc, "rs_count"))
                      + One(pc'[t] = "rs_count") - One(pc[t] = "rs_count")
  BY <1>2, AtMoves
<1>3. /\ Counts' = At(Syncers, spc', "count") /\ Incs' = At(Syncers, spc', "inc")
      /\ RsCounts' = At(Clients, pc', "rs_count")
  BY DEF At
<1> QED BY <1>1, <1>2, <1>3

LEMMA SyncCountNext ==
  ASSUME ReuseInRam, TypeInv, SafeInv, SyncOnce, SyncCountInv, [Next]_vars
  PROVE  SyncCountInv'
<1> USE Constants
<1>0. /\ Shape /\ SyncShape
      /\ Cardinality(InSync) \in Nat /\ Cardinality(Counts) \in Nat
      /\ Cardinality(Incs) \in Nat /\ Cardinality(RsCounts) \in Nat
  BY SyncShapes, SyncCountNat
<1>1. ASSUME UNCHANGED <<num_syncing, spc, pc>>,
             \A c \in Ids : "syncing" \in bits'[c] <=> "syncing" \in bits[c]
      PROVE  SyncCountInv'
  <2>1. UNCHANGED <<Counts, Incs, RsCounts, InSync>>
    BY <1>1, CountsFrame
  <2> QED BY <1>1, <2>1 DEF SyncCountInv
<1>2. ASSUME NEW t \in Clients, ClientCalls(t) \/ ClientRuns(t) PROVE SyncCountInv'
  <2>1. UNCHANGED <<Counts, Incs>>
    BY <1>2, ClientSyncs, CountsFrame DEF syncer
  <2>2. /\ IsFiniteSet(RsCounts')
        /\ Cardinality(RsCounts') = Cardinality(RsCounts)
               + One(pc'[t] = "rs_count") - One(pc[t] = "rs_count")
    BY <1>0, <1>2, ClientCounts, PlacesMove
  <2>3. ASSUME NEW c \in Ids, ReleaseSyncStart(t, c) PROVE SyncCountInv'
    <3>1. /\ num_syncing' = num_syncing /\ pc[t] # "rs_count" /\ pc'[t] = "rs_count"
          /\ bits' = [bits EXCEPT ![c] = SyncStarted(@)]
      BY <1>0, <2>3 DEF ReleaseSyncStart, HolderCalls, GoTo, Shape
    <3>2. /\ IsFiniteSet(InSync') /\ Cardinality(InSync') = Cardinality(InSync) + 1
      <4>1. "syncing" \notin bits[c] /\ "syncing" \in bits'[c]
        BY <1>0, <2>3, <3>1, StartsUnsynced DEF SyncStarted, Shape
      <4>2. \A d \in Ids \ {c} : bits'[d] = bits[d]
        BY <1>0, <3>1 DEF Shape
      <4> QED BY <4>1, <4>2, MarkMoves DEF SyncCountInv
    <3>3. Cardinality(RsCounts') = Cardinality(RsCounts) + 1
      BY <1>0, <2>2, <3>1 DEF One
    <3> QED BY <1>0, <2>1, <2>2, <3>1, <3>2, <3>3 DEF SyncCountInv
  <2>4. ASSUME \A c \in Ids : ~ReleaseSyncStart(t, c) PROVE UNCHANGED InSync
    <3>1. \A c \in Ids : "syncing" \in bits'[c] <=> "syncing" \in bits[c]
      BY <1>0, <1>2, <2>4, ClientWord DEF ClientMayChange
    <3> QED BY <3>1, CountsFrame
  <2>5. ASSUME ReleaseSyncCount(t) PROVE SyncCountInv'
    <3>1. /\ num_syncing' = num_syncing + 1 /\ num_syncing \in Int
          /\ pc[t] = "rs_count" /\ pc'[t] # "rs_count"
      BY <1>0, <2>5 DEF ReleaseSyncCount, Return, GoTo, Shape, SyncShape
    <3>2. UNCHANGED InSync
      BY <2>4, <3>1 DEF ReleaseSyncStart, HolderCalls
    <3>3. Cardinality(RsCounts') = Cardinality(RsCounts) - 1
      BY <1>0, <2>2, <3>1 DEF One
    <3> QED BY <1>0, <2>1, <2>2, <3>1, <3>2, <3>3 DEF SyncCountInv
  <2>6. ASSUME UNCHANGED num_syncing, pc[t] # "rs_count", pc'[t] # "rs_count",
               \A c \in Ids : ~ReleaseSyncStart(t, c)
        PROVE  SyncCountInv'
    <3>1. Cardinality(RsCounts') = Cardinality(RsCounts)
      BY <1>0, <2>2, <2>6 DEF One
    <3> QED BY <2>1, <2>2, <2>4, <2>6, <3>1 DEF SyncCountInv
  <2> QED BY <1>0, <1>2, <2>3, <2>5, <2>6, ClientCounts
<1>3. ASSUME NEW l \in Loaders, LoaderStep(l) PROVE SyncCountInv'
  <2>1. UNCHANGED <<num_syncing, spc, pc>>
    BY <1>3 DEF LoaderStep, LoaderFrame, syncs, syncer, client
  <2> QED BY <1>0, <1>1, <1>3, <2>1, LoaderWord DEF LoaderMayChange
<1>4. ASSUME NEW s \in Syncers, SyncerStep(s) PROVE SyncCountInv'
  <2>1. UNCHANGED RsCounts
    BY <1>4, CountsFrame DEF SyncerStep, SyncerFrame, client
  <2>2. /\ IsFiniteSet(Counts') /\ IsFiniteSet(Incs')
        /\ Cardinality(Counts') = Cardinality(Counts)
               + One(spc'[s] = "count") - One(spc[s] = "count")
        /\ Cardinality(Incs') = Cardinality(Incs)
               + One(spc'[s] = "inc") - One(spc[s] = "inc")
    BY <1>0, <1>4, SyncerCounts, PlacesMove
  <2>3. ASSUME SyncDone(s) PROVE SyncCountInv'
    <3>1. PICK c \in Ids : c = schunk[s]
      BY <1>0, <2>3 DEF SyncDone, SyncerAt, SyncShape
    <3>2. /\ num_syncing' = num_syncing /\ spc[s] = "sync" /\ spc'[s] = "count"
          /\ bits' = [bits EXCEPT ![c] = Synced(@)]
      BY <1>0, <2>3, <3>1 DEF SyncDone, SyncerAt, SyncShape, syncs
    <3>3. /\ IsFiniteSet(InSync') /\ Cardinality(InSync') = Cardinality(InSync) - 1
      <4>1. "syncing" \in bits[c] /\ "syncing" \notin bits'[c]
        BY <1>0, <3>1, <3>2 DEF Synced, Shape, SyncOnce
      <4>2. \A d \in Ids \ {c} : bits'[d] = bits[d]
        BY <1>0, <3>2 DEF Shape
      <4> QED BY <4>1, <4>2, MarkMoves DEF SyncCountInv
    <3>4. /\ Cardinality(Counts') = Cardinality(Counts) + 1
          /\ Cardinality(Incs') = Cardinality(Incs)
      BY <1>0, <2>2, <3>2 DEF One
    <3> QED BY <1>0, <2>1, <2>2, <3>2, <3>3, <3>4 DEF SyncCountInv
  <2>4. ASSUME TryStart(s) PROVE SyncCountInv'
    <3>1. PICK c \in Ids : c = schunk[s]
      BY <1>0, <2>4 DEF TryStart, SyncShape
    <3>2. /\ num_syncing' = num_syncing /\ spc[s] = "check" /\ spc'[s] = "inc"
          /\ bits' = [bits EXCEPT ![c] = SyncStarted(@)]
      BY <1>0, <2>4, <3>1 DEF TryStart, SyncerAt, SyncShape
    <3>3. /\ IsFiniteSet(InSync') /\ Cardinality(InSync') = Cardinality(InSync) + 1
      <4>1. "syncing" \notin bits[c] /\ "syncing" \in bits'[c]
        BY <1>0, <2>4, <3>1, <3>2, StartsUnsynced DEF SyncStarted, Shape
      <4>2. \A d \in Ids \ {c} : bits'[d] = bits[d]
        BY <1>0, <3>2 DEF Shape
      <4> QED BY <4>1, <4>2, MarkMoves DEF SyncCountInv
    <3>4. /\ Cardinality(Counts') = Cardinality(Counts)
          /\ Cardinality(Incs') = Cardinality(Incs) + 1
      BY <1>0, <2>2, <3>2 DEF One
    <3> QED BY <1>0, <2>1, <2>2, <3>2, <3>3, <3>4 DEF SyncCountInv
  <2>5. ASSUME spc[s] # "sync", spc[s] # "check" PROVE UNCHANGED InSync
    <3>1. \A c \in Ids : "syncing" \in bits'[c] <=> "syncing" \in bits[c]
      BY <1>0, <1>4, <2>5, SyncerWord DEF SyncerMayChange, SyncDone, TryStart, SyncerAt
    <3> QED BY <3>1, CountsFrame
  <2>6. ASSUME Count(s, "count", "size", -1) PROVE SyncCountInv'
    <3>1. /\ num_syncing' = num_syncing - 1 /\ num_syncing \in Int
          /\ spc[s] = "count" /\ spc'[s] = "size"
      BY <1>0, <2>6 DEF Count, SyncerAt, SyncShape
    <3>2. /\ Cardinality(Counts') = Cardinality(Counts) - 1
          /\ Cardinality(Incs') = Cardinality(Incs)
      BY <1>0, <2>2, <3>1 DEF One
    <3>3. UNCHANGED InSync
      BY <2>5, <3>1
    <3> QED BY <1>0, <2>1, <2>2, <3>1, <3>2, <3>3 DEF SyncCountInv
  <2>7. ASSUME Count(s, "inc", "try", 1) PROVE SyncCountInv'
    <3>1. /\ num_syncing' = num_syncing + 1 /\ num_syncing \in Int
          /\ spc[s] = "inc" /\ spc'[s] = "try"
      BY <1>0, <2>7 DEF Count, SyncerAt, SyncShape
    <3>2. /\ Cardinality(Counts') = Cardinality(Counts)
          /\ Cardinality(Incs') = Cardinality(Incs) - 1
      BY <1>0, <2>2, <3>1 DEF One
    <3>3. UNCHANGED InSync
      BY <2>5, <3>1
    <3> QED BY <1>0, <2>1, <2>2, <3>1, <3>2, <3>3 DEF SyncCountInv
  <2>8. ASSUME UNCHANGED num_syncing, ~SyncDone(s), ~TryStart(s),
               spc[s] \notin {"count", "inc"}, spc'[s] \notin {"count", "inc"}
        PROVE  SyncCountInv'
    <3>1. /\ Cardinality(Counts') = Cardinality(Counts)
          /\ Cardinality(Incs') = Cardinality(Incs)
      BY <1>0, <2>2, <2>8 DEF One
    <3>2. UNCHANGED InSync
      <4>1. \A c \in Ids : "syncing" \in bits'[c] <=> "syncing" \in bits[c]
        BY <1>0, <1>4, <2>8, SyncerWord DEF SyncerMayChange
      <4> QED BY <4>1, CountsFrame
    <3> QED BY <2>1, <2>2, <2>8, <3>1, <3>2 DEF SyncCountInv
  <2> QED BY <1>0, <1>4, <2>3, <2>4, <2>6, <2>7, <2>8, SyncerCounts
<1>5. CASE UNCHANGED vars
  BY <1>1, <1>5 DEF vars, word, syncs, client, syncer
<1> QED BY <1>2, <1>3, <1>4, <1>5 DEF Next

LEMMA SyncCountHolds ==
  ASSUME ReuseInRam PROVE Spec => []SyncCountInv
<1>1. Init => SyncCountInv
  <2>1. ASSUME Init
        PROVE  InSync = {} /\ Counts = {} /\ Incs = {} /\ RsCounts = {}
    BY <2>1 DEF Init, InSync, Counts, Incs, RsCounts, At
  <2>2. Init => num_syncing = 0
    BY DEF Init
  <2>3. IsFiniteSet({}) /\ Cardinality({}) = 0
    BY FS_EmptySet
  <2> QED BY <2>1, <2>2, <2>3 DEF SyncCountInv
<1>2. ReuseInRam /\ TypeInv /\ SafeInv /\ SyncOnce /\ SyncCountInv /\ [Next]_vars
          => SyncCountInv'
  BY SyncCountNext
<1> QED BY <1>1, <1>2, Invariants, SyncOnceHolds, ReuseStays, PTL DEF Spec

\* _num_syncing_chunks, against which the limit of six is tested, counts the syncs
\* not yet finished, but for the counting steps still to come.
THEOREM SyncCountExactCorrect ==
  ASSUME ReuseInRam PROVE Spec => []SyncCountExact
<1>1. SyncCountInv => SyncCountExact
  <2>1. InSync = {c \in Ids : Has(c, {"syncing"})}
    BY DEF InSync, Has
  <2> QED BY <2>1 DEF SyncCountInv, SyncCountExact, Counts, Incs, RsCounts, At
<1> QED BY <1>1, SyncCountHolds, PTL
=============================================================================
