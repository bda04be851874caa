-------------------------- MODULE CacheSafetyProofs --------------------------
(* The safety of CacheManager for any number of threads, chunks and slots, *)
(* with or without a disk: one holder per chunk, and pointers, slots and   *)
(* status words that stay as they are while a chunk is held.  They rest on *)
(* the types of the variables, which come first.                           *)
EXTENDS CacheSafety, SequenceTheorems, TLAPS

-----------------------------------------------------------------------------
(* TypeOK is not inductive: a thread in the middle of an operation also    *)
(* has its chunk, a cached chunk names a slot, and chunks are evicted only *)
(* with a disk.  What the data of slots and files can be is left out here: *)
(* that __sync_chunk reads a slot at all (740) takes more than types.      *)

WordInv ==
    WordType /\ \A c \in Ids : "caching" \in bits[c] => low[c] \in Slots
ClientInv ==
    /\ ClientType
    /\ \A t \in Clients :
           pc[t] \in {"fetch", "take", "del_mark", "del_push"} => arg[t] \in Ids
CacheInv == slot_id \in [Slots -> Ids \cup {None}] /\ last_cache \in Slots
Evicts(l) == lpc[l] \in {"look", "mark", "swap", "undo", "unmap"}
LoaderInv ==
    /\ LoaderType
    /\ \A l \in Loaders :
           /\ lpc[l] # "idle" => lchunk[l] \in Ids
           /\ Evicts(l) => ~CacheOnly /\ lold[l] \in Ids
SyncerInv ==
    /\ SyncerType
    /\ \A s \in Syncers :
           spc[s] \in {"sync", "purge_check", "purge_put", "check", "put"}
               => schunk[s] \in Ids

TypeInv == /\ WordInv /\ IdType /\ CacheInv /\ LoadType /\ SyncType
           /\ ClientInv /\ LoaderInv /\ SyncerInv

\* What the proofs need of the constants.
LEMMA Constants ==
  /\ MaxChunks \in Nat \ {0} /\ MaxCached \in Nat \ {0}
  /\ SizeMask \in Nat \ {0} /\ Zero \in Values
  /\ 0 \in Slots /\ None \notin Slots /\ None \notin Ids /\ None \notin Clients
  /\ \A s \in Slots : NextSlot(s) \in Slots
<1>1. /\ MaxChunks \in Nat \ {0} /\ MaxCached \in Nat \ {0}
      /\ SizeMask \in Nat \ {0} /\ Zero \in Values /\ None \notin Clients
  BY SizesAssumption
<1> QED BY <1>1 DEF Ids, Slots, None, NextSlot

LEMMA TypeInit == Init => TypeInv
  BY Constants
  DEF Init, TypeInv, WordInv, ClientInv, LoaderInv, SyncerInv, WordType, IdType,
      CacheInv, Evicts, LoadType, SyncType, ClientType, LoaderType, SyncerType

\* A part of the state whose variables do not change keeps its types.
LEMMA TypeFrame ==
  /\ WordInv /\ UNCHANGED word => WordInv'
  /\ IdType /\ UNCHANGED ids => IdType'
  /\ CacheInv /\ UNCHANGED <<slot_id, last_cache>> => CacheInv'
  /\ LoadType /\ UNCHANGED loads => LoadType'
  /\ SyncType /\ UNCHANGED syncs => SyncType'
  /\ ClientInv /\ UNCHANGED client => ClientInv'
  /\ LoaderInv /\ UNCHANGED loader => LoaderInv'
  /\ SyncerInv /\ UNCHANGED syncer => SyncerInv'
<1>1. WordInv /\ UNCHANGED word => WordInv'
  BY DEF WordInv, WordType, word
<1>2. IdType /\ UNCHANGED ids => IdType'
  BY DEF IdType, ids
<1>3. CacheInv /\ UNCHANGED <<slot_id, last_cache>> => CacheInv'
  BY DEF CacheInv
<1>4. LoadType /\ UNCHANGED loads => LoadType'
  BY DEF LoadType, loads
<1>5. SyncType /\ UNCHANGED syncs => SyncType'
  BY DEF SyncType, syncs
<1>6. ClientInv /\ UNCHANGED client => ClientInv'
  BY DEF ClientInv, ClientType, client
<1>7. LoaderInv /\ UNCHANGED loader => LoaderInv'
  BY DEF LoaderInv, LoaderType, Evicts, loader
<1>8. SyncerInv /\ UNCHANGED syncer => SyncerInv'
  BY DEF SyncerInv, SyncerType, syncer
<1> QED BY <1>1, <1>2, <1>3, <1>4, <1>5, <1>6, <1>7, <1>8

\* The callers.
LEMMA TypeClient ==
  ASSUME TypeInv, NEW t \in Clients, ClientCalls(t) \/ ClientRuns(t)
  PROVE  TypeInv'
<1> USE Constants DEF TypeInv, GoTo, Return, CreateFrame, FetchFrame,
               HolderFrame
<1>1. ASSUME CreateCall(t), CreateFrame
      PROVE  TypeInv'
  <2>1. ClientInv'
    BY <1>1 DEF ClientInv, ClientType, CreateCall, client
  <2> QED
    BY <1>1, <2>1, TypeFrame
    DEF CreateCall, word, ids, cache, loads, syncs, client, loader, syncer
<1>2. ASSUME CreatePop(t, "pop", "next") \/ CreatePop(t, "last", "abort"),
             CreateFrame
      PROVE  TypeInv'
  <2>1. WordInv'
    <3>1. ASSUME NEW c \in Ids, TakeDeleted(t, c) PROVE WordInv'
      BY <3>1 DEF TakeDeleted, WordInv, WordType
    <3>2. CASE UNCHANGED word
      BY <3>2, TypeFrame
    <3> QED BY <1>2, <3>1, <3>2 DEF CreatePop, word
  <2>2. IdType'
    BY <1>2 DEF IdType, ClientInv, ClientType, CreatePop, TakeDeleted, ids
  <2>3. ClientInv'
    BY <1>2 DEF ClientInv, ClientType, IdType, CreatePop, TakeDeleted, client
  <2> QED
    BY <1>2, <2>1, <2>2, <2>3, TypeFrame
    DEF CreatePop, TakeDeleted, word, ids, cache, loads, syncs, client, loader,
        syncer
<1>3. ASSUME CreateNext(t), CreateFrame
      PROVE  TypeInv'
  <2>1. num_chunks < MaxChunks => num_chunks \in Ids
    BY DEF IdType, Ids
  <2>2. ClientInv'
    BY <1>3, <2>1 DEF ClientInv, ClientType, CreateNext
  <2> QED
    BY <1>3, <2>2, TypeFrame
    DEF CreateNext, word, ids, cache, loads, syncs, client, loader, syncer
<1>4. ASSUME CreateTake(t), CreateFrame
      PROVE  TypeInv'
  <2>1. WordInv'
    <3>1. CASE StillNext(t)
      BY <1>4, <3>1 DEF CreateTake, WordInv, WordType
    <3>2. CASE ~StillNext(t)
      BY <1>4, <3>2, TypeFrame DEF CreateTake
    <3> QED BY <3>1, <3>2
  <2>2. IdType'
    BY <1>4 DEF IdType, ClientInv, ClientType, Ids, CreateTake, StillNext, ids
  <2>3. ClientInv'
    BY <1>4 DEF ClientInv, ClientType, CreateTake, StillNext, client
  <2> QED
    BY <1>4, <2>1, <2>2, <2>3, TypeFrame
    DEF CreateTake, StillNext, word, ids, cache, loads, syncs, client, loader,
        syncer
<1>5. ASSUME NEW c \in Ids, Prefetch(t, c), FetchFrame
      PROVE  TypeInv'
  <2>1. WordInv'
    BY <1>5
    DEF WordInv, WordType, ClientInv, ClientType, Prefetch, StartLoad, Flags,
        word
  <2>2. LoadType'
    BY <1>5
    DEF LoadType, ClientInv, ClientType, Prefetch, StartLoad, Flags, loads
  <2> QED
    BY <1>5, <2>1, <2>2, TypeFrame
    DEF Prefetch, StartLoad, Flags, word, ids, cache, loads, syncs, client,
        loader, syncer
<1>6. ASSUME NEW c \in Ids, FetchCall(t, c), FetchFrame
      PROVE  TypeInv'
  <2>1. ClientInv'
    BY <1>6 DEF ClientInv, ClientType, FetchCall, client
  <2> QED
    BY <1>6, <2>1, TypeFrame
    DEF FetchCall, word, ids, cache, loads, syncs, client, loader, syncer
<1>7. ASSUME FetchNull(t), FetchFrame
      PROVE  TypeInv'
  <2>1. ClientInv'
    BY <1>7 DEF ClientInv, ClientType, FetchNull, client
  <2> QED
    BY <1>7, <2>1, TypeFrame
    DEF FetchNull, word, ids, cache, loads, syncs, client, loader, syncer
<1>8. ASSUME FetchLoad(t), FetchFrame
      PROVE  TypeInv'
  <2>1. WordInv'
    BY <1>8
    DEF WordInv, WordType, ClientInv, ClientType, FetchLoad, StartLoad, Flags,
        word
  <2>2. LoadType'
    BY <1>8
    DEF LoadType, ClientInv, ClientType, FetchLoad, StartLoad, Flags, loads
  <2> QED
    BY <1>8, <2>1, <2>2, TypeFrame
    DEF FetchLoad, StartLoad, Flags, word, ids, cache, loads, syncs, client,
        loader, syncer
<1>9. ASSUME FetchTake(t), FetchFrame
      PROVE  TypeInv'
  <2>1. WordInv'
    BY <1>9
    DEF WordInv, WordType, ClientInv, ClientType, FetchTake, Fetchable, Has,
        Flags, word
  <2>2. ClientInv'
    BY <1>9
    DEF ClientInv, ClientType, WordInv, WordType, FetchTake, Fetchable, Has,
        Flags, client
  <2> QED
    BY <1>9, <2>1, <2>2, TypeFrame
    DEF FetchTake, Fetchable, Has, Flags, word, ids, cache, loads, syncs,
        client, loader, syncer
<1>10. ASSUME NEW c \in Ids, NEW v \in Values, Write(t, c, v), HolderFrame
      PROVE  TypeInv'
  <2> QED
    BY <1>10, TypeFrame
    DEF Write, HolderCalls, Holds, word, ids, cache, loads, syncs, client,
        loader, syncer
<1>11. ASSUME NEW c \in Ids, Release(t, c), HolderFrame
      PROVE  TypeInv'
  <2>1. WordInv'
    BY <1>11
    DEF WordInv, WordType, ClientInv, ClientType, Release, HolderCalls,
        Unlocked, Drop, word
  <2>2. ClientInv'
    BY <1>11
    DEF ClientInv, ClientType, Release, HolderCalls, Unlocked, Drop, client
  <2> QED
    BY <1>11, <2>1, <2>2, TypeFrame
    DEF Release, HolderCalls, Unlocked, Drop, word, ids, cache, loads, syncs,
        client, loader, syncer
<1>12. ASSUME NEW c \in Ids, ReleaseSyncStart(t, c), HolderFrame
      PROVE  TypeInv'
  <2>1. WordInv'
    BY <1>12
    DEF WordInv, WordType, ClientInv, ClientType, ReleaseSyncStart, HolderCalls,
        SyncStarted, Drop, Flags, word
  <2>2. SyncType'
    BY <1>12
    DEF SyncType, ClientInv, ClientType, ReleaseSyncStart, HolderCalls,
        SyncStarted, Drop, Flags, syncs
  <2>3. ClientInv'
    BY <1>12
    DEF ClientInv, ClientType, ReleaseSyncStart, HolderCalls, SyncStarted, Drop,
        Flags, client
  <2> QED
    BY <1>12, <2>1, <2>2, <2>3, TypeFrame
    DEF ReleaseSyncStart, HolderCalls, SyncStarted, Drop, Flags, word, ids,
        cache, loads, syncs, client, loader, syncer
<1>13. ASSUME ReleaseSyncCount(t), HolderFrame
      PROVE  TypeInv'
  <2>1. SyncType'
    BY <1>13 DEF SyncType, ClientInv, ClientType, ReleaseSyncCount, syncs
  <2>2. ClientInv'
    BY <1>13 DEF ClientInv, ClientType, ReleaseSyncCount, client
  <2> QED
    BY <1>13, <2>1, <2>2, TypeFrame
    DEF ReleaseSyncCount, word, ids, cache, loads, syncs, client, loader, syncer
<1>14. ASSUME NEW c \in Ids, ReleaseSyncQueue(t, c), HolderFrame
      PROVE  TypeInv'
  <2>1. WordInv'
    BY <1>14
    DEF WordInv, WordType, ClientInv, ClientType, ReleaseSyncQueue, HolderCalls,
        Unlocked, Drop, Flags, word
  <2>2. SyncType'
    BY <1>14
    DEF SyncType, ClientInv, ClientType, ReleaseSyncQueue, HolderCalls,
        Unlocked, Drop, Flags, syncs
  <2>3. ClientInv'
    BY <1>14
    DEF ClientInv, ClientType, ReleaseSyncQueue, HolderCalls, Unlocked, Drop,
        Flags, client
  <2> QED
    BY <1>14, <2>1, <2>2, <2>3, TypeFrame
    DEF ReleaseSyncQueue, HolderCalls, Unlocked, Drop, Flags, word, ids, cache,
        loads, syncs, client, loader, syncer
<1>15. ASSUME NEW c \in Ids, ReleaseDelReset(t, c), HolderFrame
      PROVE  TypeInv'
  <2>1. CacheInv'
    BY <1>15
    DEF CacheInv, ClientInv, ClientType, ReleaseDelReset, HolderCalls,
        SlotsWithout, Drop, cache
  <2>2. ClientInv'
    BY <1>15
    DEF ClientInv, ClientType, ReleaseDelReset, HolderCalls, SlotsWithout, Drop,
        client
  <2> QED
    BY <1>15, <2>1, <2>2, TypeFrame
    DEF ReleaseDelReset, HolderCalls, SlotsWithout, Drop, word, ids, cache,
        loads, syncs, client, loader, syncer
<1>16. ASSUME ReleaseDelMark(t), HolderFrame
      PROVE  TypeInv'
  <2>1. WordInv'
    BY <1>16 DEF WordInv, WordType, ClientInv, ClientType, ReleaseDelMark, word
  <2>2. ClientInv'
    BY <1>16 DEF ClientInv, ClientType, ReleaseDelMark, client
  <2> QED
    BY <1>16, <2>1, <2>2, TypeFrame
    DEF ReleaseDelMark, word, ids, cache, loads, syncs, client, loader, syncer
<1>17. ASSUME ReleaseDelPush(t), UNCHANGED <<loads, loader, syncer>>
      PROVE  TypeInv'
  <2>1. IdType'
    BY <1>17 DEF IdType, ClientInv, ClientType, ReleaseDelPush, ids
  <2>2. ClientInv'
    BY <1>17 DEF ClientInv, ClientType, ReleaseDelPush, client
  <2> QED
    BY <1>17, <2>1, <2>2, TypeFrame
    DEF ReleaseDelPush, word, ids, cache, loads, syncs, client, loader, syncer
<1> QED
  BY <1>1, <1>2, <1>3, <1>4, <1>5, <1>6, <1>7, <1>8, <1>9, <1>10, <1>11, <1>12,
     <1>13, <1>14, <1>15, <1>16, <1>17
  DEF ClientCalls, ClientRuns, CreateStep

\* The workers of loading_pool.
LEMMA TypeLoader ==
  ASSUME TypeInv, NEW l \in Loaders, LoaderStep(l)
  PROVE  TypeInv'
<1> USE Constants DEF TypeInv, LoaderAt, LoaderFrame
<1>1. ASSUME NEW c \in Ids, LoadTake(l, c), LoaderFrame
      PROVE  TypeInv'
  <2>1. LoadType'
    BY <1>1 DEF LoadType, LoaderInv, LoaderType, LoadTake, loads
  <2>2. LoaderInv'
    BY <1>1 DEF LoaderInv, LoaderType, Evicts, CacheInv, LoadTake, loader
  <2> QED
    BY <1>1, <2>1, <2>2, TypeFrame
    DEF LoadTake, word, ids, cache, loads, syncs, client, loader, syncer
<1>2. ASSUME Scan(l), LoaderFrame
      PROVE  TypeInv'
  <2>1. LoaderInv'
    <3>1. CASE ScanOn(l)
      BY <1>2, <3>1 DEF LoaderInv, LoaderType, Evicts, Scan, ScanOn
    <3>2. CASE ~ScanOn(l)
      BY <1>2, <3>2 DEF LoaderInv, LoaderType, Evicts, Scan, CacheInv
    <3> QED BY <3>1, <3>2
  <2> QED
    BY <1>2, <2>1, TypeFrame
    DEF Scan, ScanOn, word, ids, cache, loads, syncs, client, loader, syncer
<1>3. ASSUME Look(l), LoaderFrame
      PROVE  TypeInv'
  <2>1. LoaderInv'
    BY <1>3 DEF LoaderInv, LoaderType, Evicts, Look, LoaderAt, ScanOn
  <2> QED
    BY <1>3, <2>1, TypeFrame
    DEF Look, LoaderAt, ScanOn, word, ids, cache, loads, syncs, client, loader, syncer
<1>4. ASSUME Claim(l), LoaderFrame
      PROVE  TypeInv'
  <2>1. CacheInv'
    BY <1>4 DEF CacheInv, LoaderInv, LoaderType, Claim, ScanOn, cache
  <2>2. LoaderInv'
    BY <1>4 DEF LoaderInv, LoaderType, Evicts, Claim, ScanOn, loader
  <2> QED
    BY <1>4, <2>1, <2>2, TypeFrame
    DEF Claim, ScanOn, word, ids, cache, loads, syncs, client, loader, syncer
<1>5. ASSUME LoadData(l), LoaderFrame
      PROVE  TypeInv'
  <2>1. LoaderInv'
    BY <1>5 DEF LoaderInv, LoaderType, Evicts, LoadData, loader
  <2> QED
    BY <1>5, <2>1, TypeFrame
    DEF LoadData, word, ids, loads, syncs, client, loader, syncer
<1>6. ASSUME LoadPublish(l), LoaderFrame
      PROVE  TypeInv'
  <2>1. WordInv'
    BY <1>6
    DEF WordInv, WordType, LoaderInv, LoaderType, LoadPublish, Flags, word
  <2>2. LoadType'
    BY <1>6 DEF LoadType, LoaderInv, LoaderType, LoadPublish, Flags, loads
  <2>3. LoaderInv'
    BY <1>6 DEF LoaderInv, LoaderType, Evicts, LoadPublish, Flags, loader
  <2> QED
    BY <1>6, <2>1, <2>2, <2>3, TypeFrame
    DEF LoadPublish, Flags, word, ids, cache, loads, syncs, client, loader,
        syncer
<1>7. ASSUME EvictMark(l), LoaderFrame
      PROVE  TypeInv'
  <2>1. WordInv'
    BY <1>7 DEF WordInv, WordType, LoaderInv, Evicts, EvictMark, Flags
  <2>2. LoaderInv'
    BY <1>7 DEF LoaderInv, LoaderType, Evicts, EvictMark, ScanOn
  <2> QED
    BY <1>7, <2>1, <2>2, TypeFrame
    DEF EvictMark, ids, cache, loads, syncs, client, syncer
<1>8. ASSUME EvictSwap(l), LoaderFrame
      PROVE  TypeInv'
  <2>1. CacheInv'
    BY <1>8 DEF CacheInv, LoaderInv, LoaderType, EvictSwap
  <2>2. LoaderInv'
    BY <1>8 DEF LoaderInv, LoaderType, Evicts, EvictSwap
  <2> QED
    BY <1>8, <2>1, <2>2, TypeFrame
    DEF EvictSwap, word, ids, loads, syncs, client, syncer
<1>9. ASSUME EvictUndo(l), LoaderFrame
      PROVE  TypeInv'
  <2>1. WordInv'
    BY <1>9 DEF WordInv, WordType, LoaderInv, Evicts, EvictUndo, Unlocked
  <2>2. LoaderInv'
    BY <1>9 DEF LoaderInv, LoaderType, Evicts, EvictUndo, ScanOn
  <2> QED
    BY <1>9, <2>1, <2>2, TypeFrame
    DEF EvictUndo, ids, cache, loads, syncs, client, syncer
<1>10. ASSUME EvictUnmap(l), LoaderFrame
      PROVE  TypeInv'
  <2>1. WordInv'
    BY <1>10
    DEF WordInv, WordType, LoaderInv, Evicts, EvictUnmap, Unmapped, Unlocked
  <2>2. LoaderInv'
    BY <1>10 DEF LoaderInv, LoaderType, Evicts, EvictUnmap
  <2> QED
    BY <1>10, <2>1, <2>2, TypeFrame
    DEF EvictUnmap, ids, cache, loads, syncs, client, syncer
<1> QED
  BY <1>1, <1>2, <1>3, <1>4, <1>5, <1>6, <1>7, <1>8, <1>9, <1>10
  DEF LoaderStep

\* The workers of syncing_pool.
LEMMA TypeSyncer ==
  ASSUME TypeInv, NEW s \in Syncers, SyncerStep(s)
  PROVE  TypeInv'
<1> USE Constants DEF TypeInv, SyncerAt, Forget, SyncerFrame
<1>1. ASSUME NEW c \in Ids, SyncTake(s, c), SyncerFrame
      PROVE  TypeInv'
  <2>1. SyncType'
    BY <1>1 DEF SyncType, SyncerInv, SyncerType, SyncTake, syncs
  <2>2. SyncerInv'
    BY <1>1 DEF SyncerInv, SyncerType, SyncTake, syncer
  <2> QED
    BY <1>1, <2>1, <2>2, TypeFrame
    DEF SyncTake, word, ids, cache, loads, syncs, client, loader, syncer
<1>2. ASSUME SyncDone(s), SyncerFrame
      PROVE  TypeInv'
  <2>1. WordInv'
    BY <1>2 DEF WordInv, WordType, SyncerInv, SyncerType, SyncDone, Synced, word
  <2>2. SyncerInv'
    BY <1>2 DEF SyncerInv, SyncerType, SyncDone, Synced, syncer
  <2> QED
    BY <1>2, <2>1, <2>2, TypeFrame
    DEF SyncDone, Synced, word, ids, cache, loads, syncs, client, loader, syncer
<1>3. ASSUME Count(s, "count", "size", -1) \/ Count(s, "inc", "try", 1), SyncerFrame
      PROVE  TypeInv'
  <2>1. SyncType'
    BY <1>3 DEF SyncType, SyncerInv, SyncerType, Count, syncs
  <2>2. SyncerInv'
    BY <1>3 DEF SyncerInv, SyncerType, Count, syncer
  <2> QED
    BY <1>3, <2>1, <2>2, TypeFrame
    DEF Count, word, ids, cache, loads, syncs, client, loader, syncer
<1>4. ASSUME SignalSize(s), SyncerFrame
      PROVE  TypeInv'
  <2>1. SyncerInv'
    BY <1>4 DEF SyncerInv, SyncerType, SignalSize, syncer
  <2> QED
    BY <1>4, <2>1, TypeFrame
    DEF SignalSize, word, ids, cache, loads, syncs, client, loader, syncer
<1>5. ASSUME PurgePop(s) \/ TryPop(s), SyncerFrame
      PROVE  TypeInv'
  <2>1. ASSUME NEW busy, NEW from, NEW rotated, NEW popped,
               rotated \in {"purge", "try"}, popped \in {"purge_check",
                  "check"},
               PopOrRotate(s, busy, from, rotated, popped)
        PROVE  SyncType' /\ SyncerInv' /\ UNCHANGED word
    <3>1. to_sync # <<>> /\ to_sync \in Seq(Ids)
      BY <2>1 DEF PopOrRotate, SyncType
    <3>2. Head(to_sync) \in Ids /\ Tail(to_sync) \in Seq(Ids)
      BY <3>1, HeadTailProperties
    <3>3. Append(Tail(to_sync), Head(to_sync)) \in Seq(Ids)
      BY <3>2, AppendProperties
    <3>4. SyncType'
      BY <2>1, <3>2, <3>3 DEF PopOrRotate, SyncType
    <3>5. SyncerInv'
      <4>1. stry' \in [Syncers -> Nat] /\ squeue' \in [Syncers -> Nat]
        BY <2>1 DEF PopOrRotate, SyncerInv, SyncerType
      <4>2. \E to \in {"purge", "try", "purge_check", "check"},
               c \in Ids \cup {None} :
              /\ to \in {"purge_check", "check"} => c \in Ids
              /\ spc' = [spc EXCEPT ![s] = to]
              /\ schunk' = [schunk EXCEPT ![s] = c]
        <5>1. CASE Has(Head(to_sync), busy)
          BY <2>1, <5>1 DEF PopOrRotate, SyncerInv, SyncerType
        <5>2. CASE ~Has(Head(to_sync), busy)
          BY <2>1, <3>2, <5>2 DEF PopOrRotate
        <5> QED BY <5>1, <5>2
      <4> QED BY <4>1, <4>2 DEF SyncerInv, SyncerType
    <3> QED BY <2>1, <3>4, <3>5 DEF PopOrRotate
  <2>2. SyncType' /\ SyncerInv' /\ UNCHANGED word
    BY <1>5, <2>1 DEF PurgePop, TryPop
  <2>3. UNCHANGED disk
    BY <1>5 DEF PurgePop, TryPop, PopOrRotate
  <2> QED
    BY <1>5, <2>2, <2>3, TypeFrame
    DEF SyncerFrame, ids, loads, client, loader
<1>6. ASSUME PurgeEnd(s), SyncerFrame
      PROVE  TypeInv'
  <2>1. SyncerInv'
    BY <1>6 DEF SyncerInv, SyncerType, PurgeEnd, syncer
  <2> QED
    BY <1>6, <2>1, TypeFrame
    DEF PurgeEnd, word, ids, cache, loads, syncs, client, loader, syncer
<1>7. ASSUME TryNext(s) \/ SignalEnd(s), SyncerFrame
      PROVE  TypeInv'
  <2>1. SyncerInv'
    <3>1. CASE TryNext(s)
      BY <1>7, <3>1 DEF SyncerInv, SyncerType, TryNext
    <3>2. CASE SignalEnd(s)
      BY <1>7, <3>2 DEF SyncerInv, SyncerType, SignalEnd
    <3> QED BY <1>7, <3>1, <3>2
  <2> QED
    BY <1>7, <2>1, TypeFrame
    DEF TryNext, SignalEnd, word, ids, cache, loads, syncs, client, loader,
        syncer
<1>8. ASSUME \/ Busy(s, PurgeKeeps, "purge_check", "purge_put")
             \/ Busy(s, FetchBusy, "check", "put"),
             SyncerFrame
      PROVE  TypeInv'
  <2>1. SyncerInv'
    BY <1>8 DEF SyncerInv, SyncerType, Busy, syncer
  <2> QED
    BY <1>8, <2>1, TypeFrame
    DEF Busy, word, ids, cache, loads, syncs, client, loader, syncer
<1>9. ASSUME PutBack(s, "purge_put", "purge") \/ PutBack(s, "put", "try"),
             SyncerFrame
      PROVE  TypeInv'
  <2>1. SyncType'
    <3>1. schunk[s] \in Ids
      BY <1>9 DEF SyncerInv, PutBack
    <3>2. Append(to_sync, schunk[s]) \in Seq(Ids)
      BY <3>1, AppendProperties DEF SyncType
    <3> QED BY <1>9, <3>2 DEF SyncType, PutBack
  <2>2. SyncerInv'
    BY <1>9 DEF SyncerInv, SyncerType, PutBack, syncer
  <2> QED
    BY <1>9, <2>1, <2>2, TypeFrame
    DEF PutBack, word, ids, cache, loads, syncs, client, loader, syncer
<1>10. ASSUME \/ Stale(s, PurgeKeeps, "purge_check", "purge")
              \/ Stale(s, EvictBusy, "check", "try"),
              SyncerFrame
      PROVE  TypeInv'
  <2>1. SyncerInv'
    BY <1>10 DEF SyncerInv, SyncerType, Stale, syncer
  <2> QED
    BY <1>10, <2>1, TypeFrame
    DEF Stale, word, ids, cache, loads, syncs, client, loader, syncer
<1>11. ASSUME TryStart(s), SyncerFrame
      PROVE  TypeInv'
  <2>1. WordInv'
    BY <1>11
    DEF WordInv, WordType, SyncerInv, SyncerType, TryStart, SyncStarted, Flags,
        word
  <2>2. SyncType'
    BY <1>11
    DEF SyncType, SyncerInv, SyncerType, TryStart, SyncStarted, Flags, syncs
  <2>3. SyncerInv'
    BY <1>11 DEF SyncerInv, SyncerType, TryStart, SyncStarted, Flags, syncer
  <2> QED
    BY <1>11, <2>1, <2>2, <2>3, TypeFrame
    DEF TryStart, SyncStarted, Flags, word, ids, cache, loads, syncs, client,
        loader, syncer
<1> QED
  BY <1>1, <1>2, <1>3, <1>4, <1>5, <1>6, <1>7, <1>8, <1>9, <1>10, <1>11
  DEF SyncerStep

LEMMA TypeNext ==
  ASSUME TypeInv, [Next]_vars
  PROVE  TypeInv'
<1>1. CASE Next
  BY <1>1, TypeClient, TypeLoader, TypeSyncer DEF Next
<1>2. CASE UNCHANGED vars
  BY <1>2, TypeFrame DEF vars, TypeInv, cache
<1> QED BY <1>1, <1>2

LEMMA TypesHold == Spec => []TypeInv
<1>1. TypeInv /\ [Next]_vars => TypeInv'
  BY TypeNext
<1> QED BY TypeInit, <1>1, PTL DEF Spec

-----------------------------------------------------------------------------
\* With a disk, a worker that evicts may meet a deleted id and mark it (594), and
\* the safety below is lost if that id is handed out again meanwhile.  So ids are
\* reused only where nothing is evicted, as in the configuration the solver uses.
ReuseInRam == Recycle => CacheOnly

-----------------------------------------------------------------------------
(* The inductive invariant.  OneHolder follows from the word of a held     *)
(* chunk; that a pointer stays valid follows from who owns which slot; and *)
(* both need that a load runs once, for a chunk nobody has, that a deleted *)
(* or fresh id has an empty word, and that a chunk has one worker at most  *)
(* that evicts it, and nobody else while it does.                          *)

\* A chunk in use: held, or held until release_del was called (412-424).
InUse(c) == Held(c) \/ Dying(c)

UsedWord ==
    \A c \in Ids : InUse(c) =>
        /\ "writing" \in bits[c] /\ "caching" \in bits[c]
        /\ "loading" \notin bits[c] /\ "syncing" \notin bits[c]
        /\ "reading" \notin bits[c]

HeldSlot == \A t \in Clients, c \in Ids : Holds(t, c) => low[c] = ptr[t][c]

OneUser ==
    /\ OneHolder
    /\ \A c \in Ids : Dying(c) => ~Held(c)
    /\ \A t, u \in Clients :
           pc[t] = "del_mark" /\ pc[u] = "del_mark" /\ arg[t] = arg[u] => t = u

\* A chunk whose data is, as far as its word and its slot can tell, in memory.
InSlot(c) == "caching" \in bits[c] /\ ~Dying(c) /\ ~Evicted(c)
CachedSlot == \A c \in Ids : InSlot(c) => slot_id[low[c]] = c

\* Being loaded, and waiting for a sync, exclude and need the data in memory.
LoadWord ==
    \A c \in Ids :
        /\ pending_load[c] \in {0, 1}
        /\ pending_load[c] = 1 => "loading" \in bits[c]
        /\ "loading" \in bits[c] => "caching" \notin bits[c]
        /\ "syncing" \in bits[c] => "caching" \in bits[c]
        /\ "to_sync" \in bits[c] => "caching" \in bits[c]

LoadOnce ==
    /\ \A l \in Loaders : lpc[l] # "idle" =>
           "loading" \in bits[lchunk[l]] /\ pending_load[lchunk[l]] = 0
    /\ \A l, m \in Loaders :
           lpc[l] # "idle" /\ lpc[m] # "idle" /\ lchunk[l] = lchunk[m] => l = m

\* A worker that has a slot for its chunk.
Filling(l) == lpc[l] \in {"unmap", "load", "publish"}
ClaimedSlot == \A l \in Loaders : Filling(l) => slot_id[lslot[l]] = lchunk[l]

\* Every slot taken belongs to the chunk in memory there, or being loaded there.
Owns(c, s) ==
    \/ InSlot(c) /\ low[c] = s
    \/ \E l \in Loaders : Filling(l) /\ lchunk[l] = c /\ lslot[l] = s
SlotOwner == \A s \in Slots : slot_id[s] # None => Owns(slot_id[s], s)

\* The worker has marked a chunk to evict it (594), and has not unmarked it yet.
Marks(l) == lpc[l] \in {"swap", "undo", "unmap"}
Marked(c) == \E l \in Loaders : Marks(l) /\ lold[l] = c

MarkedWord ==
    \A l \in Loaders : Marks(l) =>
        /\ "writing" \in bits[lold[l]] /\ "reading" \in bits[lold[l]]
        /\ "loading" \notin bits[lold[l]] /\ "syncing" \notin bits[lold[l]]
        /\ "to_sync" \notin bits[lold[l]]
        /\ lpc[l] = "unmap" => "caching" \in bits[lold[l]]
OneMarker ==
    \A l, m \in Loaders : Marks(l) /\ Marks(m) /\ lold[l] = lold[m] => l = m

\* On the stack, or about to be pushed, at most once, and only when deleted.
Gone(c) == low[c] = SizeMask /\ "caching" \notin bits[c]
GoneWord == \A c \in Ids : Gone(c) => bits[c] = {} \/ Marked(c)
DeletedOnce ==
    /\ \A c \in Ids : deleted[c] \in {0, 1} /\ (deleted[c] = 1 => Gone(c))
    /\ \A t \in Clients : pc[t] = "del_push" => Gone(arg[t]) /\ deleted[arg[t]] = 0
    /\ \A t, u \in Clients :
           pc[t] = "del_push" /\ pc[u] = "del_push" /\ arg[t] = arg[u] => t = u

FreshId ==
    \A c \in Ids : c >= num_chunks => bits[c] = {} /\ low[c] = 0 /\ deleted[c] = 0

\* An id that a caller, a slot or an evicting worker knows has been handed out.
KnownId ==
    /\ \A t \in Clients : pc[t] = "fetch" => arg[t] < num_chunks
    /\ \A s \in Slots : slot_id[s] < num_chunks
    /\ \A l \in Loaders : Evicts(l) => lold[l] < num_chunks

\* Where ids are not reused, nobody creates a chunk once one is being deleted.
Creating(t) == pc[t] \in {"pop", "next", "take", "last"}
NoDeletion ==
    /\ \A c \in Ids : deleted[c] = 0
    /\ \A t \in Clients : pc[t] \notin {"del_mark", "del_push"}
NoCreation == Recycle \/ NoDeletion \/ \A t \in Clients : ~Creating(t)

SafeInv == /\ UsedWord /\ HeldSlot /\ OneUser /\ CachedSlot /\ LoadWord
           /\ LoadOnce /\ ClaimedSlot /\ SlotOwner /\ MarkedWord /\ OneMarker
           /\ GoneWord /\ DeletedOnce /\ FreshId /\ KnownId /\ NoCreation

\* What of TypeInv the proofs below use.
Shape ==
    /\ bits \in [Ids -> SUBSET Flags] /\ low \in [Ids -> Slots \cup {SizeMask}]
    /\ num_chunks \in Nat /\ deleted \in [Ids -> Nat]
    /\ slot_id \in [Slots -> Ids \cup {None}] /\ pending_load \in [Ids -> Nat]
    /\ pc = [t \in Clients |-> pc[t]] /\ arg \in [Clients -> Ids \cup {None}]
    /\ ptr \in [Clients -> [Ids -> Slots \cup {None}]]
    /\ lpc = [l \in Loaders |-> lpc[l]] /\ lchunk \in [Loaders -> Ids \cup {None}]
    /\ lslot \in [Loaders -> Slots] /\ lold \in [Loaders -> Ids \cup {None}]
    /\ \A c \in Ids : "caching" \in bits[c] => low[c] \in Slots
    /\ \A t \in Clients :
           pc[t] \in {"fetch", "take", "del_mark", "del_push"} => arg[t] \in Ids
    /\ \A l \in Loaders : lpc[l] # "idle" => lchunk[l] \in Ids
    /\ \A l \in Loaders : Evicts(l) => ~CacheOnly /\ lold[l] \in Ids
    /\ \A s \in Syncers : spc[s] \in {"sync", "check"} => schunk[s] \in Ids

LEMMA Shapes ==
  ASSUME TypeInv PROVE Shape
<1> USE Constants DEF TypeInv
<1>1. /\ bits \in [Ids -> SUBSET Flags]
      /\ low \in [Ids -> Slots \cup {SizeMask}]
      /\ \A c \in Ids : "caching" \in bits[c] => low[c] \in Slots
      /\ num_chunks \in Nat /\ deleted \in [Ids -> Nat]
  BY DEF WordInv, WordType, IdType
<1>2. /\ slot_id \in [Slots -> Ids \cup {None}]
          /\ pending_load \in [Ids -> Nat]
  BY DEF CacheInv, LoadType
<1>3. /\ pc = [t \in Clients |-> pc[t]] /\ arg \in [Clients -> Ids \cup {None}]
      /\ ptr \in [Clients -> [Ids -> Slots \cup {None}]]
      /\ \A t \in Clients :
               pc[t] \in {"fetch", "take", "del_mark", "del_push"} => arg[t] \in Ids
  BY DEF ClientInv, ClientType
<1>4. /\ lpc = [l \in Loaders |-> lpc[l]] /\ lchunk \in [Loaders -> Ids \cup {None}]
      /\ lslot \in [Loaders -> Slots] /\ lold \in [Loaders -> Ids \cup {None}]
      /\ \A l \in Loaders : lpc[l] # "idle" => lchunk[l] \in Ids
      /\ \A l \in Loaders : Evicts(l) => ~CacheOnly /\ lold[l] \in Ids
  BY DEF LoaderInv, LoaderType
<1>5. \A s \in Syncers : spc[s] \in {"sync", "check"} => schunk[s] \in Ids
  BY DEF SyncerInv
<1> QED BY <1>1, <1>2, <1>3, <1>4, <1>5 DEF Shape

-----------------------------------------------------------------------------
LEMMA SafeInit == Init => SafeInv
<1> SUFFICES ASSUME Init PROVE SafeInv
  OBVIOUS
<1> USE Constants DEF Init
<1>1. UsedWord /\ HeldSlot /\ OneUser
  BY DEF UsedWord, HeldSlot, OneUser, InUse, Held, Holds, Dying, OneHolder
<1>2. CachedSlot /\ LoadWord /\ LoadOnce
  BY DEF CachedSlot, InSlot, LoadWord, LoadOnce
<1>3. ClaimedSlot /\ SlotOwner /\ MarkedWord /\ OneMarker
  BY DEF ClaimedSlot, Filling, SlotOwner, MarkedWord, OneMarker, Marks
<1>4. GoneWord /\ DeletedOnce /\ FreshId /\ NoCreation
  BY DEF GoneWord, DeletedOnce, FreshId, NoCreation, NoDeletion
<1>5. KnownId
  BY DEF KnownId, Evicts, None
<1> QED BY <1>1, <1>2, <1>3, <1>4, <1>5 DEF SafeInv

\* The workers that have marked a chunk stay the same, and so does their progress.
SameMarks ==
    \A l \in Loaders :
        /\ Marks(l)' <=> Marks(l)
        /\ Marks(l) => lold'[l] = lold[l] /\ (lpc'[l] = "unmap" <=> lpc[l] = "unmap")

\* A part of the invariant whose variables do not change stays.
LEMMA SafeFrame ==
  /\ UNCHANGED <<lpc, lold>> => SameMarks
  /\ UsedWord /\ UNCHANGED <<bits, ptr, pc, arg>> => UsedWord'
  /\ HeldSlot /\ UNCHANGED <<ptr, low>> => HeldSlot'
  /\ OneUser /\ UNCHANGED <<ptr, pc, arg>> => OneUser'
  /\ CachedSlot /\ UNCHANGED <<bits, low, slot_id, pc, arg>> /\ SameMarks
         => CachedSlot'
  /\ LoadWord /\ UNCHANGED <<bits, pending_load>> => LoadWord'
  /\ LoadOnce /\ UNCHANGED <<bits, pending_load, lpc, lchunk>> => LoadOnce'
  /\ ClaimedSlot /\ UNCHANGED <<lpc, lslot, lchunk, slot_id>> => ClaimedSlot'
  /\ SlotOwner /\ UNCHANGED <<bits, low, slot_id, pc, arg, lpc, lold, lchunk, lslot>>
         => SlotOwner'
  /\ MarkedWord /\ UNCHANGED bits /\ SameMarks => MarkedWord'
  /\ OneMarker /\ SameMarks => OneMarker'
  /\ GoneWord /\ UNCHANGED <<bits, low>> /\ SameMarks => GoneWord'
  /\ DeletedOnce /\ UNCHANGED <<deleted, bits, low, pc, arg>> => DeletedOnce'
  /\ FreshId /\ UNCHANGED <<num_chunks, bits, low, deleted>> => FreshId'
  /\ KnownId /\ UNCHANGED <<pc, arg, num_chunks, slot_id, lpc, lold>> => KnownId'
  /\ NoCreation /\ UNCHANGED <<deleted, pc>> => NoCreation'
<1>1. UNCHANGED <<lpc, lold>> => SameMarks
  BY DEF SameMarks, Marks
<1>2. UsedWord /\ UNCHANGED <<bits, ptr, pc, arg>> => UsedWord'
  BY DEF UsedWord, InUse, Held, Holds, Dying
<1>3. HeldSlot /\ UNCHANGED <<ptr, low>> => HeldSlot'
  BY DEF HeldSlot, Holds
<1>4. OneUser /\ UNCHANGED <<ptr, pc, arg>> => OneUser'
  BY DEF OneUser, OneHolder, Held, Holds, Dying
<1>5. CachedSlot /\ UNCHANGED <<bits, low, slot_id, pc, arg>> /\ SameMarks
          => CachedSlot'
  BY DEF CachedSlot, InSlot, Dying, Evicted, SameMarks, Marks
<1>6. LoadWord /\ UNCHANGED <<bits, pending_load>> => LoadWord'
  BY DEF LoadWord
<1>7. LoadOnce /\ UNCHANGED <<bits, pending_load, lpc, lchunk>> => LoadOnce'
  BY DEF LoadOnce
<1>8. ClaimedSlot /\ UNCHANGED <<lpc, lslot, lchunk, slot_id>> => ClaimedSlot'
  BY DEF ClaimedSlot, Filling
<1>9. SlotOwner /\ UNCHANGED <<bits, low, slot_id, pc, arg, lpc, lold, lchunk, lslot>>
          => SlotOwner'
  BY DEF SlotOwner, Owns, InSlot, Filling, Dying, Evicted
<1>10. MarkedWord /\ UNCHANGED bits /\ SameMarks => MarkedWord'
  BY DEF MarkedWord, SameMarks
<1>11. OneMarker /\ SameMarks => OneMarker'
  BY DEF OneMarker, SameMarks
<1>12. GoneWord /\ UNCHANGED <<bits, low>> /\ SameMarks => GoneWord'
  BY DEF GoneWord, Gone, Marked, SameMarks
<1>13. DeletedOnce /\ UNCHANGED <<deleted, bits, low, pc, arg>> => DeletedOnce'
  BY DEF DeletedOnce, Gone
<1>14. FreshId /\ UNCHANGED <<num_chunks, bits, low, deleted>> => FreshId'
  BY DEF FreshId
<1>15. KnownId /\ UNCHANGED <<pc, arg, num_chunks, slot_id, lpc, lold>> => KnownId'
  BY DEF KnownId, Evicts
<1>16. NoCreation /\ UNCHANGED <<deleted, pc>> => NoCreation'
  BY DEF NoCreation, NoDeletion, Creating
<1> QED
  BY <1>1, <1>2, <1>3, <1>4, <1>5, <1>6, <1>7, <1>8, <1>9, <1>10, <1>11, <1>12,
     <1>13, <1>14, <1>15, <1>16

\* The chunks in memory, and where they are, stay the same.
SameSlots ==
    \A c \in Ids : /\ InSlot(c)' <=> InSlot(c)
                   /\ InSlot(c) => low'[c] = low[c]

LEMMA SlotsStay ==
  ASSUME Shape, SameSlots, CachedSlot, SlotOwner,
         UNCHANGED <<slot_id, lpc, lchunk, lslot>>
  PROVE  CachedSlot' /\ SlotOwner'
<1>1. CachedSlot'
  BY DEF CachedSlot, SameSlots
<1>2. SlotOwner'
  BY DEF SlotOwner, Owns, Filling, SameSlots, Shape
<1> QED BY <1>1, <1>2

\* And so do the workers that have a slot.
SameFillers ==
    \A l \in Loaders :
        /\ Filling(l)' <=> Filling(l)
        /\ Filling(l) => lchunk'[l] = lchunk[l] /\ lslot'[l] = lslot[l]

LEMMA FillersStay ==
  ASSUME Shape, SameSlots, SameFillers, CachedSlot, ClaimedSlot, SlotOwner,
         UNCHANGED slot_id
  PROVE  CachedSlot' /\ ClaimedSlot' /\ SlotOwner'
<1>1. CachedSlot'
  BY DEF CachedSlot, SameSlots
<1>2. ClaimedSlot'
  BY DEF ClaimedSlot, SameFillers
<1>3. ASSUME NEW s \in Slots, slot_id[s] # None PROVE Owns(slot_id[s], s)'
  <2>1. slot_id[s] \in Ids /\ Owns(slot_id[s], s)
    BY <1>3 DEF Shape, SlotOwner
  <2>2. CASE InSlot(slot_id[s]) /\ low[slot_id[s]] = s
    BY <2>1, <2>2 DEF Owns, SameSlots
  <2>3. CASE \E l \in Loaders : Filling(l) /\ lchunk[l] = slot_id[s] /\ lslot[l] = s
    BY <2>3 DEF Owns, SameFillers
  <2> QED BY <2>1, <2>2, <2>3 DEF Owns
<1> QED BY <1>1, <1>2, <1>3 DEF SlotOwner

\* A client moves between places that hold no chunk for deletion or fetching.
LEMMA QuietClient ==
  ASSUME SafeInv, Shape,
         NEW t \in Clients, NEW to, NEW c \in Ids \cup {None},
         pc[t] \notin {"del_mark", "del_push"},
         to \notin {"del_mark", "del_push", "fetch"},
         to \in {"pop", "next", "take", "last"} =>
             Creating(t) \/ Recycle \/ NoDeletion,
         pc' = [pc EXCEPT ![t] = to], arg' = [arg EXCEPT ![t] = c],
         UNCHANGED <<bits, low, num_chunks, deleted, slot_id, pending_load, ptr,
                     loader>>
  PROVE  SafeInv'
<1> USE Constants DEF SafeInv, Shape
<1>1. UsedWord'
  BY DEF UsedWord, InUse, Held, Holds, Dying
<1>2. OneUser'
  BY DEF OneUser, OneHolder, Held, Holds, Dying
<1>3. CachedSlot' /\ SlotOwner'
  <2>1. SameSlots
    BY DEF SameSlots, InSlot, Dying, Evicted, loader
  <2> QED BY <2>1, SlotsStay DEF loader
<1>4. DeletedOnce'
  BY DEF DeletedOnce, Gone
<1>5. KnownId'
  BY DEF KnownId, Evicts, loader
<1>6. NoCreation'
  BY DEF NoCreation, NoDeletion, Creating
<1> QED BY <1>1, <1>2, <1>3, <1>4, <1>5, <1>6, SafeFrame DEF loader

\* create_chunk takes an id from the stack, its word is reset (301-304).
LEMMA TakeDeletedSafe ==
  ASSUME ReuseInRam, SafeInv, Shape,
         NEW t \in Clients, NEW c \in Ids,
         pc[t] \in {"pop", "last"}, TakeDeleted(t, c),
         UNCHANGED <<num_chunks, slot_id, pending_load, ptr, loader>>
  PROVE  SafeInv'
<1> USE Constants DEF SafeInv, Shape
<1>1. deleted[c] = 1 /\ Gone(c)
  BY DEF DeletedOnce, TakeDeleted
<1>2. Recycle
  BY <1>1 DEF NoCreation, NoDeletion, Creating
<1>3. bits[c] = {} /\ \A l \in Loaders : ~Evicts(l) /\ ~Marks(l)
  BY <1>1, <1>2 DEF ReuseInRam, GoneWord, Marked, Marks, Evicts
<1>4. ~Held(c) /\ ~Dying(c)
  BY <1>3 DEF UsedWord, InUse
<1>5. /\ bits' = [bits EXCEPT ![c] = {}] /\ low' = [low EXCEPT ![c] = 0]
      /\ deleted' = [deleted EXCEPT ![c] = 0]
      /\ pc' = [pc EXCEPT ![t] = "idle"] /\ arg' = [arg EXCEPT ![t] = None]
  BY <1>1 DEF TakeDeleted, Return, GoTo
<1>6. UsedWord'
  BY <1>3, <1>4, <1>5 DEF UsedWord, InUse, Held, Holds, Dying
<1>7. HeldSlot'
  BY <1>4, <1>5 DEF HeldSlot, Holds, Held
<1>8. OneUser'
  BY <1>4, <1>5 DEF OneUser, OneHolder, Held, Holds, Dying
<1>9. CachedSlot' /\ SlotOwner'
  <2>1. SameSlots
    BY <1>3, <1>5 DEF SameSlots, InSlot, Dying, Evicted, loader
  <2> QED BY <2>1, SlotsStay DEF loader
<1>10. LoadWord' /\ LoadOnce'
  BY <1>3, <1>5 DEF LoadWord, LoadOnce, loader
<1>11. MarkedWord'
  BY <1>3 DEF MarkedWord, Marks, loader
<1>12. GoneWord'
  BY <1>5 DEF GoneWord, Gone, Marked, Marks, loader
<1>13. DeletedOnce'
  BY <1>1, <1>5 DEF DeletedOnce, Gone
<1>14. FreshId'
  BY <1>5 DEF FreshId
<1>15. KnownId'
  BY <1>5 DEF KnownId, Evicts, loader
<1>16. NoCreation'
  BY <1>2 DEF NoCreation
<1> QED
  BY <1>6, <1>7, <1>8, <1>9, <1>10, <1>11, <1>12, <1>13, <1>14, <1>15, <1>16,
     SafeFrame
  DEF loader

\* create_chunk takes a fresh id (311-316).
LEMMA CreateTakeSafe ==
  ASSUME SafeInv, Shape,
         NEW t \in Clients, pc[t] = "take", StillNext(t), CreateTake(t),
         UNCHANGED <<slot_id, pending_load, ptr, loader>>
  PROVE  SafeInv'
<1> USE Constants DEF SafeInv, Shape
<1>1. /\ num_chunks = arg[t] /\ num_chunks' = num_chunks + 1 /\ deleted' = deleted
      /\ bits' = [bits EXCEPT ![arg[t]] = {}] /\ low' = [low EXCEPT ![arg[t]] = 0]
      /\ pc' = [pc EXCEPT ![t] = "idle"] /\ arg' = [arg EXCEPT ![t] = None]
  BY DEF CreateTake, StillNext, Return, GoTo
<1>2. arg[t] \in Ids /\ bits[arg[t]] = {} /\ deleted[arg[t]] = 0 /\ low[arg[t]] = 0
  BY <1>1 DEF FreshId, Ids
<1>3. bits' = bits /\ low' = low
  BY <1>1, <1>2
<1>4. UsedWord'
  BY <1>1, <1>3 DEF UsedWord, InUse, Held, Holds, Dying
<1>5. OneUser'
  BY <1>1 DEF OneUser, OneHolder, Held, Holds, Dying
<1>6. CachedSlot' /\ SlotOwner'
  <2>1. SameSlots
    BY <1>1, <1>3 DEF SameSlots, InSlot, Dying, Evicted, loader
  <2> QED BY <2>1, SlotsStay DEF loader
<1>7. DeletedOnce'
  BY <1>1, <1>3 DEF DeletedOnce, Gone
<1>8. FreshId'
  BY <1>1, <1>3 DEF FreshId, Ids
<1>9. KnownId'
  <2>1. \A i \in Ids \cup {None} : i < num_chunks => i < num_chunks'
    BY <1>1 DEF Ids, None
  <2>2. \A u \in Clients : pc'[u] = "fetch" => pc[u] = "fetch" /\ arg'[u] = arg[u]
    BY <1>1
  <2> QED BY <1>1, <2>1, <2>2 DEF KnownId, Evicts, loader
<1>10. NoCreation'
  BY <1>1 DEF NoCreation, NoDeletion, Creating
<1> QED
  BY <1>3, <1>4, <1>5, <1>6, <1>7, <1>8, <1>9, <1>10, SafeFrame DEF loader

\* A load begins, for a chunk that is nowhere and not deleted (341-343, 361-364).
LEMMA StartLoadSafe ==
  ASSUME SafeInv, Shape,
         NEW c \in Ids, c < num_chunks, StartLoad(c), "caching" \notin bits[c],
         "loading" \notin bits[c], "reading" \notin bits[c], ~IsDeleted(c),
         UNCHANGED <<num_chunks, deleted, slot_id, client, loader>>
  PROVE  SafeInv'
<1> USE Constants DEF SafeInv, Shape
<1>1. /\ bits' = [bits EXCEPT ![c] = @ \cup {"loading"}] /\ low' = low
      /\ pending_load' = [pending_load EXCEPT ![c] = @ + 1]
      /\ UNCHANGED <<pc, arg, ptr, lpc, lchunk, lslot, lold>>
  BY DEF StartLoad, client, loader
<1>2. ~Gone(c) /\ ~Marked(c)
  BY DEF GoneWord, Gone, IsDeleted, MarkedWord, Marked
<1>3. UsedWord'
  BY <1>1 DEF UsedWord, InUse, Held, Holds, Dying
<1>4. CachedSlot' /\ SlotOwner'
  <2>1. SameSlots
    BY <1>1 DEF SameSlots, InSlot, Dying, Evicted
  <2> QED BY <1>1, <2>1, SlotsStay
<1>5. LoadWord'
  BY <1>1 DEF LoadWord
<1>6. LoadOnce'
  BY <1>1 DEF LoadOnce, LoadWord
<1>7. MarkedWord'
  BY <1>1, <1>2 DEF MarkedWord, Marked, Marks
<1>8. GoneWord'
  BY <1>1, <1>2 DEF GoneWord, Gone, Marked, Marks
<1>9. DeletedOnce'
  BY <1>1 DEF DeletedOnce, Gone
<1>10. FreshId'
  BY <1>1 DEF FreshId, Ids
<1> QED
  BY <1>1, <1>3, <1>4, <1>5, <1>6, <1>7, <1>8, <1>9, <1>10, SafeFrame

\* A client asks for a chunk it has been given (350).
LEMMA FetchCallSafe ==
  ASSUME SafeInv, Shape,
         NEW t \in Clients, NEW c \in Ids, FetchCall(t, c),
         UNCHANGED <<num_chunks, deleted, slot_id, loader>>
  PROVE  SafeInv'
<1> USE Constants DEF SafeInv, Shape
<1>1. /\ pc[t] = "idle" /\ c < num_chunks
      /\ pc' = [pc EXCEPT ![t] = "fetch"] /\ arg' = [arg EXCEPT ![t] = c]
      /\ UNCHANGED <<bits, low, pending_load, ptr>>
  BY DEF FetchCall, GoTo, word, loads
<1>2. UsedWord'
  BY <1>1 DEF UsedWord, InUse, Held, Holds, Dying
<1>3. OneUser'
  BY <1>1 DEF OneUser, OneHolder, Held, Holds, Dying
<1>4. CachedSlot' /\ SlotOwner'
  <2>1. SameSlots
    BY <1>1 DEF SameSlots, InSlot, Dying, Evicted, loader
  <2> QED BY <2>1, SlotsStay DEF loader
<1>5. DeletedOnce'
  BY <1>1 DEF DeletedOnce, Gone
<1>6. KnownId'
  BY <1>1 DEF KnownId, Evicts, loader
<1>7. NoCreation'
  BY <1>1 DEF NoCreation, NoDeletion, Creating
<1> QED BY <1>1, <1>2, <1>3, <1>4, <1>5, <1>6, <1>7, SafeFrame DEF loader

\* fetch marks a cached chunk that nobody uses and returns its slot (370-376).
LEMMA FetchTakeSafe ==
  ASSUME SafeInv, Shape,
         NEW t \in Clients, FetchTake(t),
         UNCHANGED <<num_chunks, deleted, slot_id, loader>>
  PROVE  SafeInv'
<1> USE Constants DEF SafeInv, Shape
<1>1. PICK c \in Ids :
          /\ c = arg[t] /\ "caching" \in bits[c] /\ bits[c] \cap FetchBusy = {}
  BY DEF FetchTake, Fetchable, Has
<1>2. /\ "writing" \notin bits[c] /\ "loading" \notin bits[c]
      /\ "syncing" \notin bits[c] /\ "reading" \notin bits[c]
      /\ low[c] \in Slots
  BY <1>1 DEF FetchBusy
<1>3. /\ pc[t] = "fetch" /\ pc' = [pc EXCEPT ![t] = "idle"]
      /\ bits' = [bits EXCEPT ![c] = @ \cup {"writing"}]
      /\ ptr' = [ptr EXCEPT ![t][c] = low[c]]
      /\ arg' = [arg EXCEPT ![t] = None] /\ UNCHANGED <<low, pending_load>>
  BY <1>1 DEF FetchTake, Return, GoTo, loads
<1>4. ~Held(c) /\ ~Dying(c) /\ ~Marked(c)
  BY <1>1, <1>2 DEF UsedWord, InUse, MarkedWord, Marked
<1>5. \A d \in Ids : Dying(d)' <=> Dying(d)
  BY <1>3 DEF Dying
<1>6. UsedWord'
  BY <1>1, <1>2, <1>3, <1>4, <1>5 DEF UsedWord, InUse, Held, Holds
<1>7. HeldSlot'
  BY <1>2, <1>3, <1>4 DEF HeldSlot, Holds, Held
<1>8. OneUser'
  BY <1>2, <1>3, <1>4, <1>5 DEF OneUser, OneHolder, Held, Holds
<1>9. CachedSlot' /\ SlotOwner'
  <2>1. SameSlots
    BY <1>1, <1>3, <1>5 DEF SameSlots, InSlot, Evicted, loader
  <2> QED BY <2>1, SlotsStay DEF loader
<1>10. LoadWord' /\ LoadOnce'
  BY <1>1, <1>3 DEF LoadWord, LoadOnce, loader
<1>11. MarkedWord'
  BY <1>3, <1>4 DEF MarkedWord, Marked, Marks, loader
<1>12. GoneWord' /\ DeletedOnce'
  BY <1>1, <1>3 DEF GoneWord, DeletedOnce, Gone, Marked, Marks, loader
<1>13. FreshId'
  BY <1>1, <1>3 DEF FreshId
<1>14. KnownId'
  BY <1>3 DEF KnownId, Evicts, loader
<1>15. NoCreation'
  BY <1>3 DEF NoCreation, NoDeletion, Creating
<1> QED
  BY <1>3, <1>6, <1>7, <1>8, <1>9, <1>10, <1>11, <1>12, <1>13, <1>14, <1>15,
     SafeFrame
  DEF loader

\* A holder lets go of its chunk (382, 390, 396-399, 403-405).
LEMMA DropSafe ==
  ASSUME SafeInv, Shape,
         NEW t \in Clients, NEW c \in Ids, HolderCalls(t, c),
         NEW flags \in SUBSET Flags, "caching" \in flags, "loading" \notin flags,
         NEW to \in {"idle", "rs_count"}, pc' = [pc EXCEPT ![t] = to],
         bits' = [bits EXCEPT ![c] = flags], Drop(t, c),
         UNCHANGED <<low, num_chunks, deleted, slot_id, pending_load, arg, loader>>
  PROVE  SafeInv'
<1> USE Constants DEF SafeInv, Shape
<1>1. /\ \A u \in Clients : ~Holds(u, c)'
      /\ ~Dying(c) /\ pc[t] = "idle" /\ ptr' = [ptr EXCEPT ![t][c] = None]
  BY DEF HolderCalls, Drop, OneUser, OneHolder, Held, Holds, Dying
<1>2. /\ "loading" \notin bits[c] /\ "caching" \in bits[c] /\ ~Marked(c)
  BY DEF HolderCalls, UsedWord, InUse, Held, MarkedWord, Marked
<1>3. \A d \in Ids : Dying(d)' <=> Dying(d)
  BY <1>1 DEF Dying
<1>4. \A d \in Ids, u \in Clients : Holds(u, d)' => Holds(u, d) /\ d # c
  BY <1>1 DEF Holds
<1>5. UsedWord'
  BY <1>1, <1>3, <1>4 DEF UsedWord, InUse, Held
<1>6. HeldSlot'
  BY <1>1, <1>4 DEF HeldSlot, Holds
<1>7. OneUser'
  BY <1>1, <1>3, <1>4 DEF OneUser, OneHolder, Held
<1>8. CachedSlot' /\ SlotOwner'
  <2>1. SameSlots
    BY <1>2, <1>3 DEF SameSlots, InSlot, Evicted, loader
  <2> QED BY <2>1, SlotsStay DEF loader
<1>9. LoadWord' /\ LoadOnce'
  BY <1>2 DEF LoadWord, LoadOnce, loader
<1>10. MarkedWord'
  BY <1>2 DEF MarkedWord, Marked, Marks, loader
<1>11. GoneWord'
  BY <1>2 DEF GoneWord, Gone, Marked, Marks, loader
<1>12. DeletedOnce'
  BY <1>1, <1>2 DEF DeletedOnce, Gone
<1>13. FreshId'
  BY <1>2 DEF FreshId
<1>14. KnownId'
  BY <1>1 DEF KnownId, Evicts, loader
<1>15. NoCreation'
  BY <1>1 DEF NoCreation, NoDeletion, Creating
<1> QED
  BY <1>5, <1>6, <1>7, <1>8, <1>9, <1>10, <1>11, <1>12, <1>13, <1>14, <1>15,
     SafeFrame
  DEF loader

\* release_del gives back the slot (414-417).
LEMMA DelResetSafe ==
  ASSUME SafeInv, Shape,
         NEW t \in Clients, NEW c \in Ids, ReleaseDelReset(t, c),
         UNCHANGED <<num_chunks, deleted, pending_load, loader>>
  PROVE  SafeInv'
<1> USE Constants DEF SafeInv, Shape
<1>1. /\ Holds(t, c) /\ ~Dying(c) /\ "caching" \in bits[c]
      /\ "loading" \notin bits[c] /\ ~Marked(c) /\ pc[t] = "idle"
  BY DEF ReleaseDelReset, HolderCalls, UsedWord, InUse, OneUser, Held, MarkedWord,
         Marked
<1>2. InSlot(c) /\ low[c] \in Slots /\ slot_id[low[c]] = c
  BY <1>1 DEF InSlot, CachedSlot, Evicted, Marked, Marks
<1>3. /\ slot_id' = [slot_id EXCEPT ![low[c]] = None] /\ UNCHANGED <<bits, low>>
      /\ ptr' = [ptr EXCEPT ![t][c] = None]
      /\ pc' = [pc EXCEPT ![t] = "del_mark"] /\ arg' = [arg EXCEPT ![t] = c]
  BY <1>1 DEF ReleaseDelReset, SlotsWithout, Has, Drop, GoTo, word
<1>4. \A u \in Clients, d \in Ids : Holds(u, d)' => Holds(u, d) /\ d # c
  BY <1>1, <1>3 DEF OneUser, OneHolder, Holds
<1>5. \A d \in Ids : Dying(d)' <=> Dying(d) \/ d = c
  BY <1>1, <1>3 DEF Dying
<1>6. \A u \in Clients :
          pc'[u] = "del_mark" /\ u # t
              => pc[u] = "del_mark" /\ arg'[u] = arg[u] /\ arg[u] # c
  BY <1>1, <1>3 DEF Dying
<1>7. \A d \in Ids : InSlot(d)' <=> InSlot(d) /\ d # c
  BY <1>1, <1>2, <1>3, <1>5 DEF InSlot, Evicted, loader
<1>8. UsedWord'
  BY <1>1, <1>3, <1>4, <1>5 DEF UsedWord, InUse, Held
<1>9. HeldSlot'
  BY <1>3, <1>4 DEF HeldSlot, Holds
<1>10. OneUser'
  <2>1. OneHolder'
    BY <1>4 DEF OneUser, OneHolder
  <2>2. \A d \in Ids : Dying(d)' => ~Held(d)'
    BY <1>4, <1>5 DEF OneUser, Held
  <2> QED BY <1>3, <1>6, <2>1, <2>2 DEF OneUser
<1>11. CachedSlot'
  BY <1>2, <1>3, <1>7 DEF CachedSlot, InSlot
<1>12. ClaimedSlot'
  BY <1>1, <1>2, <1>3 DEF ClaimedSlot, Filling, LoadOnce, loader
<1>13. SlotOwner'
  <2>1. \A l \in Loaders : Filling(l) => lchunk[l] # c
    BY <1>1 DEF Filling, LoadOnce
  <2> QED BY <1>2, <1>3, <1>7, <2>1 DEF SlotOwner, Owns, Filling, loader
<1>14. DeletedOnce'
  BY <1>3 DEF DeletedOnce, Gone
<1>15. KnownId'
  BY <1>1, <1>2, <1>3 DEF KnownId, Evicts, None, loader
<1>16. NoCreation'
  BY <1>3 DEF ReleaseDelReset, NoCreation, Creating
<1> QED
  BY <1>3, <1>8, <1>9, <1>10, <1>11, <1>12, <1>13, <1>14, <1>15, <1>16, SafeFrame
  DEF loader

\* release_del empties the word (423).
LEMMA DelMarkSafe ==
  ASSUME SafeInv, Shape,
         NEW t \in Clients, ReleaseDelMark(t),
         UNCHANGED <<num_chunks, deleted, pending_load, loader>>
  PROVE  SafeInv'
<1> USE Constants DEF SafeInv, Shape
<1>1. PICK c \in Ids : c = arg[t]
  BY DEF ReleaseDelMark
<1>2. /\ bits' = [bits EXCEPT ![c] = {}] /\ low' = [low EXCEPT ![c] = SizeMask]
      /\ pc[t] = "del_mark" /\ pc' = [pc EXCEPT ![t] = "del_push"]
      /\ UNCHANGED <<arg, ptr, slot_id>>
  BY <1>1 DEF ReleaseDelMark, GoTo
<1>3. Dying(c) /\ ~Held(c)
  BY <1>1, <1>2 DEF OneUser, Dying
<1>4. "loading" \notin bits[c] /\ "caching" \in bits[c] /\ ~Marked(c)
  BY <1>3 DEF UsedWord, InUse, MarkedWord, Marked
<1>5. c < num_chunks /\ deleted[c] = 0
  BY <1>4 DEF FreshId, DeletedOnce, Gone, Ids
<1>6. \A d \in Ids : Dying(d)' <=> Dying(d) /\ d # c
  BY <1>1, <1>2 DEF Dying, OneUser
<1>7. UsedWord'
  BY <1>2, <1>3, <1>6 DEF UsedWord, InUse, Held, Holds
<1>8. HeldSlot'
  BY <1>2, <1>3 DEF HeldSlot, Holds, Held
<1>9. OneUser'
  BY <1>2, <1>6 DEF OneUser, OneHolder, Held, Holds
<1>10. CachedSlot' /\ SlotOwner'
  <2>1. SameSlots
    BY <1>2, <1>3, <1>6 DEF SameSlots, InSlot, Evicted, loader
  <2> QED BY <1>2, <2>1, SlotsStay DEF loader
<1>11. LoadWord' /\ LoadOnce'
  BY <1>2, <1>4 DEF LoadWord, LoadOnce, loader
<1>12. MarkedWord'
  BY <1>2, <1>4 DEF MarkedWord, Marked, Marks, loader
<1>13. GoneWord'
  BY <1>2 DEF GoneWord, Gone, Marked, Marks, loader
<1>14. DeletedOnce'
  BY <1>1, <1>2, <1>4, <1>5 DEF DeletedOnce, Gone
<1>15. FreshId'
  BY <1>2, <1>5 DEF FreshId, Ids
<1>16. KnownId'
  BY <1>2 DEF KnownId, Evicts, loader
<1>17. NoCreation'
  BY <1>2 DEF NoCreation, NoDeletion, Creating
<1> QED
  BY <1>2, <1>7, <1>8, <1>9, <1>10, <1>11, <1>12, <1>13, <1>14, <1>15, <1>16,
     <1>17, SafeFrame
  DEF loader

\* release_del pushes the id (428).
LEMMA DelPushSafe ==
  ASSUME SafeInv, Shape,
         NEW t \in Clients, ReleaseDelPush(t),
         UNCHANGED <<slot_id, pending_load, loader>>
  PROVE  SafeInv'
<1> USE Constants DEF SafeInv, Shape
<1>1. PICK c \in Ids : c = arg[t]
  BY DEF ReleaseDelPush
<1>2. /\ deleted' = [deleted EXCEPT ![c] = @ + 1]
      /\ pc[t] = "del_push" /\ pc' = [pc EXCEPT ![t] = "idle"]
      /\ arg' = [arg EXCEPT ![t] = None]
      /\ UNCHANGED <<bits, low, num_chunks, ptr>>
  BY <1>1 DEF ReleaseDelPush, Return, GoTo, word
<1>3. Gone(c) /\ deleted[c] = 0
  BY <1>1, <1>2 DEF DeletedOnce
<1>4. \A d \in Ids : Dying(d)' <=> Dying(d)
  BY <1>2 DEF Dying
<1>5. UsedWord'
  BY <1>2, <1>4 DEF UsedWord, InUse, Held, Holds
<1>6. OneUser'
  BY <1>2, <1>4 DEF OneUser, OneHolder, Held, Holds
<1>7. CachedSlot' /\ SlotOwner'
  <2>1. SameSlots
    BY <1>2, <1>4 DEF SameSlots, InSlot, Evicted, loader
  <2> QED BY <2>1, SlotsStay DEF loader
<1>8. DeletedOnce'
  BY <1>1, <1>2, <1>3 DEF DeletedOnce, Gone
<1>9. FreshId'
  BY <1>2, <1>3 DEF FreshId, Gone
<1>10. KnownId'
  BY <1>2 DEF KnownId, Evicts, loader
<1>11. NoCreation'
  BY <1>2 DEF NoCreation, NoDeletion, Creating
<1> QED
  BY <1>2, <1>5, <1>6, <1>7, <1>8, <1>9, <1>10, <1>11, SafeFrame DEF loader

\* A worker takes a load task (719).
LEMMA LoadTakeSafe ==
  ASSUME SafeInv, Shape,
         NEW l \in Loaders, NEW c \in Ids, LoadTake(l, c),
         UNCHANGED <<ids, client>>
  PROVE  SafeInv'
<1> USE Constants DEF SafeInv, Shape
<1>1. /\ lpc[l] = "idle" /\ lpc' = [lpc EXCEPT ![l] = "scan"]
      /\ lchunk' = [lchunk EXCEPT ![l] = c] /\ lold' = lold
      /\ \A m \in Loaders \ {l} : lslot'[m] = lslot[m]
      /\ pending_load' = [pending_load EXCEPT ![c] = @ - 1]
      /\ pending_load[c] > 0
      /\ UNCHANGED <<bits, low, slot_id, num_chunks, deleted, pc, arg, ptr>>
  BY DEF LoadTake, LoaderAt, word, cache, ids, client
<1>2. pending_load[c] = 1 /\ "loading" \in bits[c]
  BY <1>1 DEF LoadWord
<1>3. SameMarks /\ SameFillers
  BY <1>1 DEF SameMarks, Marks, SameFillers, Filling
<1>4. SameSlots
  BY <1>1 DEF SameSlots, InSlot, Dying, Evicted
<1>5. CachedSlot' /\ ClaimedSlot' /\ SlotOwner'
  BY <1>1, <1>3, <1>4, FillersStay
<1>6. LoadWord'
  BY <1>1, <1>2 DEF LoadWord
<1>7. LoadOnce'
  BY <1>1, <1>2 DEF LoadOnce
<1>8. KnownId'
  BY <1>1 DEF KnownId, Evicts
<1> QED BY <1>1, <1>3, <1>5, <1>6, <1>7, <1>8, SafeFrame

\* A worker looks for a slot (571-581, 584, 594).
LEMMA ScanSafe ==
  ASSUME SafeInv, Shape,
         NEW l \in Loaders, lpc[l] \in {"scan", "look", "claim", "mark"},
         NEW to \in {"scan", "look", "claim", "mark"}, lpc' = [lpc EXCEPT ![l] = to],
         NEW old, lold' = [lold EXCEPT ![l] = old],
         to = "look" => old = slot_id[lslot[l]] /\ old # None,
         to = "mark" => lpc[l] = "look" /\ old = lold[l],
         \A m \in Loaders \ {l} : lslot'[m] = lslot[m],
         UNCHANGED <<word, ids, client, slot_id, loads, lchunk>>
  PROVE  SafeInv'
<1> USE Constants DEF SafeInv, Shape
<1>1. UNCHANGED <<bits, low, num_chunks, deleted, pc, arg, ptr, pending_load>>
  BY DEF word, ids, client, loads
<1>2. SameMarks /\ SameFillers
  BY DEF SameMarks, Marks, SameFillers, Filling
<1>3. SameSlots
  BY <1>1 DEF SameSlots, InSlot, Dying, Evicted
<1>4. CachedSlot' /\ ClaimedSlot' /\ SlotOwner'
  BY <1>1, <1>2, <1>3, FillersStay
<1>5. LoadOnce'
  BY <1>1 DEF LoadOnce
<1>6. KnownId'
  BY <1>1 DEF KnownId, Evicts
<1> QED BY <1>1, <1>2, <1>4, <1>5, <1>6, SafeFrame

\* A worker fills the slot it has (721).
LEMMA FillSafe ==
  ASSUME SafeInv, Shape, NEW l \in Loaders, LoadData(l), UNCHANGED <<ids, client>>
  PROVE  SafeInv'
<1> USE Constants DEF SafeInv, Shape
<1>1. /\ lpc[l] = "load" /\ lpc' = [lpc EXCEPT ![l] = "publish"]
      /\ UNCHANGED <<bits, low, slot_id, num_chunks, deleted, pc, arg, ptr,
                     pending_load, lchunk, lslot, lold>>
  BY DEF LoadData, LoaderAt, word, ids, client, loads
<1>2. SameMarks /\ SameFillers
  BY <1>1 DEF SameMarks, Marks, SameFillers, Filling
<1>3. SameSlots
  BY <1>1 DEF SameSlots, InSlot, Dying, Evicted
<1>4. CachedSlot' /\ ClaimedSlot' /\ SlotOwner'
  BY <1>1, <1>2, <1>3, FillersStay
<1>5. LoadOnce' /\ KnownId'
  BY <1>1 DEF LoadOnce, KnownId, Evicts
<1> QED BY <1>1, <1>2, <1>4, <1>5, SafeFrame

\* A worker claims a free slot (583-588).
LEMMA ClaimSafe ==
  ASSUME SafeInv, Shape,
         NEW l \in Loaders, Claim(l), slot_id[lslot[l]] = None,
         UNCHANGED <<ids, client>>
  PROVE  SafeInv'
<1> USE Constants DEF SafeInv, Shape
<1>1. /\ lpc[l] = "claim" /\ lpc' = [lpc EXCEPT ![l] = "load"]
      /\ slot_id' = [slot_id EXCEPT ![lslot[l]] = lchunk[l]]
      /\ UNCHANGED <<bits, low, num_chunks, deleted, pc, arg, ptr, pending_load,
                     lchunk, lslot, lold>>
  BY DEF Claim, StillFree, LoaderAt, word, ids, client, loads
<1>2. lchunk[l] \in Ids /\ lslot[l] \in Slots /\ lchunk[l] < num_chunks
  BY <1>1 DEF LoadOnce, FreshId, Ids
<1>3. SameMarks /\ \A m \in Loaders : Filling(m)' <=> Filling(m) \/ m = l
  BY <1>1 DEF SameMarks, Marks, Filling
<1>4. \A d \in Ids : InSlot(d)' <=> InSlot(d)
  BY <1>1 DEF InSlot, Dying, Evicted
<1>5. \A d \in Ids : InSlot(d) => low[d] # lslot[l]
  BY <1>2 DEF CachedSlot
<1>6. \A m \in Loaders : Filling(m) => lchunk[m] \in Ids /\ lslot[m] # lslot[l]
  BY <1>2 DEF ClaimedSlot, Filling
<1>7. CachedSlot'
  BY <1>1, <1>4, <1>5 DEF CachedSlot, InSlot
<1>8. ClaimedSlot'
  BY <1>1, <1>3, <1>6 DEF ClaimedSlot
<1>9. SlotOwner'
  BY <1>1, <1>2, <1>3, <1>4 DEF SlotOwner, Owns
<1>10. LoadOnce' /\ KnownId'
  BY <1>1, <1>2 DEF LoadOnce, KnownId, Evicts
<1> QED BY <1>1, <1>3, <1>7, <1>8, <1>9, <1>10, SafeFrame

\* A worker publishes the slot of its chunk (723-734).
LEMMA PublishSafe ==
  ASSUME SafeInv, Shape,
         NEW l \in Loaders, LoadPublish(l),
         UNCHANGED <<ids, client>>
  PROVE  SafeInv'
<1> USE Constants DEF SafeInv, Shape
<1>1. PICK c \in Ids : c = lchunk[l]
  BY DEF LoadPublish, LoaderAt
<1>2. /\ lpc[l] = "publish" /\ lpc' = [lpc EXCEPT ![l] = "idle"]
      /\ bits' = [bits EXCEPT ![c] = (@ \cup {"caching"}) \ {"loading"}]
      /\ low' = [low EXCEPT ![c] = lslot[l]]
      /\ lchunk' = [lchunk EXCEPT ![l] = None] /\ lold' = lold
      /\ \A m \in Loaders \ {l} : lslot'[m] = lslot[m]
      /\ UNCHANGED <<slot_id, num_chunks, deleted, pc, arg, ptr, pending_load>>
  BY <1>1 DEF LoadPublish, LoaderAt, ids, client, cache
<1>3. /\ "loading" \in bits[c] /\ "caching" \notin bits[c] /\ pending_load[c] = 0
      /\ slot_id[lslot[l]] = c /\ c < num_chunks
  BY <1>1, <1>2 DEF LoadOnce, LoadWord, ClaimedSlot, Filling, FreshId, Ids
<1>4. ~Held(c) /\ ~Dying(c) /\ ~Marked(c)
  BY <1>3 DEF UsedWord, InUse, MarkedWord, Marked
<1>5. SameMarks /\ \A m \in Loaders : Filling(m)' <=> Filling(m) /\ m # l
  BY <1>2 DEF SameMarks, Marks, Filling
<1>6. \A d \in Ids : InSlot(d)' <=> InSlot(d) \/ d = c
  <2>1. Dying(c)' <=> Dying(c)
    BY <1>2 DEF Dying
  <2>2. ~Evicted(c)'
    BY <1>2, <1>4 DEF Evicted, Marked, Marks
  <2>3. InSlot(c)'
    BY <1>2, <1>4, <2>1, <2>2 DEF InSlot
  <2>4. ASSUME NEW d \in Ids, d # c PROVE InSlot(d)' <=> InSlot(d)
    BY <1>2, <2>4 DEF InSlot, Dying, Evicted
  <2> QED BY <2>3, <2>4
<1>7. UsedWord'
  BY <1>2, <1>4 DEF UsedWord, InUse, Held, Holds, Dying
<1>8. HeldSlot'
  BY <1>2, <1>4 DEF HeldSlot, Holds, Held
<1>9. CachedSlot'
  BY <1>2, <1>3, <1>6 DEF CachedSlot
<1>10. ClaimedSlot'
  BY <1>2, <1>5 DEF ClaimedSlot
<1>11. SlotOwner'
  BY <1>1, <1>2, <1>3, <1>5, <1>6 DEF SlotOwner, Owns, InSlot
<1>12. LoadWord' /\ LoadOnce'
  BY <1>1, <1>2, <1>3 DEF LoadWord, LoadOnce
<1>13. MarkedWord'
  BY <1>2, <1>4 DEF MarkedWord, Marked, Marks
<1>14. GoneWord' /\ DeletedOnce'
  <2>1. ~Gone(c)' /\ (Gone(c) => bits[c] # {}) /\ ~Gone(c)
    BY <1>2, <1>3, <1>4 DEF GoneWord, Gone
  <2>2. \A d \in Ids : d # c => (Gone(d)' <=> Gone(d)) /\ bits'[d] = bits[d]
    BY <1>2 DEF Gone
  <2>3. GoneWord'
    BY <1>5, <2>1, <2>2 DEF GoneWord, Marked, SameMarks
  <2>4. DeletedOnce'
    BY <1>2, <2>1, <2>2 DEF DeletedOnce
  <2> QED BY <2>3, <2>4
<1>15. FreshId' /\ KnownId'
  BY <1>2, <1>3 DEF FreshId, KnownId, Evicts, Ids
<1> QED
  BY <1>2, <1>5, <1>7, <1>8, <1>9, <1>10, <1>11, <1>12, <1>13, <1>14, <1>15,
     SafeFrame

\* A worker marks the chunk it is to evict, unless somebody uses it (591-595).
LEMMA EvictMarkSafe ==
  ASSUME SafeInv, Shape,
         NEW l \in Loaders, EvictMark(l), MayEvict(lold[l]),
         UNCHANGED <<ids, client>>
  PROVE  SafeInv'
<1> USE Constants DEF SafeInv, Shape
<1>1. PICK c \in Ids : c = lold[l]
  BY DEF EvictMark, Evicts
<1>2. /\ lpc[l] = "mark" /\ lpc' = [lpc EXCEPT ![l] = "swap"]
      /\ bits' = [bits EXCEPT ![c] = @ \cup {"writing", "reading"}]
      /\ UNCHANGED <<low, slot_id, num_chunks, deleted, pc, arg, ptr, pending_load,
                     lchunk, lslot, lold>>
  BY <1>1 DEF EvictMark, LoaderAt, ids, client, cache, loads
<1>3. /\ "writing" \notin bits[c] /\ "reading" \notin bits[c]
      /\ "loading" \notin bits[c] /\ "syncing" \notin bits[c]
      /\ "to_sync" \notin bits[c] /\ c < num_chunks
  BY <1>1, <1>2 DEF MayEvict, Has, EvictBusy, FetchBusy, KnownId, Evicts
<1>4. ~InUse(c) /\ ~Marked(c)
  BY <1>3 DEF UsedWord, MarkedWord, Marked
<1>5. \A m \in Loaders : Marks(m)' <=> Marks(m) \/ m = l
  BY <1>2 DEF Marks
<1>6. SameSlots /\ SameFillers
  BY <1>2 DEF SameSlots, InSlot, Dying, Evicted, SameFillers, Filling
<1>7. \A d \in Ids : (Gone(d)' <=> Gone(d)) /\ (d # c => bits'[d] = bits[d])
  BY <1>2 DEF Gone
<1>8. UsedWord'
  BY <1>2, <1>4 DEF UsedWord, InUse, Held, Holds, Dying
<1>9. CachedSlot' /\ ClaimedSlot' /\ SlotOwner'
  BY <1>2, <1>6, FillersStay
<1>10. LoadWord' /\ LoadOnce'
  BY <1>2 DEF LoadWord, LoadOnce
<1>11. MarkedWord'
  <2>1. ASSUME NEW m \in Loaders, Marks(m), m # l
        PROVE  /\ lold[m] \in Ids \ {c} /\ lold'[m] = lold[m]
               /\ lpc'[m] = lpc[m] /\ bits'[lold[m]] = bits[lold[m]]
    BY <1>2, <1>4, <2>1 DEF Marked, Marks, Evicts
  <2>2. /\ lpc'[l] = "swap" /\ lold'[l] = c
        /\ bits'[c] = bits[c] \cup {"writing", "reading"}
    BY <1>1, <1>2
  <2> QED BY <1>3, <1>5, <2>1, <2>2 DEF MarkedWord
<1>12. OneMarker'
  BY <1>1, <1>2, <1>4, <1>5 DEF OneMarker, Marked
<1>13. GoneWord'
  <2>1. Marked(c)'
    BY <1>1, <1>2 DEF Marked, Marks
  <2>2. \A d \in Ids : Marked(d) => Marked(d)'
    BY <1>2, <1>5 DEF Marked
  <2> QED BY <1>7, <2>1, <2>2 DEF GoneWord
<1>14. DeletedOnce'
  BY <1>2, <1>7 DEF DeletedOnce
<1>15. FreshId' /\ KnownId'
  BY <1>2, <1>3 DEF FreshId, KnownId, Evicts, Ids
<1> QED
  BY <1>2, <1>8, <1>9, <1>10, <1>11, <1>12, <1>13, <1>14, <1>15, SafeFrame

\* The slot still belongs to the chunk: it is given to the new one (605-607).
LEMMA EvictSwapSafe ==
  ASSUME SafeInv, Shape,
         NEW l \in Loaders, EvictSwap(l), SlotStillHas(lslot[l], lold[l]),
         UNCHANGED <<ids, client>>
  PROVE  SafeInv'
<1> USE Constants DEF SafeInv, Shape
<1>1. PICK c \in Ids, s \in Slots : c = lold[l] /\ s = lslot[l]
  BY DEF EvictSwap, LoaderAt, Evicts
<1>2. /\ lpc[l] = "swap" /\ lpc' = [lpc EXCEPT ![l] = "unmap"] /\ slot_id[s] = c
      /\ slot_id' = [slot_id EXCEPT ![s] = lchunk[l]]
      /\ UNCHANGED <<bits, low, num_chunks, deleted, pc, arg, ptr, pending_load,
                     lchunk, lslot, lold>>
  BY <1>1 DEF EvictSwap, SlotStillHas, LoaderAt, word, ids, client, loads
<1>3. /\ lchunk[l] \in Ids /\ lchunk[l] < num_chunks /\ "loading" \notin bits[c]
      /\ Marks(l)
  BY <1>1, <1>2 DEF LoadOnce, FreshId, MarkedWord, Marks, Ids
<1>4. \A m \in Loaders : Filling(m) => lchunk[m] \in Ids \ {c} /\ lslot[m] # s
  BY <1>2, <1>3 DEF LoadOnce, Filling, ClaimedSlot
<1>5. InSlot(c) /\ low[c] = s
  BY <1>1, <1>2, <1>4 DEF SlotOwner, Owns
<1>6. /\ \A m \in Loaders : Filling(m)' <=> Filling(m) \/ m = l
      /\ \A m \in Loaders : Marks(m)' <=> Marks(m)
  BY <1>2 DEF Filling, Marks
<1>7. \A d \in Ids : InSlot(d)' <=> InSlot(d) /\ d # c
  <2>1. \A d \in Ids : Dying(d)' <=> Dying(d)
    BY <1>2 DEF Dying
  <2>2. \A d \in Ids : Evicted(d)' <=> Evicted(d) \/ d = c
    BY <1>1, <1>2 DEF Evicted
  <2> QED BY <1>2, <2>1, <2>2 DEF InSlot
<1>8. \A d \in Ids : InSlot(d) /\ d # c => low[d] \in Slots \ {s}
  BY <1>2 DEF CachedSlot, InSlot
<1>9. CachedSlot'
  BY <1>2, <1>7, <1>8 DEF CachedSlot
<1>10. ClaimedSlot'
  BY <1>1, <1>2, <1>4, <1>6 DEF ClaimedSlot
<1>11. SlotOwner'
  <2>1. Owns(lchunk[l], s)'
    BY <1>1, <1>2, <1>6 DEF Owns
  <2>2. ASSUME NEW r \in Slots \ {s}, slot_id[r] # None PROVE Owns(slot_id[r], r)'
    <3>1. slot_id[r] \in Ids /\ Owns(slot_id[r], r)
      BY <2>2 DEF SlotOwner
    <3>2. slot_id[r] # c
      BY <1>4, <1>5, <3>1 DEF Owns
    <3>3. CASE InSlot(slot_id[r]) /\ low[slot_id[r]] = r
      BY <1>2, <1>7, <3>1, <3>2, <3>3 DEF Owns
    <3>4. CASE \E m \in Loaders : /\ Filling(m) /\ lchunk[m] = slot_id[r]
                                  /\ lslot[m] = r
      BY <1>2, <1>6, <3>4 DEF Owns
    <3> QED BY <3>1, <3>3, <3>4 DEF Owns
  <2> QED BY <1>2, <1>3, <2>1, <2>2 DEF SlotOwner
<1>12. LoadOnce'
  BY <1>2 DEF LoadOnce
<1>13. MarkedWord'
  BY <1>1, <1>2, <1>5, <1>6 DEF MarkedWord, InSlot
<1>14. OneMarker' /\ GoneWord'
  BY <1>2, <1>6 DEF OneMarker, GoneWord, Gone, Marked
<1>15. KnownId'
  BY <1>2, <1>3 DEF KnownId, Evicts
<1> QED
  BY <1>2, <1>9, <1>10, <1>11, <1>12, <1>13, <1>14, <1>15, SafeFrame

\* The slot has changed hands, the worker gives up this chunk (599).
LEMMA EvictLostSafe ==
  ASSUME SafeInv, Shape,
         NEW l \in Loaders, EvictSwap(l), ~SlotStillHas(lslot[l], lold[l]),
         UNCHANGED <<ids, client>>
  PROVE  SafeInv'
<1> USE Constants DEF SafeInv, Shape
<1>1. /\ lpc[l] = "swap" /\ lpc' = [lpc EXCEPT ![l] = "undo"]
      /\ UNCHANGED <<bits, low, slot_id, num_chunks, deleted, pc, arg, ptr,
                     pending_load, lchunk, lslot, lold>>
  BY DEF EvictSwap, LoaderAt, word, ids, client, loads
<1>2. SameMarks /\ SameFillers
  BY <1>1 DEF SameMarks, Marks, SameFillers, Filling
<1>3. SameSlots
  BY <1>1 DEF SameSlots, InSlot, Dying, Evicted
<1>4. CachedSlot' /\ ClaimedSlot' /\ SlotOwner'
  BY <1>1, <1>2, <1>3, FillersStay
<1>5. LoadOnce' /\ KnownId'
  BY <1>1 DEF LoadOnce, KnownId, Evicts
<1> QED BY <1>1, <1>2, <1>4, <1>5, SafeFrame

\* The worker takes its marks off (600-602).
LEMMA EvictUndoSafe ==
  ASSUME SafeInv, Shape,
         NEW l \in Loaders, EvictUndo(l), UNCHANGED <<ids, client>>
  PROVE  SafeInv'
<1> USE Constants DEF SafeInv, Shape
<1>1. PICK c \in Ids : c = lold[l]
  BY DEF EvictUndo, Evicts
<1>2. /\ lpc[l] = "undo" /\ lpc' = [lpc EXCEPT ![l] = "scan"]
      /\ bits' = [bits EXCEPT ![c] = @ \ {"writing", "reading"}]
      /\ lold' = [lold EXCEPT ![l] = None]
      /\ \A m \in Loaders \ {l} : lslot'[m] = lslot[m]
      /\ UNCHANGED <<low, slot_id, num_chunks, deleted, pc, arg, ptr, pending_load,
                     lchunk>>
  BY <1>1 DEF EvictUndo, ScanOn, Unlocked, ids, client, cache, loads
<1>3. /\ "reading" \in bits[c] /\ "loading" \notin bits[c] /\ c < num_chunks
      /\ "syncing" \notin bits[c] /\ "to_sync" \notin bits[c] /\ Marks(l)
  BY <1>1, <1>2 DEF MarkedWord, Marks, KnownId, Evicts
<1>4. ~InUse(c)
  BY <1>3 DEF UsedWord
<1>5. \A m \in Loaders : Marks(m)' <=> Marks(m) /\ m # l
  BY <1>2 DEF Marks
<1>6. \A m \in Loaders : Marks(m) /\ m # l => lold[m] \in Ids \ {c}
  BY <1>1, <1>3 DEF OneMarker, Marks, Evicts
<1>7. SameSlots /\ SameFillers
  BY <1>2 DEF SameSlots, InSlot, Dying, Evicted, SameFillers, Filling
<1>8. \A d \in Ids : (Gone(d)' <=> Gone(d)) /\ (d # c => bits'[d] = bits[d])
  BY <1>2 DEF Gone
<1>9. UsedWord'
  BY <1>2, <1>4 DEF UsedWord, InUse, Held, Holds, Dying
<1>10. CachedSlot' /\ ClaimedSlot' /\ SlotOwner'
  BY <1>2, <1>7, FillersStay
<1>11. LoadWord' /\ LoadOnce'
  BY <1>2 DEF LoadWord, LoadOnce
<1>12. MarkedWord'
  BY <1>2, <1>5, <1>6, <1>8 DEF MarkedWord
<1>13. OneMarker'
  BY <1>2, <1>5 DEF OneMarker
<1>14. GoneWord'
  <2>1. Gone(c) => bits'[c] = {}
    BY <1>2, <1>3 DEF Gone, Flags
  <2>2. \A d \in Ids : d # c /\ Marked(d) => Marked(d)'
    BY <1>1, <1>2, <1>5 DEF Marked
  <2> QED BY <1>8, <2>1, <2>2 DEF GoneWord
<1>15. DeletedOnce'
  BY <1>2, <1>8 DEF DeletedOnce
<1>16. FreshId' /\ KnownId'
  BY <1>2, <1>3 DEF FreshId, KnownId, Evicts, Ids
<1> QED
  BY <1>2, <1>9, <1>10, <1>11, <1>12, <1>13, <1>14, <1>15, <1>16, SafeFrame

\* The word of the evicted chunk says that it is nowhere (610-613).
LEMMA EvictUnmapSafe ==
  ASSUME SafeInv, Shape,
         NEW l \in Loaders, EvictUnmap(l), UNCHANGED <<ids, client>>
  PROVE  SafeInv'
<1> USE Constants DEF SafeInv, Shape
<1>1. PICK c \in Ids : c = lold[l]
  BY DEF EvictUnmap, LoaderAt, Evicts
<1>2. /\ lpc[l] = "unmap" /\ lpc' = [lpc EXCEPT ![l] = "load"]
      /\ bits' = [bits EXCEPT ![c] = @ \ {"writing", "reading", "caching"}]
      /\ low' = [low EXCEPT ![c] = 0] /\ lold' = [lold EXCEPT ![l] = None]
      /\ UNCHANGED <<slot_id, num_chunks, deleted, pc, arg, ptr, pending_load,
                     lchunk, lslot>>
  BY <1>1 DEF EvictUnmap, LoaderAt, Unmapped, Unlocked, ids, client, cache, loads
<1>3. /\ "reading" \in bits[c] /\ "loading" \notin bits[c] /\ c < num_chunks
      /\ "syncing" \notin bits[c] /\ "to_sync" \notin bits[c]
      /\ "caching" \in bits[c] /\ Marks(l)
  BY <1>1, <1>2 DEF MarkedWord, Marks, KnownId, Evicts
<1>4. ~InUse(c)
  BY <1>3 DEF UsedWord
<1>5. \A m \in Loaders : Marks(m)' <=> Marks(m) /\ m # l
  BY <1>2 DEF Marks
<1>6. \A m \in Loaders : Marks(m) /\ m # l => lold[m] \in Ids \ {c}
  BY <1>1, <1>3 DEF OneMarker, Marks, Evicts
<1>7. SameSlots /\ SameFillers
  <2>1. ~InSlot(c) /\ ~InSlot(c)'
    BY <1>1, <1>2 DEF InSlot, Evicted
  <2>2. ASSUME NEW d \in Ids, d # c PROVE /\ InSlot(d)' <=> InSlot(d)
                                          /\ low'[d] = low[d]
    BY <1>1, <1>2, <2>2 DEF InSlot, Dying, Evicted
  <2>3. SameFillers
    BY <1>2 DEF SameFillers, Filling
  <2> QED BY <2>1, <2>2, <2>3 DEF SameSlots
<1>8. /\ ~Gone(c) /\ ~Gone(c)'
      /\ \A d \in Ids : d # c => (Gone(d)' <=> Gone(d)) /\ bits'[d] = bits[d]
  BY <1>2, <1>3 DEF Gone
<1>9. UsedWord'
  BY <1>2, <1>4 DEF UsedWord, InUse, Held, Holds, Dying
<1>10. HeldSlot'
  BY <1>2, <1>4 DEF HeldSlot, Holds, InUse, Held
<1>11. CachedSlot' /\ ClaimedSlot' /\ SlotOwner'
  BY <1>2, <1>7, FillersStay
<1>12. LoadWord' /\ LoadOnce'
  BY <1>2, <1>3 DEF LoadWord, LoadOnce
<1>13. MarkedWord'
  BY <1>2, <1>5, <1>6, <1>8 DEF MarkedWord
<1>14. OneMarker'
  BY <1>2, <1>5 DEF OneMarker
<1>15. GoneWord'
  <2>1. \A d \in Ids : d # c /\ Marked(d) => Marked(d)'
    BY <1>1, <1>2, <1>5 DEF Marked
  <2> QED BY <1>8, <2>1 DEF GoneWord
<1>16. DeletedOnce'
  BY <1>2, <1>8 DEF DeletedOnce
<1>17. FreshId' /\ KnownId'
  BY <1>2, <1>3 DEF FreshId, KnownId, Evicts, Ids
<1> QED
  BY <1>2, <1>9, <1>10, <1>11, <1>12, <1>13, <1>14, <1>15, <1>16, <1>17,
     SafeFrame

\* A sync ends (743).
LEMMA SyncDoneSafe ==
  ASSUME SafeInv, Shape,
         NEW c \in Ids,
         bits' = [bits EXCEPT ![c] = @ \ {"syncing"}],
         UNCHANGED <<low, ids, client, loader, loads, slot_id>>
  PROVE  SafeInv'
<1> USE Constants DEF SafeInv, Shape
<1>1. UNCHANGED <<low, num_chunks, deleted, pc, arg, ptr, pending_load, lpc, lchunk,
                  lslot, lold>>
  BY DEF ids, client, loader, loads
<1>2. SameMarks /\ SameSlots
  BY <1>1 DEF SameMarks, Marks, SameSlots, InSlot, Dying, Evicted
<1>3. UsedWord'
  BY <1>1 DEF UsedWord, InUse, Held, Holds, Dying
<1>4. CachedSlot' /\ SlotOwner'
  BY <1>1, <1>2, SlotsStay
<1>5. LoadWord' /\ LoadOnce'
  BY <1>1 DEF LoadWord, LoadOnce
<1>6. MarkedWord'
  BY <1>1 DEF MarkedWord, Marks
<1>7. GoneWord' /\ DeletedOnce'
  BY <1>1 DEF GoneWord, DeletedOnce, Gone, Marked, Marks
<1>8. FreshId'
  BY <1>1 DEF FreshId
<1> QED BY <1>1, <1>2, <1>3, <1>4, <1>5, <1>6, <1>7, <1>8, SafeFrame

\* A queued chunk that nobody uses begins to be synced (684-685).
LEMMA TryStartSafe ==
  ASSUME SafeInv, Shape,
         NEW c \in Ids, MaySync(c),
         bits' = [bits EXCEPT ![c] = SyncStarted(@)],
         UNCHANGED <<low, ids, client, loader, loads, slot_id>>
  PROVE  SafeInv'
<1> USE Constants DEF SafeInv, Shape
<1>1. UNCHANGED <<low, num_chunks, deleted, pc, arg, ptr, pending_load, lpc, lchunk,
                  lslot, lold>>
  BY DEF ids, client, loader, loads
<1>2. /\ "writing" \notin bits[c] /\ "loading" \notin bits[c]
      /\ "to_sync" \in bits[c] /\ "caching" \in bits[c]
      /\ bits' = [bits EXCEPT
                    ![c] = (@ \ {"writing", "reading", "to_sync"}) \cup {"syncing"}]
  BY DEF MaySync, Has, FetchBusy, LoadWord, SyncStarted
<1>3. ~InUse(c) /\ ~Marked(c)
  BY <1>2 DEF UsedWord, MarkedWord, Marked
<1>4. SameMarks /\ SameSlots
  BY <1>1, <1>2 DEF SameMarks, Marks, SameSlots, InSlot, Dying, Evicted
<1>5. UsedWord'
  BY <1>1, <1>2, <1>3 DEF UsedWord, InUse, Held, Holds, Dying
<1>6. CachedSlot' /\ SlotOwner'
  BY <1>1, <1>4, SlotsStay
<1>7. LoadWord' /\ LoadOnce'
  BY <1>1, <1>2 DEF LoadWord, LoadOnce
<1>8. MarkedWord'
  BY <1>1, <1>2, <1>3 DEF MarkedWord, Marked, Marks
<1>9. GoneWord' /\ DeletedOnce'
  <2>1. /\ ~Gone(c) /\ ~Gone(c)'
        /\ \A d \in Ids : d # c => (Gone(d)' <=> Gone(d)) /\ bits'[d] = bits[d]
    BY <1>1, <1>2 DEF Gone
  <2>2. GoneWord'
    BY <1>4, <2>1 DEF GoneWord, Marked, SameMarks
  <2>3. DeletedOnce'
    BY <1>1, <2>1 DEF DeletedOnce
  <2> QED BY <2>2, <2>3
<1>10. FreshId'
  BY <1>1, <1>2 DEF FreshId
<1> QED BY <1>1, <1>4, <1>5, <1>6, <1>7, <1>8, <1>9, <1>10, SafeFrame

-----------------------------------------------------------------------------
(* Every step of every thread is one of the above, or concerns the rest of *)
(* the state.                                                              *)

LEMMA SafeClient ==
  ASSUME ReuseInRam, TypeInv, SafeInv, NEW t \in Clients,
         ClientCalls(t) \/ ClientRuns(t)
  PROVE  SafeInv'
<1>0. Shape
  BY Shapes
<1>1. ASSUME CreateCall(t), CreateFrame PROVE SafeInv'
  <2>1. Recycle \/ NoDeletion
    <3> SUFFICES ASSUME ~Recycle PROVE NoDeletion
      OBVIOUS
    <3>1. /\ FreeIds = {}
          /\ \A u \in Clients : pc[u] \notin {"del_mark", "del_push"}
      BY <1>1 DEF CreateCall
    <3>2. \A c \in Ids : deleted[c] = 0
      BY <1>0, <3>1 DEF FreeIds, Shape
    <3> QED BY <3>1, <3>2 DEF NoDeletion
  <2>2. PICK to \in {"pop", "next"} : GoTo(t, to)
    BY <1>1 DEF CreateCall
  <2>3. /\ pc[t] = "idle" /\ arg[t] \in Ids \cup {None}
        /\ arg' = [arg EXCEPT ![t] = arg[t]]
    BY <1>0, <1>1 DEF CreateCall, Shape
  <2>4. UNCHANGED <<bits, low, num_chunks, deleted, slot_id, pending_load, ptr, loader>>
    BY <1>1 DEF CreateCall, CreateFrame, word, ids, cache, loads
  <2>5. pc' = [pc EXCEPT ![t] = to]
    BY <2>2 DEF GoTo
  <2> QED BY <1>0, <2>1, <2>3, <2>4, <2>5, QuietClient
<1>2. ASSUME NEW from \in {"pop", "last"}, NEW else \in {"next", "abort"},
             CreatePop(t, from, else), CreateFrame
      PROVE  SafeInv'
  <2>1. ASSUME NEW c \in Ids, TakeDeleted(t, c) PROVE SafeInv'
    BY <1>0, <1>2, <2>1, TakeDeletedSafe
    DEF CreatePop, TakeDeleted, CreateFrame, cache, loads
  <2>2. CASE FreeIds = {} /\ GoTo(t, else) /\ UNCHANGED <<arg, word, ids>>
    <3>1. pc[t] = from /\ Creating(t) /\ arg' = [arg EXCEPT ![t] = arg[t]]
      BY <1>0, <1>2, <2>2 DEF CreatePop, Creating, Shape
    <3> QED
      BY <1>0, <1>2, <2>2, <3>1, QuietClient
      DEF CreateFrame, GoTo, Shape, word, ids, cache, loads
  <2> QED BY <1>2, <2>1, <2>2 DEF CreatePop
<1>3. ASSUME CreateNext(t), CreateFrame PROVE SafeInv'
  <2>1. num_chunks < MaxChunks => num_chunks \in Ids
    BY <1>0, Constants DEF Ids, Shape
  <2>2. pc[t] = "next" /\ Creating(t)
    BY <1>3 DEF CreateNext, Creating
  <2>3. CASE num_chunks < MaxChunks
    BY <1>0, <1>3, <2>1, <2>2, <2>3, QuietClient
    DEF CreateNext, CreateFrame, GoTo, word, ids, cache, loads
  <2>4. CASE ~(num_chunks < MaxChunks)
    <3>1. arg' = [arg EXCEPT ![t] = arg[t]]
      BY <1>0, <1>3, <2>4 DEF CreateNext, Shape
    <3> QED
      BY <1>0, <1>3, <2>2, <2>4, <3>1, QuietClient
      DEF CreateNext, CreateFrame, GoTo, Shape, word, ids, cache, loads
  <2> QED BY <2>3, <2>4
<1>4. ASSUME CreateTake(t), CreateFrame PROVE SafeInv'
  <2>1. pc[t] = "take" /\ Creating(t)
    BY <1>4 DEF CreateTake, Creating
  <2>2. CASE StillNext(t)
    BY <1>0, <1>4, <2>1, <2>2, CreateTakeSafe DEF CreateFrame, cache, loads
  <2>3. CASE ~StillNext(t)
    BY <1>0, <1>4, <2>1, <2>3, QuietClient
    DEF CreateTake, CreateFrame, GoTo, word, cache, loads
  <2> QED BY <2>2, <2>3
<1>5. ASSUME NEW c \in Ids, Prefetch(t, c), FetchFrame PROVE SafeInv'
  <2>1. "caching" \notin bits[c] /\ "loading" \notin bits[c] /\ "reading" \notin bits[c]
    BY <1>5 DEF Prefetch, Has, LoadedOrLoading
  <2> QED BY <1>0, <1>5, <2>1, StartLoadSafe DEF Prefetch, FetchFrame, ids, cache
<1>6. ASSUME NEW c \in Ids, FetchCall(t, c), FetchFrame PROVE SafeInv'
  BY <1>0, <1>6, FetchCallSafe DEF FetchFrame, ids, cache
<1>7. ASSUME FetchNull(t), FetchFrame PROVE SafeInv'
  BY <1>0, <1>7, QuietClient
  DEF FetchNull, FetchFrame, Return, GoTo, word, ids, cache, loads
<1>8. ASSUME FetchLoad(t), FetchFrame PROVE SafeInv'
  <2>1. PICK c \in Ids : c = arg[t]
    BY <1>0, <1>8 DEF FetchLoad, Shape
  <2>2. c < num_chunks /\ StartLoad(c) /\ ~IsDeleted(c)
    BY <1>8, <2>1 DEF FetchLoad, SafeInv, KnownId
  <2>3. "caching" \notin bits[c] /\ "loading" \notin bits[c] /\ "reading" \notin bits[c]
    BY <1>8, <2>1 DEF FetchLoad, Has, LoadedOrLoading, FetchBusy
  <2> QED
    BY <1>0, <1>8, <2>2, <2>3, StartLoadSafe
    DEF FetchLoad, FetchFrame, ids, cache
<1>9. ASSUME FetchTake(t), FetchFrame PROVE SafeInv'
  BY <1>0, <1>9, FetchTakeSafe DEF FetchFrame, ids, cache
<1>10. ASSUME NEW c \in Ids, NEW v \in Values, Write(t, c, v), HolderFrame
       PROVE  SafeInv'
  <2>1. UNCHANGED <<bits, low, num_chunks, deleted, slot_id, pending_load, pc, arg,
                    ptr, lpc, lchunk, lslot, lold>>
    BY <1>10 DEF Write, HolderFrame, word, ids, client, loads, loader
  <2> QED BY <2>1, SafeFrame DEF SafeInv
<1>11. ASSUME NEW c \in Ids, HolderFrame,
              Release(t, c) \/ ReleaseSyncStart(t, c) \/ ReleaseSyncQueue(t, c)
       PROVE  SafeInv'
  <2>1. /\ "caching" \in bits[c] /\ "loading" \notin bits[c]
        /\ bits[c] \in SUBSET Flags
    BY <1>0, <1>11
    DEF Release, ReleaseSyncStart, ReleaseSyncQueue, HolderCalls, SafeInv, UsedWord,
        InUse, Held, Shape
  <2>2. ASSUME NEW b \in {Unlocked(bits[c]), SyncStarted(bits[c]),
                         Unlocked(bits[c]) \cup {"to_sync"}}
        PROVE  b \in SUBSET Flags /\ "caching" \in b /\ "loading" \notin b
    BY <2>1, <2>2 DEF Unlocked, SyncStarted, Flags
  <2>3. CASE Release(t, c)
    BY <1>0, <1>11, <2>2, <2>3, DropSafe
    DEF Release, HolderCalls, HolderFrame, Shape, ids, loads, loader
  <2>4. CASE ReleaseSyncStart(t, c)
    BY <1>0, <1>11, <2>2, <2>4, DropSafe
    DEF ReleaseSyncStart, HolderFrame, GoTo, ids, loads, loader
  <2>5. CASE ReleaseSyncQueue(t, c)
    BY <1>0, <1>11, <2>2, <2>5, DropSafe
    DEF ReleaseSyncQueue, HolderCalls, HolderFrame, Shape, ids, loads, loader
  <2> QED BY <1>11, <2>3, <2>4, <2>5
<1>12. ASSUME ReleaseSyncCount(t), HolderFrame PROVE SafeInv'
  BY <1>0, <1>12, QuietClient
  DEF ReleaseSyncCount, HolderFrame, Return, GoTo, word, ids, loads
<1>13. ASSUME NEW c \in Ids, ReleaseDelReset(t, c), HolderFrame PROVE SafeInv'
  BY <1>0, <1>13, DelResetSafe DEF HolderFrame, ids, loads
<1>14. ASSUME ReleaseDelMark(t), HolderFrame PROVE SafeInv'
  BY <1>0, <1>14, DelMarkSafe DEF HolderFrame, ids, loads
<1>15. ASSUME ReleaseDelPush(t), UNCHANGED <<loads, loader, syncer>> PROVE SafeInv'
  BY <1>0, <1>15, DelPushSafe DEF ReleaseDelPush, cache, loads
<1> QED
  BY <1>1, <1>2, <1>3, <1>4, <1>5, <1>6, <1>7, <1>8, <1>9, <1>10, <1>11, <1>12,
     <1>13, <1>14, <1>15
  DEF ClientCalls, ClientRuns, CreateStep

LEMMA SafeLoader ==
  ASSUME TypeInv, SafeInv, NEW l \in Loaders, LoaderStep(l)
  PROVE  SafeInv'
<1>0. Shape
  BY Shapes
<1>1. UNCHANGED <<ids, client>>
  BY DEF LoaderStep, LoaderFrame
<1>2. ASSUME NEW c \in Ids, LoadTake(l, c) PROVE SafeInv'
  BY <1>0, <1>1, <1>2, LoadTakeSafe
<1>3. ASSUME lpc[l] \in {"scan", "look", "claim", "mark"}, ScanOn(l),
             UNCHANGED <<word, slot_id, loads>>
      PROVE  SafeInv'
  BY <1>0, <1>1, <1>3, ScanSafe DEF ScanOn, Shape
<1>4. CASE Scan(l)
  <2>1. lpc[l] = "scan" /\ UNCHANGED <<word, slot_id, loads>>
    BY <1>4 DEF Scan, cache
  <2>2. CASE LoaderAt(l, "scan", "claim") /\ UNCHANGED <<lchunk, lslot, lold>>
    <3>1. lold' = [lold EXCEPT ![l] = lold[l]]
      BY <1>0, <2>2 DEF Shape
    <3> QED BY <1>0, <1>1, <2>1, <2>2, <3>1, ScanSafe DEF LoaderAt
  <2>3. CASE /\ slot_id[lslot[l]] # None /\ LoaderAt(l, "scan", "look")
             /\ lold' = [lold EXCEPT ![l] = slot_id[lslot[l]]]
             /\ UNCHANGED <<lchunk, lslot>>
    BY <1>0, <1>1, <2>1, <2>3, ScanSafe DEF LoaderAt
  <2>4. CASE ScanOn(l)
    BY <1>3, <2>1, <2>4
  <2> QED BY <1>4, <2>2, <2>3, <2>4 DEF Scan
<1>5. CASE Look(l)
  <2>1. lpc[l] = "look" /\ UNCHANGED <<word, slot_id, loads>>
    BY <1>5 DEF Look, cache
  <2>2. CASE LoaderAt(l, "look", "mark") /\ UNCHANGED <<lchunk, lslot, lold>>
    <3>1. lold' = [lold EXCEPT ![l] = lold[l]]
      BY <1>0, <2>2 DEF Shape
    <3> QED BY <1>0, <1>1, <2>1, <2>2, <3>1, ScanSafe DEF LoaderAt
  <2>3. CASE ScanOn(l)
    BY <1>3, <2>1, <2>3
  <2> QED BY <1>5, <2>2, <2>3 DEF Look
<1>6. CASE Claim(l)
  <2>1. CASE StillFree(lslot[l])
    BY <1>0, <1>1, <1>6, <2>1, ClaimSafe DEF StillFree
  <2>2. CASE ~StillFree(lslot[l])
    BY <1>3, <1>6, <2>2 DEF Claim
  <2> QED BY <2>1, <2>2
<1>7. CASE EvictMark(l)
  <2>1. CASE MayEvict(lold[l])
    BY <1>0, <1>1, <1>7, <2>1, EvictMarkSafe
  <2>2. CASE ~MayEvict(lold[l])
    BY <1>3, <1>7, <2>2 DEF EvictMark, word, cache
  <2> QED BY <2>1, <2>2
<1>8. CASE EvictSwap(l)
  BY <1>0, <1>1, <1>8, EvictSwapSafe, EvictLostSafe
<1>9. CASE EvictUndo(l)
  BY <1>0, <1>1, <1>9, EvictUndoSafe
<1>10. CASE EvictUnmap(l)
  BY <1>0, <1>1, <1>10, EvictUnmapSafe
<1>11. CASE LoadData(l)
  BY <1>0, <1>1, <1>11, FillSafe
<1>12. CASE LoadPublish(l)
  BY <1>0, <1>1, <1>12, PublishSafe
<1> QED
  BY <1>2, <1>4, <1>5, <1>6, <1>7, <1>8, <1>9, <1>10, <1>11, <1>12 DEF LoaderStep

LEMMA SafeSyncer ==
  ASSUME TypeInv, SafeInv, NEW s \in Syncers, SyncerStep(s)
  PROVE  SafeInv'
<1>0. Shape
  BY Shapes
<1>1. UNCHANGED <<ids, client, loader, loads, slot_id>>
  BY DEF SyncerStep, SyncerFrame
<1>2. CASE SyncDone(s)
  <2>1. PICK c \in Ids : c = schunk[s]
    BY <1>0, <1>2 DEF SyncDone, SyncerAt, Shape
  <2> QED BY <1>0, <1>1, <1>2, <2>1, SyncDoneSafe DEF SyncDone, Synced
<1>3. CASE TryStart(s)
  <2>1. PICK c \in Ids : c = schunk[s]
    BY <1>0, <1>3 DEF TryStart, Shape
  <2> QED BY <1>0, <1>1, <1>3, <2>1, TryStartSafe DEF TryStart
<1>4. CASE UNCHANGED word
  <2>1. UNCHANGED <<bits, low, num_chunks, deleted, slot_id, pending_load, pc, arg,
                    ptr, lpc, lchunk, lslot, lold>>
    BY <1>1, <1>4 DEF word, ids, client, loads, loader
  <2> QED BY <2>1, SafeFrame DEF SafeInv
<1>5. UNCHANGED word \/ SyncDone(s) \/ TryStart(s)
  BY DEF SyncerStep, SyncTake, Count, SignalSize, PurgePop, TryPop, PopOrRotate,
         PurgeEnd, Busy, PutBack, Stale, TryNext, SignalEnd
<1> QED BY <1>2, <1>3, <1>4, <1>5

LEMMA SafeNext ==
  ASSUME ReuseInRam, TypeInv, SafeInv, [Next]_vars
  PROVE  SafeInv'
<1>1. CASE UNCHANGED vars
  <2>1. UNCHANGED <<bits, low, num_chunks, deleted, slot_id, pending_load, pc, arg,
                    ptr, lpc, lchunk, lslot, lold>>
    BY <1>1 DEF vars, word, ids, cache, client, loads, loader
  <2> QED BY <2>1, SafeFrame DEF SafeInv
<1>2. CASE Next
  BY <1>2, SafeClient, SafeLoader, SafeSyncer DEF Next
<1> QED BY <1>1, <1>2

-----------------------------------------------------------------------------
(* The theorems.                                                           *)

\* The invariants hold for any number of threads, chunks and slots.
THEOREM Invariants ==
  ASSUME ReuseInRam PROVE Spec => [](TypeInv /\ SafeInv)
<1>1. ReuseInRam => ReuseInRam'
  BY DEF ReuseInRam
<1>2. Spec => []TypeInv
  BY TypesHold
<1>3. Init => SafeInv
  BY SafeInit
<1>4. ReuseInRam /\ TypeInv /\ SafeInv /\ [Next]_vars => SafeInv'
  BY SafeNext
<1> QED BY <1>1, <1>2, <1>3, <1>4, PTL DEF Spec

\* No two threads are ever between fetch and release of the same chunk (54-57).
THEOREM OneHolderCorrect ==
  ASSUME ReuseInRam PROVE Spec => []OneHolder
<1>1. SafeInv => OneHolder
  BY DEF SafeInv, OneUser
<1> QED BY Invariants, <1>1, PTL

\* The pointer fetch returned (376) names a slot that carries the chunk's id
\* until the release: no two held chunks share a buffer, whatever is loaded,
\* evicted, created or deleted meanwhile.
THEOREM PointerValidCorrect ==
  ASSUME ReuseInRam PROVE Spec => []PointerValid
<1>1. SafeInv => PointerValid
  <2> SUFFICES ASSUME SafeInv, NEW t \in Clients, NEW c \in Ids, Holds(t, c)
               PROVE  slot_id[ptr[t][c]] = c
    BY DEF PointerValid
  <2>1. /\ "caching" \in bits[c] /\ "reading" \notin bits[c] /\ ~Dying(c)
        /\ low[c] = ptr[t][c]
    BY DEF SafeInv, UsedWord, InUse, Held, OneUser, HeldSlot
  <2>2. ~Evicted(c)
    BY <2>1 DEF Evicted, SafeInv, MarkedWord, Marks
  <2> QED BY <2>1, <2>2 DEF SafeInv, CachedSlot, InSlot
<1> QED BY Invariants, <1>1, PTL

\* The word of a held chunk says that it is used and in memory, and that no load,
\* sync or eviction is under way: release_del never has to wait for one (413).
THEOREM HeldWordCorrect ==
  ASSUME ReuseInRam PROVE Spec => []HeldWord
<1>1. SafeInv => HeldWord
  BY DEF SafeInv, UsedWord, InUse, Held, HeldSlot, HeldWord, Has
<1> QED BY Invariants, <1>1, PTL

\* A chunk in memory and its slot name each other until release_del, or until the
\* slot is given to another chunk.
THEOREM SlotOwnedCorrect ==
  ASSUME ReuseInRam PROVE Spec => []SlotOwned
<1>1. TypeInv /\ SafeInv => SlotOwned
  <2> SUFFICES ASSUME TypeInv, SafeInv, NEW c \in Ids,
                      Has(c, {"caching"}), ~Dying(c), ~Evicted(c)
               PROVE  low[c] \in Slots /\ slot_id[low[c]] = c
    BY DEF SlotOwned
  <2> QED BY Shapes DEF Shape, SafeInv, CachedSlot, InSlot, Has
<1> QED BY Invariants, <1>1, PTL

\* Who stays with a chunk across a step: a holder, or the worker that loads it.
LEMMA StaysWord ==
  ASSUME TypeInv, SafeInv, NEW c \in Ids, StaysWith(c)
  PROVE  /\ ~Marked(c)
         /\ \/ /\ Held(c) /\ ~Dying(c)
               /\ "writing" \in bits[c] /\ "loading" \notin bits[c]
               /\ "syncing" \notin bits[c] /\ "caching" \in bits[c]
            \/ /\ \E l \in Loaders : Loading(l, c)
               /\ "loading" \in bits[c] /\ "caching" \notin bits[c]
               /\ "syncing" \notin bits[c] /\ "to_sync" \notin bits[c] /\ ~InUse(c)
<1>1. CASE \E t \in Clients : Holds(t, c)
  <2>1. "reading" \notin bits[c]
    BY <1>1 DEF SafeInv, UsedWord, InUse, Held
  <2>2. ~Marked(c)
    BY <2>1 DEF SafeInv, MarkedWord, Marked
  <2> QED BY <1>1, <2>2 DEF SafeInv, UsedWord, InUse, Held, OneUser
<1>2. CASE \E l \in Loaders : Loading(l, c)
  <2>1. "loading" \in bits[c]
    BY <1>2 DEF SafeInv, LoadOnce, Loading
  <2>2. ~Marked(c)
    BY <2>1 DEF SafeInv, MarkedWord, Marked
  <2> QED BY <1>2, <2>1, <2>2 DEF SafeInv, LoadWord, UsedWord
<1> QED BY <1>1, <1>2 DEF StaysWith

LEMMA WordStable ==
  ASSUME TypeInv, SafeInv, Next, NEW c \in Ids, StaysWith(c)
  PROVE  UNCHANGED <<bits[c], low[c]>>
<1> DEFINE Same == UNCHANGED <<bits[c], low[c]>>
<1>0. Shape
  BY Shapes
<1>1. CASE UNCHANGED word
  BY <1>1 DEF word
<1>2. ASSUME NEW t \in Clients, NEW d \in Ids, TakeDeleted(t, d) PROVE Same
  <2>1. Gone(d)
    BY <1>2 DEF TakeDeleted, SafeInv, DeletedOnce
  <2>2. bits[d] = {} \/ Marked(d)
    BY <2>1 DEF SafeInv, GoneWord
  <2> QED BY <1>0, <1>2, <2>2, StaysWord DEF TakeDeleted, Shape
<1>3. ASSUME NEW t \in Clients, CreateTake(t) PROVE Same
  <2>1. CASE StillNext(t)
    <3>1. bits[arg[t]] = {}
      BY <1>0, <1>3, <2>1
      DEF CreateTake, StillNext, Shape, SafeInv, FreshId, Ids
    <3> QED BY <1>0, <1>3, <2>1, <3>1, StaysWord DEF CreateTake, Shape
  <2>2. CASE ~StillNext(t)
    BY <1>1, <1>3, <2>2 DEF CreateTake
  <2> QED BY <2>1, <2>2
<1>4. ASSUME NEW t \in Clients, FetchLoad(t) \/ \E d \in Ids : Prefetch(t, d)
      PROVE  Same
  <2>1. PICK d : /\ StartLoad(d)
                 /\ "loading" \notin bits[d] /\ "caching" \notin bits[d]
    BY <1>4 DEF FetchLoad, Prefetch, Has, LoadedOrLoading
  <2> QED BY <1>0, <2>1, StaysWord DEF StartLoad, Shape
<1>5. ASSUME NEW t \in Clients, FetchTake(t) PROVE Same
  <2>1. "caching" \in bits[arg[t]] /\ bits[arg[t]] \cap FetchBusy = {}
    BY <1>5 DEF FetchTake, Fetchable, Has
  <2>2. "writing" \notin bits[arg[t]]
    BY <2>1 DEF FetchBusy
  <2> QED BY <1>0, <1>5, <2>1, <2>2, StaysWord DEF FetchTake, Shape
<1>6. ASSUME NEW t \in Clients, NEW d \in Ids,
             Release(t, d) \/ ReleaseSyncStart(t, d) \/ ReleaseSyncQueue(t, d)
      PROVE  Same
  <2>1. Holds(t, d) /\ Drop(t, d) /\ low' = low
        /\ \E b : bits' = [bits EXCEPT ![d] = b]
    BY <1>0, <1>6
    DEF Release, ReleaseSyncStart, ReleaseSyncQueue, HolderCalls, Shape
  <2>2. CASE c = d
    <3>1. ~\E u \in Clients : Holds(u, c) /\ Holds(u, c)'
      BY <1>0, <2>1, <2>2 DEF Drop, Holds, Shape, SafeInv, OneUser, OneHolder
    <3>2. ~\E l \in Loaders : Loading(l, c)
      BY <2>1, <2>2 DEF SafeInv, UsedWord, InUse, Held, LoadOnce, Loading
    <3> QED BY <3>1, <3>2 DEF StaysWith
  <2>3. CASE c # d
    BY <1>0, <2>1, <2>3 DEF Shape
  <2> QED BY <2>2, <2>3
<1>7. ASSUME NEW t \in Clients, ReleaseDelMark(t) PROVE Same
  <2>1. arg[t] \in Ids /\ Dying(arg[t])
    BY <1>0, <1>7 DEF ReleaseDelMark, Dying, Shape
  <2> QED BY <1>0, <1>7, <2>1, StaysWord DEF ReleaseDelMark, Shape, InUse
<1>8. ASSUME NEW l \in Loaders, LoadPublish(l) PROVE Same
  <2>1. CASE c = lchunk[l]
    <3>1. "loading" \in bits[c]
      BY <1>8, <2>1 DEF LoadPublish, LoaderAt, SafeInv, LoadOnce
    <3>2. ~\E m \in Loaders : Loading(m, c) /\ Loading(m, c)'
      BY <1>0, <1>8, <2>1
      DEF LoadPublish, LoaderAt, Loading, SafeInv, LoadOnce, Shape
    <3>3. ~Held(c)
      BY <3>1 DEF SafeInv, UsedWord, InUse
    <3> QED BY <3>2, <3>3 DEF StaysWith, Held
  <2>2. CASE c # lchunk[l]
    BY <1>0, <1>8, <2>2 DEF LoadPublish, Shape
  <2> QED BY <2>1, <2>2
<1>9. ASSUME NEW s \in Syncers, SyncDone(s) PROVE Same
  BY <1>0, <1>9, StaysWord DEF SyncDone, Synced, Shape
<1>10. ASSUME NEW s \in Syncers, TryStart(s) PROVE Same
  <2>1. "to_sync" \in bits[schunk[s]] /\ bits[schunk[s]] \cap FetchBusy = {}
    BY <1>10 DEF TryStart, MaySync, Has
  <2>2. "writing" \notin bits[schunk[s]] /\ "loading" \notin bits[schunk[s]]
    BY <2>1 DEF FetchBusy
  <2> QED BY <1>0, <1>10, <2>1, <2>2, StaysWord DEF TryStart, Shape
<1>11. ASSUME NEW t \in Clients, ClientCalls(t) \/ ClientRuns(t) PROVE Same
  <2>1. CASE ClientCalls(t)
    BY <1>1, <1>4, <1>6, <2>1
    DEF ClientCalls, CreateCall, FetchCall, Write, ReleaseDelReset
  <2>2. CASE CreateStep(t)
    BY <1>1, <1>2, <1>3, <2>2 DEF CreateStep, CreatePop, CreateNext
  <2>3. CASE ClientRuns(t) /\ ~CreateStep(t)
    BY <1>1, <1>4, <1>5, <1>7, <2>3
    DEF ClientRuns, FetchNull, ReleaseSyncCount, ReleaseDelPush
  <2> QED BY <1>11, <2>1, <2>2, <2>3
<1>12. ASSUME NEW l \in Loaders, LoaderStep(l) PROVE Same
  <2>1. CASE EvictMark(l)
    <3>1. CASE MayEvict(lold[l])
      <4>1. /\ lold[l] \in Ids /\ low' = low
            /\ bits' = [bits EXCEPT ![lold[l]] = @ \cup {"writing", "reading"}]
        BY <1>0, <2>1, <3>1 DEF EvictMark, Shape, Evicts
      <4>2. "writing" \notin bits[lold[l]] /\ "loading" \notin bits[lold[l]]
        BY <3>1 DEF MayEvict, Has, EvictBusy, FetchBusy
      <4> QED BY <1>0, <4>1, <4>2, StaysWord DEF Shape
    <3>2. CASE ~MayEvict(lold[l])
      BY <1>1, <2>1, <3>2 DEF EvictMark, word
    <3> QED BY <3>1, <3>2
  <2>2. CASE EvictUndo(l) \/ EvictUnmap(l)
    <3>1. lold[l] \in Ids /\ Marked(lold[l])
      BY <1>0, <2>2
      DEF EvictUndo, EvictUnmap, LoaderAt, Shape, Evicts, Marked, Marks
    <3>2. c # lold[l]
      BY <3>1, StaysWord
    <3> QED BY <1>0, <2>2, <3>2 DEF EvictUndo, EvictUnmap, Shape
  <2> QED
    BY <1>1, <1>8, <1>12, <2>1, <2>2
    DEF LoaderStep, LoadTake, Scan, Look, Claim, EvictSwap, LoadData
<1>13. ASSUME NEW s \in Syncers, SyncerStep(s) PROVE Same
  BY <1>1, <1>9, <1>10, <1>13
  DEF SyncerStep, SyncTake, Count, SignalSize, PurgePop, TryPop, PopOrRotate,
      PurgeEnd, Busy, PutBack, Stale, TryNext, SignalEnd
<1> QED BY <1>11, <1>12, <1>13 DEF Next

\* No step changes the word of a chunk that stays held, or whose load runs on:
\* the stores made without the chunk's lock lose no update.
THEOREM HeldWordStableCorrect ==
  ASSUME ReuseInRam PROVE Spec => HeldWordStable
<1> DEFINE Kept == \A c \in Ids : StaysWith(c) => UNCHANGED <<bits[c], low[c]>>
<1>1. TypeInv /\ SafeInv /\ [Next]_vars => [Kept]_vars
  BY WordStable
<1>2. Spec => [](TypeInv /\ SafeInv)
  BY Invariants
<1> QED BY <1>1, <1>2, PTL DEF Spec, HeldWordStable
=============================================================================
