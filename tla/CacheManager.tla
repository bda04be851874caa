---------------------------- MODULE CacheManager ----------------------------
(***************************************************************************)
(* cache_manager_t (manager.hpp): the table of chunks shared by every      *)
(* thread of the solver.  A chunk has a 32-bit status word; its data is in *)
(* a slot of _cached_chunks, on disk, or nowhere (it reads as zeros).      *)
(*                                                                         *)
(* Three kinds of thread run here: the callers of the public operations    *)
(* (Clients), the workers of loading_pool (Loaders) and of syncing_pool    *)
(* (Syncers).  A step is one critical section of a spin lock, or one       *)
(* access outside a lock that another thread can tell apart.  An unlocked  *)
(* test that is made again under the lock (334-336, 354, 357, 368) can     *)
(* only send its loop round once more, so it is folded into the locked     *)
(* step.  The read-modify-writes of a status word made without the chunk's *)
(* lock (382, 390, 403, 405, 723-732) are one step each: that nobody else  *)
(* changes the word meanwhile is the property HeldWordStable.              *)
(*                                                                         *)
(* Spin locks are held within one step and do not appear, except that      *)
(* release_sync holds _to_sync_chunks_lock across two: ts_lock.  What a    *)
(* group of actions leaves alone is said once, where Next composes them.   *)
(*                                                                         *)
(* A definition that no action uses, placed before one with the same       *)
(* parameters, is a plausible wrong version of it, for mutation testing.   *)
(***************************************************************************)
EXTENDS Integers, Sequences, FiniteSets

CONSTANTS Clients, Loaders, Syncers,  \* the threads
          MaxChunks,    \* Chunk::max_chunks, the number of chunk ids
          MaxCached,    \* _max_cached_chunks, the number of slots
          SizeMask,     \* _ck_size_mask, the status word of a deleted chunk
          SyncLimit,    \* syncs in flight (6) above which release_sync queues
          PurgeFactor,  \* the 5 of the test that starts a purge of the queue
          CacheOnly,    \* chunk_t::cache_only: no disk, nothing is evicted
          Values, Zero  \* what a chunk's data can be, and memset's zeros

\* Bounds of the model, all on what the callers do.
CONSTANTS HoldMax,      \* chunks one client holds at once
          QueueMax,     \* length of _to_sync_chunks at which nobody deletes
          Recycle       \* whether chunks are created after a deletion

None == -1              \* the id of a free slot, and "no chunk"

ASSUME SizesAssumption ==
    /\ {MaxChunks, MaxCached, SizeMask, SyncLimit} \subseteq Nat \ {0}
    /\ {PurgeFactor, HoldMax, QueueMax} \subseteq Nat
    /\ Zero \in Values /\ Values \subseteq Nat
    /\ None \notin Clients

\* chunk_t::max_chunks is max_cached_chunks when there is no disk.
ASSUME ModeAssumption ==
    /\ {CacheOnly, Recycle} \subseteq BOOLEAN
    /\ CacheOnly => MaxChunks = MaxCached

Ids == 0 .. MaxChunks - 1
Slots == 0 .. MaxCached - 1

VARIABLES
    bits, low,          \* _chunk_status: the flags, and the bits under them
    num_chunks,         \* _num_chunks: ids below it have been handed out
    deleted,            \* _deleted_ids: how often each id is on the stack
    slot_id, slot_data, \* _cached_chunks[s].id and .data
    last_cache,         \* _last_cache
    disk,               \* the chunk files; None where there is no file
    pending_load, pending_sync,     \* tasks in the pools not yet started
    num_loading, num_syncing,       \* _num_loading_chunks and so on
    to_sync, ts_lock,   \* _to_sync_chunks, and the client holding its lock
    pc, arg,            \* a client's position and the id it works on
    ptr,                \* ptr[t][c]: the slot a fetch of c returned to t
    lpc, lchunk, lslot, lold,       \* a loading worker: cache_id, old_chunk_id
    spc, schunk, squeue, stry       \* a syncing worker: queue_size, num_try

word   == <<bits, low>>
ids    == <<num_chunks, deleted>>
cache  == <<slot_id, slot_data, last_cache, disk>>
loads  == <<pending_load, num_loading>>
syncs  == <<pending_sync, num_syncing, to_sync, ts_lock>>
client == <<pc, arg, ptr>>
loader == <<lpc, lchunk, lslot, lold>>
syncer == <<spc, schunk, squeue, stry>>

vars == <<word, ids, cache, loads, syncs, client, loader, syncer>>

-----------------------------------------------------------------------------
(* The status word.                                                        *)

Flags == {"loading", "syncing", "caching", "reading", "writing", "to_sync"}

\* _ck_already_loaded, and the two masks called _ck_busy.
LoadedOnly == {"caching"}
LoadedOrLoading == {"caching", "loading"}
FetchBusy == {"loading", "syncing", "reading", "writing"}
EvictBusyUnqueued == FetchBusy
EvictBusy == FetchBusy \cup {"to_sync"}

Has(c, mask) == bits[c] \cap mask # {}
IsDeleted(c) == bits[c] = {} /\ low[c] = SizeMask   \* status == _ck_size_mask
UnlockedReading(b) == b \ {"reading"}
Unlocked(b) == b \ {"writing", "reading"}

\* The ids on the stack; which of them is on top does not matter.
FreeIds == {c \in Ids : deleted[c] > 0}

\* What load() leaves in the slot: zeros without a disk or without a file.
FileData(c) == IF CacheOnly \/ disk[c] = None THEN Zero ELSE disk[c]

Holds(t, c) == ptr[t][c] # None
Held(c) == \E t \in Clients : Holds(t, c)

WordType == bits \in [Ids -> SUBSET Flags] /\ low \in [Ids -> Slots \cup {SizeMask}]
IdType == num_chunks \in 0 .. MaxChunks /\ deleted \in [Ids -> Nat]
CacheType ==
    /\ slot_id \in [Slots -> Ids \cup {None}]
    /\ slot_data \in [Slots -> Values]
    /\ last_cache \in Slots /\ disk \in [Ids -> Values \cup {None}]
LoadType == pending_load \in [Ids -> Nat] /\ num_loading \in Int
SyncType ==
    /\ pending_sync \in [Ids -> Nat] /\ num_syncing \in Int
    /\ to_sync \in Seq(Ids) /\ ts_lock \in Clients \cup {None}
ClientType ==
    /\ pc \in [Clients -> {"idle", "fetch", "pop", "next", "take", "last",
                           "abort", "rs_count", "del_mark", "del_push"}]
    /\ arg \in [Clients -> Ids \cup {None}]
    /\ ptr \in [Clients -> [Ids -> Slots \cup {None}]]
LoaderType ==
    /\ lpc \in [Loaders -> {"idle", "scan", "look", "claim", "mark", "swap",
                            "undo", "unmap", "load", "publish"}]
    /\ lchunk \in [Loaders -> Ids \cup {None}] /\ lslot \in [Loaders -> Slots]
    /\ lold \in [Loaders -> Ids \cup {None}]
SyncerType ==
    /\ spc \in [Syncers -> {"idle", "sync", "count", "size", "purge", "purge_check",
                            "purge_put", "try", "pop", "check", "put", "inc"}]
    /\ schunk \in [Syncers -> Ids \cup {None}]
    /\ squeue \in [Syncers -> Nat] /\ stry \in [Syncers -> Nat]
TypeOK == /\ WordType /\ IdType /\ CacheType /\ LoadType /\ SyncType
          /\ ClientType /\ LoaderType /\ SyncerType

\* After the constructor: no ids, free slots, empty pools.
Init ==
    /\ bits = [c \in Ids |-> {}] /\ low = [c \in Ids |-> 0]
    /\ num_chunks = 0 /\ deleted = [c \in Ids |-> 0]
    /\ slot_id = [s \in Slots |-> None] /\ slot_data = [s \in Slots |-> Zero]
    /\ last_cache = 0 /\ disk = [c \in Ids |-> None]
    /\ pending_load = [c \in Ids |-> 0] /\ num_loading = 0
    /\ pending_sync = [c \in Ids |-> 0] /\ num_syncing = 0
    /\ to_sync = <<>> /\ ts_lock = None
    /\ pc = [t \in Clients |-> "idle"] /\ arg = [t \in Clients |-> None]
    /\ ptr = [t \in Clients |-> [c \in Ids |-> None]]
    /\ lpc = [l \in Loaders |-> "idle"] /\ lchunk = [l \in Loaders |-> None]
    /\ lslot = [l \in Loaders |-> 0] /\ lold = [l \in Loaders |-> None]
    /\ spc = [s \in Syncers |-> "idle"] /\ schunk = [s \in Syncers |-> None]
    /\ squeue = [s \in Syncers |-> 0] /\ stry = [s \in Syncers |-> 0]

GoTo(t, l) == pc' = [pc EXCEPT ![t] = l]
Return(t) == GoTo(t, "idle") /\ arg' = [arg EXCEPT ![t] = None]

-----------------------------------------------------------------------------
(* create_chunk.                                                           *)

\* Line 299: is there a deleted id to reuse?  Read without the lock.
CreateCall(t) ==
    /\ pc[t] = "idle"
    /\ Recycle \/ (FreeIds = {} /\ ~\E u \in Clients : pc[u] \in {"del_mark", "del_push"})
    /\ GoTo(t, IF FreeIds # {} THEN "pop" ELSE "next")
    /\ UNCHANGED <<arg, word, ids>>

\* _deleted_ids[--_num_deleted_ids], and the word set to 0 under that lock.
TakeDeletedAsIs(t, c) ==
    /\ deleted[c] > 0 /\ deleted' = [deleted EXCEPT ![c] = @ - 1]
    /\ Return(t) /\ UNCHANGED <<num_chunks, word>>
TakeDeleted(t, c) ==
    /\ deleted[c] > 0
    /\ deleted' = [deleted EXCEPT ![c] = @ - 1]
    /\ bits' = [bits EXCEPT ![c] = {}]
    /\ low' = [low EXCEPT ![c] = 0]
    /\ Return(t) /\ UNCHANGED num_chunks

\* Lines 300-305 and 319-327: under the lock of the stack.  With no id left at
\* the second try the program is aborted.
CreatePop(t, from, else) ==
    /\ pc[t] = from
    /\ \/ \E c \in Ids : TakeDeleted(t, c)
       \/ FreeIds = {} /\ GoTo(t, else) /\ UNCHANGED <<arg, word, ids>>

\* Lines 308-310: the next fresh id is read without a lock.
CreateNext(t) ==
    /\ pc[t] = "next"
    /\ IF num_chunks < MaxChunks
       THEN GoTo(t, "take") /\ arg' = [arg EXCEPT ![t] = num_chunks]
       ELSE GoTo(t, "last") /\ UNCHANGED arg
    /\ UNCHANGED <<word, ids>>

\* Lines 311-316: is the id still the next one, now that its lock is held?
StillNext(t) == num_chunks = arg[t]

CreateTake(t) ==
    /\ pc[t] = "take"
    /\ IF StillNext(t)
       THEN /\ bits' = [bits EXCEPT ![arg[t]] = {}]
            /\ low' = [low EXCEPT ![arg[t]] = 0]
            /\ num_chunks' = num_chunks + 1
            /\ Return(t)
       ELSE /\ GoTo(t, "next") /\ arg' = [arg EXCEPT ![t] = None]
            /\ UNCHANGED <<word, num_chunks>>
    /\ UNCHANGED deleted

CreateStep(t) ==
    CreatePop(t, "pop", "next") \/ CreateNext(t) \/ CreateTake(t)
    \/ CreatePop(t, "last", "abort")

Aborted == \E t \in Clients : pc[t] = "abort"

-----------------------------------------------------------------------------
(* prefetch and fetch.                                                     *)

\* A load of c begins, under the lock of c: its flag, its task and its count.
StartLoad(c) ==
    /\ bits' = [bits EXCEPT ![c] = @ \cup {"loading"}]
    /\ pending_load' = [pending_load EXCEPT ![c] = @ + 1]
    /\ num_loading' = num_loading + 1
    /\ UNCHANGED low

\* prefetch returns at once when there is nothing to load: no step.
Prefetch(t, c) ==
    /\ pc[t] = "idle" /\ c < num_chunks
    /\ ~Has(c, LoadedOrLoading) /\ ~IsDeleted(c) /\ ~Has(c, {"writing", "reading"})
    /\ StartLoad(c) /\ UNCHANGED client

\* A caller asks for any id it has been given and does not hold.
FetchCall(t, c) ==
    /\ pc[t] = "idle" /\ c < num_chunks /\ ~Holds(t, c)
    /\ Cardinality({d \in Ids : Holds(t, d)}) < HoldMax
    /\ GoTo(t, "fetch") /\ arg' = [arg EXCEPT ![t] = c]
    /\ UNCHANGED <<ptr, word, loads>>

\* Lines 354 and 361: the chunk is deleted, fetch returns NULL.
FetchNull(t) ==
    /\ pc[t] = "fetch" /\ IsDeleted(arg[t])
    /\ Return(t) /\ UNCHANGED <<ptr, word, loads>>

\* Lines 357-366: nothing is under way for the chunk, so load it.
FetchLoad(t) ==
    /\ pc[t] = "fetch"
    /\ ~Has(arg[t], LoadedOrLoading \cup FetchBusy) /\ ~IsDeleted(arg[t])
    /\ StartLoad(arg[t]) /\ UNCHANGED client

\* Lines 370-376: the chunk is in memory and nobody uses it; mark it, return it.
FetchableAlways(c) == Has(c, {"caching"})
FetchableSyncing(c) == Has(c, {"caching"}) /\ ~Has(c, FetchBusy \ {"syncing"})
Fetchable(c) == Has(c, {"caching"}) /\ ~Has(c, FetchBusy)

FetchTake(t) ==
    LET c == arg[t] IN
    /\ pc[t] = "fetch" /\ Fetchable(c)
    /\ bits' = [bits EXCEPT ![c] = @ \cup {"writing"}]
    /\ ptr' = [ptr EXCEPT ![t][c] = low[c]]
    /\ Return(t) /\ UNCHANGED <<low, loads>>

-----------------------------------------------------------------------------
(* What the holder of a chunk may do: write it, or release it in one of    *)
(* three ways.                                                             *)

HolderCalls(t, c) == pc[t] = "idle" /\ Holds(t, c)
Drop(t, c) == ptr' = [ptr EXCEPT ![t][c] = None]

Write(t, c, v) ==
    /\ HolderCalls(t, c)
    /\ slot_data' = [slot_data EXCEPT ![ptr[t][c]] = v]
    /\ UNCHANGED <<slot_id, disk, word, syncs, client>>

\* release, and release_sync of a chunk that is already queued (389-392).  With
\* a disk, callers use release for pages they have only read (poly.cpp 30, 193).
Release(t, c) ==
    /\ HolderCalls(t, c)
    /\ CacheOnly \/ Has(c, {"to_sync"}) \/ slot_data[ptr[t][c]] = FileData(c)
    /\ bits' = [bits EXCEPT ![c] = Unlocked(@)]
    /\ Drop(t, c)
    /\ UNCHANGED <<low, slot_id, slot_data, disk, syncs, pc, arg>>

\* Lines 395-401: fewer than six syncs in flight, start one.  The count goes
\* up in a step of its own, the lock of the queue still held.
UnlockedOnly(b) == Unlocked(b)
SyncStarted(b) == (b \ {"writing", "reading", "to_sync"}) \cup {"syncing"}

ReleaseSyncStart(t, c) ==
    /\ HolderCalls(t, c) /\ ~Has(c, {"to_sync"})
    /\ ts_lock = None /\ num_syncing < SyncLimit
    /\ bits' = [bits EXCEPT ![c] = SyncStarted(@)]
    /\ pending_sync' = [pending_sync EXCEPT ![c] = @ + 1]
    /\ Drop(t, c) /\ ts_lock' = t /\ GoTo(t, "rs_count")
    /\ UNCHANGED <<arg, low, slot_id, slot_data, disk, num_syncing, to_sync>>

ReleaseSyncCount(t) ==
    /\ pc[t] = "rs_count"
    /\ num_syncing' = num_syncing + 1
    /\ ts_lock' = None /\ Return(t)
    /\ UNCHANGED <<ptr, pending_sync, to_sync, word, slot_id, slot_data, disk>>

\* Lines 402-406: too many syncs in flight, queue the chunk and unlock it.
ReleaseSyncQueue(t, c) ==
    /\ HolderCalls(t, c) /\ ~Has(c, {"to_sync"})
    /\ ts_lock = None /\ num_syncing >= SyncLimit
    /\ bits' = [bits EXCEPT ![c] = Unlocked(@) \cup {"to_sync"}]
    /\ to_sync' = Append(to_sync, c)
    /\ Drop(t, c)
    /\ UNCHANGED <<low, slot_id, slot_data, disk, pending_sync, num_syncing,
                   ts_lock, pc, arg>>

\* Lines 413-417: the slot of a deleted chunk becomes free.  A holder's chunk
\* is never syncing (HeldWord), so the deferred branch 437-453 is not taken.
SlotsKept(c) == slot_id
SlotsWithout(c) ==
    IF Has(c, {"caching"}) THEN [slot_id EXCEPT ![low[c]] = None] ELSE slot_id

ReleaseDelReset(t, c) ==
    /\ HolderCalls(t, c) /\ ~Has(c, {"syncing"})
    /\ Len(to_sync) < QueueMax
    /\ Recycle \/ \A u \in Clients : pc[u] \notin {"pop", "next", "take", "last"}
    /\ slot_id' = SlotsWithout(c)
    /\ Drop(t, c) /\ GoTo(t, "del_mark") /\ arg' = [arg EXCEPT ![t] = c]
    /\ UNCHANGED <<slot_data, disk, word, syncs>>

\* Lines 419-424: the file is removed and the word says deleted.
ReleaseDelMark(t) ==
    /\ pc[t] = "del_mark"
    /\ disk' = IF CacheOnly THEN disk ELSE [disk EXCEPT ![arg[t]] = None]
    /\ bits' = [bits EXCEPT ![arg[t]] = {}]
    /\ low' = [low EXCEPT ![arg[t]] = SizeMask]
    /\ GoTo(t, "del_push")
    /\ UNCHANGED <<arg, ptr, slot_id, slot_data, syncs>>

\* Lines 426-429: the id may be handed out again.
ReleaseDelPush(t) ==
    /\ pc[t] = "del_push"
    /\ deleted' = [deleted EXCEPT ![arg[t]] = @ + 1]
    /\ Return(t)
    /\ UNCHANGED <<num_chunks, ptr, word, cache, syncs>>

-----------------------------------------------------------------------------
(* __load_chunk and __fetch_cache_for, in a worker of loading_pool.        *)

NextSlotUnwrapped(s) == s + 1
NextSlotSame(s) == s
NextSlot(s) == (s + 1) % MaxCached

LoaderAt(l, from, to) == lpc[l] = from /\ lpc' = [lpc EXCEPT ![l] = to]

\* The worker tries the next slot.
ScanOn(l) ==
    /\ lpc' = [lpc EXCEPT ![l] = "scan"]
    /\ lslot' = [lslot EXCEPT ![l] = NextSlot(@)]
    /\ lold' = [lold EXCEPT ![l] = None] /\ UNCHANGED lchunk

\* Line 571: the scan of the slots starts after the last slot claimed.
LoadTake(l, c) ==
    /\ pending_load[c] > 0
    /\ pending_load' = [pending_load EXCEPT ![c] = @ - 1]
    /\ LoaderAt(l, "idle", "scan")
    /\ lchunk' = [lchunk EXCEPT ![l] = c]
    /\ lslot' = [lslot EXCEPT ![l] = NextSlot(last_cache)]
    /\ UNCHANGED <<num_loading, lold, word, cache>>

\* Lines 571-576: look at the id of one slot, unlocked.
Scan(l) ==
    LET old == slot_id[lslot[l]] IN
    /\ lpc[l] = "scan"
    /\ \/ old = None /\ LoaderAt(l, "scan", "claim") /\ UNCHANGED <<lchunk, lslot, lold>>
       \/ /\ old # None /\ ~CacheOnly /\ LoaderAt(l, "scan", "look")
          /\ lold' = [lold EXCEPT ![l] = old] /\ UNCHANGED <<lchunk, lslot>>
       \/ old # None /\ CacheOnly /\ ScanOn(l)
    /\ UNCHANGED <<word, cache, loads>>

\* Lines 577-579: look at the word of its chunk, unlocked.
Look(l) ==
    /\ lpc[l] = "look"
    /\ IF Has(lold[l], EvictBusy) THEN ScanOn(l)
       ELSE LoaderAt(l, "look", "mark") /\ UNCHANGED <<lchunk, lslot, lold>>
    /\ UNCHANGED <<word, cache, loads>>

\* Lines 581-588: claim the slot, if it is still free under the lock.
StillFreeUnchecked(s) == TRUE
StillFree(s) == slot_id[s] = None

Claim(l) ==
    /\ lpc[l] = "claim"
    /\ IF StillFree(lslot[l])
       THEN /\ slot_id' = [slot_id EXCEPT ![lslot[l]] = lchunk[l]]
            /\ last_cache' = lslot[l]
            /\ LoaderAt(l, "claim", "load") /\ UNCHANGED <<lchunk, lslot, lold>>
       ELSE ScanOn(l) /\ UNCHANGED <<slot_id, last_cache>>
    /\ UNCHANGED <<slot_data, disk, word, loads>>

\* Lines 591-595: keep everybody off the chunk that is to be evicted.
MayEvictInUse(c) == ~Has(c, {"loading", "syncing", "to_sync"})
MayEvict(c) == ~Has(c, EvictBusy)

EvictMark(l) ==
    /\ lpc[l] = "mark"
    /\ IF MayEvict(lold[l])
       THEN /\ bits' = [bits EXCEPT ![lold[l]] = @ \cup {"writing", "reading"}]
            /\ LoaderAt(l, "mark", "swap") /\ UNCHANGED <<lchunk, lslot, lold>>
       ELSE ScanOn(l) /\ UNCHANGED bits
    /\ UNCHANGED <<low, cache, loads>>

\* Lines 598-608: give the slot to the new chunk, unless it has changed hands.
SlotUnchecked(s, c) == TRUE
SlotStillHas(s, c) == slot_id[s] = c

EvictSwap(l) ==
    /\ lpc[l] = "swap"
    /\ IF SlotStillHas(lslot[l], lold[l])
       THEN /\ slot_id' = [slot_id EXCEPT ![lslot[l]] = lchunk[l]]
            /\ last_cache' = lslot[l] /\ LoaderAt(l, "swap", "unmap")
       ELSE LoaderAt(l, "swap", "undo") /\ UNCHANGED <<slot_id, last_cache>>
    /\ UNCHANGED <<lchunk, lslot, lold, slot_data, disk, word, loads>>

\* Lines 599-603: another worker was faster; take the marks off.
EvictUndo(l) ==
    /\ lpc[l] = "undo"
    /\ bits' = [bits EXCEPT ![lold[l]] = Unlocked(@)]
    /\ ScanOn(l) /\ UNCHANGED <<low, cache, loads>>

\* Lines 610-613: the evicted chunk is no longer in memory.
Unmapped(b) == Unlocked(b) \ {"caching"}

EvictUnmap(l) ==
    /\ LoaderAt(l, "unmap", "load")
    /\ bits' = [bits EXCEPT ![lold[l]] = Unmapped(@)]
    /\ low' = [low EXCEPT ![lold[l]] = 0]
    /\ lold' = [lold EXCEPT ![l] = None]
    /\ UNCHANGED <<lchunk, lslot, cache, loads>>

\* Line 721: the data is read from disk, or set to zeros.
LoadNothing(l) ==
    LoaderAt(l, "load", "publish") /\ UNCHANGED <<lchunk, lslot, lold, cache, word, loads>>
LoadData(l) ==
    /\ LoaderAt(l, "load", "publish")
    /\ slot_data' = [slot_data EXCEPT ![lslot[l]] = FileData(lchunk[l])]
    /\ UNCHANGED <<lchunk, lslot, lold, slot_id, last_cache, disk, word, loads>>

\* Lines 723-734: the word says in memory, and where.
LoadPublish(l) ==
    LET c == lchunk[l] IN
    /\ LoaderAt(l, "publish", "idle")
    /\ bits' = [bits EXCEPT ![c] = (@ \cup {"caching"}) \ {"loading"}]
    /\ low' = [low EXCEPT ![c] = lslot[l]]
    /\ num_loading' = num_loading - 1
    /\ lchunk' = [lchunk EXCEPT ![l] = None] /\ lslot' = [lslot EXCEPT ![l] = 0]
    /\ UNCHANGED <<lold, pending_load, cache>>

-----------------------------------------------------------------------------
(* __sync_chunk and __signal_sync_done, in a worker of syncing_pool.       *)

SyncerAt(s, from, to) == spc[s] = from /\ spc' = [spc EXCEPT ![s] = to]
Forget(s) == schunk' = [schunk EXCEPT ![s] = None]

SyncTake(s, c) ==
    /\ pending_sync[c] > 0
    /\ pending_sync' = [pending_sync EXCEPT ![c] = @ - 1]
    /\ SyncerAt(s, "idle", "sync") /\ schunk' = [schunk EXCEPT ![s] = c]
    /\ UNCHANGED <<squeue, stry, num_syncing, to_sync, ts_lock, word, disk>>

\* Lines 739-744: the slot named by the word is written to the chunk's file.
StillSyncing(b) == b
Synced(b) == b \ {"syncing"}

SyncDone(s) ==
    LET c == schunk[s] IN
    /\ SyncerAt(s, "sync", "count")
    /\ disk' = IF CacheOnly THEN disk ELSE [disk EXCEPT ![c] = slot_data[low[c]]]
    /\ bits' = [bits EXCEPT ![c] = Synced(@)]
    /\ Forget(s) /\ UNCHANGED <<squeue, stry, low, syncs>>

\* Lines 746 and 687: the count follows what it counts.
CountNothing(s, from, to, n) ==
    SyncerAt(s, from, to) /\ UNCHANGED <<schunk, squeue, stry, word, disk, syncs>>
Count(s, from, to, n) ==
    /\ SyncerAt(s, from, to)
    /\ num_syncing' = num_syncing + n
    /\ UNCHANGED <<schunk, squeue, stry, pending_sync, to_sync, ts_lock, word, disk>>

\* Lines 624-630: the length of the queue bounds this pass over it.
SignalSize(s) ==
    /\ ts_lock = None
    /\ SyncerAt(s, "size",
                IF Len(to_sync) > MaxCached * PurgeFactor THEN "purge" ELSE "try")
    /\ squeue' = [squeue EXCEPT ![s] = Len(to_sync)]
    /\ UNCHANGED <<schunk, stry, word, disk, syncs>>

\* The oldest chunk of the queue: back to its end if busy, else in hand.
PopOrRotate(s, busy, from, rotated, popped) ==
    /\ ts_lock = None /\ to_sync # <<>>
    /\ stry' = [stry EXCEPT ![s] = @ + 1]
    /\ IF Has(Head(to_sync), busy)
       THEN /\ SyncerAt(s, from, rotated) /\ UNCHANGED schunk
            /\ to_sync' = Append(Tail(to_sync), Head(to_sync))
       ELSE /\ SyncerAt(s, from, popped)
            /\ schunk' = [schunk EXCEPT ![s] = Head(to_sync)]
            /\ to_sync' = Tail(to_sync)
    /\ UNCHANGED <<squeue, pending_sync, num_syncing, ts_lock, word, disk>>

\* Lines 631-645: drop from the queue what is no longer to be synced.
PurgeKeepsBusy == FetchBusy
PurgeKeeps == EvictBusy

PurgePop(s) ==
    spc[s] = "purge" /\ stry[s] < squeue[s]
    /\ PopOrRotate(s, PurgeKeeps, "purge", "purge", "purge_check")

PurgeEnd(s) ==
    /\ spc[s] = "purge"
    /\ stry[s] = squeue[s] \/ (ts_lock = None /\ to_sync = <<>>)
    /\ SyncerAt(s, "purge", "try") /\ stry' = [stry EXCEPT ![s] = 0]
    /\ UNCHANGED <<schunk, squeue, word, disk, syncs>>

\* Line 657: start further syncs while there is room for them.
OneLessToTry(s) == stry[s] + 1 < squeue[s] /\ num_syncing < SyncLimit
MoreToTry(s) == stry[s] < squeue[s] /\ num_syncing < SyncLimit

TryNext(s) ==
    /\ MoreToTry(s) /\ SyncerAt(s, "try", "pop")
    /\ UNCHANGED <<schunk, squeue, stry, word, disk, syncs>>

\* Lines 659-672.
TryPop(s) == PopOrRotate(s, FetchBusy, "pop", "try", "check")

\* The chunk in hand, tested again under its own lock (646-653, 673-682):
\* in use after all, so to be put back,
Busy(s, mask, from, to) ==
    /\ spc[s] = from /\ Has(schunk[s], mask) /\ SyncerAt(s, from, to)
    /\ UNCHANGED <<schunk, squeue, stry, word, disk, syncs>>

PutBack(s, from, to) ==
    /\ ts_lock = None /\ SyncerAt(s, from, to)
    /\ to_sync' = Append(to_sync, schunk[s])
    /\ Forget(s)
    /\ UNCHANGED <<squeue, stry, pending_sync, num_syncing, ts_lock, word, disk>>

\* or not to be synced any more, and forgotten,
Stale(s, mask, from, to) ==
    /\ spc[s] = from /\ ~Has(schunk[s], mask) /\ SyncerAt(s, from, to)
    /\ Forget(s) /\ UNCHANGED <<squeue, stry, word, disk, syncs>>

\* or (683-687) the next to be synced.
MaySync(c) == Has(c, {"to_sync"}) /\ ~Has(c, FetchBusy)

TryStart(s) ==
    LET c == schunk[s] IN
    /\ spc[s] = "check" /\ MaySync(c)
    /\ SyncerAt(s, "check", "inc")
    /\ bits' = [bits EXCEPT ![c] = SyncStarted(@)]
    /\ pending_sync' = [pending_sync EXCEPT ![c] = @ + 1]
    /\ Forget(s)
    /\ UNCHANGED <<squeue, stry, low, num_syncing, to_sync, ts_lock, disk>>

\* Line 657 fails, or 661 finds the queue empty.
SignalEnd(s) ==
    /\ \/ spc[s] = "try" /\ ~MoreToTry(s)
       \/ spc[s] = "pop" /\ ts_lock = None /\ to_sync = <<>>
    /\ spc' = [spc EXCEPT ![s] = "idle"]
    /\ squeue' = [squeue EXCEPT ![s] = 0] /\ stry' = [stry EXCEPT ![s] = 0]
    /\ UNCHANGED <<schunk, word, disk, syncs>>

-----------------------------------------------------------------------------
(* A client starts an operation (Calls), or goes on with one (Runs).       *)

CreateFrame == UNCHANGED <<ptr, cache, loads, syncs, loader, syncer>>
FetchFrame == UNCHANGED <<ids, cache, syncs, loader, syncer>>
HolderFrame == UNCHANGED <<last_cache, ids, loads, loader, syncer>>
LoaderFrame == UNCHANGED <<ids, syncs, client, syncer>>
SyncerFrame == UNCHANGED <<slot_id, slot_data, last_cache, ids, loads, client, loader>>

ClientCalls(t) ==
    \/ CreateCall(t) /\ CreateFrame
    \/ \E c \in Ids : (Prefetch(t, c) \/ FetchCall(t, c)) /\ FetchFrame
    \/ \E c \in Ids :
           /\ \/ \E v \in Values : Write(t, c, v)
              \/ Release(t, c) \/ ReleaseSyncStart(t, c) \/ ReleaseSyncQueue(t, c)
              \/ ReleaseDelReset(t, c)
           /\ HolderFrame

ClientRuns(t) ==
    \/ CreateStep(t) /\ CreateFrame
    \/ (FetchNull(t) \/ FetchLoad(t) \/ FetchTake(t)) /\ FetchFrame
    \/ (ReleaseSyncCount(t) \/ ReleaseDelMark(t)) /\ HolderFrame
    \/ ReleaseDelPush(t) /\ UNCHANGED <<loads, loader, syncer>>

LoaderStep(l) ==
    /\ \/ \E c \in Ids : LoadTake(l, c)
       \/ Scan(l) \/ Look(l) \/ Claim(l)
       \/ EvictMark(l) \/ EvictSwap(l) \/ EvictUndo(l) \/ EvictUnmap(l)
       \/ LoadData(l) \/ LoadPublish(l)
    /\ LoaderFrame

SyncerStep(s) ==
    /\ \/ \E c \in Ids : SyncTake(s, c)
       \/ SyncDone(s) \/ Count(s, "count", "size", -1) \/ SignalSize(s)
       \/ PurgePop(s) \/ PurgeEnd(s)
       \/ Busy(s, PurgeKeeps, "purge_check", "purge_put")
       \/ PutBack(s, "purge_put", "purge") \/ Stale(s, PurgeKeeps, "purge_check", "purge")
       \/ TryNext(s) \/ TryPop(s)
       \/ Busy(s, FetchBusy, "check", "put") \/ PutBack(s, "put", "try")
       \/ Stale(s, EvictBusy, "check", "try") \/ TryStart(s) \/ Count(s, "inc", "try", 1)
       \/ SignalEnd(s)
    /\ SyncerFrame

\* abort() ends the program.
Next ==
    /\ ~Aborted
    /\ \/ \E t \in Clients : ClientCalls(t) \/ ClientRuns(t)
       \/ \E l \in Loaders : LoaderStep(l)
       \/ \E s \in Syncers : SyncerStep(s)

Spec == Init /\ [][Next]_vars

\* Threads run: an operation or a task that has begun goes on when it can; a
\* pool starts its tasks in the order they were pushed, so that none waits while
\* others are started over and over.  Nothing makes a caller call.
StartsLoad(c) == (\E l \in Loaders : LoadTake(l, c)) /\ LoaderFrame
StartsSync(c) == (\E s \in Syncers : SyncTake(s, c)) /\ SyncerFrame

Fairness ==
    /\ \A t \in Clients : WF_vars(ClientRuns(t))
    /\ \A l \in Loaders : WF_vars(LoaderStep(l))
    /\ \A s \in Syncers : WF_vars(SyncerStep(s))
    /\ \A c \in Ids : SF_vars(StartsLoad(c)) /\ SF_vars(StartsSync(c))

FairSpec == Spec /\ Fairness
=============================================================================
