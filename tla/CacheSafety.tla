---------------------------- MODULE CacheSafety -----------------------------
(* What the callers of cache_manager_t rely on, and what its threads rely  *)
(* on among themselves.                                                    *)
EXTENDS CacheManager

Dying(c) == \E t \in Clients : pc[t] = "del_mark" /\ arg[t] = c

\* A load of c runs in worker l, from the start of the task to its last store.
Loading(l, c) == lpc[l] # "idle" /\ lchunk[l] = c

\* fetch marks the chunk for one caller (manager.hpp 54-57): no two threads
\* are ever between fetch and release of the same chunk.
OneHolder ==
    \A c \in Ids : \A t, u \in Clients : Holds(t, c) /\ Holds(u, c) => t = u

\* The pointer fetch returned (376) stays good until the release: its slot
\* keeps carrying the chunk's id, so that no two held chunks share a slot, and
\* ck->id, which callers pass to release, is the id they fetched.
PointerValid ==
    \A t \in Clients, c \in Ids : Holds(t, c) => slot_id[ptr[t][c]] = c

\* The word of a held chunk says so, points to the holder's slot, and shows no
\* load or sync under way: release_del never finds its chunk syncing (413).
HeldWord ==
    \A t \in Clients, c \in Ids :
        Holds(t, c) => /\ {"writing", "caching"} \subseteq bits[c]
                       /\ ~Has(c, {"loading", "syncing", "reading"})
                       /\ low[c] = ptr[t][c]

\* "cache is being used (read & write)" (30): the flag is set in the word of
\* every chunk a caller has fetched and not released.
InUseMarked ==
    \A t \in Clients, c \in Ids : Holds(t, c) => "writing" \in bits[c]

\* While a chunk stays held, or its load runs on, nobody changes its word: the
\* stores that release, release_sync and __load_chunk make without the chunk's
\* lock (382, 390, 403, 723) lose no update.
StaysWith(c) ==
    \/ \E t \in Clients : Holds(t, c) /\ Holds(t, c)'
    \/ \E l \in Loaders : Loading(l, c) /\ Loading(l, c)'
HeldWordStable ==
    [][\A c \in Ids : StaysWith(c) => UNCHANGED <<bits[c], low[c]>>]_vars

\* A cached chunk and its slot name each other, from the store that publishes
\* it (731) until release_del resets the slot (416) or the slot is given to the
\* chunk of another load (606).
Evicted(c) == \E l \in Loaders : lpc[l] = "unmap" /\ lold[l] = c
SlotOwned ==
    \A c \in Ids : Has(c, {"caching"}) /\ ~Dying(c) /\ ~Evicted(c)
                       => low[c] \in Slots /\ slot_id[low[c]] = c

\* A chunk is marked as loading exactly while one task for it is queued or
\* running: nothing is loaded twice, and no mark is left behind.
LoadsOf(c) == pending_load[c] + Cardinality({l \in Loaders : Loading(l, c)})
OneLoad == \A c \in Ids : LoadsOf(c) = IF Has(c, {"loading"}) THEN 1 ELSE 0

\* Likewise a chunk is marked as syncing exactly while one task writes it out.
SyncsOf(c) ==
    pending_sync[c] + Cardinality({s \in Syncers : spc[s] = "sync" /\ schunk[s] = c})
OneSync == \A c \in Ids : SyncsOf(c) = IF Has(c, {"syncing"}) THEN 1 ELSE 0

\* An id is on the stack of deleted ids at most once, only while its word says
\* deleted; and a deleted id is there, or about to be pushed by one thread:
\* create_chunk never returns a chunk in use, and no id is lost.
IdsKept ==
    \A c \in Ids :
        LET pushing == {t \in Clients : pc[t] = "del_push" /\ arg[t] = c} IN
        deleted[c] + Cardinality(pushing) =
            IF c < num_chunks /\ low[c] = SizeMask /\ ~Has(c, {"caching"})
            THEN 1 ELSE 0

\* Without eviction some slot is free whenever a worker looks for one (571-583).
\* The worker may still miss it: another may take it before the scan is there.
SlotForLoad ==
    CacheOnly => \A l \in Loaders : lpc[l] \in {"scan", "claim"}
                                        => \E s \in Slots : slot_id[s] = None

\* A chunk marked to be synced is queued, or in the hands of the worker that
\* took it from the queue: it is never forgotten.
InHand(s, c) ==
    schunk[s] = c /\ spc[s] \in {"purge_check", "purge_put", "check", "put"}
ToSyncQueued ==
    \A c \in Ids : Has(c, {"to_sync"}) =>
        \/ \E i \in 1 .. Len(to_sync) : to_sync[i] = c
        \/ \E s \in Syncers : InHand(s, c)

\* _num_syncing_chunks, against which the limit of six is tested, is the number
\* of syncs not yet finished but for the counting steps still to come.
SyncCountExact ==
    num_syncing
      = Cardinality({c \in Ids : Has(c, {"syncing"})})
        + Cardinality({s \in Syncers : spc[s] = "count"})
        - Cardinality({s \in Syncers : spc[s] = "inc"})
        - Cardinality({t \in Clients : pc[t] = "rs_count"})

-----------------------------------------------------------------------------
(* CacheManager implements ChunkStore.                                     *)

LiveIds ==
    {c \in Ids : /\ c < num_chunks /\ ~Dying(c)
                 /\ low[c] = SizeMask => Has(c, {"caching"})}

\* Where a reader of c would find its data.
DataOf(c) ==
    IF Has(c, {"caching"}) /\ low[c] \in Slots /\ slot_id[low[c]] = c
    THEN slot_data[low[c]] ELSE FileData(c)

Store == INSTANCE ChunkStore WITH
    Nobody <- None,
    live <- LiveIds,
    content <- [c \in Ids |-> IF c \in LiveIds THEN DataOf(c) ELSE Zero],
    holder <- [c \in Ids |-> IF Held(c) THEN CHOOSE t \in Clients : Holds(t, c)
                                        ELSE None]

\* Whatever the threads do, the callers see a store of chunks: created zeroed,
\* held by one, keeping what was written until deleted.
ImplementsStore == Store!Spec

-----------------------------------------------------------------------------
(* Progress, under the fairness of FairSpec.                               *)

\* A load that has begun ends, and so does a sync.
LoadsEnd ==
    \A c \in Ids : Has(c, {"loading"}) ~> (~Has(c, {"loading"}) \/ Aborted)
SyncsEnd ==
    \A c \in Ids : Has(c, {"syncing"}) ~> (~Has(c, {"syncing"}) \/ Aborted)

\* A fetch does not wait for a chunk nobody uses: it or another caller gets the
\* chunk, or the chunk is deleted.
FetchServed ==
    \A t \in Clients, c \in Ids :
        pc[t] = "fetch" /\ arg[t] = c
            ~> (pc[t] # "fetch" \/ Held(c) \/ Dying(c) \/ Aborted)

\* "wait until all tasks are done" (64), and the warning at 467: with no task
\* in either pool and no operation under way, no chunk is left to be synced.
Quiet ==
    /\ \A t \in Clients : pc[t] = "idle"
    /\ \A l \in Loaders : lpc[l] = "idle"
    /\ \A s \in Syncers : spc[s] = "idle"
    /\ \A c \in Ids : pending_load[c] = 0 /\ pending_sync[c] = 0
NothingLeftToSync == Quiet => to_sync = <<>>
=============================================================================
