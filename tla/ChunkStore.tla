----------------------------- MODULE ChunkStore -----------------------------
(***************************************************************************)
(* What cache_manager_t (manager.hpp) promises its callers, without slots, *)
(* threads, disk or status words: a store of chunks, each of which is      *)
(* created zeroed, is held by at most one caller at a time between fetch   *)
(* and a release, keeps what the last holder wrote until it is deleted,    *)
(* and is gone for good once release_del has begun.  CacheManager is       *)
(* checked to implement this module.                                       *)
(***************************************************************************)
CONSTANTS Clients,  \* the threads that call the manager
          Ids,      \* the chunk ids, 0 .. Chunk::max_chunks - 1
          Values,   \* what the data of a chunk can be
          Zero,     \* the data of a chunk nobody has written
          Nobody    \* the holder of a chunk no caller holds

VARIABLES live,     \* the ids create_chunk has returned and nobody deleted
          content,  \* the data of every chunk; Zero for an id not live
          holder    \* the caller between fetch and release, or Nobody

vars == <<live, content, holder>>

Init ==
    /\ live = {}
    /\ content = [c \in Ids |-> Zero]
    /\ holder = [c \in Ids |-> Nobody]

\* create_chunk returns an id that is not in use; its data reads as zeros.
Create(c) ==
    /\ c \notin live
    /\ live' = live \cup {c}
    /\ UNCHANGED <<content, holder>>

\* fetch returns the chunk to one caller only.
Fetch(t, c) ==
    /\ c \in live
    /\ holder[c] = Nobody
    /\ holder' = [holder EXCEPT ![c] = t]
    /\ UNCHANGED <<live, content>>

\* The holder writes through the pointer fetch returned.
Write(t, c, v) ==
    /\ holder[c] = t
    /\ content' = [content EXCEPT ![c] = v]
    /\ UNCHANGED <<live, holder>>

\* release and release_sync end the hold and keep the data.
Release(t, c) ==
    /\ holder[c] = t
    /\ holder' = [holder EXCEPT ![c] = Nobody]
    /\ UNCHANGED <<live, content>>

\* release_del ends the hold and the chunk.
Delete(t, c) ==
    /\ holder[c] = t
    /\ holder' = [holder EXCEPT ![c] = Nobody]
    /\ live' = live \ {c}
    /\ content' = [content EXCEPT ![c] = Zero]

Next ==
    \E c \in Ids :
        \/ Create(c)
        \/ \E t \in Clients :
               \/ Fetch(t, c)
               \/ Release(t, c)
               \/ Delete(t, c)
               \/ \E v \in Values : Write(t, c, v)

Spec == Init /\ [][Next]_vars
=============================================================================
