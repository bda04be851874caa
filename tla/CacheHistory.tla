---------------------------- MODULE CacheHistory ----------------------------
(* CacheManager with a history variable: the chunks in _to_sync_chunks that *)
(* a pass over the queue has an excuse to leave there.                      *)
EXTENDS CacheSafety

VARIABLE excused

\* A worker purges the queue (633-655).
Purges(s) == spc[s] \in {"purge", "purge_check", "purge_put"}
Purging == \E s \in Syncers : Purges(s)

\* The chunks fetched again, or queued during a purge, since they began to wait.
HInit == Init /\ excused = {}
HNext ==
    /\ Next
    /\ excused' = {c \in Ids : /\ "to_sync" \in bits'[c]
                               /\ c \in excused \/ Held(c)' \/ Purging'}
HSpec == HInit /\ [][HNext]_<<vars, excused>>

\* When all tasks are done, the only chunks left to be synced are those that
\* somebody fetched again after release_sync queued them, and those that a purge
\* moved in the queue (640): of the others, each sync that ends starts the next
\* (657-687), whatever the order in which the count (746), the length of the queue
\* (627) and release_sync's test (395) come.
OnlyExcusedLeft ==
    Quiet => \A c \in Ids : Has(c, {"to_sync"}) => c \in excused
=============================================================================
