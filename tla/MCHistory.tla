----------------------------- MODULE MCHistory ------------------------------
(* A small instance of CacheHistory for the model checker.                 *)
EXTENDS CacheHistory, TLC

Threads == Permutations(Clients) \cup Permutations(Loaders)
               \cup Permutations(Syncers)
=============================================================================
