------------------------------ MODULE MCCache -------------------------------
(* Small instances of CacheManager for the model checker.                  *)
EXTENDS CacheSafety, TLC

Threads == Permutations(Clients) \cup Permutations(Loaders)
               \cup Permutations(Syncers)
=============================================================================
