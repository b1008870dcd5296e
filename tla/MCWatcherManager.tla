--------------------------- MODULE MCWatcherManager ---------------------------
(* Small instances of the watchers of the C interface for TLC.             *)
EXTENDS WatcherManager, TLC

Symmetric == Permutations(Threads) \cup Permutations(Listeners)
               \cup Permutations(Bases) \cup Permutations(Stubs)
=============================================================================
