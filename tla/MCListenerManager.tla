-------------------------- MODULE MCListenerManager --------------------------
(* Small instances of the listener manager for TLC.                        *)
EXTENDS ListenerManager, TLC

Symmetric == Permutations(Threads) \cup Permutations(Listeners)
               \cup Permutations(Bases) \cup Permutations(Stubs)
=============================================================================
