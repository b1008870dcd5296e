-------------------------- MODULE MCWriteController --------------------------
(* Small instances of the frequency limit for TLC.                         *)
EXTENDS WriteController, TLC

Symmetric == Permutations(Threads) \cup Permutations(Keys)
=============================================================================
