---------------------------- MODULE MC_WalletDB ----------------------------
(* Model-checking instance of WalletDB: two threads, two data keys.        *)
EXTENDS WalletDB, TLC

ThreadSymmetry == Permutations(Threads)
ValueSymmetry == Permutations(Values)
=============================================================================
