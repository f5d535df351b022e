---------------------------- MODULE MCSharedWallets ---------------------------
(* SharedWallets for TLC.                                                  *)
EXTENDS SharedWallets

Symmetry == Permutations(Names) \cup Permutations(Addresses)
=============================================================================
