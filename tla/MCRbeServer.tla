----------------------------- MODULE MCRbeServer -----------------------------
(* Two entries, one without deps, and races of uploads of either.  The output hash   *)
(* of one is the name of the other's file, and that of the other is empty.  One      *)
(* lifetime is malformed, which gives zero.                                          *)
EXTENDS RbeServer, TLC

CONSTANTS k1, k2

Symmetry == Permutations(Client) \cup Permutations(Cleaner)

Commands == k1 :> "cc" @@ k2 :> "ld"
OutputHashes == k1 :> k2 @@ k2 :> Root
Durations == k1 :> 0 @@ k2 :> 1
=============================================================================
