--------------------------- MODULE MCUpdateClient ---------------------------
(* The update client with a few threads.                                   *)
EXTENDS UpdateClient, TLC

Symmetry == Permutations(Threads) \cup Permutations(Releases)
=============================================================================
