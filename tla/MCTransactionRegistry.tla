------------------------ MODULE MCTransactionRegistry ------------------------
(* The registry with a few journals and bindings.                          *)
EXTENDS TransactionRegistry, TLC

Symmetry == Permutations(Bindings) \cup Permutations(Journals)
=============================================================================
