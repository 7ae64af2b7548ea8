------------------------ MODULE MCLinuxFileTransaction ------------------------
(***************************************************************************)
(* LinuxFileTransaction for TLC: two recoverers, which are interchangeable.*)
(***************************************************************************)
EXTENDS LinuxFileTransaction, TLC

Symmetry == Permutations(Recoverers)
=============================================================================
