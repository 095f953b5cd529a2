----------------------------- MODULE MCHashTable -----------------------------
(***************************************************************************)
(* HashTable on a small instance.                                          *)
(***************************************************************************)
EXTENDS HashTable, TLC

Symmetry == Permutations(Item)
=============================================================================
