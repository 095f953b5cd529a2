------------------------------ MODULE MCSignals ------------------------------
(***************************************************************************)
(* Signals on small instances.                                             *)
(***************************************************************************)
EXTENDS Signals, TLC

Symmetry == Permutations(Child)
=============================================================================
