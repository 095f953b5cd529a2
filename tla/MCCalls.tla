------------------------------- MODULE MCCalls -------------------------------
(***************************************************************************)
(* Calls on small instances.                                               *)
(***************************************************************************)
EXTENDS Calls, TLC

CONSTANTS MaxRedial     \* bound: redial timers pending at the same time

RedialBound == redial <= MaxRedial

Symmetry == Permutations(Tid) \cup Permutations(Sid) \cup Permutations(Pid)
=============================================================================
