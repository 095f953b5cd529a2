----------------------------- MODULE MCTransport -----------------------------
(***************************************************************************)
(* Transport on small instances.                                           *)
(***************************************************************************)
EXTENDS Transport, FiniteSets

CONSTANTS MaxNet       \* bound: datagrams on their way at the same time

(* A window of two frames opens with an end's fourth message, and the      *)
(* numbers wrap with its seventh when SeqMod = 6.                          *)
LacSends7 == [e \in End |-> IF e = "lac" THEN 7 ELSE 1]
TwoEach == [e \in End |-> 2]

NetBound == Cardinality(net) <= MaxNet
=============================================================================
