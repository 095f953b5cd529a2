--------------------------- MODULE MCCommandSocket ---------------------------
(***************************************************************************)
(* CommandSocket on small instances.                                       *)
(***************************************************************************)
EXTENDS CommandSocket
=============================================================================
