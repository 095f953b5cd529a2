---------------------------- MODULE MCLinuxTimer ----------------------------
(***************************************************************************)
(* LinuxTimer on small instances.                                          *)
(***************************************************************************)
EXTENDS LinuxTimer
=============================================================================
