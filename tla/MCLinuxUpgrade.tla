-------------------------- MODULE MCLinuxUpgrade --------------------------
(***************************************************************************)
(* One run of either program for TLC.                                       *)
(***************************************************************************)
EXTENDS LinuxUpgrade
=============================================================================
