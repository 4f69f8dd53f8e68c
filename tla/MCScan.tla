------------------------------- MODULE MCScan -------------------------------
(***************************************************************************)
(* Scan for TLC; the configurations give its constants their values.       *)
(***************************************************************************)
EXTENDS Scan, TLC
===========================================================================
