----------------------------- MODULE MCProcess -----------------------------
(***************************************************************************)
(* Instances of Process for TLC.  The table is small enough for forks to   *)
(* fill it.                                                                *)
(***************************************************************************)
EXTENDS Process, TLC

=============================================================================
