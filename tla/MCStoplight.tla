---------------------------- MODULE MCStoplight ----------------------------
(***************************************************************************)
(* Instances of Stoplight for TLC.                                         *)
(***************************************************************************)
EXTENDS Stoplight

=============================================================================
