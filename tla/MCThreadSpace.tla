--------------------------- MODULE MCThreadSpace ---------------------------
(***************************************************************************)
(* Instances of ThreadSpace for TLC.                                       *)
(***************************************************************************)
EXTENDS ThreadSpace

=============================================================================
