----------------------------- MODULE MCCatMouse -----------------------------
(***************************************************************************)
(* Instances of CatMouse for TLC.                                          *)
(***************************************************************************)
EXTENDS CatMouse

=============================================================================
