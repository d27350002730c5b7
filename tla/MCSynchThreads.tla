--------------------------- MODULE MCSynchThreads ---------------------------
(***************************************************************************)
(* Instances of SynchThreads for TLC.                                      *)
(***************************************************************************)
EXTENDS SynchThreads

=============================================================================
