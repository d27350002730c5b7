------------------------------ MODULE MCSynch ------------------------------
(***************************************************************************)
(* Instances of Synch for TLC.                                             *)
(***************************************************************************)
EXTENDS Synch, TLC

CONSTANTS t1, t2, t3

Symmetry == Permutations(Thread)
=============================================================================
