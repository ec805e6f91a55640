---------------------------- MODULE MCLogShipper ----------------------------
(* Instances of LogShipper for TLC.  The documents are numbers, which the    *)
(* order of sending tells apart: no symmetry.                                *)
EXTENDS LogShipper, TLC
=============================================================================
