---------------------------- MODULE MCBffSession ----------------------------
(* Instances of BffSession for TLC.  Symmetry is for the runs that check     *)
(* safety only.                                                              *)
EXTENDS BffSession, TLC

Symmetry == Permutations(Sids) \cup Permutations(Procs)
=============================================================================
