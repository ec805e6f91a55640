---------------------------- MODULE MCUserListing ---------------------------
(* An instance of UserListing for TLC: the accounts other than Admin are    *)
(* interchangeable.                                                         *)
EXTENDS UserListing, TLC

Symmetry == Permutations(Users \ {Admin})
=============================================================================
