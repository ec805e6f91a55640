--------------------------- MODULE MCSessionStore ---------------------------
(* Instances of SessionStore for TLC: users, sids, tokens and requests are  *)
(* interchangeable, and no property tells two of them apart.                *)
EXTENDS SessionStoreRefinement, TLC

Symmetry == Permutations(Users) \cup Permutations(Sids)
                \cup Permutations(Tokens) \cup Permutations(Procs)
=============================================================================
