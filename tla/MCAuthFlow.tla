----------------------------- MODULE MCAuthFlow -----------------------------
(* Instances of AuthFlow for TLC.  No symmetry: LockLifts is a liveness      *)
(* property, for which TLC's reduction is not sound.                         *)
EXTENDS AuthFlow, TLC
=============================================================================
