-------------------------- MODULE MCJobCancellation --------------------------
(* Small instances of the cancellation service for TLC.                      *)
EXTENDS JobCancellation, TLC

CONSTANTS x1, x2

CancellerSymmetry == Permutations({x1, x2})
=============================================================================
