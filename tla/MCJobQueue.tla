----------------------------- MODULE MCJobQueue -----------------------------
(* Small instances of the job queue for TLC: two worker threads that are     *)
(* interchangeable.                                                          *)
EXTENDS JobQueue, TLC

CONSTANTS w1, w2

WorkerSymmetry == Permutations({w1, w2})
=============================================================================
