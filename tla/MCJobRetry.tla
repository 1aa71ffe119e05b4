----------------------------- MODULE MCJobRetry -----------------------------
(* Small instances of the retry scheduling service for TLC: up to two        *)
(* scheduling threads, which are interchangeable.                            *)
EXTENDS JobRetry, TLC

CONSTANTS s1, s2

SchedulerSymmetry == Permutations({s1, s2})

(* The bound of the chain run: an id is left for a retry.  With a submitted  *)
(* job under every id no retry could be created any more.                    *)
RoomForRetry ==
    Cardinality({j \in Job : Stored(jobs[j]) /\ jobs[j].previous_attempt = 0})
        < Cardinality(Job)
=============================================================================
