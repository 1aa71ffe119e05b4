--------------------------- MODULE MCApplication ----------------------------
(* The threads of the application: those that keep the job queue going and    *)
(* those that run research requests.  The two share no repository, so a       *)
(* behaviour shows one of them and the other rests.                           *)
EXTENDS JobQueue, ResearchFlow

VARIABLE part

applicationVars == <<vars, fvars, part>>

(* The queue is empty and its time is up.                                     *)
QueueRests ==
    /\ jobs = [j \in Job |-> Absent] /\ calls = [c \in Worker |-> Idle]
    /\ executors = [j \in Job |-> {}] /\ clock = MaxClock

MCInit ==
    \/ part = "queue" /\ Init /\ FlowInit
    \/ part = "flow" /\ QueueRests /\ FlowInit

MCNext ==
    \/ part = "queue" /\ Next /\ UNCHANGED <<fvars, part>>
    \/ part = "flow" /\ FlowNext /\ UNCHANGED <<vars, part>>

MCSpec == MCInit /\ [][MCNext]_applicationVars /\ Fairness /\ FlowFairness
=============================================================================
