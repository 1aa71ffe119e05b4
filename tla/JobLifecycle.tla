---------------------------- MODULE JobLifecycle ----------------------------
(* What the job queue promises, without calls, clocks, versions or leases    *)
(* that expire: every operation on a job is one atomic step, a job is held   *)
(* by at most one worker and run by at most one worker at a time.            *)
(* JobQueue and JobCancellation implement this specification.                *)
CONSTANTS Job, Worker, NoWorker

VARIABLES status,   \* the job's status
          owner,    \* the worker that holds the job, or NoWorker
          runner    \* the workers that run the job: none or one

vars == <<status, owner, runner>>

Moves(j, from, to, w) ==
    /\ status[j] \in from
    /\ \E s \in to : status' = [status EXCEPT ![j] = s]
    /\ owner' = [owner EXCEPT ![j] = w]

Submit(j) ==
    Moves(j, {"absent"}, {"pending", "scheduled"}, NoWorker) /\ UNCHANGED runner

Queue(j) ==
    /\ Moves(j, {"pending", "scheduled", "retry_scheduled"}, {"queued"}, NoWorker)
    /\ UNCHANGED runner

Take(j, w) ==
    Moves(j, {"queued"}, {"leased"}, w) /\ UNCHANGED runner

(* The holder gives the job back, or loses it because its lease ran out.     *)
GiveBack(j) ==
    Moves(j, {"leased"}, {"queued"}, NoWorker) /\ UNCHANGED runner

(* Only the holder may run the job, and only when nobody runs it.            *)
Run(j, w) ==
    /\ owner[j] = w
    /\ runner[j] = {}
    /\ Moves(j, {"leased"}, {"running"}, w)
    /\ runner' = [runner EXCEPT ![j] = {w}]

(* The only worker that runs the job settles its outcome.                    *)
Finish(j, w) ==
    /\ runner[j] = {w}
    /\ \/ Moves(j, {"running"},
                {"succeeded", "failed", "retry_scheduled", "dead_lettered"},
                NoWorker)
       \/ Moves(j, {"cancellation_requested"},
                {"succeeded", "failed", "dead_lettered"}, NoWorker)
    /\ runner' = [runner EXCEPT ![j] = {}]

RequestCancellation(j) ==
    /\ Moves(j, {"pending", "scheduled", "queued", "leased", "running",
                 "retry_scheduled"}, {"cancellation_requested"}, NoWorker)
    /\ UNCHANGED runner

CompleteCancellation(j) ==
    /\ Moves(j, {"cancellation_requested"}, {"cancelled"}, NoWorker)
    /\ UNCHANGED runner

(* A worker stops running jobs, because it crashed or because it noticed     *)
(* that the job is settled.                                                  *)
Quit(w) ==
    /\ \E S \in SUBSET Job :
           runner' = [j \in Job |-> IF j \in S THEN runner[j] \ {w} ELSE runner[j]]
    /\ UNCHANGED <<status, owner>>

Init ==
    /\ status = [j \in Job |-> "absent"]
    /\ owner = [j \in Job |-> NoWorker]
    /\ runner = [j \in Job |-> {}]

Next ==
    \/ \E j \in Job :
           Submit(j) \/ Queue(j) \/ GiveBack(j) \/ RequestCancellation(j)
               \/ CompleteCancellation(j)
    \/ \E j \in Job, w \in Worker : Take(j, w) \/ Run(j, w) \/ Finish(j, w)
    \/ \E w \in Worker : Quit(w)

Spec == Init /\ [][Next]_vars
=============================================================================
