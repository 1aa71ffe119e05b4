--------------------------- MODULE JobCancellation ---------------------------
(* ApplicationCancellationService over the job and cancellation              *)
(* repositories, beside the workers of JobQueue.  A call touches the two     *)
(* repositories in several steps, each under its own lock, and may raise     *)
(* between any two of them.                                                  *)
(*                                                                           *)
(* Where callers use a boundary, every call runs inside                      *)
(* InMemoryApplicationTransactionManager.transaction(), whose resources are  *)
(* the two repositories: a lock, a snapshot of each repository, and a        *)
(* restore in reverse order when the call raises.  The workers take no part  *)
(* in the transaction.                                                       *)
EXTENDS JobQueue

CONSTANTS Canceller,      \* threads that call the cancellation service
          NoCanceller,
          RequestId,      \* ids of cancellation requests
          Boundaries,     \* whether callers may, or must, use transactions
          Interruptible   \* whether an exception may strike between two steps

ASSUME CancellationAssumption ==
    /\ NoCanceller \notin Canceller
    /\ RequestId \subseteq Nat \ {0}
    /\ Boundaries \subseteq BOOLEAN
    /\ Interruptible \in BOOLEAN

VARIABLES requests,   \* _records of the cancellation repository
          cancels,    \* the call each canceller is executing
          tx          \* the transaction manager: whether the callers use it,
                      \* the holder of its lock, and the snapshots taken

cvars == <<jobs, calls, executors, clock, requests, cancels, tx>>

(* at: the latest of requested_at and acknowledged_at.                       *)
RequestRecord == [status : {"absent", "requested", "acknowledged", "completed"},
                  job : Job \cup {0}, at : Int, record_version : Nat]
NoRequest == [status |-> "absent", job |-> 0, at |-> NoTime, record_version |-> 0]

Active(q) == requests[q].status \in {"requested", "acknowledged"}

CancelStep == {"idle", "snapshot", "ready", "find", "create", "save", "ack",
               "job", "close", "rollback", "restore"}

CancelCall == [step : CancelStep, now : Int, request : RequestId \cup {0},
               seen : RequestRecord, job : Job \cup {0}, seenJob : Record,
               updated : Record]
NoCancel == [step |-> "idle", now |-> 0, request |-> 0, seen |-> NoRequest,
             job |-> 0, seenJob |-> Absent, updated |-> Absent]

NoSnapshot == [jobs |-> <<>>, requests |-> <<>>]
NoTransaction(managed) == [managed |-> managed, holder |-> NoCanceller,
                           saved |-> [x \in Canceller |-> NoSnapshot]]

-----------------------------------------------------------------------------
\* Mutant: a second thread enters while the lock is held.
BeginTransactionUnlocked(x) ==
    /\ tx.managed
    /\ cancels[x].step = "idle"
    /\ tx' = [tx EXCEPT !.holder = x, !.saved[x].jobs = jobs]
    /\ cancels' = [cancels EXCEPT ![x].step = "snapshot"]
    /\ UNCHANGED <<jobs, calls, executors, clock, requests>>

(* transaction(): lock, then one snapshot_state per resource.                *)
BeginTransaction(x) ==
    /\ tx.managed
    /\ cancels[x].step = "idle"
    /\ tx.holder = NoCanceller
    /\ tx' = [tx EXCEPT !.holder = x, !.saved[x].jobs = jobs]
    /\ cancels' = [cancels EXCEPT ![x].step = "snapshot"]
    /\ UNCHANGED <<jobs, calls, executors, clock, requests>>

SnapshotRequests(x) ==
    /\ cancels[x].step = "snapshot"
    /\ tx' = [tx EXCEPT !.saved[x].requests = requests]
    /\ cancels' = [cancels EXCEPT ![x].step = "ready"]
    /\ UNCHANGED <<jobs, calls, executors, clock, requests>>

MayCall(x) ==
    cancels[x].step = IF tx.managed THEN "ready" ELSE "idle"

(* The call returns and the transaction, if any, ends.                       *)
Return(x) ==
    /\ cancels' = [cancels EXCEPT ![x] = NoCancel]
    /\ tx' = IF tx.managed
              THEN [tx EXCEPT !.holder = NoCanceller, !.saved[x] = NoSnapshot]
              ELSE tx

(* The call raises; inside a transaction that starts the rollback.           *)
Raise(x) ==
    /\ cancels' = [cancels EXCEPT ![x] =
           IF tx.managed THEN [NoCancel EXCEPT !.step = "rollback"] ELSE NoCancel]
    /\ UNCHANGED tx

RestoreRequests(x) ==
    /\ cancels[x].step = "rollback"
    /\ requests' = tx.saved[x].requests
    /\ cancels' = [cancels EXCEPT ![x].step = "restore"]
    /\ UNCHANGED <<jobs, calls, executors, clock, tx>>

RestoreJobs(x) ==
    /\ cancels[x].step = "restore"
    /\ jobs' = tx.saved[x].jobs
    /\ Return(x)
    /\ UNCHANGED <<calls, executors, clock, requests>>

-----------------------------------------------------------------------------
(* request: read the job, refuse a terminal one.                             *)
RequestCancellation(x, j) ==
    /\ MayCall(x)
    /\ Stored(jobs[j]) /\ jobs[j].status \notin TerminalStatus
    /\ \E now \in CallTimes :
           cancels' = [cancels EXCEPT ![x] =
               [NoCancel EXCEPT !.step = "find", !.now = now, !.job = j,
                                !.seenJob = jobs[j]]]
    /\ UNCHANGED <<jobs, calls, executors, clock, requests, tx>>

(* find_active_by_job_id, then the transition policy.                        *)
FindActive(x) ==
    /\ cancels[x].step = "find"
    /\ IF \/ \E q \in RequestId : Active(q) /\ requests[q].job = cancels[x].job
          \/ ~CanTransition(cancels[x].seenJob.status, "cancellation_requested")
       THEN Raise(x)
       ELSE cancels' = [cancels EXCEPT ![x].step = "create"] /\ UNCHANGED tx
    /\ UNCHANGED <<jobs, calls, executors, clock, requests>>

(* _replace_job with the cancellation attached and the lease dropped.        *)
CancellingRecord(r, q) ==
    [r EXCEPT !.status = "cancellation_requested", !.cancellation = q,
              !.lease = NoLease, !.record_version = @ + 1]

(* Go on to update the job, or raise when the new record does not validate.  *)
ContinueToSave(x, q, updated) ==
    IF ValidRecord(updated)
    THEN /\ cancels' = [cancels EXCEPT ![x].step = "save", ![x].request = q,
                                       ![x].updated = updated]
         /\ UNCHANGED tx
    ELSE Raise(x)

CreateRequest(x) ==
    /\ cancels[x].step = "create"
    /\ \E q \in RequestId :
        /\ requests[q].status = "absent"
        /\ requests' = [requests EXCEPT ![q] =
               [status |-> "requested", job |-> cancels[x].job,
                at |-> cancels[x].now, record_version |-> 1]]
        /\ ContinueToSave(x, q, CancellingRecord(cancels[x].seenJob, q))
    /\ UNCHANGED <<jobs, calls, executors, clock>>

\* Mutant: the job is stored without expected_version.
SaveJobUnchecked(x) ==
    /\ cancels[x].step = "save"
    /\ jobs' = [jobs EXCEPT ![cancels[x].job] = cancels[x].updated]
    /\ Return(x)
    /\ UNCHANGED <<calls, executors, clock, requests>>

(* The update of the job, the last step of request and of complete.          *)
SaveJob(x) ==
    /\ cancels[x].step = "save"
    /\ IF jobs[cancels[x].job].record_version = cancels[x].seenJob.record_version
       THEN /\ jobs' = [jobs EXCEPT ![cancels[x].job] = cancels[x].updated]
            /\ Return(x)
       ELSE Raise(x) /\ UNCHANGED jobs
    /\ UNCHANGED <<calls, executors, clock, requests>>

-----------------------------------------------------------------------------
(* acknowledge: the constructor rejects acknowledged_at before requested_at. *)
Acknowledge(x, q) ==
    /\ MayCall(x)
    /\ requests[q].status = "requested"
    /\ \E now \in CallTimes :
        /\ requests[q].at <= now
        /\ cancels' = [cancels EXCEPT ![x] =
               [NoCancel EXCEPT !.step = "ack", !.now = now, !.request = q,
                                !.seen = requests[q]]]
    /\ UNCHANGED <<jobs, calls, executors, clock, requests, tx>>

(* update(record, expected_version) of the cancellation repository.          *)
RequestAccepted(x) ==
    requests[cancels[x].request].record_version = cancels[x].seen.record_version

StoreRequest(x, s) ==
    requests' = [requests EXCEPT ![cancels[x].request] =
        [cancels[x].seen EXCEPT !.status = s, !.at = cancels[x].now,
                                !.record_version = @ + 1]]

SaveAcknowledgement(x) ==
    /\ cancels[x].step = "ack"
    /\ IF RequestAccepted(x)
       THEN StoreRequest(x, "acknowledged") /\ Return(x)
       ELSE Raise(x) /\ UNCHANGED requests
    /\ UNCHANGED <<jobs, calls, executors, clock>>

(* complete: read the request, then the job.                                 *)
Complete(x, q) ==
    /\ MayCall(x)
    /\ Active(q)
    /\ \E now \in CallTimes :
           cancels' = [cancels EXCEPT ![x] =
               [NoCancel EXCEPT !.step = "job", !.now = now, !.request = q,
                                !.seen = requests[q], !.job = requests[q].job]]
    /\ UNCHANGED <<jobs, calls, executors, clock, requests, tx>>

ReadJob(x) ==
    /\ cancels[x].step = "job"
    /\ IF /\ jobs[cancels[x].job].status = "cancellation_requested"
          /\ cancels[x].seen.at <= cancels[x].now
       THEN /\ cancels' = [cancels EXCEPT ![x].step = "close",
                                          ![x].seenJob = jobs[cancels[x].job]]
            /\ UNCHANGED tx
       ELSE Raise(x)
    /\ UNCHANGED <<jobs, calls, executors, clock, requests>>

CancelledRecord(r, now) ==
    [r EXCEPT !.status = "cancelled", !.finished_at = now,
              !.lease = NoLease, !.record_version = @ + 1]

\* Mutant: the job is cancelled and the request left as it is.
CloseRequestForgotten(x) ==
    /\ cancels[x].step = "close"
    /\ ContinueToSave(x, cancels[x].request,
                      CancelledRecord(cancels[x].seenJob, cancels[x].now))
    /\ UNCHANGED <<jobs, calls, executors, clock, requests>>

(* The request is completed first and the job cancelled after it.            *)
CloseRequest(x) ==
    /\ cancels[x].step = "close"
    /\ IF RequestAccepted(x)
       THEN /\ StoreRequest(x, "completed")
            /\ ContinueToSave(x, cancels[x].request,
                              CancelledRecord(cancels[x].seenJob, cancels[x].now))
       ELSE Raise(x) /\ UNCHANGED requests
    /\ UNCHANGED <<jobs, calls, executors, clock>>

(* Any exception between two steps, the death of the thread included; the    *)
(* call of a thread outside a transaction just ends.                         *)
Interrupt(x) ==
    /\ Interruptible
    /\ cancels[x].step \notin {"idle", "snapshot", "rollback", "restore"}
    /\ Raise(x)
    /\ UNCHANGED <<jobs, calls, executors, clock, requests>>

(* A worker whose job was cancelled stops working on it.                     *)
Abandon(c, j) ==
    /\ c \in executors[j]
    /\ calls[c] = Idle
    /\ jobs[j].status \in TerminalStatus
    /\ executors' = [executors EXCEPT ![j] = @ \ {c}]
    /\ UNCHANGED <<jobs, calls, clock, requests, cancels, tx>>

-----------------------------------------------------------------------------
CInit ==
    /\ Init
    /\ requests = [q \in RequestId |-> NoRequest]
    /\ cancels = [x \in Canceller |-> NoCancel]
    /\ \E managed \in Boundaries : tx = NoTransaction(managed)

CancelNext(x) ==
    \/ BeginTransaction(x) \/ SnapshotRequests(x)
    \/ RestoreRequests(x) \/ RestoreJobs(x)
    \/ \E j \in Job : RequestCancellation(x, j)
    \/ FindActive(x) \/ CreateRequest(x) \/ SaveJob(x)
    \/ \E q \in RequestId : Acknowledge(x, q) \/ Complete(x, q)
    \/ SaveAcknowledgement(x) \/ ReadJob(x) \/ CloseRequest(x)
    \/ Interrupt(x)

QueueNext == Next /\ UNCHANGED <<requests, cancels, tx>>

CNext ==
    \/ QueueNext
    \/ \E c \in Worker, j \in Job : Abandon(c, j)
    \/ \E x \in Canceller : CancelNext(x)

CSpec == CInit /\ [][CNext]_cvars

-----------------------------------------------------------------------------
(* The state of the cancellation service is well typed.                      *)
CTypeOK ==
    /\ TypeOK
    /\ requests \in [RequestId -> RequestRecord]
    /\ cancels \in [Canceller -> CancelCall]
    /\ tx.holder \in Canceller \cup {NoCanceller} /\ tx.managed \in BOOLEAN

(* The cancellation attached to a job names a persisted request for that     *)
(* job, and a job is cancelled only after a request for it was completed:    *)
(* request and complete each store the request first, whatever fails or is   *)
(* rolled back in between.                                                   *)
CancellationIsBacked ==
    \A j \in Job :
        /\ jobs[j].cancellation # 0 =>
               /\ jobs[j].cancellation \in RequestId
               /\ requests[jobs[j].cancellation].job = j
        /\ jobs[j].status = "cancelled" =>
               \E q \in RequestId : requests[q].job = j /\ requests[q].status = "completed"

(* Once a cancellation is requested, no worker begins to execute the job,    *)
(* although start, acquire and renew may be under way when it is.  A         *)
(* rollback breaks this: it takes versions back.                             *)
CancelStopsStart ==
    [][~tx.managed => \A j \in Job : jobs[j].status \in CancellationStatus
                          => executors'[j] \subseteq executors[j]]_cvars

(* Beside the workers, cancelling threads without transactions take every    *)
(* job along the atomic lifecycle: both of their writes to a job are single  *)
(* steps of it, although request and complete each write twice.              *)
CancellationFollowsLifecycle ==
    [][~tx.managed => Lifecycle!Next \/ UNCHANGED Lifecycle!vars]_cvars

(* request: "application job already has an active cancellation request":    *)
(* true within transactions, where no one comes between the check and the    *)
(* creation.                                                                 *)
AtMostOneActiveRequest ==
    tx.managed => \A p, q \in RequestId :
        (Active(p) /\ Active(q) /\ requests[p].job = requests[q].job) => p = q

(* Outside transactions no request is left active for a job that does not    *)
(* know of it and goes on.                                                   *)
RequestTakesEffect ==
    tx.holder = NoCanceller =>
        \A q \in RequestId : Active(q) =>
            jobs[requests[q].job].status
                \in {"cancellation_requested"} \cup TerminalStatus
=============================================================================
