----------------------------- MODULE JobRecord -----------------------------
(* The persistent background-job record (app/application/job_record.py), the *)
(* transition policy (job_transition.py) and the candidate order of the      *)
(* in-memory repository (in_memory_job_repository.py).                       *)
(*                                                                           *)
(* Times are integers; NoTime stands for Python's None.  A job id is a       *)
(* natural number, so that the repository's id tie-break is number order;    *)
(* 0 is no job.  Identifiers are already normalised (strip + casefold).      *)
(* Payload, metadata, request, workspace, queue name and the lease uuid are  *)
(* left out: no operation branches on them.                                  *)
EXTENDS Integers, FiniteSets

CONSTANTS Job,              \* job ids a caller may create
          Worker,           \* worker ids
          NoWorker,         \* lease.worker_id when there is no lease
          MaximumAttempts   \* maximum_attempts of every record

ASSUME JobAssumption == Job \subseteq Nat \ {0}
ASSUME WorkerAssumption == NoWorker \notin Worker
ASSUME AttemptsAssumption == MaximumAttempts \in Nat \ {0}

NoTime == -1

Status == {"pending", "scheduled", "queued", "leased", "running", "succeeded",
           "failed", "retry_scheduled", "cancellation_requested", "cancelled",
           "dead_lettered"}

TerminalStatus == {"succeeded", "failed", "cancelled", "dead_lettered"}
LeasedStatus == {"leased", "running"}
FailureStatus == {"failed", "retry_scheduled", "dead_lettered"}
CancellationStatus == {"cancellation_requested", "cancelled"}
EnqueueableStatus == {"pending", "scheduled", "retry_scheduled"}
ExecutableStatus == EnqueueableStatus \cup {"queued"}

(* ApplicationJobFailure.retryable, or no failure attached.                  *)
Failure == {"none", "retryable", "permanent"}

Lease == [worker : Worker \cup {NoWorker}, acquired_at : Int, expires_at : Int]
NoLease == [worker |-> NoWorker, acquired_at |-> NoTime, expires_at |-> NoTime]

(* "absent" is not a status of the code: it marks an id the repository does  *)
(* not hold.  cancellation is the id of the attached request, 0 when none.   *)
Record == [status : Status \cup {"absent"},
           record_version : Nat,
           priority : Int,
           attempt_number : Nat,
           previous_attempt : Nat,
           created_at : Int,
           available_at : Int,
           queued_at : Int,
           started_at : Int,
           finished_at : Int,
           lease : Lease,
           failure : Failure,
           cancellation : Nat]

Absent == [status |-> "absent", record_version |-> 0, priority |-> 0,
           attempt_number |-> 0, previous_attempt |-> 0,
           created_at |-> NoTime, available_at |-> NoTime,
           queued_at |-> NoTime, started_at |-> NoTime,
           finished_at |-> NoTime, lease |-> NoLease,
           failure |-> "none", cancellation |-> 0]

Stored(r) == r.status # "absent"

(* ApplicationJobTransitionPolicy._ALLOWED_TRANSITIONS.                      *)
AllowedTransitions ==
    [s \in Status |->
        CASE s = "pending" ->
               {"scheduled", "queued", "cancellation_requested", "cancelled"}
          [] s = "scheduled" ->
               {"queued", "cancellation_requested", "cancelled"}
          [] s = "queued" ->
               {"leased", "cancellation_requested", "cancelled"}
          [] s = "leased" ->
               {"running", "queued", "failed", "cancellation_requested",
                "cancelled"}
          [] s = "running" ->
               {"succeeded", "failed", "retry_scheduled",
                "cancellation_requested", "cancelled", "dead_lettered"}
          [] s = "retry_scheduled" ->
               {"queued", "cancellation_requested", "cancelled"}
          [] s = "cancellation_requested" ->
               {"cancelled", "succeeded", "failed", "dead_lettered"}
          [] OTHER -> {}]

CanTransition(current, target) ==
    current \in Status /\ target \in AllowedTransitions[current]

(* ApplicationJobLease.active_at.                                            *)
LeaseActiveAt(lease, now) ==
    lease.acquired_at <= now /\ now < lease.expires_at

(* ApplicationJobRecord.available_for_queue_at.                              *)
AvailableForQueueAt(r, now) ==
    r.status \in EnqueueableStatus /\ r.available_at <= now

(* ApplicationJobRecord._validate_timestamps: availability does not precede  *)
(* creation, and the timestamps that are set are in lifecycle order.         *)
ValidTimestamps(r) ==
    /\ r.available_at >= r.created_at
    /\ \A t \in {r.queued_at, r.started_at, r.finished_at} \ {NoTime} :
           t >= r.created_at
    /\ (r.queued_at # NoTime /\ r.started_at # NoTime)
           => r.queued_at <= r.started_at
    /\ (r.started_at # NoTime /\ r.finished_at # NoTime)
           => r.started_at <= r.finished_at
    /\ (r.queued_at # NoTime /\ r.finished_at # NoTime)
           => r.queued_at <= r.finished_at

(* ApplicationJobRecord._validate_status_contract.                           *)
ValidStatusContract(r) ==
    /\ r.status \in TerminalStatus <=> r.finished_at # NoTime
    /\ r.status = "running" => r.started_at # NoTime
    /\ r.status \in LeasedStatus <=> r.lease.worker # NoWorker
    /\ r.status \in FailureStatus <=> r.failure # "none"
    /\ r.status \in CancellationStatus <=> r.cancellation # 0
    /\ r.status = "retry_scheduled" => r.attempt_number < MaximumAttempts

(* ApplicationJobRecord.validate_record: what the constructor and            *)
(* model_validate enforce, and model_copy(update=...) does not.              *)
ValidRecord(r) ==
    /\ r.attempt_number <= MaximumAttempts
    /\ r.attempt_number = 1 <=> r.previous_attempt = 0
    /\ ValidTimestamps(r)
    /\ ValidStatusContract(r)

(* The order of find_available: priority, then availability, creation, id.   *)
PickupBefore(r, j, q, k) ==
    \/ r.priority > q.priority
    \/ /\ r.priority = q.priority
       /\ \/ r.available_at < q.available_at
          \/ /\ r.available_at = q.available_at
             /\ \/ r.created_at < q.created_at
                \/ r.created_at = q.created_at /\ j < k

(* The default order of list: newest first (created_at then id, reversed).   *)
ListedBefore(r, j, q, k) ==
    r.created_at > q.created_at \/ (r.created_at = q.created_at /\ j > k)
=============================================================================
