------------------------------ MODULE JobRetry ------------------------------
(* ApplicationRetrySchedulingService beside the workers of JobQueue: a job   *)
(* that failed is followed by a new job, the next attempt.  schedule reads   *)
(* the source job, lists the jobs that already retry it and creates the new  *)
(* one, each under the repository's lock but not under one lock.             *)
EXTENDS JobQueue, RetryPolicy

CONSTANTS Scheduler   \* threads that call the retry scheduling service

ASSUME SchedulerAssumption == IsFiniteSet(Scheduler)

VARIABLE schedules    \* the call each scheduler is executing

rvars == <<jobs, calls, executors, clock, schedules>>

ScheduleCall == [step : {"idle", "check", "create"}, now : Int,
                 source : Job \cup {0}, seen : Record, delay : Nat]
NoSchedule == [step |-> "idle", now |-> 0, source |-> 0, seen |-> Absent,
               delay |-> 0]

-----------------------------------------------------------------------------
\* Mutant: a permanent failure is retried as well.
SchedulePermanent(x, j) ==
    /\ schedules[x].step = "idle"
    /\ jobs[j].status = "failed"
    /\ \E now \in CallTimes :
           schedules' = [schedules EXCEPT ![x] =
               [NoSchedule EXCEPT !.step = "check", !.now = now, !.source = j,
                                  !.seen = jobs[j]]]
    /\ UNCHANGED <<jobs, calls, executors, clock>>

(* require and _validate_source_job.                                         *)
Schedule(x, j) ==
    /\ schedules[x].step = "idle"
    /\ jobs[j].status = "failed" /\ jobs[j].failure = "retryable"
    /\ \E now \in CallTimes :
           schedules' = [schedules EXCEPT ![x] =
               [NoSchedule EXCEPT !.step = "check", !.now = now, !.source = j,
                                  !.seen = jobs[j]]]
    /\ UNCHANGED <<jobs, calls, executors, clock>>

\* Mutant: only a retry that is still waiting counts as scheduled.
WaitingRetriesOf(j) ==
    {k \in Job : jobs[k].status \in EnqueueableStatus /\ jobs[k].previous_attempt = j}

(* _ensure_retry_not_already_scheduled: list by previous_attempt_job_id.     *)
RetriesOf(j) == {k \in Job : Stored(jobs[k]) /\ jobs[k].previous_attempt = j}

(* _build_retry_job.                                                         *)
RetryRecord(source, j, now, delay) ==
    [Absent EXCEPT !.status = IF delay = 0 THEN "pending" ELSE "scheduled",
                   !.record_version = 1,
                   !.priority = source.priority,
                   !.attempt_number = source.attempt_number + 1,
                   !.previous_attempt = j,
                   !.created_at = now,
                   !.available_at = now + delay]

(* The check, then the policy's decision.  A call that finds a retry, that   *)
(* the policy stops or whose new record does not validate ends here.         *)
CheckAndEvaluate(x) ==
    LET call == schedules[x] IN
    /\ call.step = "check"
    /\ \/ /\ RetriesOf(call.source) # {}
          /\ schedules' = [schedules EXCEPT ![x] = NoSchedule]
       \/ /\ RetriesOf(call.source) = {}
          /\ \/ /\ StoppingFailures(call.seen.attempt_number) # {}
                /\ schedules' = [schedules EXCEPT ![x] = NoSchedule]
             \/ \E d \in AllowedDelays(call.seen.attempt_number) :
                   schedules' = [schedules EXCEPT ![x] =
                       IF ValidRecord(RetryRecord(call.seen, call.source,
                                                  call.now, d))
                       THEN [call EXCEPT !.step = "create", !.delay = d]
                       ELSE NoSchedule]
    /\ UNCHANGED <<jobs, calls, executors, clock>>

(* repository.create under a new id.                                         *)
CreateRetry(x) ==
    LET call == schedules[x] IN
    /\ call.step = "create"
    /\ \E k \in Job :
        /\ ~Stored(jobs[k])
        /\ jobs' = [jobs EXCEPT ![k] =
               RetryRecord(call.seen, call.source, call.now, call.delay)]
    /\ schedules' = [schedules EXCEPT ![x] = NoSchedule]
    /\ UNCHANGED <<calls, executors, clock>>

RInit == Init /\ schedules = [x \in Scheduler |-> NoSchedule]

RNext ==
    \/ Next /\ UNCHANGED schedules
    \/ \E x \in Scheduler :
           \/ \E j \in Job : Schedule(x, j)
           \/ CheckAndEvaluate(x)
           \/ CreateRetry(x)

RSpec == RInit /\ [][RNext]_rvars

-----------------------------------------------------------------------------
(* The state of the retry scheduling service is well typed.                  *)
RTypeOK == TypeOK /\ schedules \in [Scheduler -> ScheduleCall]

(* A retry continues a failed, retryable job and is the attempt after it,    *)
(* however long ago the service read that job; what it records as its        *)
(* creation precedes that failure by no more than "now" may be old.          *)
RetryFollowsFailure ==
    \A k \in Job : (Stored(jobs[k]) /\ jobs[k].previous_attempt # 0) =>
        LET source == jobs[jobs[k].previous_attempt] IN
        /\ source.status = "failed" /\ source.failure = "retryable"
        /\ jobs[k].attempt_number = source.attempt_number + 1
        /\ jobs[k].created_at >= source.finished_at - MaxDelay

(* A delay the policy may ask for: a backoff within its maximum, or what the *)
(* provider's Retry-After said, up to its own maximum if there is one.       *)
DelayKept(delay) ==
    \/ delay <= MaximumDelay
    \/ IF RetryAfterMaximum = NoRetryAfterMaximum
       THEN delay \in RetryAfters
       ELSE delay <= RetryAfterMaximum

(* However long the chain of attempts, none exceeds the limit of the record  *)
(* nor that of the policy, its delay is one the policy may ask for, and it   *)
(* is not queued before the delay is over.                                   *)
RetryLimitsKept ==
    \A k \in Job : (Stored(jobs[k]) /\ jobs[k].previous_attempt # 0) =>
        /\ jobs[k].attempt_number <= Smaller(MaximumAttempts, PolicyMaximumAttempts)
        /\ DelayKept(jobs[k].available_at - jobs[k].created_at)
        /\ jobs[k].status = "queued" => jobs[k].queued_at >= jobs[k].available_at

(* "Duplicate retry scheduling for the same failed job is blocked."          *)
OneRetryPerFailure ==
    \A k, l \in Job :
        (/\ Stored(jobs[k]) /\ Stored(jobs[l])
         /\ jobs[k].previous_attempt # 0
         /\ jobs[k].previous_attempt = jobs[l].previous_attempt) => k = l

(* The threads that found no retry of job j and are about to create one.     *)
Creators(j) ==
    {x \in Scheduler : schedules[x].step = "create" /\ schedules[x].source = j}

(* What the check does block: later calls.  However often schedule is        *)
(* called for one failure, also when its retries are done, the retries it    *)
(* has and is about to get are no more than the threads that may check       *)
(* before any of them has created one.                                       *)
RetriesBounded ==
    \A j \in Job :
        Cardinality({k \in Job : Stored(jobs[k]) /\ jobs[k].previous_attempt = j})
          + Cardinality(Creators(j)) <= Cardinality(Scheduler)
=============================================================================
