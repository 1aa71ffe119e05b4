--------------------------- MODULE JobRetryProofs ---------------------------
(* Proofs about the retry scheduling service: a retry follows the failure it *)
(* was scheduled for, stays within the limits of the record and the policy,  *)
(* and is one of as many as there are scheduling threads.                    *)
EXTENDS JobRetry, JobQueueProofs, ListFacts

-----------------------------------------------------------------------------
(* The invariant.                                                            *)

(* The job with record r was queued no earlier than it was available.        *)
QueuedOnTime(r) == r.status \in {"queued", "leased"} => r.queued_at >= r.available_at

(* The record u is of the same attempt as r.                                 *)
SameAttempt(r, u) ==
    /\ u.attempt_number = r.attempt_number /\ u.previous_attempt = r.previous_attempt
    /\ u.created_at = r.created_at /\ u.available_at = r.available_at

(* Whatever the record r retries failed, and r keeps to the limits.          *)
Follows(r) ==
    LET source == jobs[r.previous_attempt] IN
    /\ r.previous_attempt \in Job
    /\ source.status = "failed" /\ source.failure = "retryable"
    /\ r.attempt_number = source.attempt_number + 1
    /\ r.attempt_number <= MaximumAttempts
    /\ r.attempt_number <= PolicyMaximumAttempts
    /\ DelayKept(r.available_at - r.created_at)

(* What a schedule call that is under way has read is still so: the source   *)
(* job has failed for good.  What it is about to create keeps to the limits. *)
CallFollows(call) ==
    /\ call.source \in Job /\ jobs[call.source] = call.seen
    /\ call.seen.status = "failed" /\ call.seen.failure = "retryable"
    /\ call.step = "create" =>
           /\ call.seen.attempt_number < MaximumAttempts
           /\ call.seen.attempt_number < PolicyMaximumAttempts
           /\ DelayKept(call.delay)

ChainInv ==
    /\ \A j \in Job :
          /\ QueuedOnTime(jobs[j])
          /\ Stored(jobs[j]) => jobs[j].attempt_number >= 1
          /\ (Stored(jobs[j]) /\ jobs[j].previous_attempt # 0) => Follows(jobs[j])
    /\ \A c \in Worker : \A w \in calls[c].writes :
          SameAttempt(w.seen, w.updated) /\ QueuedOnTime(w.updated)
    /\ \A x \in Scheduler : schedules[x].step # "idle" => CallFollows(schedules[x])

(* The inductive invariant: the queue's own, types and the chain.            *)
RInv == IInv /\ RTypeOK /\ ChainInv

(* No job finishes in the future, and the time of a call that schedules a    *)
(* retry precedes the failure it read by no more than it may be old.         *)
PastInv ==
    /\ \A j \in Job : jobs[j].finished_at <= clock
    /\ \A c \in Worker : \A w \in calls[c].writes : w.updated.finished_at <= clock
    /\ \A x \in Scheduler : schedules[x].step # "idle" =>
           schedules[x].seen.finished_at - MaxDelay <= schedules[x].now
    /\ \A j \in Job : (Stored(jobs[j]) /\ jobs[j].previous_attempt # 0) =>
           jobs[j].created_at >= jobs[jobs[j].previous_attempt].finished_at - MaxDelay

(* The retries a job has and those about to be created are no more than the  *)
(* scheduling threads: each thread that is to create one checked before      *)
(* there was any.                                                            *)
CountInv ==
    \A j \in Job :
        /\ IsFiniteSet(RetriesOf(j))
        /\ Cardinality(RetriesOf(j)) + Cardinality(Creators(j))
               <= Cardinality(Scheduler)

-----------------------------------------------------------------------------
(* The operators.                                                            *)

(* A power of the multiplier is a natural number.                            *)
LEMMA PowersAreNatural ==
    ASSUME NEW n \in Nat
    PROVE  Power(n) \in Nat
<1>1. DelayMultiplier \in Nat
  BY PolicyAssumption
<1>2. PICK times : times = [at \in (1 .. n) \X Nat |-> at[2] * DelayMultiplier]
  OBVIOUS
<1>3. ASSUME NEW m \in 1 .. n, NEW v \in Nat PROVE times[<<m, v>>] \in Nat
  <2>1. v * DelayMultiplier \in Nat
    BY <1>1
  <2> QED
    BY <1>2, <2>1
<1>4. PICK V : V = Nat
  OBVIOUS
<1>5. 1 \in V /\ \A m \in 1 .. n, v \in V : times[<<m, v>>] \in V
  BY <1>3, <1>4
<1>6. PICK f \in [0 .. n -> V] : Loop(1, times, n) = f[n]
  BY <1>5, LoopFacts
<1> QED
  BY <1>2, <1>4, <1>6 DEF Power

(* Every delay of the policy is a time it may ask for.                       *)
LEMMA DelayBounded ==
    ASSUME NEW f \in FailureContext, NEW attempt \in Nat \ {0},
           NEW d \in RetryDelays(f, attempt)
    PROVE  d \in Nat /\ DelayKept(d)
<1>1. /\ MaximumDelay \in Nat /\ BaseDelay \in Nat /\ RetryAfters \subseteq Nat
      /\ RetryAfterMaximum # NoRetryAfterMaximum => RetryAfterMaximum \in Nat
  BY PolicyAssumption
<1>2. CASE f.retry_after # NoRetryAfter
  <2>1. f.retry_after \in RetryAfters /\ f.retry_after \in Nat
    BY <1>1, <1>2 DEF FailureContext
  <2>2. d = CappedRetryAfter(f.retry_after)
    BY <1>2 DEF RetryDelays
  <2> QED
    BY <1>1, <2>1, <2>2 DEF CappedRetryAfter, Smaller, DelayKept
<1>3. CASE f.retry_after = NoRetryAfter
  <2>1. BaseBackoffDelay(attempt) \in Nat
    <3>1. PICK m \in Nat : m = Power(attempt - 1)
      BY PowersAreNatural
    <3>2. BaseDelay * attempt \in Nat /\ BaseDelay * m \in Nat
      BY <1>1
    <3> QED
      BY <1>1, <3>1, <3>2 DEF BaseBackoffDelay
  <2>2. PICK s : s = Smaller(BaseBackoffDelay(attempt), MaximumDelay)
    OBVIOUS
  <2>3. s \in Nat /\ s <= MaximumDelay
    BY <1>1, <2>1, <2>2 DEF Smaller
  <2>4. d \in Jittered(s)
    BY <1>3, <2>2 DEF RetryDelays
  <2>5. d \in 0 .. s
    BY <2>3, <2>4 DEF Jittered
  <2> QED
    BY <1>1, <2>3, <2>5 DEF DelayKept
<1> QED
  BY <1>2, <1>3

(* The record _build_retry_job makes.                                        *)
LEMMA RetryRecordFields ==
    ASSUME NEW source \in Record, NEW j \in Nat, NEW now \in Int, NEW delay \in Nat
    PROVE  LET r == RetryRecord(source, j, now, delay) IN
           /\ r \in Record
           /\ r.status \in {"pending", "scheduled"} /\ r.record_version = 1
           /\ r.lease = NoLease /\ r.finished_at = NoTime
           /\ r.created_at = now /\ r.available_at = now + delay
           /\ r.attempt_number = source.attempt_number + 1
           /\ r.previous_attempt = j
<1> DEFINE r == RetryRecord(source, j, now, delay)
<1>1. PICK st : st = IF delay = 0 THEN "pending" ELSE "scheduled"
  OBVIOUS
<1>2. st \in {"pending", "scheduled"} /\ st \in Status
  BY <1>1 DEF Status
<1>3. PICK n \in Nat : n = source.attempt_number + 1
  BY DEF Record
<1>4. PICK p \in Int : p = source.priority
  BY DEF Record
<1>5. PICK a \in Int : a = now + delay
  OBVIOUS
<1>6. PICK q \in Record : q = Absent
  BY AbsentType
<1>7. q.lease = NoLease /\ q.finished_at = NoTime
  BY <1>6 DEF Absent
<1>8. r = [q EXCEPT !.status = st, !.record_version = 1, !.priority = p,
                    !.attempt_number = n, !.previous_attempt = j,
                    !.created_at = now, !.available_at = a]
  BY <1>1, <1>3, <1>4, <1>5, <1>6 DEF RetryRecord
<1> HIDE DEF r
<1>9. r \in Record
  BY <1>2, <1>8 DEF Record
<1>10. /\ r.status = st /\ r.record_version = 1 /\ r.lease = q.lease
       /\ r.finished_at = q.finished_at /\ r.created_at = now /\ r.available_at = a
       /\ r.attempt_number = n /\ r.previous_attempt = j
  BY <1>8 DEF Record
<1> QED
  BY <1>2, <1>3, <1>5, <1>7, <1>9, <1>10 DEF r

-----------------------------------------------------------------------------
(* Steps of the queue beside the scheduler.                                  *)

(* A failed job has failed for good: every write that is still under way for *)
(* it is refused for its version.                                            *)
LEMMA FailedStays ==
    ASSUME IInv, [Next]_vars, NEW j \in Job, jobs[j].status = "failed"
    PROVE  jobs'[j] = jobs[j]
<1>1. TypeOK /\ Stored(jobs[j])
  BY DEF IInv, Stored
<1>2. ASSUME NEW c \in Worker, NEW w \in calls[c].writes, UpdateAccepted(w), w.job = j
      PROVE  FALSE
  <2>1. w.seen = jobs[j] /\ Effect(calls[c].op, c, w)
    BY <1>2, AcceptedIsFresh
  <2> QED
    BY <2>1 DEF Effect, EnqueueableStatus, LeasedStatus, CanTransition,
                AllowedTransitions, Status
<1> QED
  BY <1>1, <1>2, StepRecords

(* What a record follows it keeps following while failed jobs stay.          *)
LEMMA FollowsStays ==
    ASSUME NEW r, Follows(r),
           \A k \in Job : jobs[k].status = "failed" => jobs'[k] = jobs[k]
    PROVE  Follows(r)'
<1>1. jobs'[r.previous_attempt] = jobs[r.previous_attempt]
  BY DEF Follows
<1> QED
  BY <1>1 DEF Follows

(* The same for a schedule call that is under way.                           *)
LEMMA CallFollowsStays ==
    ASSUME NEW call, CallFollows(call),
           \A k \in Job : jobs[k].status = "failed" => jobs'[k] = jobs[k]
    PROVE  CallFollows(call)'
<1>1. jobs'[call.source] = jobs[call.source]
  BY DEF CallFollows
<1> QED
  BY <1>1 DEF CallFollows

(* What a record of the queue is after a step: as it was, new, or the next   *)
(* version of the same attempt.                                              *)
LEMMA RecordAfter ==
    ASSUME RInv, [Next]_vars, NEW j \in Job
    PROVE  \/ jobs'[j] = jobs[j]
           \/ /\ jobs'[j].attempt_number = 1 /\ jobs'[j].previous_attempt = 0
              /\ jobs'[j].status \in {"pending", "scheduled"}
              /\ jobs'[j].finished_at = NoTime
           \/ \E c \in Worker : \E w \in calls[c].writes :
                 /\ w.job = j /\ jobs'[j] = w.updated /\ Stored(jobs[j])
                 /\ SameAttempt(jobs[j], jobs'[j]) /\ QueuedOnTime(w.updated)
<1>1. TypeOK /\ IInv
  BY DEF RInv, IInv
<1>2. ASSUME NEW p \in Priorities, NEW d \in Delays, jobs'[j] = SubmittedRecord(p, d)
      PROVE  /\ jobs'[j].attempt_number = 1 /\ jobs'[j].previous_attempt = 0
             /\ jobs'[j].status \in {"pending", "scheduled"}
             /\ jobs'[j].finished_at = NoTime
  BY <1>1, <1>2, SubmittedType
<1>3. ASSUME NEW c \in Worker, NEW w \in calls[c].writes,
             UpdateAccepted(w), w.job = j, jobs'[j] = w.updated
      PROVE  Stored(jobs[j]) /\ SameAttempt(jobs[j], jobs'[j]) /\ QueuedOnTime(w.updated)
  <2>1. w.seen = jobs[j] /\ Effect(calls[c].op, c, w)
    BY <1>1, <1>3, AcceptedIsFresh
  <2>2. SameAttempt(w.seen, w.updated) /\ QueuedOnTime(w.updated)
    BY DEF RInv, ChainInv
  <2>3. Stored(jobs[j])
    BY <2>1 DEF Effect, EnqueueableStatus, LeasedStatus, CanTransition, Status, Stored
  <2> QED
    BY <1>3, <2>1, <2>2, <2>3
<1> QED
  BY <1>1, <1>2, <1>3, StepRecords

(* A write prepared from a record queued on time queues on time.             *)
LEMMA UpdatesOnTime ==
    ASSUME NEW op, NEW c, NEW now \in Int, NEW r \in Record, NEW u \in Record,
           Updates(op, c, now, r, u), QueuedOnTime(r)
    PROVE  SameAttempt(r, u) /\ QueuedOnTime(u)
<1>1. SameAttempt(r, u)
  BY DEF Updates, SameAttempt
<1>2. /\ r.available_at \in Int /\ r.queued_at \in Int
      /\ u.available_at \in Int /\ u.queued_at \in Int
  BY DEF Record
<1>3. CASE op \in {"enqueue", "start"}
  BY <1>1, <1>2, <1>3 DEF Updates, QueuedOnTime
<1>4. CASE op \in {"acquire", "release", "renew", "recover"}
  BY <1>1, <1>2, <1>4 DEF Updates, QueuedOnTime
<1>5. CASE op = "report"
  <2>1. u.status \notin {"queued", "leased"}
    BY <1>5, QueueAssumption DEF Updates
  <2> QED
    BY <1>1, <2>1 DEF QueuedOnTime
<1> QED
  BY <1>1, <1>3, <1>4, <1>5 DEF Updates

(* The chain of attempts is kept by the calls of the workers.                *)
LEMMA QueueKeepsChain ==
    ASSUME RInv, [Next]_vars, UNCHANGED schedules
    PROVE  RInv'
<1>1. TypeOK /\ IInv /\ IInv' /\ TypeOK'
  BY NextKeepsInv DEF RInv, IInv
<1>2. RTypeOK'
  BY <1>1 DEF RInv, RTypeOK
<1>3. \A k \in Job : jobs[k].status = "failed" => jobs'[k] = jobs[k]
  BY <1>1, FailedStays
<1>4. ASSUME NEW j \in Job
      PROVE  /\ QueuedOnTime(jobs[j])'
             /\ Stored(jobs[j])' => jobs'[j].attempt_number >= 1
             /\ (Stored(jobs[j])' /\ jobs'[j].previous_attempt # 0) => Follows(jobs[j])'
  <2>1. PICK r : r = jobs'[j]
    OBVIOUS
  <2>2. QueuedOnTime(r)
    BY <2>1, RecordAfter DEF RInv, ChainInv, QueuedOnTime
  <2>3. Stored(r) => r.attempt_number >= 1
    BY <2>1, RecordAfter DEF RInv, ChainInv, SameAttempt
  <2>4. ASSUME Stored(r), r.previous_attempt # 0 PROVE Follows(r)
    <3>1. Stored(jobs[j]) /\ SameAttempt(jobs[j], r)
      BY <2>1, <2>4, RecordAfter DEF SameAttempt
    <3>2. Follows(jobs[j])
      BY <2>4, <3>1 DEF RInv, ChainInv, SameAttempt
    <3> QED
      BY <3>1, <3>2 DEF Follows, SameAttempt
  <2>5. ASSUME Stored(r), r.previous_attempt # 0 PROVE Follows(r)'
    BY <1>3, <2>4, <2>5, FollowsStays
  <2> QED
    BY <2>1, <2>2, <2>3, <2>5 DEF QueuedOnTime, Stored, Follows
<1>5. ASSUME NEW c \in Worker, NEW w \in calls'[c].writes
      PROVE  SameAttempt(w.seen, w.updated) /\ QueuedOnTime(w.updated)
  <2>1. CASE w \in calls[c].writes
    BY <2>1 DEF RInv, ChainInv
  <2>2. ASSUME NEW op, NEW now \in Int, Prepared(op, c, now, w)
        PROVE  SameAttempt(w.seen, w.updated) /\ QueuedOnTime(w.updated)
    <3>1. /\ w \in Write /\ w.seen = jobs[w.job]
          /\ Updates(op, c, now, w.seen, w.updated)
      BY <1>1, <2>2, PreparedUpdates
    <3>2. w.job \in Job /\ w.seen \in Record /\ w.updated \in Record
      BY <3>1 DEF Write
    <3>3. QueuedOnTime(w.seen)
      BY <3>1, <3>2 DEF RInv, ChainInv
    <3> QED
      BY <3>1, <3>2, <3>3, UpdatesOnTime
  <2>3. calls'[c].now \in Int /\ calls[c].now \in Int
    BY <1>1 DEF TypeOK, Call
  <2> QED
    BY <1>1, <2>1, <2>2, <2>3, StepWrites
<1>6. ASSUME NEW x \in Scheduler, schedules'[x].step # "idle"
      PROVE  CallFollows(schedules[x])'
  <2>1. PICK call : call = schedules[x]
    OBVIOUS
  <2>2. CallFollows(call)
    BY <1>6, <2>1 DEF RInv, ChainInv
  <2>3. CallFollows(call)'
    BY <1>3, <2>2, CallFollowsStays
  <2> QED
    BY <2>1, <2>3 DEF CallFollows
<1>7. ChainInv'
  BY <1>4, <1>5, <1>6 DEF ChainInv, SameAttempt, QueuedOnTime
<1> QED
  BY <1>1, <1>2, <1>7 DEF RInv

-----------------------------------------------------------------------------
(* Steps of the scheduler.                                                   *)

(* A call that was not under way is well typed.                              *)
LEMMA NoScheduleType == NoSchedule \in ScheduleCall /\ NoSchedule.step = "idle"
  BY AbsentType DEF NoSchedule, ScheduleCall

(* Nothing but the call of one thread changes while schedule decides.        *)
LEMMA DecideKeepsInv ==
    ASSUME RInv, NEW x \in Scheduler, NEW call \in ScheduleCall,
           call.step # "idle" => CallFollows(call),
           schedules' = [schedules EXCEPT ![x] = call],
           UNCHANGED <<jobs, calls, executors, clock>>
    PROVE  RInv'
<1>1. UNCHANGED vars /\ IInv /\ TypeOK
  BY DEF vars, RInv, IInv
<1>2. IInv'
  BY <1>1, StutterKeepsInv
<1>3. RTypeOK' /\ (\A y \in Scheduler : schedules'[y] = IF y = x THEN call ELSE schedules[y])
  BY <1>1 DEF RInv, RTypeOK, TypeOK
<1>4. \A y \in Scheduler : schedules'[y].step # "idle" => CallFollows(schedules[y])'
  BY <1>3 DEF RInv, ChainInv, CallFollows
<1>5. ChainInv'
  BY <1>4 DEF RInv, ChainInv, QueuedOnTime, Stored, Follows, SameAttempt
<1> QED
  BY <1>2, <1>3, <1>5 DEF RInv

(* What schedule leaves to check: the source job as it read it.              *)
LEMMA ScheduleOpens ==
    ASSUME RInv, NEW x \in Scheduler, NEW j \in Job, Schedule(x, j)
    PROVE  \E now \in CallTimes, call \in ScheduleCall :
              /\ schedules' = [schedules EXCEPT ![x] = call]
              /\ call.step = "check" /\ call.now = now
              /\ call.source = j /\ call.seen = jobs[j]
<1>1. TypeOK /\ clock \in Nat
  BY DEF RInv, IInv, TypeOK
<1>2. PICK now \in CallTimes : schedules' = [schedules EXCEPT ![x] =
          [NoSchedule EXCEPT !.step = "check", !.now = now, !.source = j,
                             !.seen = jobs[j]]]
  BY DEF Schedule
<1>3. PICK t \in Int : t = now
  BY <1>1 DEF CallTimes
<1>4. PICK n \in ScheduleCall : n = NoSchedule
  BY NoScheduleType
<1>5. PICK r \in Record : r = jobs[j]
  BY <1>1 DEF TypeOK
<1>6. PICK call : call = [n EXCEPT !.step = "check", !.now = t, !.source = j, !.seen = r]
  OBVIOUS
<1>7. /\ call \in ScheduleCall /\ call.step = "check" /\ call.now = t
      /\ call.source = j /\ call.seen = r
  BY <1>6 DEF ScheduleCall
<1>8. schedules' = [schedules EXCEPT ![x] = call]
  BY <1>2, <1>3, <1>4, <1>5, <1>6
<1> QED
  BY <1>3, <1>5, <1>7, <1>8

(* A scheduling call that begins has read the source as it is stored
   (schedule_retry). *)
LEMMA ScheduleKeepsInv ==
    ASSUME RInv, NEW x \in Scheduler, NEW j \in Job, Schedule(x, j)
    PROVE  RInv'
<1>1. PICK call \in ScheduleCall :
          /\ schedules' = [schedules EXCEPT ![x] = call]
          /\ call.source = j /\ call.seen = jobs[j] /\ call.step = "check"
  BY ScheduleOpens
<1>2. CallFollows(call)
  BY <1>1 DEF CallFollows, Schedule
<1> QED
  BY <1>1, <1>2, DecideKeepsInv DEF Schedule

(* What the check and the policy leave to create: nothing, or one retry of   *)
(* the job that was read, within the limits.                                 *)
LEMMA CheckDecides ==
    ASSUME RInv, NEW x \in Scheduler, CheckAndEvaluate(x)
    PROVE  \E call \in ScheduleCall :
              /\ schedules' = [schedules EXCEPT ![x] = call]
              /\ \/ call.step = "idle"
                 \/ /\ call.step = "create" /\ CallFollows(call)
                    /\ RetriesOf(call.source) = {}
                    /\ call.seen = schedules[x].seen /\ call.now = schedules[x].now
<1>1. TypeOK /\ schedules[x] \in ScheduleCall /\ schedules[x].step = "check"
  BY DEF RInv, RTypeOK, IInv, CheckAndEvaluate
<1>2. CallFollows(schedules[x])
  BY <1>1 DEF RInv, ChainInv
<1>3. CASE schedules' = [schedules EXCEPT ![x] = NoSchedule]
  BY <1>3, NoScheduleType
<1>4. CASE schedules' # [schedules EXCEPT ![x] = NoSchedule]
  <2>1. RetriesOf(schedules[x].source) = {}
    BY <1>4 DEF CheckAndEvaluate
  <2>2. PICK d \in AllowedDelays(schedules[x].seen.attempt_number) :
            schedules' = [schedules EXCEPT ![x] =
                IF ValidRecord(RetryRecord(schedules[x].seen, schedules[x].source,
                                           schedules[x].now, d))
                THEN [schedules[x] EXCEPT !.step = "create", !.delay = d]
                ELSE NoSchedule]
    BY <1>4 DEF CheckAndEvaluate
  <2>3. PICK f \in FailureContext :
            /\ ~StopsRetry(f, schedules[x].seen.attempt_number)
            /\ d \in RetryDelays(f, schedules[x].seen.attempt_number)
    BY DEF AllowedDelays, StoppingFailures
  <2>4. /\ ValidRecord(RetryRecord(schedules[x].seen, schedules[x].source,
                                   schedules[x].now, d))
        /\ schedules' = [schedules EXCEPT ![x] =
                             [schedules[x] EXCEPT !.step = "create", !.delay = d]]
    BY <1>4, <2>2
  <2>5. /\ schedules[x].seen \in Record /\ schedules[x].source \in Job
        /\ schedules[x].now \in Int
        /\ Stored(schedules[x].seen) /\ jobs[schedules[x].source] = schedules[x].seen
    BY <1>1, <1>2 DEF CallFollows, ScheduleCall, Stored
  <2>6. PICK n \in Nat \ {0} : n = schedules[x].seen.attempt_number
    <3>1. schedules[x].seen.attempt_number >= 1
      BY <2>5 DEF RInv, ChainInv
    <3> QED
      BY <2>5, <3>1 DEF Record
  <2>7. d \in Nat /\ DelayKept(d)
    BY <2>3, <2>6, DelayBounded
  <2>8. n < PolicyMaximumAttempts
    BY <2>3, <2>6, PolicyAssumption DEF StopsRetry
  <2>9. n < MaximumAttempts
    <3>1. PICK r : r = RetryRecord(schedules[x].seen, schedules[x].source,
                                   schedules[x].now, d)
      OBVIOUS
    <3>2. r.attempt_number = n + 1
      <4>1. PICK seen \in Record, j \in Nat, now \in Int :
                seen = schedules[x].seen /\ j = schedules[x].source /\ now = schedules[x].now
        BY <2>5, JobAssumption
      <4>2. RetryRecord(seen, j, now, d).attempt_number = seen.attempt_number + 1
        BY <2>7, RetryRecordFields
      <4> QED
        BY <2>6, <3>1, <4>1, <4>2
    <3> QED
      BY <2>4, <3>1, <3>2, AttemptsAssumption DEF ValidRecord
  <2>10. PICK call : call = [schedules[x] EXCEPT !.step = "create", !.delay = d]
    OBVIOUS
  <2>11. /\ call \in ScheduleCall /\ call.step = "create" /\ call.delay = d
         /\ call.source = schedules[x].source /\ call.seen = schedules[x].seen
         /\ call.now = schedules[x].now
    BY <1>1, <2>7, <2>10 DEF ScheduleCall
  <2>12. CallFollows(call)
    BY <1>2, <2>6, <2>7, <2>8, <2>9, <2>11 DEF CallFollows
  <2> QED
    BY <2>1, <2>4, <2>10, <2>11, <2>12
<1> QED
  BY <1>3, <1>4

(* The uniqueness check and the policy decision are about the failure the
   call has read (schedule_retry, evaluate). *)
LEMMA CheckKeepsInv ==
    ASSUME RInv, NEW x \in Scheduler, CheckAndEvaluate(x)
    PROVE  RInv'
<1>1. UNCHANGED <<jobs, calls, executors, clock>>
  BY DEF CheckAndEvaluate
<1> QED
  BY <1>1, CheckDecides, DecideKeepsInv

(* repository.create of the retry, field by field.                           *)
LEMMA RetryCreated ==
    ASSUME RInv, NEW x \in Scheduler, CreateRetry(x)
    PROVE  \E k \in Job : \E r \in Record :
              /\ ~Stored(jobs[k]) /\ jobs' = [jobs EXCEPT ![k] = r]
              /\ r.status \in {"pending", "scheduled"} /\ r.record_version = 1
              /\ r.lease = NoLease /\ r.finished_at = NoTime
              /\ r.previous_attempt = schedules[x].source
              /\ r.created_at = schedules[x].now
              /\ r.attempt_number >= 1 /\ Follows(r)
<1>1. TypeOK /\ schedules[x] \in ScheduleCall /\ schedules[x].step = "create"
  BY DEF RInv, RTypeOK, IInv, CreateRetry
<1>2. CallFollows(schedules[x])
  BY <1>1 DEF RInv, ChainInv
<1>3. /\ schedules[x].seen \in Record /\ schedules[x].source \in Job
      /\ schedules[x].now \in Int /\ schedules[x].delay \in Nat
  BY <1>1, <1>2 DEF CallFollows, ScheduleCall
<1>4. PICK r : r = RetryRecord(schedules[x].seen, schedules[x].source,
                               schedules[x].now, schedules[x].delay)
  OBVIOUS
<1>5. /\ r \in Record /\ r.status \in {"pending", "scheduled"} /\ r.record_version = 1
      /\ r.lease = NoLease /\ r.finished_at = NoTime
      /\ r.created_at = schedules[x].now
      /\ r.available_at = schedules[x].now + schedules[x].delay
      /\ r.attempt_number = schedules[x].seen.attempt_number + 1
      /\ r.previous_attempt = schedules[x].source
  <2>1. PICK s \in Record, j \in Nat, now \in Int, delay \in Nat :
            /\ s = schedules[x].seen /\ j = schedules[x].source
            /\ now = schedules[x].now /\ delay = schedules[x].delay
    BY <1>3, JobAssumption
  <2>2. r = RetryRecord(s, j, now, delay)
    BY <1>4, <2>1
  <2>3. /\ r \in Record /\ r.status \in {"pending", "scheduled"} /\ r.record_version = 1
        /\ r.lease = NoLease /\ r.finished_at = NoTime
        /\ r.created_at = now /\ r.available_at = now + delay
        /\ r.attempt_number = s.attempt_number + 1 /\ r.previous_attempt = j
    BY <2>2, RetryRecordFields
  <2> QED
    BY <2>1, <2>3
<1>6. schedules[x].seen.attempt_number \in Nat
  BY <1>3 DEF Record
<1>7. /\ r.attempt_number <= MaximumAttempts /\ r.attempt_number >= 1
      /\ r.attempt_number <= PolicyMaximumAttempts
      /\ DelayKept(r.available_at - r.created_at)
  <2>1. r.available_at - r.created_at = schedules[x].delay
    BY <1>3, <1>5
  <2> QED
    BY <1>1, <1>2, <1>3, <1>5, <1>6, <2>1, AttemptsAssumption, PolicyAssumption
       DEF CallFollows
<1>8. Follows(r)
  BY <1>2, <1>5, <1>7 DEF Follows, CallFollows
<1> QED
  BY <1>4, <1>5, <1>7, <1>8 DEF CreateRetry

(* A retry that is stored follows the failure its call decided about, and no
   other job's chain changes (schedule_retry). *)
LEMMA CreateRetryKeepsInv ==
    ASSUME RInv, NEW x \in Scheduler, CreateRetry(x)
    PROVE  RInv'
<1>1. PICK k \in Job : \E r \in Record :
              /\ ~Stored(jobs[k]) /\ jobs' = [jobs EXCEPT ![k] = r]
              /\ r.status \in {"pending", "scheduled"} /\ r.record_version = 1
              /\ r.lease = NoLease
              /\ r.attempt_number >= 1 /\ Follows(r)
  BY RetryCreated
<1>2. PICK r \in Record :
              /\ ~Stored(jobs[k]) /\ jobs' = [jobs EXCEPT ![k] = r]
              /\ r.status \in {"pending", "scheduled"} /\ r.record_version = 1
              /\ r.lease = NoLease
              /\ r.attempt_number >= 1 /\ Follows(r)
  BY <1>1
<1>3. /\ UNCHANGED <<calls, executors, clock>>
      /\ schedules' = [schedules EXCEPT ![x] = NoSchedule]
  BY DEF CreateRetry
<1>4. IInv'
  BY <1>2, <1>3, CreateKeepsInv, NoLeaseType DEF RInv
<1>5. RTypeOK'
  BY <1>3, <1>4, NoScheduleType DEF RInv, RTypeOK, IInv
<1>6. \A j \in Job : jobs'[j] = IF j = k THEN r ELSE jobs[j]
  BY <1>2 DEF RInv, IInv, TypeOK
<1>7. \A j \in Job : jobs[j].status = "failed" => jobs'[j] = jobs[j]
  BY <1>2, <1>6 DEF Stored
<1>8. ASSUME NEW j \in Job
      PROVE  /\ QueuedOnTime(jobs[j])'
             /\ Stored(jobs[j])' => jobs'[j].attempt_number >= 1
             /\ (Stored(jobs[j])' /\ jobs'[j].previous_attempt # 0) => Follows(jobs[j])'
  <2>1. PICK s : s = jobs'[j]
    OBVIOUS
  <2>2. QueuedOnTime(s) /\ (Stored(s) => s.attempt_number >= 1)
    BY <1>2, <1>6, <2>1 DEF RInv, ChainInv, QueuedOnTime
  <2>3. (Stored(s) /\ s.previous_attempt # 0) => Follows(s)
    BY <1>2, <1>6, <2>1 DEF RInv, ChainInv
  <2>4. (Stored(s) /\ s.previous_attempt # 0) => Follows(s)'
    BY <1>7, <2>3, FollowsStays
  <2> QED
    BY <2>1, <2>2, <2>4 DEF QueuedOnTime, Stored, Follows
<1>9. ASSUME NEW y \in Scheduler, schedules'[y].step # "idle"
      PROVE  CallFollows(schedules[y])'
  <2>1. schedules'[y] = schedules[y]
    BY <1>3, <1>9, NoScheduleType DEF RInv, RTypeOK
  <2>2. PICK call : call = schedules[y]
    OBVIOUS
  <2>3. CallFollows(call)'
    <3>1. CallFollows(call)
      BY <1>9, <2>1, <2>2 DEF RInv, ChainInv
    <3> QED
      BY <1>7, <3>1, CallFollowsStays
  <2> QED
    BY <2>1, <2>2, <2>3 DEF CallFollows
<1>10. ChainInv'
  BY <1>3, <1>8, <1>9 DEF RInv, ChainInv, SameAttempt, QueuedOnTime
<1> QED
  BY <1>4, <1>5, <1>10 DEF RInv

-----------------------------------------------------------------------------
(* The invariant holds, and what follows from it.                            *)

(* Without jobs there is no retry. *)
LEMMA RInitEstablishesInv == RInit => RInv
<1> SUFFICES ASSUME RInit PROVE RInv
  OBVIOUS
<1>1. IInv
  BY InitEstablishesInv DEF RInit
<1>2. RTypeOK
  BY <1>1, NoScheduleType DEF IInv, RTypeOK, RInit
<1>3. ChainInv
  BY NoScheduleType DEF RInit, Init, ChainInv, QueuedOnTime, Stored, Absent, Idle
<1> QED
  BY <1>1, <1>2, <1>3 DEF RInv

(* Every step of the queue and of the scheduling service keeps the chains. *)
LEMMA RNextKeepsInv ==
    ASSUME RInv, [RNext]_rvars
    PROVE  RInv'
<1>1. CASE (Next /\ UNCHANGED schedules) \/ UNCHANGED rvars
  <2>1. [Next]_vars /\ UNCHANGED schedules
    BY <1>1 DEF rvars, vars
  <2> QED
    BY <2>1, QueueKeepsChain
<1>2. ASSUME NEW x \in Scheduler, NEW j \in Job, Schedule(x, j) PROVE RInv'
  BY <1>2, ScheduleKeepsInv
<1>3. ASSUME NEW x \in Scheduler, CheckAndEvaluate(x) PROVE RInv'
  BY <1>3, CheckKeepsInv
<1>4. ASSUME NEW x \in Scheduler, CreateRetry(x) PROVE RInv'
  BY <1>4, CreateRetryKeepsInv
<1> QED
  BY <1>1, <1>2, <1>3, <1>4 DEF RNext

(* The chain of attempts is sound whatever the workers do meanwhile: this is *)
(* the invariant the three properties below rest on.                         *)
THEOREM RetryInvariance == RSpec => []RInv
<1>1. RInv /\ [RNext]_rvars => RInv'
  BY RNextKeepsInv
<1> QED
  BY <1>1, RInitEstablishesInv, PTL DEF RSpec

(* The state of the service and of its callers keeps its types.              *)
THEOREM RetryTypes == RSpec => []RTypeOK
<1>1. RInv => RTypeOK
  BY DEF RInv
<1> QED
  BY <1>1, RetryInvariance, PTL

(* No chain of attempts exceeds the limits of the record and of the policy,  *)
(* however the scheduler's check and create are interleaved with the         *)
(* workers, and no attempt is queued before its delay is over.               *)
THEOREM RetriesKeepLimits == RSpec => []RetryLimitsKept
<1>1. RInv => RetryLimitsKept
  <2> SUFFICES ASSUME RInv, NEW k \in Job, Stored(jobs[k]),
                      jobs[k].previous_attempt # 0
               PROVE  /\ jobs[k].attempt_number
                             <= Smaller(MaximumAttempts, PolicyMaximumAttempts)
                      /\ DelayKept(jobs[k].available_at - jobs[k].created_at)
                      /\ jobs[k].status = "queued" => jobs[k].queued_at >= jobs[k].available_at
    BY DEF RetryLimitsKept
  <2>1. Follows(jobs[k]) /\ QueuedOnTime(jobs[k])
    BY DEF RInv, ChainInv
  <2> QED
    BY <2>1 DEF Follows, QueuedOnTime, Smaller
<1> QED
  BY <1>1, RetryInvariance, PTL

(* Nothing finished in the future, and no retry is older than the failure by *)
(* more than a time may be old.                                              *)
LEMMA PastStep ==
    ASSUME RInv, PastInv, [RNext]_rvars
    PROVE  PastInv'
<1>1. TypeOK /\ IInv /\ RInv' /\ clock \in Nat
  BY RNextKeepsInv DEF RInv, IInv, TypeOK
<1>2. TypeOK' /\ clock' \in Nat
  BY <1>1 DEF RInv, IInv, TypeOK
<1>3. /\ \A j \in Job : /\ jobs[j] \in Record /\ jobs[j].finished_at \in Int
                         /\ jobs'[j] \in Record /\ jobs'[j].finished_at \in Int
      /\ \A c \in Worker : \A w \in calls'[c].writes :
             w \in Write /\ w.updated.finished_at \in Int
  BY <1>1, <1>2 DEF TypeOK, Record, Call, Write
<1>4. NoTime <= clock /\ NoTime \in Int /\ MaxDelay \in Nat
  BY <1>1, QueueAssumption DEF NoTime
<1>5. CASE [Next]_vars /\ UNCHANGED schedules
  <2>1. clock <= clock'
    <3>1. CASE Worker = {}
      BY <1>1, <1>5, <3>1 DEF Next, Submit, Tick, vars
    <3> QED
      BY <1>1, <1>5, <3>1, StepNow
  <2>2. ASSUME NEW j \in Job PROVE jobs'[j].finished_at <= clock'
    <3>1. jobs'[j].finished_at <= clock
      BY <1>4, <1>5, RecordAfter DEF PastInv
    <3> QED
      BY <1>1, <1>2, <1>3, <2>1, <3>1
  <2>3. ASSUME NEW c \in Worker, NEW w \in calls'[c].writes
        PROVE  w.updated.finished_at <= clock'
    <3>1. CASE w \in calls[c].writes
      BY <1>1, <1>2, <1>3, <2>1, <3>1 DEF PastInv
    <3>2. ASSUME NEW op, NEW now \in Int, Prepared(op, c, now, w),
                 op = "report" => now <= clock
          PROVE  w.updated.finished_at <= clock'
      <4>1. w.seen = jobs[w.job] /\ Updates(op, c, now, w.seen, w.updated)
        BY <1>1, <3>2, PreparedUpdates
      <4>2. w.job \in Job
        BY <1>3 DEF Write
      <4>3. w.updated.finished_at <= clock
        BY <3>2, <4>1, <4>2 DEF Updates, PastInv
      <4> QED
        BY <1>1, <1>2, <1>3, <2>1, <4>3
    <3>3. ASSUME calls'[c].now \in CallTimes PROVE calls'[c].now \in Int /\ calls'[c].now <= clock
      BY <1>1, <3>3 DEF CallTimes
    <3>4. calls[c].now \in Int
      BY <1>1 DEF TypeOK, Call
    <3> QED
      BY <1>1, <1>5, <3>1, <3>2, <3>3, <3>4, StepWrites
  <2>4. ASSUME NEW j \in Job, Stored(jobs'[j]), jobs'[j].previous_attempt # 0
        PROVE  jobs'[j].created_at >= jobs'[jobs'[j].previous_attempt].finished_at - MaxDelay
    <3>1. /\ Stored(jobs[j]) /\ jobs[j].previous_attempt = jobs'[j].previous_attempt
          /\ jobs[j].created_at = jobs'[j].created_at
      BY <1>5, <2>4, RecordAfter DEF SameAttempt
    <3>2. /\ Follows(jobs[j])
          /\ jobs[j].created_at >= jobs[jobs[j].previous_attempt].finished_at - MaxDelay
      BY <2>4, <3>1 DEF RInv, ChainInv, PastInv
    <3>3. jobs'[jobs[j].previous_attempt] = jobs[jobs[j].previous_attempt]
      BY <1>1, <1>5, <3>2, FailedStays DEF Follows
    <3> QED
      BY <3>1, <3>2, <3>3
  <2> QED
    BY <1>5, <2>2, <2>3, <2>4 DEF PastInv, Stored
<1>6. ASSUME NEW x \in Scheduler, NEW j \in Job, Schedule(x, j) PROVE PastInv'
  <2>1. PICK now \in CallTimes, call \in ScheduleCall :
            /\ schedules' = [schedules EXCEPT ![x] = call]
            /\ call.now = now /\ call.seen = jobs[j]
    BY <1>6, ScheduleOpens
  <2>2. call.seen.finished_at - MaxDelay <= call.now
    <3>1. now \in Int /\ clock - now <= MaxDelay
      BY <1>1 DEF CallTimes
    <3>2. jobs[j].finished_at <= clock /\ jobs[j].finished_at \in Int
      BY <1>3 DEF PastInv
    <3> QED
      BY <1>1, <1>4, <2>1, <3>1, <3>2
  <2>3. \A y \in Scheduler : schedules'[y] = IF y = x THEN call ELSE schedules[y]
    BY <2>1 DEF RInv, RTypeOK
  <2>4. UNCHANGED <<jobs, calls, executors, clock>>
    BY <1>6 DEF Schedule
  <2> QED
    BY <2>1, <2>2, <2>3, <2>4 DEF PastInv, Stored
<1>7. ASSUME NEW x \in Scheduler, CheckAndEvaluate(x) PROVE PastInv'
  <2>1. PICK call \in ScheduleCall :
              /\ schedules' = [schedules EXCEPT ![x] = call]
              /\ \/ call.step = "idle"
                 \/ /\ call.seen = schedules[x].seen /\ call.now = schedules[x].now
    BY <1>7, CheckDecides
  <2>2. \A y \in Scheduler : schedules'[y] = IF y = x THEN call ELSE schedules[y]
    BY <2>1 DEF RInv, RTypeOK
  <2>3. UNCHANGED <<jobs, calls, executors, clock>> /\ schedules[x].step # "idle"
    BY <1>7 DEF CheckAndEvaluate
  <2> QED
    BY <2>1, <2>2, <2>3 DEF PastInv, Stored
<1>8. ASSUME NEW x \in Scheduler, CreateRetry(x) PROVE PastInv'
  <2>1. PICK k \in Job : \E r \in Record :
              /\ ~Stored(jobs[k]) /\ jobs' = [jobs EXCEPT ![k] = r]
              /\ r.finished_at = NoTime
              /\ r.previous_attempt = schedules[x].source
              /\ r.created_at = schedules[x].now
    BY <1>8, RetryCreated
  <2>2. PICK r \in Record :
              /\ ~Stored(jobs[k]) /\ jobs' = [jobs EXCEPT ![k] = r]
              /\ r.finished_at = NoTime
              /\ r.previous_attempt = schedules[x].source
              /\ r.created_at = schedules[x].now
    BY <2>1
  <2>3. \A j \in Job : jobs'[j] = IF j = k THEN r ELSE jobs[j]
    BY <1>1, <2>2 DEF TypeOK
  <2>4. /\ UNCHANGED <<calls, executors, clock>> /\ schedules[x].step = "create"
        /\ schedules' = [schedules EXCEPT ![x] = NoSchedule]
    BY <1>8 DEF CreateRetry
  <2>5. \A y \in Scheduler : schedules'[y] = IF y = x THEN NoSchedule ELSE schedules[y]
    BY <2>4 DEF RInv, RTypeOK
  <2>6. /\ CallFollows(schedules[x])
        /\ schedules[x].seen.finished_at - MaxDelay <= schedules[x].now
    BY <2>4 DEF RInv, ChainInv, PastInv
  <2>7. \A j \in Job : jobs[j].status = "failed" => jobs'[j] = jobs[j]
    BY <2>2, <2>3 DEF Stored
  <2>8. ASSUME NEW j \in Job, Stored(jobs'[j]), jobs'[j].previous_attempt # 0
        PROVE  jobs'[j].created_at >= jobs'[jobs'[j].previous_attempt].finished_at - MaxDelay
    <3>1. CASE j = k
      <4>1. jobs'[schedules[x].source] = schedules[x].seen
        BY <2>6, <2>7 DEF CallFollows
      <4>2. schedules[x].seen.finished_at \in Int /\ schedules[x].now \in Int
        BY DEF RInv, RTypeOK, ScheduleCall, Record
      <4> QED
        BY <2>2, <2>3, <2>6, <3>1, <4>1, <4>2
    <3>2. CASE j # k
      <4>1. /\ jobs'[j] = jobs[j] /\ Follows(jobs[j])
            /\ jobs[j].created_at >= jobs[jobs[j].previous_attempt].finished_at - MaxDelay
        BY <2>3, <2>8, <3>2 DEF RInv, ChainInv, PastInv
      <4>2. jobs'[jobs[j].previous_attempt] = jobs[jobs[j].previous_attempt]
        BY <2>7, <4>1 DEF Follows
      <4> QED
        BY <4>1, <4>2
    <3> QED
      BY <3>1, <3>2
  <2> QED
    BY <1>4, <2>2, <2>3, <2>4, <2>5, <2>8, NoScheduleType DEF PastInv, Stored
<1> QED
  BY <1>5, <1>6, <1>7, <1>8 DEF RNext, rvars, vars

(* Whatever time the caller passes, a retry continues a failed, retryable    *)
(* job and is the attempt after it, although the service reads that job and  *)
(* creates the retry under two locks: a failed job never changes again.  Its *)
(* time of creation precedes the failure by no more than that time is old.   *)
THEOREM RetriesFollowFailures == RSpec => []RetryFollowsFailure
<1>1. RInit => PastInv
  BY NoScheduleType, QueueAssumption DEF RInit, Init, PastInv, Absent, NoTime, Idle, Stored
<1>2. RInv /\ PastInv /\ [RNext]_rvars => PastInv'
  BY PastStep
<1>3. RInv /\ PastInv => RetryFollowsFailure
  BY DEF RInv, ChainInv, PastInv, Follows, RetryFollowsFailure
<1> QED
  BY <1>1, <1>2, <1>3, RetryInvariance, PTL DEF RSpec

(* A step that adds no retry and no thread about to create one keeps the     *)
(* count.                                                                    *)
LEMMA CountShrinks ==
    ASSUME CountInv, NEW j \in Job,
           RetriesOf(j)' \subseteq RetriesOf(j), Creators(j)' \subseteq Creators(j)
    PROVE  /\ IsFiniteSet(RetriesOf(j)')
           /\ Cardinality(RetriesOf(j)') + Cardinality(Creators(j)')
                  <= Cardinality(Scheduler)
<1>1. /\ IsFiniteSet(RetriesOf(j))
      /\ Cardinality(RetriesOf(j)) + Cardinality(Creators(j)) <= Cardinality(Scheduler)
  BY DEF CountInv
<1>2. IsFiniteSet(Creators(j)) /\ Cardinality(Scheduler) \in Nat
  BY SchedulerAssumption, FS_Subset, FS_CardinalityType DEF Creators
<1>3. /\ IsFiniteSet(RetriesOf(j)')
      /\ Cardinality(RetriesOf(j)') <= Cardinality(RetriesOf(j))
  BY <1>1, FS_Subset
<1>4. /\ IsFiniteSet(Creators(j)')
      /\ Cardinality(Creators(j)') <= Cardinality(Creators(j))
  BY <1>2, FS_Subset
<1>5. /\ Cardinality(RetriesOf(j)) \in Nat /\ Cardinality(RetriesOf(j)') \in Nat
      /\ Cardinality(Creators(j)) \in Nat /\ Cardinality(Creators(j)') \in Nat
  BY <1>1, <1>2, <1>3, <1>4, FS_CardinalityType
<1> QED
  BY <1>1, <1>2, <1>3, <1>4, <1>5

(* A thread that begins or ends a call without creating a retry: only a      *)
(* check that found no retry adds a thread about to create one.              *)
LEMMA CountDecides ==
    ASSUME RInv, CountInv, NEW x \in Scheduler, NEW call,
           schedules' = [schedules EXCEPT ![x] = call], UNCHANGED jobs,
           call.step = "create" => RetriesOf(call.source) = {}
    PROVE  CountInv'
<1>1. \A y \in Scheduler : schedules'[y] = IF y = x THEN call ELSE schedules[y]
  BY DEF RInv, RTypeOK
<1> SUFFICES ASSUME NEW j \in Job
             PROVE  /\ IsFiniteSet(RetriesOf(j)')
                    /\ Cardinality(RetriesOf(j)') + Cardinality(Creators(j)')
                           <= Cardinality(Scheduler)
  BY DEF CountInv
<1>2. RetriesOf(j)' = RetriesOf(j)
  BY DEF RetriesOf, Stored
<1>3. CASE call.step = "create" /\ call.source = j
  <2>1. RetriesOf(j)' = {}
    BY <1>2, <1>3
  <2>2. Creators(j)' \subseteq Scheduler
    BY DEF Creators
  <2>3. /\ IsFiniteSet(Creators(j)') /\ Cardinality(Scheduler) \in Nat
        /\ Cardinality(Creators(j)') <= Cardinality(Scheduler)
    BY <2>2, SchedulerAssumption, FS_Subset, FS_CardinalityType
  <2>4. Cardinality(Creators(j)') \in Nat
    BY <2>3, FS_CardinalityType
  <2>5. IsFiniteSet({}) /\ Cardinality({}) = 0
    BY FS_EmptySet
  <2> QED
    BY <2>1, <2>3, <2>4, <2>5
<1>4. CASE ~(call.step = "create" /\ call.source = j)
  <2>1. Creators(j)' \subseteq Creators(j)
    BY <1>1, <1>4 DEF Creators
  <2> QED
    BY <1>2, <2>1, CountShrinks
<1> QED
  BY <1>3, <1>4

(* A retry that is created takes the place of the thread that creates it.    *)
LEMMA CountCreates ==
    ASSUME RInv, CountInv, NEW x \in Scheduler, CreateRetry(x)
    PROVE  CountInv'
<1>1. PICK k \in Job : \E r \in Record :
              /\ ~Stored(jobs[k]) /\ jobs' = [jobs EXCEPT ![k] = r]
              /\ r.previous_attempt = schedules[x].source
  BY RetryCreated
<1>2. PICK r \in Record :
              /\ ~Stored(jobs[k]) /\ jobs' = [jobs EXCEPT ![k] = r]
              /\ r.previous_attempt = schedules[x].source
  BY <1>1
<1>3. \A j \in Job : jobs'[j] = IF j = k THEN r ELSE jobs[j]
  BY <1>2 DEF RInv, IInv, TypeOK
<1>4. schedules' = [schedules EXCEPT ![x] = NoSchedule] /\ schedules[x].step = "create"
  BY DEF CreateRetry
<1>5. \A y \in Scheduler : schedules'[y] = IF y = x THEN NoSchedule ELSE schedules[y]
  BY <1>4 DEF RInv, RTypeOK
<1> SUFFICES ASSUME NEW j \in Job
             PROVE  /\ IsFiniteSet(RetriesOf(j)')
                    /\ Cardinality(RetriesOf(j)') + Cardinality(Creators(j)')
                           <= Cardinality(Scheduler)
  BY DEF CountInv
<1>6. CASE schedules[x].source # j
  <2>1. RetriesOf(j)' \subseteq RetriesOf(j)
    BY <1>2, <1>3, <1>6 DEF RetriesOf, Stored
  <2>2. Creators(j)' \subseteq Creators(j)
    BY <1>5, NoScheduleType DEF Creators
  <2> QED
    BY <2>1, <2>2, CountShrinks
<1>7. CASE schedules[x].source = j
  <2>1. RetriesOf(j)' \subseteq RetriesOf(j) \cup {k} /\ k \notin RetriesOf(j)
    BY <1>2, <1>3 DEF RetriesOf, Stored
  <2>2. Creators(j)' = Creators(j) \ {x} /\ x \in Creators(j)
    BY <1>4, <1>5, <1>7, NoScheduleType DEF Creators
  <2>3. /\ IsFiniteSet(RetriesOf(j))
        /\ Cardinality(RetriesOf(j)) + Cardinality(Creators(j)) <= Cardinality(Scheduler)
    BY DEF CountInv
  <2>4. IsFiniteSet(Creators(j)) /\ Cardinality(Scheduler) \in Nat
    BY SchedulerAssumption, FS_Subset, FS_CardinalityType DEF Creators
  <2>5. /\ IsFiniteSet(RetriesOf(j) \cup {k})
        /\ Cardinality(RetriesOf(j) \cup {k}) = Cardinality(RetriesOf(j)) + 1
    BY <2>1, <2>3, FS_AddElement
  <2>6. /\ IsFiniteSet(RetriesOf(j)')
        /\ Cardinality(RetriesOf(j)') <= Cardinality(RetriesOf(j)) + 1
    BY <2>1, <2>5, FS_Subset
  <2>7. /\ IsFiniteSet(Creators(j)')
        /\ Cardinality(Creators(j)') = Cardinality(Creators(j)) - 1
    BY <2>2, <2>4, FS_RemoveElement
  <2>8. /\ Cardinality(RetriesOf(j)) \in Nat /\ Cardinality(RetriesOf(j)') \in Nat
        /\ Cardinality(Creators(j)) \in Nat /\ Cardinality(Creators(j)') \in Nat
    BY <2>3, <2>4, <2>6, <2>7, FS_CardinalityType
  <2> QED
    BY <2>3, <2>4, <2>6, <2>7, <2>8
<1> QED
  BY <1>6, <1>7

(* No step of the queue or of the scheduling service exceeds the count.      *)
LEMMA CountStep ==
    ASSUME RInv, CountInv, [RNext]_rvars
    PROVE  CountInv'
<1>1. CASE [Next]_vars /\ UNCHANGED schedules
  <2>1. \A j \in Job : (Stored(jobs'[j]) /\ jobs'[j].previous_attempt # 0) =>
            Stored(jobs[j]) /\ jobs[j].previous_attempt = jobs'[j].previous_attempt
    BY <1>1, RecordAfter DEF SameAttempt
  <2>2. ASSUME NEW j \in Job
        PROVE  RetriesOf(j)' \subseteq RetriesOf(j) /\ Creators(j)' = Creators(j)
    <3>1. j # 0
      BY JobAssumption
    <3>2. RetriesOf(j)' \subseteq RetriesOf(j)
      BY <2>1, <3>1 DEF RetriesOf, Stored
    <3>3. Creators(j)' = Creators(j)
      BY <1>1 DEF Creators
    <3> QED
      BY <3>2, <3>3
  <2> QED
    BY <2>2, CountShrinks DEF CountInv
<1>2. ASSUME NEW x \in Scheduler, NEW j \in Job, Schedule(x, j) PROVE CountInv'
  <2>1. PICK call \in ScheduleCall :
            schedules' = [schedules EXCEPT ![x] = call] /\ call.step = "check"
    BY <1>2, ScheduleOpens
  <2>2. UNCHANGED jobs
    BY <1>2 DEF Schedule
  <2> QED
    BY <2>1, <2>2, CountDecides
<1>3. ASSUME NEW x \in Scheduler, CheckAndEvaluate(x) PROVE CountInv'
  <2>1. UNCHANGED jobs
    BY <1>3 DEF CheckAndEvaluate
  <2> QED
    BY <1>3, <2>1, CheckDecides, CountDecides
<1>4. ASSUME NEW x \in Scheduler, CreateRetry(x) PROVE CountInv'
  BY <1>4, CountCreates
<1> QED
  BY <1>1, <1>2, <1>3, <1>4 DEF RNext, rvars, vars

(* However many threads schedule and however often, the retries that a failed *)
(* job has and is about to get are no more than the scheduling threads: the  *)
(* check refuses every call that comes to it after a retry was created       *)
(* (_ensure_retry_not_already_scheduled).                                    *)
THEOREM RetriesAreBounded == RSpec => []RetriesBounded
<1>1. RInit => CountInv
  <2> SUFFICES ASSUME RInit, NEW j \in Job
               PROVE  /\ IsFiniteSet(RetriesOf(j))
                      /\ Cardinality(RetriesOf(j)) + Cardinality(Creators(j))
                             <= Cardinality(Scheduler)
    BY DEF CountInv
  <2>1. RetriesOf(j) = {} /\ Creators(j) = {}
    BY NoScheduleType DEF RInit, Init, RetriesOf, Creators, Stored, Absent
  <2>2. IsFiniteSet({}) /\ Cardinality({}) = 0 /\ Cardinality(Scheduler) \in Nat
    BY SchedulerAssumption, FS_EmptySet, FS_CardinalityType
  <2> QED
    BY <2>1, <2>2
<1>2. RInv /\ CountInv /\ [RNext]_rvars => CountInv'
  BY CountStep
<1>3. CountInv => RetriesBounded
  BY DEF CountInv, RetriesBounded, RetriesOf
<1> QED
  BY <1>1, <1>2, <1>3, RetryInvariance, PTL DEF RSpec
=============================================================================
