------------------------------ MODULE JobQueue ------------------------------
(* The background-job queue: ApplicationJobQueueService over the in-memory   *)
(* repository, called by several threads at once.                            *)
(*                                                                           *)
(* The repository takes its lock inside every method, so a service call is   *)
(* not atomic: it reads a record, decides, and writes back with              *)
(* update(record, expected_version).  Each call is two or more steps here: a *)
(* read step that stores what the call saw and what it means to write, and   *)
(* one Commit per write.  A call that raises before it writes changes        *)
(* nothing, so it has no step: its condition is a guard.                     *)
(*                                                                           *)
(* "now" is an argument of every call.  The caller read its clock up to      *)
(* MaxDelay ticks before the repository serves the call.                     *)
EXTENDS JobRecord

CONSTANTS Priorities,       \* priorities a submitted job may have
          Delays,           \* how far ahead a submitted job is scheduled
          LeaseDurations,   \* lease_duration_seconds of acquire and renew
          ReportTargets,    \* statuses a worker reports for a job it ran
          BatchLimit,       \* limit of enqueue_due_jobs, recover_expired_leases
          MaxDelay,         \* how stale a call's "now" may be
          MaxClock,         \* bound on the clock
          MaxVersion        \* bound on record_version at acquire and renew

ASSUME QueueAssumption ==
    /\ Priorities \subseteq Int
    /\ Delays \subseteq Nat
    /\ LeaseDurations \subseteq Nat \ {0}
    /\ ReportTargets \subseteq
           {"succeeded", "failed", "retry_scheduled", "dead_lettered"}
    /\ BatchLimit \in Nat \ {0}
    /\ MaxDelay \in Nat
    /\ MaxClock \in Nat
    /\ MaxVersion \in Nat

VARIABLES jobs,       \* _records: the stored record of every id
          calls,      \* the service call each worker thread is executing
          executors,  \* the threads that are executing a job's work
          clock

vars == <<jobs, calls, executors, clock>>

Op == {"idle", "enqueue", "acquire", "start", "release", "renew", "recover",
       "report"}

(* A write a call has prepared: the record it read and the one to store.     *)
Write == [job : Job, seen : Record, updated : Record]

(* due: the ids enqueue_due_jobs listed and has not come to yet.             *)
Call == [op : Op, now : Int, writes : SUBSET Write, due : SUBSET Job]
Idle == [op |-> "idle", now |-> 0, writes |-> {}, due |-> {}]

-----------------------------------------------------------------------------
(* Reading the clock: the argument a caller passes.                          *)
CallTimes == {t \in 0..clock : clock - t <= MaxDelay}

\* Mutant: the version is not incremented.
WritingSameVersion(j, updated) ==
    [job |-> j, seen |-> jobs[j], updated |-> updated]

(* model_copy(update=...) of one stored record, version incremented.         *)
Writing(j, updated) ==
    [job |-> j, seen |-> jobs[j],
     updated |-> [updated EXCEPT !.record_version =
                      jobs[j].record_version + 1]]

Begin(c, op, now, writes, due) ==
    /\ calls[c] = Idle
    /\ calls' = [calls EXCEPT ![c] = [op |-> op, now |-> now,
                                      writes |-> writes, due |-> due]]
    /\ UNCHANGED <<jobs, executors, clock>>

(* list(query).items: the first BatchLimit of the matching jobs.             *)
Page(S) ==
    {j \in S : Cardinality({k \in S : ListedBefore(jobs[k], k, jobs[j], j)})
                   < BatchLimit}

\* Mutant: the lease's owner is not compared with the caller.
HoldsAnyLease(r, w, now) == LeaseActiveAt(r.lease, now)

(* _require_active_lease.                                                    *)
HoldsLease(r, w, now) ==
    r.lease.worker = w /\ LeaseActiveAt(r.lease, now)

-----------------------------------------------------------------------------
(* repository.create of a new job by the application that submits it: the    *)
(* constructor validates the record, create rejects a stored id.             *)
SubmittedRecord(p, d) ==
    [Absent EXCEPT !.status = IF d = 0 THEN "pending" ELSE "scheduled",
                   !.record_version = 1,
                   !.priority = p,
                   !.attempt_number = 1,
                   !.created_at = clock,
                   !.available_at = clock + d]

Submit(j) ==
    /\ ~Stored(jobs[j])
    /\ \E p \in Priorities, d \in Delays :
           jobs' = [jobs EXCEPT ![j] = SubmittedRecord(p, d)]
    /\ UNCHANGED <<calls, executors, clock>>

(* enqueue: the prepared record keeps failure and started_at of the old one. *)
EnqueueWrite(j, now) ==
    Writing(j, [jobs[j] EXCEPT !.status = "queued", !.queued_at = now])

Enqueue(c, j) ==
    \E now \in CallTimes :
        /\ AvailableForQueueAt(jobs[j], now)
        /\ Begin(c, "enqueue", now, {EnqueueWrite(j, now)}, {})

\* Mutant: the query leaves scheduled jobs out.
DueJobsPending(now) ==
    {j \in Job : AvailableForQueueAt(jobs[j], now) /\ jobs[j].status = "pending"}

(* enqueue_due_jobs: one list, then enqueue for each listed id.              *)
DueJobs(now) == {j \in Job : AvailableForQueueAt(jobs[j], now)}

EnqueueDue(c) ==
    \E now \in CallTimes :
        /\ DueJobs(now) # {}
        /\ Begin(c, "enqueue", now, {}, Page(DueJobs(now)))

(* The next iteration of that loop reads the job again; a job that is no     *)
(* longer available raises and abandons the rest of the batch.               *)
EnqueueNext(c) ==
    /\ calls[c].writes = {}
    /\ \E j \in calls[c].due :
        /\ \A k \in calls[c].due \ {j} : ListedBefore(jobs[j], j, jobs[k], k)
        /\ \/ /\ AvailableForQueueAt(jobs[j], calls[c].now)
              /\ calls' = [calls EXCEPT
                               ![c].writes = {EnqueueWrite(j, calls[c].now)},
                               ![c].due = @ \ {j}]
           \/ /\ ~AvailableForQueueAt(jobs[j], calls[c].now)
              /\ calls' = [calls EXCEPT ![c] = Idle]
    /\ UNCHANGED <<jobs, executors, clock>>

(* find_available(limit=1): the head over every executable status.           *)
Available(now) ==
    {j \in Job : jobs[j].status \in ExecutableStatus
                     /\ jobs[j].available_at <= now}

FindAvailable(now) ==
    {j \in Available(now) :
        \A k \in Available(now) \ {j} : PickupBefore(jobs[j], j, jobs[k], k)}

\* Mutant: the head is leased whatever its status.
AcquireCandidateAnyStatus(now) == FindAvailable(now)

(* acquire keeps the head only if it is queued, and else returns None.       *)
AcquireCandidate(now) == {j \in FindAvailable(now) : jobs[j].status = "queued"}

Acquire(c) ==
    \E now \in CallTimes, d \in LeaseDurations :
        \E j \in AcquireCandidate(now) :
            /\ jobs[j].record_version < MaxVersion
            /\ Begin(c, "acquire", now,
                     {Writing(j, [jobs[j] EXCEPT
                         !.status = "leased",
                         !.lease = [worker |-> c, acquired_at |-> now,
                                    expires_at |-> now + d]])}, {})

\* Mutant: started_at is not set.
StartWithoutTimestamp(c, j) ==
    \E now \in CallTimes :
        /\ HoldsLease(jobs[j], c, now)
        /\ CanTransition(jobs[j].status, "running")
        /\ Begin(c, "start", now,
                 {Writing(j, [jobs[j] EXCEPT !.status = "running"])}, {})

Start(c, j) ==
    \E now \in CallTimes :
        /\ HoldsLease(jobs[j], c, now)
        /\ CanTransition(jobs[j].status, "running")
        /\ Begin(c, "start", now,
                 {Writing(j, [jobs[j] EXCEPT !.status = "running",
                                             !.started_at = now])}, {})

Release(c, j) ==
    \E now \in CallTimes :
        /\ HoldsLease(jobs[j], c, now)
        /\ jobs[j].status = "leased"
        /\ CanTransition(jobs[j].status, "queued")
        /\ Begin(c, "release", now,
                 {Writing(j, [jobs[j] EXCEPT !.status = "queued",
                                             !.lease = NoLease])}, {})

(* renew_lease extends a leased or a running job's lease.                    *)
Renew(c, j) ==
    \E now \in CallTimes, d \in LeaseDurations :
        /\ HoldsLease(jobs[j], c, now)
        /\ jobs[j].record_version < MaxVersion
        /\ Begin(c, "renew", now,
                 {Writing(j, [jobs[j] EXCEPT !.lease.expires_at = now + d])},
                 {})

\* Mutant: a lease is taken for active at its expiry, too.
RecoverWritesLate(now) ==
    {Writing(j, [jobs[j] EXCEPT !.status = "queued", !.lease = NoLease]) :
        j \in {k \in Page({l \in Job : jobs[l].status = "leased"}) :
                   jobs[k].lease.expires_at < now}}

\* Mutant: active leases are not skipped.
RecoverWritesEveryLease(now) ==
    {Writing(j, [jobs[j] EXCEPT !.status = "queued", !.lease = NoLease]) :
        j \in Page({l \in Job : jobs[l].status = "leased"})}

(* recover_expired_leases writes from the listed records, not from a second  *)
(* read.  The page is cut before the active leases are skipped.              *)
RecoverWrites(now) ==
    {Writing(j, [jobs[j] EXCEPT !.status = "queued", !.lease = NoLease]) :
        j \in {k \in Page({l \in Job : jobs[l].status = "leased"}) :
                   ~LeaseActiveAt(jobs[k].lease, now)}}

RecoverExpired(c) ==
    \E now \in CallTimes :
        /\ RecoverWrites(now) # {}
        /\ Begin(c, "recover", now, RecoverWrites(now), {})

(* A worker that finished the job's work stores the outcome: the transition  *)
(* policy is asked and the new record is validated.                          *)
ReportedRecord(r, target, f, now) ==
    [r EXCEPT !.status = target,
              !.lease = NoLease,
              !.cancellation = 0,
              !.failure = f,
              !.finished_at = IF target \in TerminalStatus THEN now ELSE @]

Report(c, j) ==
    /\ c \in executors[j]
    /\ \E now \in CallTimes, target \in ReportTargets, f \in Failure :
        /\ CanTransition(jobs[j].status, target)
        /\ ValidRecord(ReportedRecord(jobs[j], target, f, now))
        /\ Begin(c, "report", now,
                 {Writing(j, ReportedRecord(jobs[j], target, f, now))}, {})

-----------------------------------------------------------------------------
\* Mutant: update does not compare versions.
UpdateAlwaysAccepted(w) == TRUE

(* update(record, expected_version): the stored version must still be the    *)
(* one the call read.                                                        *)
UpdateAccepted(w) ==
    jobs[w.job].record_version = w.seen.record_version

(* A worker starts to execute when start returns and stops when its report   *)
(* is stored.                                                                *)
ExecutorsAfter(c, w) ==
    CASE calls[c].op = "start" -> [executors EXCEPT ![w.job] = @ \cup {c}]
      [] calls[c].op = "report" -> [executors EXCEPT ![w.job] = @ \ {c}]
      [] OTHER -> executors

Remaining(call, w) ==
    IF call.writes = {w} /\ call.due = {}
    THEN Idle
    ELSE [call EXCEPT !.writes = @ \ {w}]

Commit(c) ==
    \E w \in calls[c].writes :
        /\ \A v \in calls[c].writes \ {w} :
               ListedBefore(w.seen, w.job, v.seen, v.job)
        /\ \/ /\ UpdateAccepted(w)
              /\ jobs' = [jobs EXCEPT ![w.job] = w.updated]
              /\ executors' = ExecutorsAfter(c, w)
              /\ calls' = [calls EXCEPT ![c] = Remaining(@, w)]
           \/ /\ ~UpdateAccepted(w)
              /\ calls' = [calls EXCEPT ![c] = Idle]
              /\ UNCHANGED <<jobs, executors>>
        /\ UNCHANGED clock

(* A worker thread dies: its call and the work it was doing are gone.        *)
Crash(c) ==
    /\ calls' = [calls EXCEPT ![c] = Idle]
    /\ executors' = [j \in Job |-> executors[j] \ {c}]
    /\ UNCHANGED <<jobs, clock>>

Tick ==
    /\ clock < MaxClock
    /\ clock' = clock + 1
    /\ UNCHANGED <<jobs, calls, executors>>

-----------------------------------------------------------------------------
Init ==
    /\ jobs = [j \in Job |-> Absent]
    /\ calls = [c \in Worker |-> Idle]
    /\ executors = [j \in Job |-> {}]
    /\ clock = 0

JobCall(c, j) ==
    Enqueue(c, j) \/ Start(c, j) \/ Release(c, j) \/ Renew(c, j)
        \/ Report(c, j)

QueueCall(c) ==
    EnqueueDue(c) \/ EnqueueNext(c) \/ Acquire(c) \/ RecoverExpired(c)
        \/ Commit(c) \/ Crash(c)

Next ==
    \/ \E j \in Job : Submit(j)
    \/ \E c \in Worker, j \in Job : JobCall(c, j)
    \/ \E c \in Worker : QueueCall(c)
    \/ Tick

Spec == Init /\ [][Next]_vars

(* Time passes, and one thread calls enqueue_due_jobs and                    *)
(* recover_expired_leases again and again and is not killed between its      *)
(* reads and its writes every single time.                                   *)
Maintains(c) ==
    /\ SF_vars(EnqueueDue(c)) /\ SF_vars(EnqueueNext(c))
    /\ SF_vars(RecoverExpired(c)) /\ SF_vars(Commit(c))

Fairness == WF_vars(Tick) /\ \E c \in Worker : Maintains(c)

FairSpec == Spec /\ Fairness

-----------------------------------------------------------------------------
(* The state is well typed: every stored record, prepared write and call has *)
(* the fields and ranges job_record.py declares.                             *)
TypeOK ==
    /\ jobs \in [Job -> Record]
    /\ calls \in [Worker -> Call]
    /\ executors \in [Job -> SUBSET Worker]
    /\ clock \in Nat

(* The atomic lifecycle that the calls, which are not atomic, implement.     *)
Lifecycle ==
    INSTANCE JobLifecycle
        WITH status <- [j \in Job |-> jobs[j].status],
             owner <- [j \in Job |-> jobs[j].lease.worker],
             runner <- executors

(* Every behaviour of the interleaved calls is a behaviour of the atomic     *)
(* lifecycle: reading a record, deciding and writing it back with            *)
(* expected_version takes effect as one step or not at all.                  *)
ImplementsLifecycle == Lifecycle!Spec

(* Optimistic concurrency is sound: a prepared write whose expected_version  *)
(* still is the stored version was computed from exactly the stored record,  *)
(* so an update that the repository accepts loses no other caller's update.  *)
SnapshotFence ==
    \A c \in Worker : \A w \in calls[c].writes :
        /\ w.seen.record_version <= jobs[w.job].record_version
        /\ w.seen.record_version = jobs[w.job].record_version
               => w.seen = jobs[w.job]

(* Whatever the interleaving, a stored job changes status only along         *)
(* ApplicationJobTransitionPolicy, although the policy is asked about the    *)
(* status a call read and not about the one it overwrites.                   *)
PolicyRespected ==
    [][\A j \in Job :
          Stored(jobs[j]) =>
              \/ jobs'[j].status = jobs[j].status
              \/ CanTransition(jobs[j].status, jobs'[j].status)]_vars

(* A leased or running job is executed by at most one worker, even though    *)
(* leases expire, are recovered and are acquired again while calls of the    *)
(* former owner are still under way.                                         *)
SingleRunner == \A j \in Job : Cardinality(executors[j]) <= 1

(* A record names a lease owner exactly when it is leased or running.        *)
LeaseMatches(r) == r.lease.worker # NoWorker <=> r.status \in LeasedStatus

(* Stored records match, and an id that is not stored has no version yet.    *)
RecordInv ==
    \A j \in Job :
        LeaseMatches(jobs[j]) /\ (Stored(jobs[j]) \/ jobs[j].record_version = 0)

(* A job that is executed was started and not queued again since, and while  *)
(* it runs its lease names the worker that executes it.                      *)
RunnerInv ==
    \A j \in Job :
        \/ executors[j] = {}
        \/ \E c \in Worker :
              /\ executors[j] = {c}
              /\ jobs[j].status \in
                     {"running", "cancellation_requested"} \cup TerminalStatus
              /\ jobs[j].status = "running" => jobs[j].lease.worker = c

(* What an accepted write of each operation does to the record it was        *)
(* computed from.                                                            *)
Effect(op, c, w) ==
    \/ /\ op = "enqueue"
       /\ w.seen.status \in EnqueueableStatus
       /\ w.updated.status = "queued"
    \/ /\ op = "acquire"
       /\ w.seen.status = "queued"
       /\ w.updated.status = "leased" /\ w.updated.lease.worker = c
    \/ /\ op = "start"
       /\ w.seen.status = "leased" /\ w.seen.lease.worker = c
       /\ w.updated.status = "running" /\ w.updated.lease.worker = c
    \/ /\ op \in {"release", "recover"}
       /\ w.seen.status = "leased"
       /\ w.updated.status = "queued"
    \/ /\ op = "renew"
       /\ w.seen.status \in LeasedStatus
       /\ w.updated.status = w.seen.status
       /\ w.updated.lease.worker = w.seen.lease.worker
    \/ /\ op = "report"
       /\ c \in executors[w.job]
       /\ w.updated.status \in ReportTargets
       /\ CanTransition(w.seen.status, w.updated.status)

(* Every prepared write is the effect of its operation on what it read, and  *)
(* only recover_expired_leases prepares several.                             *)
WritesJustified ==
    \A c \in Worker :
        /\ calls[c].due # {} => calls[c].op = "enqueue"
        /\ calls[c].op # "recover" => \A v, w \in calls[c].writes : v = w
        /\ \A w \in calls[c].writes :
              /\ w.updated.record_version = w.seen.record_version + 1
              /\ LeaseMatches(w.updated)
              /\ Effect(calls[c].op, c, w)

(* The inductive invariant.                                                  *)
IInv == TypeOK /\ SnapshotFence /\ RecordInv /\ RunnerInv /\ WritesJustified

(* However old the time a call works with, an active lease is taken from its *)
(* owner in one case only: a recovery whose "now" precedes the acquisition   *)
(* takes the lease for one that is not active.  A recovery that was under    *)
(* way when the lease was renewed, or when the job was recovered and leased  *)
(* again, is refused.                                                        *)
LeaseTakenByOldCallOnly ==
    [][\A j \in Job :
          (/\ jobs[j].status = "leased"
           /\ LeaseActiveAt(jobs[j].lease, clock)
           /\ jobs'[j].lease.worker # jobs[j].lease.worker)
              => \E c \in Worker :
                    /\ calls'[c] # calls[c]
                    /\ \/ c = jobs[j].lease.worker /\ calls[c].op = "release"
                       \/ /\ calls[c].op = "recover"
                          /\ calls[c].now < jobs[j].lease.acquired_at]_vars

(* "Validate persistent job invariants."  Every stored record satisfies      *)
(* ApplicationJobRecord.validate_record.                                     *)
StoredRecordsValid == \A j \in Job : Stored(jobs[j]) => ValidRecord(jobs[j])

(* What is stored although the service's model_copy does not run             *)
(* validate_record.  Waiting, finished and cancelled records satisfy it.     *)
(* The record of a job that is queued or at work satisfies it but for two    *)
(* marks: the failure of an earlier attempt, which enqueue keeps, and a      *)
(* queued_at that an old "now" or that earlier attempt put out of order; it  *)
(* was not queued before it was available.                                   *)
InQueue == {"queued", "leased", "running"}

SoundInQueue(r) ==
    /\ ValidRecord([r EXCEPT !.failure = "none", !.queued_at = r.available_at])
    /\ r.queued_at >= r.available_at
    /\ r.failure # "none" => r.started_at # NoTime

StoredRecordsSound ==
    \A j \in Job :
        Stored(jobs[j]) => IF jobs[j].status \in InQueue
                           THEN SoundInQueue(jobs[j])
                           ELSE ValidRecord(jobs[j])

-----------------------------------------------------------------------------
(* recover_expired_leases: "Return expired leased jobs to the queue."  A     *)
(* leased job whose lease ran out does not stay so for ever.                 *)
Expired(j) == jobs[j].lease.worker # NoWorker /\ jobs[j].lease.expires_at <= clock

ExpiredLeaseRecovered ==
    \A j \in Job : []<>~(jobs[j].status = "leased" /\ Expired(j))

(* "Queue due pending, scheduled, or retry jobs."  A job that is due is      *)
(* queued in the end, although a job that changed since the list was read    *)
(* raises and abandons the rest of the batch.                                *)
DueJobQueued ==
    \A j \in Job : []<>~AvailableForQueueAt(jobs[j], clock)

(* The lesson's promise for a worker that dies (section 6): a job it held,   *)
(* leased or running, does not stay with its expired lease for ever.         *)
CrashedJobRecovered ==
    \A j \in Job : []<>~(Expired(j) /\ executors[j] = {})
=============================================================================
