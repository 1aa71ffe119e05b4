--------------------------- MODULE JobQueueProofs ---------------------------
(* Proofs about the job queue and the records it stores, for any number of   *)
(* jobs, workers, calls under way and any clock skew.                        *)
EXTENDS JobQueue, FiniteSetTheorems, TLAPS

(* The copies the service makes of a record are records.                     *)
LEMMA NoLeaseType == NoLease \in Lease /\ NoLease.worker = NoWorker
  BY DEF NoLease, Lease, NoTime

(* An id that is not stored has a record, without a lease.                   *)
LEMMA AbsentType == Absent \in Record /\ Absent.lease = NoLease
  BY NoLeaseType DEF Absent, Record, NoTime, Failure

(* A record written by model_copy is a record.                               *)
LEMMA WritingType ==
    ASSUME TypeOK, NEW j \in Job, NEW r \in Record
    PROVE  /\ Writing(j, r) \in Write
           /\ Writing(j, r).job = j
           /\ Writing(j, r).seen = jobs[j]
           /\ Writing(j, r).updated.status = r.status
           /\ Writing(j, r).updated.lease = r.lease
           /\ Writing(j, r).updated.record_version = jobs[j].record_version + 1
  BY DEF TypeOK, Writing, Write, Record

(* Beginning a call whose writes are justified by what it has just read      *)
(* keeps the invariant.                                                      *)
LEMMA BeginKeepsInv ==
    ASSUME IInv,
           NEW c \in Worker, NEW op \in Op, NEW now \in Int,
           NEW writes \in SUBSET Write, NEW due \in SUBSET Job,
           Begin(c, op, now, writes, due),
           due # {} => op = "enqueue",
           op # "recover" => \A v, w \in writes : v = w,
           \A w \in writes :
               /\ w.seen = jobs[w.job]
               /\ w.updated.record_version = w.seen.record_version + 1
               /\ LeaseMatches(w.updated)
               /\ Effect(op, c, w)
    PROVE  IInv'
<1>1. TypeOK'
  BY DEF IInv, TypeOK, Begin, Call
<1>2. \A d \in Worker : calls'[d] = IF d = c
                            THEN [op |-> op, now |-> now, writes |-> writes, due |-> due]
                            ELSE calls[d]
  BY DEF IInv, TypeOK, Begin
<1>3. \A w \in writes : w.job \in Job /\ w.seen.record_version \in Nat
  BY DEF Write, Record
<1>4. SnapshotFence'
  BY <1>2, <1>3 DEF IInv, SnapshotFence, Begin
<1>5. RecordInv' /\ RunnerInv'
  BY DEF IInv, RecordInv, LeaseMatches, RunnerInv, Begin
<1>6. WritesJustified'
  <2>1. executors' = executors
    BY DEF Begin
  <2> QED
    BY <1>2, <2>1 DEF IInv, WritesJustified, Effect
<1> QED
  BY <1>1, <1>4, <1>5, <1>6 DEF IInv

(* The same for a call that prepares one write.                              *)
LEMMA OneWriteKeepsInv ==
    ASSUME IInv,
           NEW c \in Worker, NEW op \in Op, NEW now \in Int, NEW w \in Write,
           Begin(c, op, now, {w}, {}),
           w.seen = jobs[w.job],
           w.updated.record_version = w.seen.record_version + 1,
           LeaseMatches(w.updated),
           Effect(op, c, w)
    PROVE  IInv'
<1> DEFINE writes == {w}
<1>1. Begin(c, op, now, writes, {}) /\ writes \in SUBSET Write
  OBVIOUS
<1>2. \A v \in writes : v = w
  OBVIOUS
<1> HIDE DEF writes
<1> QED
  BY <1>1, <1>2, BeginKeepsInv

(* enqueue prepares one write, from an enqueueable record to a queued one.   *)
LEMMA EnqueueKeepsInv ==
    ASSUME IInv, NEW c \in Worker, NEW j \in Job, Enqueue(c, j)
    PROVE  IInv'
<1>1. PICK now \in CallTimes :
          /\ AvailableForQueueAt(jobs[j], now)
          /\ Begin(c, "enqueue", now, {EnqueueWrite(j, now)}, {})
  BY DEF Enqueue
<1>2. now \in Int
  BY <1>1 DEF CallTimes
<1> DEFINE r == [jobs[j] EXCEPT !.status = "queued", !.queued_at = now]
<1>3. r \in Record /\ r.status = "queued" /\ r.lease = jobs[j].lease
  <2>1. jobs[j] \in Record /\ "queued" \in Status
    BY DEF IInv, TypeOK, Status
  <2>2. r = [jobs[j] EXCEPT !.status = "queued", !.queued_at = now]
    OBVIOUS
  <2> HIDE DEF r
  <2> QED
    BY <1>2, <2>1, <2>2 DEF Record
<1>4. LeaseMatches(jobs[j]) /\ jobs[j].status \in EnqueueableStatus
  BY <1>1 DEF IInv, RecordInv, AvailableForQueueAt
<1>5. EnqueueWrite(j, now) = Writing(j, r)
  BY DEF EnqueueWrite
<1> HIDE DEF r
<1>6. LET w == EnqueueWrite(j, now) IN
      /\ w \in Write
      /\ w.seen = jobs[w.job]
      /\ w.updated.record_version = w.seen.record_version + 1
      /\ LeaseMatches(w.updated)
      /\ Effect("enqueue", c, w)
  BY <1>3, <1>4, <1>5, WritingType
     DEF IInv, LeaseMatches, Effect, EnqueueableStatus, LeasedStatus
<1> QED
  BY <1>1, <1>2, <1>6, OneWriteKeepsInv DEF Op

(* enqueue_due_jobs lists jobs and prepares no write yet.                    *)
LEMMA EnqueueDueKeepsInv ==
    ASSUME IInv, NEW c \in Worker, EnqueueDue(c)
    PROVE  IInv'
<1>1. PICK now \in CallTimes :
          Begin(c, "enqueue", now, {}, Page(DueJobs(now)))
  BY DEF EnqueueDue
<1>2. now \in Int
  BY DEF CallTimes
<1>3. Page(DueJobs(now)) \in SUBSET Job
  BY DEF Page, DueJobs
<1> QED
  BY <1>1, <1>2, <1>3, BeginKeepsInv DEF Op

(* The next job of a batch is read when its turn comes, so its write is as   *)
(* fresh as the one of a single enqueue.                                     *)
LEMMA EnqueueNextKeepsInv ==
    ASSUME IInv, NEW c \in Worker, EnqueueNext(c)
    PROVE  IInv'
<1>1. PICK j \in calls[c].due :
          \/ /\ AvailableForQueueAt(jobs[j], calls[c].now)
             /\ calls' = [calls EXCEPT
                              ![c].writes = {EnqueueWrite(j, calls[c].now)},
                              ![c].due = @ \ {j}]
          \/ /\ ~AvailableForQueueAt(jobs[j], calls[c].now)
             /\ calls' = [calls EXCEPT ![c] = Idle]
  BY DEF EnqueueNext
<1>2. UNCHANGED <<jobs, executors, clock>>
  BY DEF EnqueueNext
<1> DEFINE now == calls[c].now
           r == [jobs[j] EXCEPT !.status = "queued", !.queued_at = now]
           w == EnqueueWrite(j, now)
<1>3. j \in Job /\ now \in Int /\ calls[c] \in Call
  BY DEF IInv, TypeOK, Call
<1>4. r \in Record /\ r.status = "queued" /\ r.lease = jobs[j].lease
  <2>1. jobs[j] \in Record /\ "queued" \in Status
    BY <1>3 DEF IInv, TypeOK, Status
  <2>2. r = [jobs[j] EXCEPT !.status = "queued", !.queued_at = now]
    OBVIOUS
  <2> HIDE DEF r
  <2> QED
    BY <1>3, <2>1, <2>2 DEF Record
<1>5. w = Writing(j, r)
  BY DEF EnqueueWrite
<1>6. LeaseMatches(jobs[j])
  BY <1>3 DEF IInv, RecordInv
<1> HIDE DEF r, w
<1>7. /\ w \in Write /\ w.job = j /\ w.seen = jobs[j]
      /\ w.updated.record_version = jobs[j].record_version + 1
      /\ w.updated.status = "queued" /\ w.updated.lease = jobs[j].lease
  BY <1>3, <1>4, <1>5, WritingType DEF IInv
<1>8. PICK new \in Call :
          /\ calls' = [calls EXCEPT ![c] = new]
          /\ new.due # {} => new.op = "enqueue"
          /\ \/ new.writes = {}
             \/ /\ new.op = "enqueue" /\ new.writes = {w}
                /\ AvailableForQueueAt(jobs[j], now)
  <2>1. CASE AvailableForQueueAt(jobs[j], now)
    <3> DEFINE new == [calls[c] EXCEPT !.writes = {w}, !.due = @ \ {j}]
    <3>1. new \in Call /\ new.op = calls[c].op /\ new.writes = {w}
      BY <1>3, <1>7 DEF Call
    <3>2. calls[c].op = "enqueue"
      BY <1>1 DEF IInv, WritesJustified
    <3>3. calls' = [calls EXCEPT ![c] = new]
      <4>1. calls' = [calls EXCEPT ![c].writes = {w}, ![c].due = @ \ {j}]
        BY <1>1, <2>1 DEF w
      <4>2. calls \in [Worker -> Call]
        BY DEF IInv, TypeOK
      <4> QED
        BY <1>3, <4>1, <4>2 DEF Call
    <3> QED
      BY <2>1, <3>1, <3>2, <3>3
  <2>2. CASE ~AvailableForQueueAt(jobs[j], now)
    <3>1. Idle \in Call /\ Idle.writes = {} /\ Idle.due = {}
      BY DEF Idle, Call, Op
    <3>2. calls' = [calls EXCEPT ![c] = Idle]
      BY <1>1, <2>2
    <3> QED
      BY <3>1, <3>2
  <2> QED
    BY <2>1, <2>2
<1>9. \A d \in Worker : calls'[d] = IF d = c THEN new ELSE calls[d]
  BY <1>8 DEF IInv, TypeOK
<1>10. TypeOK'
  BY <1>2, <1>8 DEF IInv, TypeOK
<1>11. SnapshotFence'
  <2>1. jobs[j].record_version \in Nat
    BY <1>3 DEF IInv, TypeOK, Record
  <2> QED
    BY <1>2, <1>7, <1>8, <1>9, <2>1 DEF IInv, SnapshotFence
<1>12. RecordInv' /\ RunnerInv'
  BY <1>2 DEF IInv, RecordInv, LeaseMatches, RunnerInv
<1>13. WritesJustified'
  <2>1. \/ LeaseMatches(w.updated) /\ Effect("enqueue", c, w)
        \/ ~AvailableForQueueAt(jobs[j], now)
    BY <1>6, <1>7 DEF AvailableForQueueAt, LeaseMatches, Effect,
                      EnqueueableStatus, LeasedStatus
  <2>2. executors' = executors
    BY <1>2
  <2> QED
    BY <1>7, <1>8, <1>9, <2>1, <2>2 DEF IInv, WritesJustified, Effect
<1> QED
  BY <1>10, <1>11, <1>12, <1>13 DEF IInv

(* acquire prepares one write: the queued head leased to the caller.         *)
LEMMA AcquireKeepsInv ==
    ASSUME IInv, NEW c \in Worker, Acquire(c)
    PROVE  IInv'
<1> DEFINE Held(j, now, d) ==
        [jobs[j] EXCEPT !.status = "leased",
                        !.lease = [worker |-> c, acquired_at |-> now,
                                   expires_at |-> now + d]]
<1>1. PICK now \in CallTimes, d \in LeaseDurations :
          \E j \in AcquireCandidate(now) :
              Begin(c, "acquire", now, {Writing(j, Held(j, now, d))}, {})
  BY DEF Acquire
<1>2. PICK j \in AcquireCandidate(now) :
          Begin(c, "acquire", now, {Writing(j, Held(j, now, d))}, {})
  BY <1>1
<1>3. now \in Int /\ d \in Int
  BY QueueAssumption DEF CallTimes
<1>4. j \in Job /\ jobs[j].status = "queued"
  BY DEF AcquireCandidate, FindAvailable, Available
<1> DEFINE r == Held(j, now, d)
<1>5. r \in Record /\ r.status = "leased" /\ r.lease.worker = c
  <2> DEFINE l == [worker |-> c, acquired_at |-> now, expires_at |-> now + d]
  <2>1. l \in Lease /\ l.worker = c
    BY <1>3 DEF Lease
  <2>2. jobs[j] \in Record
    BY <1>4 DEF IInv, TypeOK
  <2>3. r = [jobs[j] EXCEPT !.status = "leased", !.lease = l]
    OBVIOUS
  <2> HIDE DEF l, r
  <2> QED
    BY <2>1, <2>2, <2>3 DEF Record, Status
<1> DEFINE w == Writing(j, r)
<1>6. Begin(c, "acquire", now, {w}, {})
  BY <1>2
<1> HIDE DEF r
<1>7. /\ w \in Write
      /\ w.seen = jobs[w.job]
      /\ w.updated.record_version = w.seen.record_version + 1
      /\ LeaseMatches(w.updated)
      /\ Effect("acquire", c, w)
  BY <1>4, <1>5, WritingType, WorkerAssumption
     DEF IInv, LeaseMatches, Effect, LeasedStatus
<1> HIDE DEF w
<1> QED
  BY <1>3, <1>6, <1>7, OneWriteKeepsInv DEF Op

(* start prepares one write: the caller's own leased job running.            *)
LEMMA StartKeepsInv ==
    ASSUME IInv, NEW c \in Worker, NEW j \in Job, Start(c, j)
    PROVE  IInv'
<1>1. PICK now \in CallTimes :
          /\ HoldsLease(jobs[j], c, now)
          /\ CanTransition(jobs[j].status, "running")
          /\ Begin(c, "start", now,
                   {Writing(j, [jobs[j] EXCEPT !.status = "running",
                                               !.started_at = now])}, {})
  BY DEF Start
<1>2. now \in Int
  BY DEF CallTimes
<1>3. jobs[j].lease.worker = c /\ jobs[j].status = "leased"
  BY <1>1, WorkerAssumption
     DEF HoldsLease, CanTransition, AllowedTransitions, Status, IInv, RecordInv,
         LeaseMatches, LeasedStatus
<1> DEFINE r == [jobs[j] EXCEPT !.status = "running", !.started_at = now]
           w == Writing(j, r)
<1>4. r \in Record /\ r.status = "running" /\ r.lease = jobs[j].lease
  <2>1. jobs[j] \in Record /\ "running" \in Status
    BY DEF IInv, TypeOK, Status
  <2>2. r = [jobs[j] EXCEPT !.status = "running", !.started_at = now]
    OBVIOUS
  <2> HIDE DEF r
  <2> QED
    BY <1>2, <2>1, <2>2 DEF Record
<1>5. Begin(c, "start", now, {w}, {})
  BY <1>1
<1> HIDE DEF r
<1>6. /\ w \in Write
      /\ w.seen = jobs[w.job]
      /\ w.updated.record_version = w.seen.record_version + 1
      /\ LeaseMatches(w.updated)
      /\ Effect("start", c, w)
  BY <1>3, <1>4, WritingType, WorkerAssumption
     DEF IInv, LeaseMatches, Effect, LeasedStatus
<1> HIDE DEF w
<1> QED
  BY <1>2, <1>5, <1>6, OneWriteKeepsInv DEF Op

(* release prepares one write: the caller's leased job back in the queue.    *)
LEMMA ReleaseKeepsInv ==
    ASSUME IInv, NEW c \in Worker, NEW j \in Job, Release(c, j)
    PROVE  IInv'
<1> DEFINE r == [jobs[j] EXCEPT !.status = "queued", !.lease = NoLease]
           w == Writing(j, r)
<1>1. PICK now \in CallTimes :
          jobs[j].status = "leased" /\ Begin(c, "release", now, {w}, {})
  BY DEF Release
<1>2. now \in Int
  BY DEF CallTimes
<1>3. r \in Record /\ r.status = "queued" /\ r.lease.worker = NoWorker
  <2>1. jobs[j] \in Record /\ "queued" \in Status
    BY DEF IInv, TypeOK, Status
  <2>2. r = [jobs[j] EXCEPT !.status = "queued", !.lease = NoLease]
    OBVIOUS
  <2> HIDE DEF r
  <2> QED
    BY <2>1, <2>2, NoLeaseType DEF Record
<1> HIDE DEF r
<1>4. /\ w \in Write
      /\ w.seen = jobs[w.job]
      /\ w.updated.record_version = w.seen.record_version + 1
      /\ LeaseMatches(w.updated)
      /\ Effect("release", c, w)
  BY <1>1, <1>3, WritingType DEF IInv, LeaseMatches, Effect, LeasedStatus
<1> HIDE DEF w
<1> QED
  BY <1>1, <1>2, <1>4, OneWriteKeepsInv DEF Op

(* renew_lease prepares one write that changes neither status nor owner.     *)
LEMMA RenewKeepsInv ==
    ASSUME IInv, NEW c \in Worker, NEW j \in Job, Renew(c, j)
    PROVE  IInv'
<1>1. PICK now \in CallTimes, d \in LeaseDurations :
          /\ HoldsLease(jobs[j], c, now)
          /\ Begin(c, "renew", now,
                   {Writing(j, [jobs[j] EXCEPT !.lease.expires_at = now + d])},
                   {})
  BY DEF Renew
<1>2. now \in Int /\ d \in Int
  BY QueueAssumption DEF CallTimes
<1> DEFINE r == [jobs[j] EXCEPT !.lease.expires_at = now + d]
           w == Writing(j, r)
<1>3. /\ r \in Record /\ r.status = jobs[j].status
      /\ r.lease.worker = jobs[j].lease.worker
  BY <1>2 DEF IInv, TypeOK, Record, Lease
<1>4. Begin(c, "renew", now, {w}, {})
  BY <1>1
<1>5. LeaseMatches(jobs[j]) /\ jobs[j].status \in LeasedStatus
  BY <1>1, WorkerAssumption DEF IInv, RecordInv, LeaseMatches, HoldsLease
<1> HIDE DEF r
<1>6. /\ w \in Write
      /\ w.seen = jobs[w.job]
      /\ w.updated.record_version = w.seen.record_version + 1
      /\ LeaseMatches(w.updated)
      /\ Effect("renew", c, w)
  BY <1>3, <1>5, WritingType DEF IInv, LeaseMatches, Effect
<1> HIDE DEF w
<1> QED
  BY <1>2, <1>4, <1>6, OneWriteKeepsInv DEF Op

(* recover_expired_leases prepares a write per listed job, each back to      *)
(* the queue.                                                                *)
LEMMA RecoverKeepsInv ==
    ASSUME IInv, NEW c \in Worker, RecoverExpired(c)
    PROVE  IInv'
<1>1. PICK now \in CallTimes : Begin(c, "recover", now, RecoverWrites(now), {})
  BY DEF RecoverExpired
<1>2. now \in Int
  BY DEF CallTimes
<1>3. ASSUME NEW w \in RecoverWrites(now)
      PROVE  /\ w \in Write
             /\ w.seen = jobs[w.job]
             /\ w.updated.record_version = w.seen.record_version + 1
             /\ LeaseMatches(w.updated)
             /\ Effect("recover", c, w)
  <2> DEFINE Freed(j) == [jobs[j] EXCEPT !.status = "queued", !.lease = NoLease]
  <2>1. PICK j \in Job : jobs[j].status = "leased" /\ w = Writing(j, Freed(j))
    BY DEF RecoverWrites, Page
  <2> DEFINE r == Freed(j)
  <2>2. r \in Record /\ r.status = "queued" /\ r.lease.worker = NoWorker
    <3>1. jobs[j] \in Record /\ "queued" \in Status
      BY DEF IInv, TypeOK, Status
    <3>2. r = [jobs[j] EXCEPT !.status = "queued", !.lease = NoLease]
      OBVIOUS
    <3> HIDE DEF r
    <3> QED
      BY <3>1, <3>2, NoLeaseType DEF Record
  <2>3. w = Writing(j, r)
    BY <2>1
  <2> HIDE DEF r
  <2> QED
    BY <2>1, <2>2, <2>3, WritingType DEF IInv, LeaseMatches, Effect, LeasedStatus
<1> QED
  BY <1>1, <1>2, <1>3, BeginKeepsInv DEF Op

(* A worker's report prepares one write along the transition policy.         *)
LEMMA ReportKeepsInv ==
    ASSUME IInv, NEW c \in Worker, NEW j \in Job, Report(c, j)
    PROVE  IInv'
<1>1. PICK now \in CallTimes, target \in ReportTargets, f \in Failure :
          /\ CanTransition(jobs[j].status, target)
          /\ Begin(c, "report", now,
                   {Writing(j, ReportedRecord(jobs[j], target, f, now))}, {})
  BY DEF Report
<1>2. now \in Int /\ c \in executors[j]
  BY DEF CallTimes, Report
<1> DEFINE r == ReportedRecord(jobs[j], target, f, now)
           w == Writing(j, r)
<1>3. r \in Record /\ r.status = target /\ r.lease.worker = NoWorker
  <2> DEFINE t == IF target \in TerminalStatus THEN now ELSE jobs[j].finished_at
  <2>1. jobs[j] \in Record /\ target \in Status
    BY QueueAssumption DEF IInv, TypeOK, Status
  <2>2. t \in Int
    BY <1>2, <2>1 DEF Record
  <2>3. r = [jobs[j] EXCEPT !.status = target, !.lease = NoLease,
                            !.cancellation = 0, !.failure = f, !.finished_at = t]
    BY DEF ReportedRecord
  <2> HIDE DEF t, r
  <2> QED
    BY <2>1, <2>2, <2>3, NoLeaseType DEF Record
<1>4. Begin(c, "report", now, {w}, {})
  BY <1>1
<1> HIDE DEF r
<1>5. /\ w \in Write
      /\ w.seen = jobs[w.job]
      /\ w.updated.record_version = w.seen.record_version + 1
      /\ LeaseMatches(w.updated)
      /\ Effect("report", c, w)
  BY <1>1, <1>2, <1>3, WritingType, QueueAssumption
     DEF IInv, LeaseMatches, Effect, LeasedStatus
<1> HIDE DEF w
<1> QED
  BY <1>2, <1>4, <1>5, OneWriteKeepsInv DEF Op

(* An update that conflicts ends its call and stores nothing.                *)
LEMMA IdleKeepsInv ==
    ASSUME IInv, NEW c \in Worker, calls' = [calls EXCEPT ![c] = Idle],
           UNCHANGED <<jobs, executors, clock>>
    PROVE  IInv'
<1>1. Idle \in Call /\ Idle.writes = {} /\ Idle.due = {}
  BY DEF Idle, Call, Op
<1>2. \A d \in Worker : calls'[d] = IF d = c THEN Idle ELSE calls[d]
  BY DEF IInv, TypeOK
<1>3. TypeOK'
  BY <1>1 DEF IInv, TypeOK
<1>4. SnapshotFence'
  BY <1>1, <1>2 DEF IInv, SnapshotFence
<1>5. RecordInv' /\ RunnerInv'
  BY DEF IInv, RecordInv, LeaseMatches, RunnerInv
<1>6. WritesJustified'
  <2>1. executors' = executors
    OBVIOUS
  <2> QED
    BY <1>1, <1>2, <2>1 DEF IInv, WritesJustified, Effect
<1> QED
  BY <1>3, <1>4, <1>5, <1>6 DEF IInv

(* An accepted update was computed from the very record it replaces.         *)
LEMMA AcceptedIsFresh ==
    ASSUME IInv, NEW c \in Worker, NEW w \in calls[c].writes, UpdateAccepted(w)
    PROVE  /\ w \in Write
           /\ w.seen = jobs[w.job]
           /\ w.updated.record_version = jobs[w.job].record_version + 1
           /\ LeaseMatches(w.updated)
           /\ Effect(calls[c].op, c, w)
  BY DEF IInv, TypeOK, Call, SnapshotFence, WritesJustified, UpdateAccepted

(* Storing a prepared write, or failing to, keeps the invariant: this is     *)
(* where the version check of repository.update is needed.                   *)
LEMMA CommitKeepsInv ==
    ASSUME IInv, NEW c \in Worker, Commit(c)
    PROVE  IInv'
<1>1. PICK w \in calls[c].writes :
          \/ /\ UpdateAccepted(w)
             /\ jobs' = [jobs EXCEPT ![w.job] = w.updated]
             /\ executors' = ExecutorsAfter(c, w)
             /\ calls' = [calls EXCEPT ![c] = Remaining(@, w)]
          \/ /\ ~UpdateAccepted(w)
             /\ calls' = [calls EXCEPT ![c] = Idle]
             /\ UNCHANGED <<jobs, executors>>
  BY DEF Commit
<1>2. clock' = clock
  BY DEF Commit
<1>3. CASE ~UpdateAccepted(w)
  BY <1>1, <1>2, <1>3, IdleKeepsInv
<1>4. CASE UpdateAccepted(w)
  <2> DEFINE j == w.job
             rest == Remaining(calls[c], w)
  <2>1. /\ w \in Write
        /\ w.seen = jobs[j]
        /\ w.updated.record_version = jobs[j].record_version + 1
        /\ LeaseMatches(w.updated)
        /\ Effect(calls[c].op, c, w)
    BY <1>4, AcceptedIsFresh
  <2>2. j \in Job /\ w.updated \in Record /\ jobs[j] \in Record
    BY <2>1 DEF Write, IInv, TypeOK
  <2>3. /\ jobs' = [jobs EXCEPT ![j] = w.updated]
        /\ executors' = ExecutorsAfter(c, w)
        /\ calls' = [calls EXCEPT ![c] = rest]
    BY <1>1, <1>4
  <2>4. /\ rest \in Call
        /\ rest.writes \subseteq calls[c].writes
        /\ rest.due \subseteq calls[c].due
        /\ rest.op = calls[c].op \/ (rest.writes = {} /\ rest.due = {})
    <3>1. calls[c] \in Call
      BY DEF IInv, TypeOK
    <3> QED
      BY <3>1 DEF Remaining, Idle, Call, Op
  <2> HIDE DEF rest
  <2>5. \A d \in Worker : calls'[d] = IF d = c THEN rest ELSE calls[d]
    BY <2>3 DEF IInv, TypeOK
  <2>6. \A k \in Job : jobs'[k] = IF k = j THEN w.updated ELSE jobs[k]
    BY <2>3 DEF IInv, TypeOK
  <2>7. \A k \in Job : executors'[k] =
            IF k # j THEN executors[k]
            ELSE IF calls[c].op = "start" THEN executors[k] \cup {c}
            ELSE IF calls[c].op = "report" THEN executors[k] \ {c}
            ELSE executors[k]
    BY <2>2, <2>3 DEF ExecutorsAfter, IInv, TypeOK
  <2>8. executors' \in [Job -> SUBSET Worker]
    BY <2>2, <2>3 DEF ExecutorsAfter, IInv, TypeOK
  <2>9. TypeOK'
    BY <1>2, <2>2, <2>3, <2>4, <2>8 DEF IInv, TypeOK
  <2>10. SnapshotFence'
    <3> SUFFICES ASSUME NEW d \in Worker, NEW v \in calls'[d].writes
                 PROVE  /\ v.seen.record_version <= jobs'[v.job].record_version
                        /\ v.seen.record_version = jobs'[v.job].record_version
                               => v.seen = jobs'[v.job]
      BY DEF SnapshotFence
    <3>1. v \in calls[d].writes
      BY <2>4, <2>5
    <3>2. v \in Write
      BY <3>1 DEF IInv, TypeOK, Call
    <3>3. /\ v.seen.record_version \in Nat
          /\ v.seen.record_version <= jobs[v.job].record_version
          /\ v.seen.record_version = jobs[v.job].record_version
                 => v.seen = jobs[v.job]
      BY <3>1, <3>2 DEF IInv, SnapshotFence, Write, Record
    <3>4. jobs[j].record_version \in Nat /\ v.job \in Job
      BY <2>2, <3>2 DEF Record, Write
    <3> QED
      BY <2>1, <2>6, <3>3, <3>4
  <2>11. RecordInv'
    <3>1. Stored(w.updated)
      BY <2>1, QueueAssumption DEF Effect, LeasedStatus, Stored
    <3> QED
      BY <2>1, <2>6, <3>1 DEF IInv, RecordInv, LeaseMatches
  <2>12. RunnerInv'
    <3> SUFFICES ASSUME NEW k \in Job
                 PROVE  \/ executors'[k] = {}
                        \/ \E d \in Worker :
                              /\ executors'[k] = {d}
                              /\ jobs'[k].status \in
                                     {"running", "cancellation_requested"}
                                         \cup TerminalStatus
                              /\ jobs'[k].status = "running"
                                     => jobs'[k].lease.worker = d
      BY DEF RunnerInv
    <3>1. \/ executors[k] = {}
          \/ \E d \in Worker :
                /\ executors[k] = {d}
                /\ jobs[k].status \in
                       {"running", "cancellation_requested"} \cup TerminalStatus
                /\ jobs[k].status = "running" => jobs[k].lease.worker = d
      BY DEF IInv, RunnerInv
    <3>2. CASE k # j
      BY <2>6, <2>7, <3>1, <3>2
    <3>3. CASE k = j /\ executors[k] = {}
      <4>1. CASE calls[c].op = "start"
        BY <2>1, <2>6, <2>7, <3>3, <4>1 DEF Effect
      <4>2. CASE calls[c].op # "start"
        BY <2>7, <3>3, <4>2
      <4> QED
        BY <4>1, <4>2
    <3>4. CASE k = j /\ executors[k] # {}
      <4>1. PICK d \in Worker :
                /\ executors[k] = {d}
                /\ jobs[k].status \in
                       {"running", "cancellation_requested"} \cup TerminalStatus
                /\ jobs[k].status = "running" => jobs[k].lease.worker = d
        BY <3>1, <3>4
      <4>2. CASE calls[c].op = "report"
        BY <2>1, <2>7, <3>4, <4>1, <4>2 DEF Effect
      <4>3. CASE calls[c].op # "report"
        <5>1. /\ w.updated.status = jobs[j].status
              /\ w.updated.lease.worker = jobs[j].lease.worker
              /\ calls[c].op = "renew"
          BY <2>1, <3>4, <4>1, <4>3
             DEF Effect, EnqueueableStatus, LeasedStatus, TerminalStatus
        <5>2. /\ executors'[k] = {d}
              /\ jobs'[k].status = jobs[k].status
              /\ jobs'[k].lease.worker = jobs[k].lease.worker
          BY <2>6, <2>7, <3>4, <4>1, <5>1
        <5> QED
          BY <4>1, <5>2
      <4> QED
        BY <4>2, <4>3
    <3> QED
      BY <3>2, <3>3, <3>4
  <2>13. WritesJustified'
    <3>1. ASSUME NEW d \in Worker
          PROVE  /\ calls'[d].due # {} => calls'[d].op = "enqueue"
                 /\ calls'[d].op # "recover"
                        => \A v, u \in calls'[d].writes : v = u
      BY <2>4, <2>5 DEF IInv, WritesJustified
    <3>2. ASSUME NEW d \in Worker, NEW v \in calls'[d].writes
          PROVE  /\ v.updated.record_version = v.seen.record_version + 1
                 /\ LeaseMatches(v.updated)
                 /\ v.job \in Job
                 /\ calls'[d].op = calls[d].op
                 /\ Effect(calls[d].op, d, v)
      <4>1. v \in calls[d].writes /\ calls'[d].op = calls[d].op
        BY <2>4, <2>5
      <4>2. v.job \in Job
        BY <4>1 DEF IInv, TypeOK, Call, Write
      <4> QED
        BY <4>1, <4>2 DEF IInv, WritesJustified
    <3>3. ASSUME NEW d \in Worker, NEW v \in calls'[d].writes,
                 calls[d].op = "report"
          PROVE  d \in executors'[v.job]
      <4>1. d \in executors[v.job]
        BY <3>2, <3>3 DEF Effect
      <4>2. d # c
        BY <2>4, <2>5, <3>3 DEF IInv, WritesJustified, Remaining, rest, Idle
      <4> QED
        BY <2>7, <3>2, <4>1, <4>2
    <3> QED
      BY <3>1, <3>2, <3>3 DEF WritesJustified, Effect
  <2> QED
    BY <2>9, <2>10, <2>11, <2>12, <2>13 DEF IInv
<1> QED
  BY <1>3, <1>4

(* The record of a new job.                                                  *)
LEMMA SubmittedType ==
    ASSUME TypeOK, NEW p \in Priorities, NEW d \in Delays
    PROVE  LET r == SubmittedRecord(p, d) IN
           /\ r \in Record
           /\ r.status \in {"pending", "scheduled"} /\ r.record_version = 1
           /\ r.lease = NoLease /\ r.failure = "none" /\ r.cancellation = 0
           /\ r.created_at = clock /\ r.available_at = clock + d
           /\ r.queued_at = NoTime /\ r.started_at = NoTime /\ r.finished_at = NoTime
           /\ r.attempt_number = 1 /\ r.previous_attempt = 0
<1> DEFINE r == SubmittedRecord(p, d)
           st == IF d = 0 THEN "pending" ELSE "scheduled"
<1>1. p \in Int /\ d \in Int /\ clock \in Int
  BY QueueAssumption DEF TypeOK
<1>2. r = [Absent EXCEPT !.status = st, !.record_version = 1, !.priority = p,
                         !.attempt_number = 1, !.created_at = clock,
                         !.available_at = clock + d]
  BY DEF SubmittedRecord
<1>3. st \in {"pending", "scheduled"}
  OBVIOUS
<1>4. PICK q \in Record : q = Absent
  BY AbsentType
<1>5. st \in Status /\ clock + d \in Int
  BY <1>1, <1>3 DEF Status
<1>6. /\ q.lease = NoLease /\ q.failure = "none" /\ q.cancellation = 0
      /\ q.queued_at = NoTime /\ q.started_at = NoTime /\ q.finished_at = NoTime
      /\ q.previous_attempt = 0
  BY <1>4 DEF Absent
<1> HIDE DEF r, st
<1>7. r = [q EXCEPT !.status = st, !.record_version = 1, !.priority = p,
                    !.attempt_number = 1, !.created_at = clock,
                    !.available_at = clock + d]
  BY <1>2, <1>4
<1>8. r \in Record
  BY <1>1, <1>5, <1>7 DEF Record
<1>9. /\ r.status = st /\ r.record_version = 1 /\ r.lease = q.lease
      /\ r.failure = q.failure /\ r.cancellation = q.cancellation
      /\ r.created_at = clock /\ r.available_at = clock + d
      /\ r.queued_at = q.queued_at /\ r.started_at = q.started_at
      /\ r.finished_at = q.finished_at
      /\ r.attempt_number = 1 /\ r.previous_attempt = q.previous_attempt
  BY <1>7 DEF Record
<1> QED
  BY <1>3, <1>6, <1>8, <1>9 DEF r

(* repository.create touches only an id no call has read.                    *)
LEMMA CreateKeepsInv ==
    ASSUME IInv, NEW j \in Job, ~Stored(jobs[j]), NEW r \in Record,
           r.lease.worker = NoWorker, r.status \in {"pending", "scheduled"},
           r.record_version = 1,
           jobs' = [jobs EXCEPT ![j] = r], UNCHANGED <<calls, executors, clock>>
    PROVE  IInv'
<1>1. jobs[j].status = "absent"
  BY DEF Stored
<1>2. \A k \in Job : jobs'[k] = IF k = j THEN r ELSE jobs[k]
  BY DEF IInv, TypeOK
<1>3. TypeOK'
  BY DEF IInv, TypeOK
<1>4. \A c \in Worker : \A w \in calls[c].writes : w.job # j
  <2> SUFFICES ASSUME NEW c \in Worker, NEW w \in calls[c].writes, w.job = j
               PROVE  FALSE
    OBVIOUS
  <2>1. w \in Write /\ Effect(calls[c].op, c, w)
    BY DEF IInv, TypeOK, Call, WritesJustified
  <2>2. w.seen.status # "absent"
    BY <2>1 DEF Effect, EnqueueableStatus, LeasedStatus, CanTransition, Status
  <2>3. jobs[j].record_version = 0
    BY <1>1 DEF IInv, RecordInv, Stored
  <2>4. w.seen.record_version \in Nat
    BY <2>1 DEF Write, Record
  <2> QED
    BY <1>1, <2>2, <2>3, <2>4 DEF IInv, SnapshotFence
<1>5. SnapshotFence'
  <2> SUFFICES ASSUME NEW c \in Worker, NEW w \in calls[c].writes
               PROVE  jobs'[w.job] = jobs[w.job]
    BY DEF IInv, SnapshotFence
  <2>1. w.job \in Job
    BY DEF IInv, TypeOK, Call, Write
  <2> QED
    BY <1>2, <1>4, <2>1
<1>6. RecordInv'
  BY <1>2 DEF IInv, RecordInv, LeaseMatches, LeasedStatus, Stored
<1>7. RunnerInv'
  <2>1. executors[j] = {}
    BY <1>1 DEF IInv, RunnerInv, TerminalStatus
  <2> QED
    BY <1>2, <2>1 DEF IInv, RunnerInv
<1>8. WritesJustified'
  <2>1. executors' = executors /\ calls' = calls
    OBVIOUS
  <2> QED
    BY <2>1 DEF IInv, WritesJustified, Effect
<1> QED
  BY <1>3, <1>5, <1>6, <1>7, <1>8 DEF IInv

(* A new job is created as one.                                              *)
LEMMA SubmitKeepsInv ==
    ASSUME IInv, NEW j \in Job, Submit(j)
    PROVE  IInv'
<1>1. PICK p \in Priorities, d \in Delays :
          jobs' = [jobs EXCEPT ![j] = SubmittedRecord(p, d)]
  BY DEF Submit
<1>2. UNCHANGED <<calls, executors, clock>> /\ ~Stored(jobs[j])
  BY DEF Submit
<1>3. PICK r : r = SubmittedRecord(p, d)
  OBVIOUS
<1>4. /\ r \in Record /\ r.lease.worker = NoWorker
      /\ r.status \in {"pending", "scheduled"} /\ r.record_version = 1
  BY <1>3, SubmittedType, NoLeaseType DEF IInv
<1> QED
  BY <1>1, <1>2, <1>3, <1>4, CreateKeepsInv

(* A worker that gives up or dies takes its own call and work with it.       *)
LEMMA QuitKeepsInv ==
    ASSUME IInv, NEW c \in Worker, NEW S \in SUBSET Job,
           calls' = [calls EXCEPT ![c] = Idle],
           executors' = [j \in Job |-> IF j \in S THEN executors[j] \ {c}
                                                ELSE executors[j]],
           UNCHANGED <<jobs, clock>>
    PROVE  IInv'
<1>1. Idle \in Call /\ Idle.writes = {} /\ Idle.due = {}
  BY DEF Idle, Call, Op
<1>2. \A d \in Worker : calls'[d] = IF d = c THEN Idle ELSE calls[d]
  BY DEF IInv, TypeOK
<1>3. TypeOK'
  BY <1>1 DEF IInv, TypeOK
<1>4. SnapshotFence'
  BY <1>1, <1>2 DEF IInv, SnapshotFence
<1>5. RecordInv'
  BY DEF IInv, RecordInv, LeaseMatches
<1>6. RunnerInv'
  BY DEF IInv, RunnerInv
<1>7. WritesJustified'
  <2>1. ASSUME NEW d \in Worker, NEW w \in calls'[d].writes
        PROVE  /\ d # c /\ w \in calls[d].writes
               /\ w.job \in Job /\ calls'[d] = calls[d]
    BY <1>1, <1>2 DEF IInv, TypeOK, Call, Write
  <2>2. ASSUME NEW d \in Worker, NEW w \in calls'[d].writes,
               d \in executors[w.job]
        PROVE  d \in executors'[w.job]
    BY <2>1, <2>2
  <2> QED
    BY <1>1, <1>2, <2>1, <2>2 DEF IInv, WritesJustified, Effect
<1> QED
  BY <1>3, <1>4, <1>5, <1>6, <1>7 DEF IInv

(* A worker that dies keeps the invariant.                                   *)
LEMMA CrashKeepsInv ==
    ASSUME IInv, NEW c \in Worker, Crash(c)
    PROVE  IInv'
<1>1. executors' = [k \in Job |-> IF k \in Job THEN executors[k] \ {c}
                                               ELSE executors[k]]
  BY DEF Crash
<1> QED
  BY <1>1, QuitKeepsInv DEF Crash

(* The passing of time keeps the invariant.                                  *)
LEMMA TickKeepsInv == IInv /\ Tick => IInv'
<1> SUFFICES ASSUME IInv, Tick PROVE IInv'
  OBVIOUS
<1>1. TypeOK'
  BY DEF IInv, TypeOK, Tick
<1>2. UNCHANGED <<jobs, calls, executors>>
  BY DEF Tick
<1>3. SnapshotFence' /\ RecordInv' /\ RunnerInv'
  BY <1>2 DEF IInv, SnapshotFence, RecordInv, LeaseMatches, RunnerInv
<1>4. WritesJustified'
  BY <1>2 DEF IInv, WritesJustified, Effect
<1> QED
  BY <1>1, <1>3, <1>4 DEF IInv

(* A step that changes nothing keeps the invariant.                          *)
LEMMA StutterKeepsInv == IInv /\ UNCHANGED vars => IInv'
  BY DEF IInv, vars, TypeOK, SnapshotFence, RecordInv, LeaseMatches, RunnerInv,
         WritesJustified, Effect

(* The invariant holds of the empty repository with idle workers.            *)
THEOREM InitEstablishesInv == Init => IInv
<1> SUFFICES ASSUME Init PROVE IInv
  OBVIOUS
<1>1. Idle \in Call /\ Idle.writes = {} /\ Idle.due = {}
  BY DEF Idle, Call, Op
<1>2. TypeOK
  BY <1>1, AbsentType DEF Init, TypeOK
<1>3. \A c \in Worker : calls[c] = Idle
  BY DEF Init
<1>4. SnapshotFence /\ WritesJustified
  BY <1>1, <1>3 DEF SnapshotFence, WritesJustified
<1>5. RecordInv /\ RunnerInv
  BY NoLeaseType, AbsentType
     DEF Init, RecordInv, RunnerInv, LeaseMatches, LeasedStatus, Absent, Stored
<1> QED
  BY <1>2, <1>4, <1>5 DEF IInv

(* Every step of every caller keeps the invariant.                           *)
THEOREM NextKeepsInv == IInv /\ [Next]_vars => IInv'
<1> SUFFICES ASSUME IInv, [Next]_vars PROVE IInv'
  OBVIOUS
<1>1. ASSUME NEW j \in Job, Submit(j) PROVE IInv'
  BY <1>1, SubmitKeepsInv
<1>2. ASSUME NEW c \in Worker, NEW j \in Job, JobCall(c, j) PROVE IInv'
  BY <1>2, EnqueueKeepsInv, StartKeepsInv, ReleaseKeepsInv, RenewKeepsInv,
     ReportKeepsInv DEF JobCall
<1>3. ASSUME NEW c \in Worker, QueueCall(c) PROVE IInv'
  BY <1>3, EnqueueDueKeepsInv, EnqueueNextKeepsInv, AcquireKeepsInv,
     RecoverKeepsInv, CommitKeepsInv, CrashKeepsInv DEF QueueCall
<1>4. CASE Tick
  BY <1>4, TickKeepsInv
<1>5. CASE UNCHANGED vars
  BY <1>5, StutterKeepsInv
<1> QED
  BY <1>1, <1>2, <1>3, <1>4, <1>5 DEF Next

(* The invariant holds in every state the queue service can reach.           *)
THEOREM Invariance == Spec => []IInv
  BY InitEstablishesInv, NextKeepsInv, PTL DEF Spec

(* The type invariant of the job queue holds for every set of jobs, workers  *)
(* and delays.                                                               *)
THEOREM TypeCorrect == Spec => []TypeOK
<1>1. IInv => TypeOK
  BY DEF IInv
<1> QED
  BY <1>1, Invariance, PTL

(* Optimistic concurrency: an update the in-memory repository accepts was    *)
(* computed from exactly the record it replaces.                             *)
THEOREM NoLostUpdate == Spec => []SnapshotFence
<1>1. IInv => SnapshotFence
  BY DEF IInv
<1> QED
  BY <1>1, Invariance, PTL

(* A job is executed by at most one worker at a time.                        *)
THEOREM AtMostOneRunner == Spec => []SingleRunner
<1>1. IInv => SingleRunner
  <2> SUFFICES ASSUME IInv, NEW j \in Job PROVE Cardinality(executors[j]) <= 1
    BY DEF SingleRunner
  <2>1. CASE executors[j] = {}
    BY <2>1, FS_EmptySet
  <2>2. CASE executors[j] # {}
    <3>1. PICK c \in Worker : executors[j] = {c}
      BY <2>2 DEF IInv, RunnerInv
    <3>2. Cardinality({c}) = 1
      BY FS_Singleton
    <3> QED
      BY <3>1, <3>2
  <2> QED
    BY <2>1, <2>2
<1> QED
  BY <1>1, Invariance, PTL

(* The repository changes only when a job is submitted and when a prepared   *)
(* write is accepted; work starts and ends only then or when a worker quits. *)
LEMMA StepKinds ==
    ASSUME [Next]_vars
    PROVE  \/ UNCHANGED <<jobs, executors>>
           \/ \E j \in Job : Submit(j)
           \/ \E c \in Worker : Crash(c)
           \/ \E c \in Worker : \E w \in calls[c].writes :
                 /\ UpdateAccepted(w)
                 /\ jobs' = [jobs EXCEPT ![w.job] = w.updated]
                 /\ executors' = ExecutorsAfter(c, w)
<1>1. ASSUME NEW c \in Worker, NEW j \in Job, JobCall(c, j)
      PROVE  UNCHANGED <<jobs, executors>>
  BY <1>1 DEF JobCall, Enqueue, Start, Release, Renew, Report, Begin
<1>2. ASSUME NEW c \in Worker, QueueCall(c)
      PROVE  \/ UNCHANGED <<jobs, executors>>
             \/ Crash(c)
             \/ \E w \in calls[c].writes :
                   /\ UpdateAccepted(w)
                   /\ jobs' = [jobs EXCEPT ![w.job] = w.updated]
                   /\ executors' = ExecutorsAfter(c, w)
  <2>1. CASE EnqueueDue(c) \/ EnqueueNext(c) \/ Acquire(c) \/ RecoverExpired(c)
    BY <2>1 DEF EnqueueDue, EnqueueNext, Acquire, RecoverExpired, Begin
  <2>2. CASE Commit(c)
    BY <2>2 DEF Commit
  <2> QED
    BY <1>2, <2>1, <2>2 DEF QueueCall
<1>3. CASE Tick \/ UNCHANGED vars
  BY <1>3 DEF Tick, vars
<1> QED
  BY <1>1, <1>2, <1>3 DEF Next

(* What a record's accepted update means for its status.                     *)
LEMMA EffectFollowsPolicy ==
    ASSUME NEW op, NEW c, NEW w, Effect(op, c, w)
    PROVE  \/ w.updated.status = w.seen.status
           \/ CanTransition(w.seen.status, w.updated.status)
<1>1. CASE op = "enqueue"
  BY <1>1 DEF Effect, EnqueueableStatus, CanTransition, AllowedTransitions, Status
<1>2. CASE op = "acquire"
  BY <1>2 DEF Effect, CanTransition, AllowedTransitions, Status
<1>3. CASE op = "start"
  BY <1>3 DEF Effect, CanTransition, AllowedTransitions, Status
<1>4. CASE op \in {"release", "recover"}
  BY <1>4 DEF Effect, CanTransition, AllowedTransitions, Status
<1>5. CASE op \in {"renew", "report"}
  BY <1>5 DEF Effect
<1> QED
  BY <1>1, <1>2, <1>3, <1>4, <1>5 DEF Effect

(* Stored jobs change status only along ApplicationJobTransitionPolicy,      *)
(* however the calls that asked it are interleaved.                          *)
THEOREM PolicyAlwaysRespected == Spec => PolicyRespected
<1> DEFINE P == \A j \in Job :
                    Stored(jobs[j]) =>
                        \/ jobs'[j].status = jobs[j].status
                        \/ CanTransition(jobs[j].status, jobs'[j].status)
<1>1. IInv /\ [Next]_vars => P
  <2> SUFFICES ASSUME IInv, [Next]_vars, NEW j \in Job, Stored(jobs[j])
               PROVE  \/ jobs'[j].status = jobs[j].status
                      \/ CanTransition(jobs[j].status, jobs'[j].status)
    OBVIOUS
  <2>1. CASE jobs' = jobs
    BY <2>1
  <2>2. ASSUME NEW k \in Job, Submit(k)
        PROVE  jobs'[j].status = jobs[j].status
    BY <2>2 DEF Submit, IInv, TypeOK
  <2>3. ASSUME NEW c \in Worker, NEW w \in calls[c].writes, UpdateAccepted(w),
               jobs' = [jobs EXCEPT ![w.job] = w.updated]
        PROVE  \/ jobs'[j].status = jobs[j].status
               \/ CanTransition(jobs[j].status, jobs'[j].status)
    <3>1. w.seen = jobs[w.job] /\ Effect(calls[c].op, c, w)
      BY <2>3, AcceptedIsFresh
    <3>2. \/ w.updated.status = w.seen.status
          \/ CanTransition(w.seen.status, w.updated.status)
      BY <3>1, EffectFollowsPolicy
    <3> QED
      BY <2>3, <3>1, <3>2 DEF IInv, TypeOK
  <2> QED
    BY <2>1, <2>2, <2>3, StepKinds DEF Crash
<1> QED
  BY <1>1, Invariance, PTL DEF Spec, PolicyRespected

(* Replacing one record moves one job of the lifecycle.                      *)
LEMMA MoveMaps ==
    ASSUME jobs \in [Job -> Record],
           NEW j \in Job, NEW r, NEW from, NEW to,
           jobs' = [jobs EXCEPT ![j] = r],
           jobs[j].status \in from,
           r.status \in to
    PROVE  Lifecycle!Moves(j, from, to, r.lease.worker)
<1>1. [k \in Job |-> jobs'[k].status]
          = [[k \in Job |-> jobs[k].status] EXCEPT ![j] = r.status]
  OBVIOUS
<1>2. [k \in Job |-> jobs'[k].lease.worker]
          = [[k \in Job |-> jobs[k].lease.worker] EXCEPT ![j] = r.lease.worker]
  OBVIOUS
<1> QED
  BY <1>1, <1>2 DEF Lifecycle!Moves

(* Each accepted write is one atomic step of the lifecycle.                  *)
LEMMA CommitMaps ==
    ASSUME IInv, NEW c \in Worker, NEW w \in calls[c].writes, UpdateAccepted(w),
           jobs' = [jobs EXCEPT ![w.job] = w.updated],
           executors' = ExecutorsAfter(c, w)
    PROVE  [Lifecycle!Next]_Lifecycle!vars
<1> DEFINE j == w.job
           r == w.updated
<1>1. /\ w.seen = jobs[j] /\ LeaseMatches(r) /\ j \in Job
      /\ Effect(calls[c].op, c, w) /\ jobs \in [Job -> Record]
      /\ jobs' = [jobs EXCEPT ![j] = r]
  BY AcceptedIsFresh DEF Write, IInv, TypeOK
<1> HIDE DEF j, r
<1>2. CASE calls[c].op = "enqueue"
  <2>1. /\ executors' = executors
        /\ jobs[j].status \in {"pending", "scheduled", "retry_scheduled"}
        /\ r.status = "queued" /\ r.lease.worker = NoWorker
    BY <1>1, <1>2
       DEF Effect, ExecutorsAfter, EnqueueableStatus, LeaseMatches, LeasedStatus, j, r
  <2>2. Lifecycle!Queue(j)
    BY <1>1, <2>1, MoveMaps DEF Lifecycle!Queue
  <2> QED
    BY <1>1, <2>2 DEF Lifecycle!Next
<1>3. CASE calls[c].op = "acquire"
  <2>1. /\ executors' = executors
        /\ jobs[j].status \in {"queued"}
        /\ r.status \in {"leased"} /\ r.lease.worker = c
    BY <1>1, <1>3 DEF Effect, ExecutorsAfter, j, r
  <2>2. Lifecycle!Take(j, c)
    BY <1>1, <2>1, MoveMaps DEF Lifecycle!Take
  <2> QED
    BY <1>1, <2>2 DEF Lifecycle!Next
<1>4. CASE calls[c].op = "start"
  <2>1. /\ jobs[j].status \in {"leased"} /\ jobs[j].lease.worker = c
        /\ r.status \in {"running"} /\ r.lease.worker = c
        /\ executors' = [executors EXCEPT ![j] = @ \cup {c}]
    BY <1>1, <1>4 DEF Effect, ExecutorsAfter, j, r
  <2>2. executors[j] = {}
    BY <1>1, <2>1 DEF IInv, RunnerInv, TerminalStatus
  <2>3. executors' = [executors EXCEPT ![j] = {c}]
    BY <2>1, <2>2
  <2>4. Lifecycle!Moves(j, {"leased"}, {"running"}, c)
    <3>1. Lifecycle!Moves(j, {"leased"}, {"running"}, r.lease.worker)
      BY <1>1, <2>1, MoveMaps
    <3> QED
      BY <2>1, <3>1
  <2>5. Lifecycle!Run(j, c)
    BY <1>1, <2>1, <2>2, <2>3, <2>4 DEF Lifecycle!Run
  <2> QED
    BY <1>1, <2>5 DEF Lifecycle!Next
<1>5. CASE calls[c].op \in {"release", "recover"}
  <2>1. /\ executors' = executors
        /\ jobs[j].status \in {"leased"}
        /\ r.status \in {"queued"} /\ r.lease.worker = NoWorker
    BY <1>1, <1>5 DEF Effect, ExecutorsAfter, LeaseMatches, LeasedStatus, j, r
  <2>2. Lifecycle!GiveBack(j)
    BY <1>1, <2>1, MoveMaps DEF Lifecycle!GiveBack
  <2> QED
    BY <1>1, <2>2 DEF Lifecycle!Next
<1>6. CASE calls[c].op = "renew"
  <2>1. /\ executors' = executors
        /\ r.status = jobs[j].status /\ r.lease.worker = jobs[j].lease.worker
    BY <1>1, <1>6 DEF Effect, ExecutorsAfter, j, r
  <2>2. \A k \in Job : /\ jobs'[k].status = jobs[k].status
                        /\ jobs'[k].lease.worker = jobs[k].lease.worker
    BY <1>1, <2>1
  <2> QED
    BY <2>1, <2>2 DEF Lifecycle!vars
<1>7. CASE calls[c].op = "report"
  <2>1. /\ c \in executors[j] /\ r.status \in ReportTargets
        /\ CanTransition(jobs[j].status, r.status)
        /\ executors' = [executors EXCEPT ![j] = @ \ {c}]
    BY <1>1, <1>7 DEF Effect, ExecutorsAfter, j, r
  <2>2. executors[j] = {c}
    BY <1>1, <2>1 DEF IInv, RunnerInv
  <2>3. executors' = [executors EXCEPT ![j] = {}]
    BY <2>1, <2>2
  <2>4. r.lease.worker = NoWorker
    BY <1>1, <2>1, QueueAssumption DEF LeaseMatches, LeasedStatus
  <2>5. jobs[j].status \in {"running", "cancellation_requested"} \cup TerminalStatus
    BY <1>1, <2>2 DEF IInv, RunnerInv
  <2>6. \/ /\ jobs[j].status \in {"running"}
           /\ r.status \in {"succeeded", "failed", "retry_scheduled",
                            "dead_lettered"}
        \/ /\ jobs[j].status \in {"cancellation_requested"}
           /\ r.status \in {"succeeded", "failed", "dead_lettered"}
    BY <2>1, <2>5, QueueAssumption
       DEF CanTransition, AllowedTransitions, Status, TerminalStatus
  <2>7. \/ Lifecycle!Moves(j, {"running"},
                {"succeeded", "failed", "retry_scheduled", "dead_lettered"},
                NoWorker)
        \/ Lifecycle!Moves(j, {"cancellation_requested"},
                {"succeeded", "failed", "dead_lettered"}, NoWorker)
    <3>1. CASE jobs[j].status \in {"running"}
      BY <1>1, <2>4, <2>6, <3>1, MoveMaps
    <3>2. CASE jobs[j].status \in {"cancellation_requested"}
      BY <1>1, <2>4, <2>6, <3>2, MoveMaps
    <3> QED
      BY <2>6, <3>1, <3>2
  <2>8. Lifecycle!Finish(j, c)
    BY <2>2, <2>3, <2>7 DEF Lifecycle!Finish
  <2> QED
    BY <1>1, <2>8 DEF Lifecycle!Next
<1> QED
  BY <1>1, <1>2, <1>3, <1>4, <1>5, <1>6, <1>7 DEF Effect

(* Every step of the queue is a step of the lifecycle, or changes nothing    *)
(* that it knows of.                                                         *)
LEMMA StepMaps == IInv /\ [Next]_vars => [Lifecycle!Next]_Lifecycle!vars
<1> SUFFICES ASSUME IInv, [Next]_vars
             PROVE  [Lifecycle!Next]_Lifecycle!vars
  OBVIOUS
<1>1. CASE UNCHANGED <<jobs, executors>>
  BY <1>1 DEF Lifecycle!vars
<1>2. ASSUME NEW j \in Job, Submit(j)
      PROVE  Lifecycle!Next
  <2>1. PICK p \in Priorities, d \in Delays :
            jobs' = [jobs EXCEPT ![j] = SubmittedRecord(p, d)]
    BY <1>2 DEF Submit
  <2> DEFINE r == SubmittedRecord(p, d)
  <2>2. r.status \in {"pending", "scheduled"} /\ r.lease.worker = NoWorker
    BY DEF SubmittedRecord, Absent, NoLease
  <2>3. jobs[j].status \in {"absent"} /\ executors' = executors
    BY <1>2 DEF Submit, Stored
  <2>4. jobs' = [jobs EXCEPT ![j] = r] /\ jobs \in [Job -> Record]
    BY <2>1 DEF IInv, TypeOK
  <2> HIDE DEF r
  <2>5. Lifecycle!Submit(j)
    BY <2>2, <2>3, <2>4, MoveMaps DEF Lifecycle!Submit
  <2> QED
    BY <2>5 DEF Lifecycle!Next
<1>3. ASSUME NEW c \in Worker, Crash(c)
      PROVE  Lifecycle!Next
  <2>1. executors' = [k \in Job |-> IF k \in Job THEN executors[k] \ {c}
                                                 ELSE executors[k]]
    BY <1>3 DEF Crash
  <2>2. Lifecycle!Quit(c)
    BY <1>3, <2>1 DEF Lifecycle!Quit, Crash
  <2> QED
    BY <2>2 DEF Lifecycle!Next
<1>4. ASSUME NEW c \in Worker, NEW w \in calls[c].writes, UpdateAccepted(w),
             jobs' = [jobs EXCEPT ![w.job] = w.updated],
             executors' = ExecutorsAfter(c, w)
      PROVE  [Lifecycle!Next]_Lifecycle!vars
  BY <1>4, CommitMaps
<1> QED
  BY <1>1, <1>2, <1>3, <1>4, StepKinds

(* The job queue implements the atomic job lifecycle: reading a record,      *)
(* deciding and updating it with expected_version takes effect as one step   *)
(* or not at all, whatever the other callers do in between.                  *)
THEOREM QueueImplementsLifecycle == Spec => ImplementsLifecycle
<1>1. Init => Lifecycle!Init
  BY AbsentType, NoLeaseType DEF Init, Lifecycle!Init, Absent
<1>2. IInv /\ [Next]_vars => [Lifecycle!Next]_Lifecycle!vars
  BY StepMaps
<1> QED
  BY <1>1, <1>2, Invariance, PTL DEF Spec, ImplementsLifecycle, Lifecycle!Spec
-----------------------------------------------------------------------------
(* The stored records: what each call may have prepared, that prepared        *)
(* writes keep their types even where the versions of the records are not     *)
(* monotonic, that stored records stay sound, and who takes an active lease   *)
(* from its owner.                                                           *)

(* What calls prepare.                                                       *)

(* The write w is what the operation op of c prepares from the stored record *)
(* of its job at the time now.                                               *)
Prepared(op, c, now, w) ==
    \E j \in Job :
        \/ /\ op = "enqueue"
           /\ AvailableForQueueAt(jobs[j], now)
           /\ w = EnqueueWrite(j, now)
        \/ /\ op = "acquire"
           /\ jobs[j].status = "queued" /\ jobs[j].available_at <= now
           /\ \E d \in LeaseDurations :
                 w = Writing(j, [jobs[j] EXCEPT
                         !.status = "leased",
                         !.lease = [worker |-> c, acquired_at |-> now,
                                    expires_at |-> now + d]])
        \/ /\ op = "start"
           /\ HoldsLease(jobs[j], c, now)
           /\ CanTransition(jobs[j].status, "running")
           /\ w = Writing(j, [jobs[j] EXCEPT !.status = "running", !.started_at = now])
        \/ /\ op = "release"
           /\ HoldsLease(jobs[j], c, now)
           /\ jobs[j].status = "leased"
           /\ w = Writing(j, [jobs[j] EXCEPT !.status = "queued", !.lease = NoLease])
        \/ /\ op = "renew"
           /\ HoldsLease(jobs[j], c, now)
           /\ \E d \in LeaseDurations :
                 w = Writing(j, [jobs[j] EXCEPT !.lease.expires_at = now + d])
        \/ /\ op = "recover"
           /\ jobs[j].status = "leased"
           /\ ~LeaseActiveAt(jobs[j].lease, now)
           /\ w = Writing(j, [jobs[j] EXCEPT !.status = "queued", !.lease = NoLease])
        \/ /\ op = "report"
           /\ c \in executors[j]
           /\ \E target \in ReportTargets, f \in Failure :
                 /\ CanTransition(jobs[j].status, target)
                 /\ ValidRecord(ReportedRecord(jobs[j], target, f, now))
                 /\ w = Writing(j, ReportedRecord(jobs[j], target, f, now))

(* The same, field by field: what an operation may do to the record r it     *)
(* read to make the record u it stores.                                      *)
Updates(op, c, now, r, u) ==
    /\ u.record_version = r.record_version + 1
    /\ u.created_at = r.created_at /\ u.available_at = r.available_at
    /\ u.attempt_number = r.attempt_number /\ u.previous_attempt = r.previous_attempt
    /\ op # "report" => /\ u.failure = r.failure
                        /\ u.cancellation = r.cancellation
                        /\ u.finished_at = r.finished_at
    /\ op # "enqueue" => u.queued_at = r.queued_at
    /\ op # "start" => u.started_at = r.started_at
    /\ \/ /\ op = "enqueue"
          /\ r.status \in EnqueueableStatus /\ r.available_at <= now
          /\ u.status = "queued" /\ u.queued_at = now /\ u.lease = r.lease
       \/ /\ op = "acquire"
          /\ r.status = "queued" /\ r.available_at <= now
          /\ u.status = "leased" /\ u.lease.worker = c /\ u.lease.acquired_at = now
       \/ /\ op = "start"
          /\ r.status = "leased" /\ r.lease.worker = c /\ r.lease.acquired_at <= now
          /\ u.status = "running" /\ u.started_at = now /\ u.lease = r.lease
       \/ /\ op = "release"
          /\ r.status = "leased" /\ r.lease.worker = c
          /\ u.status = "queued" /\ u.lease = NoLease
       \/ /\ op = "renew"
          /\ r.lease.worker = c
          /\ u.status = r.status /\ u.lease.worker = c
          /\ u.lease.acquired_at = r.lease.acquired_at
       \/ /\ op = "recover"
          /\ r.status = "leased" /\ ~LeaseActiveAt(r.lease, now)
          /\ u.status = "queued" /\ u.lease = NoLease
       \/ /\ op = "report"
          /\ u.status \in ReportTargets /\ CanTransition(r.status, u.status)
          /\ u.lease = NoLease /\ u.cancellation = 0 /\ ValidRecord(u)
          /\ u.finished_at \in {now, r.finished_at}

(* A prepared record keeps every field of the record it is written from but  *)
(* the version.                                                              *)
LEMMA WritingFields ==
    ASSUME TypeOK, NEW j \in Job, NEW r \in Record
    PROVE  LET u == Writing(j, r).updated IN
           /\ u.status = r.status /\ u.lease = r.lease /\ u.failure = r.failure
           /\ u.cancellation = r.cancellation /\ u.attempt_number = r.attempt_number
           /\ u.previous_attempt = r.previous_attempt
           /\ u.created_at = r.created_at /\ u.available_at = r.available_at
           /\ u.queued_at = r.queued_at /\ u.started_at = r.started_at
           /\ u.finished_at = r.finished_at
  BY DEF TypeOK, Writing, Record

(* Validity does not look at the version.                                    *)
LEMMA ValidVersions ==
    ASSUME TypeOK, NEW j \in Job, NEW r \in Record, ValidRecord(r)
    PROVE  ValidRecord(Writing(j, r).updated)
<1> DEFINE u == Writing(j, r).updated
<1>1. /\ u.status = r.status /\ u.lease = r.lease /\ u.failure = r.failure
      /\ u.cancellation = r.cancellation /\ u.attempt_number = r.attempt_number
      /\ u.previous_attempt = r.previous_attempt
      /\ u.created_at = r.created_at /\ u.available_at = r.available_at
      /\ u.queued_at = r.queued_at /\ u.started_at = r.started_at
      /\ u.finished_at = r.finished_at
  BY WritingFields
<1> HIDE DEF u
<1> QED
  BY <1>1 DEF ValidRecord, ValidTimestamps, ValidStatusContract, u

(* What is prepared is a write of a record, as Updates says.                 *)
LEMMA PreparedUpdates ==
    ASSUME TypeOK, NEW op, NEW c \in Worker, NEW now \in Int, NEW w,
           Prepared(op, c, now, w)
    PROVE  /\ w \in Write /\ w.seen = jobs[w.job]
           /\ Updates(op, c, now, w.seen, w.updated)
<1> DEFINE Goal == /\ w \in Write /\ w.seen = jobs[w.job]
                   /\ Updates(op, c, now, w.seen, w.updated)
<1>1. \A j \in Job : jobs[j] \in Record
  BY DEF TypeOK
<1>2. NoLease \in Lease /\ NoTime \in Int
  BY NoLeaseType DEF NoTime
<1>3. ASSUME NEW j \in Job, AvailableForQueueAt(jobs[j], now), op = "enqueue",
             w = EnqueueWrite(j, now)
      PROVE  Goal
  <2>1. PICK r : r = [jobs[j] EXCEPT !.status = "queued", !.queued_at = now]
    OBVIOUS
  <2>2. r \in Record
    BY <1>1, <2>1 DEF Record, Status
  <2>3. w = Writing(j, r)
    BY <1>3, <2>1 DEF EnqueueWrite
  <2>4. /\ r.status = "queued" /\ r.queued_at = now /\ r.lease = jobs[j].lease
        /\ r.failure = jobs[j].failure /\ r.cancellation = jobs[j].cancellation
        /\ r.attempt_number = jobs[j].attempt_number
        /\ r.previous_attempt = jobs[j].previous_attempt
        /\ r.created_at = jobs[j].created_at /\ r.available_at = jobs[j].available_at
        /\ r.started_at = jobs[j].started_at /\ r.finished_at = jobs[j].finished_at
    BY <1>1, <2>1 DEF Record
  <2> QED
    BY <1>3, <2>2, <2>3, <2>4, WritingType, WritingFields DEF Updates, AvailableForQueueAt
<1>4. ASSUME NEW j \in Job, jobs[j].status = "queued", op = "acquire",
             jobs[j].available_at <= now, NEW d \in LeaseDurations,
             w = Writing(j, [jobs[j] EXCEPT
                         !.status = "leased",
                         !.lease = [worker |-> c, acquired_at |-> now,
                                    expires_at |-> now + d]])
      PROVE  Goal
  <2>1. PICK l : l = [worker |-> c, acquired_at |-> now, expires_at |-> now + d]
    OBVIOUS
  <2>2. l \in Lease /\ l.worker = c /\ l.acquired_at = now
    BY <2>1, QueueAssumption DEF Lease
  <2>3. PICK r : r = [jobs[j] EXCEPT !.status = "leased", !.lease = l]
    OBVIOUS
  <2>4. r \in Record
    BY <1>1, <2>2, <2>3 DEF Record, Status
  <2>5. w = Writing(j, r)
    BY <1>4, <2>1, <2>3
  <2>6. /\ r.status = "leased" /\ r.queued_at = jobs[j].queued_at /\ r.lease = l
        /\ r.failure = jobs[j].failure /\ r.cancellation = jobs[j].cancellation
        /\ r.attempt_number = jobs[j].attempt_number
        /\ r.previous_attempt = jobs[j].previous_attempt
        /\ r.created_at = jobs[j].created_at /\ r.available_at = jobs[j].available_at
        /\ r.started_at = jobs[j].started_at /\ r.finished_at = jobs[j].finished_at
    BY <1>1, <2>3 DEF Record
  <2> QED
    BY <1>4, <2>2, <2>4, <2>5, <2>6, WritingType, WritingFields DEF Updates
<1>5. ASSUME NEW j \in Job, HoldsLease(jobs[j], c, now), op = "start",
             CanTransition(jobs[j].status, "running"),
             w = Writing(j, [jobs[j] EXCEPT !.status = "running", !.started_at = now])
      PROVE  Goal
  <2>1. PICK r : r = [jobs[j] EXCEPT !.status = "running", !.started_at = now]
    OBVIOUS
  <2>2. r \in Record
    BY <1>1, <2>1 DEF Record, Status
  <2>3. w = Writing(j, r)
    BY <1>5, <2>1
  <2>4. /\ r.status = "running" /\ r.queued_at = jobs[j].queued_at
        /\ r.lease = jobs[j].lease
        /\ r.failure = jobs[j].failure /\ r.cancellation = jobs[j].cancellation
        /\ r.attempt_number = jobs[j].attempt_number
        /\ r.previous_attempt = jobs[j].previous_attempt
        /\ r.created_at = jobs[j].created_at /\ r.available_at = jobs[j].available_at
        /\ r.started_at = now /\ r.finished_at = jobs[j].finished_at
    BY <1>1, <2>1 DEF Record
  <2>5. /\ jobs[j].status = "leased" /\ jobs[j].lease.worker = c
        /\ jobs[j].lease.acquired_at <= now
    BY <1>5 DEF HoldsLease, LeaseActiveAt, CanTransition, AllowedTransitions, Status
  <2> QED
    BY <1>5, <2>2, <2>3, <2>4, <2>5, WritingType, WritingFields DEF Updates
<1>6. ASSUME NEW j \in Job, op \in {"release", "recover"}, jobs[j].status = "leased",
             op = "release" => HoldsLease(jobs[j], c, now),
             op = "recover" => ~LeaseActiveAt(jobs[j].lease, now),
             w = Writing(j, [jobs[j] EXCEPT !.status = "queued", !.lease = NoLease])
      PROVE  Goal
  <2>1. PICK r : r = [jobs[j] EXCEPT !.status = "queued", !.lease = NoLease]
    OBVIOUS
  <2>2. r \in Record
    BY <1>1, <1>2, <2>1 DEF Record, Status
  <2>3. w = Writing(j, r)
    BY <1>6, <2>1
  <2>4. /\ r.status = "queued" /\ r.queued_at = jobs[j].queued_at /\ r.lease = NoLease
        /\ r.failure = jobs[j].failure /\ r.cancellation = jobs[j].cancellation
        /\ r.attempt_number = jobs[j].attempt_number
        /\ r.previous_attempt = jobs[j].previous_attempt
        /\ r.created_at = jobs[j].created_at /\ r.available_at = jobs[j].available_at
        /\ r.started_at = jobs[j].started_at /\ r.finished_at = jobs[j].finished_at
    BY <1>1, <2>1 DEF Record
  <2> QED
    BY <1>6, <2>2, <2>3, <2>4, WritingType, WritingFields DEF Updates, HoldsLease
<1>7. ASSUME NEW j \in Job, HoldsLease(jobs[j], c, now), op = "renew",
             NEW d \in LeaseDurations,
             w = Writing(j, [jobs[j] EXCEPT !.lease.expires_at = now + d])
      PROVE  Goal
  <2>1. PICK r : r = [jobs[j] EXCEPT !.lease.expires_at = now + d]
    OBVIOUS
  <2>2. /\ r \in Record /\ r.lease.worker = jobs[j].lease.worker
        /\ r.lease.acquired_at = jobs[j].lease.acquired_at
    BY <1>1, <2>1, QueueAssumption DEF Record, Lease
  <2>3. w = Writing(j, r)
    BY <1>7, <2>1
  <2>4. /\ r.status = jobs[j].status /\ r.queued_at = jobs[j].queued_at
        /\ r.failure = jobs[j].failure /\ r.cancellation = jobs[j].cancellation
        /\ r.attempt_number = jobs[j].attempt_number
        /\ r.previous_attempt = jobs[j].previous_attempt
        /\ r.created_at = jobs[j].created_at /\ r.available_at = jobs[j].available_at
        /\ r.started_at = jobs[j].started_at /\ r.finished_at = jobs[j].finished_at
    BY <1>1, <2>1 DEF Record
  <2> QED
    BY <1>7, <2>2, <2>3, <2>4, WritingType, WritingFields DEF Updates, HoldsLease
<1>8. ASSUME NEW j \in Job, op = "report", NEW target \in ReportTargets, NEW f \in Failure,
             CanTransition(jobs[j].status, target),
             ValidRecord(ReportedRecord(jobs[j], target, f, now)),
             w = Writing(j, ReportedRecord(jobs[j], target, f, now))
      PROVE  Goal
  <2>1. PICK t : t = IF target \in TerminalStatus THEN now ELSE jobs[j].finished_at
    OBVIOUS
  <2>2. t \in Int /\ target \in Status
    BY <1>1, <2>1, QueueAssumption DEF Record, Status
  <2>3. PICK r : r = ReportedRecord(jobs[j], target, f, now)
    OBVIOUS
  <2>4. r = [jobs[j] EXCEPT !.status = target, !.lease = NoLease, !.cancellation = 0,
                            !.failure = f, !.finished_at = t]
    BY <2>1, <2>3 DEF ReportedRecord
  <2>5. r \in Record
    BY <1>1, <1>2, <2>2, <2>4 DEF Record
  <2>6. w = Writing(j, r) /\ ValidRecord(r)
    BY <1>8, <2>3
  <2>7. /\ r.status = target /\ r.queued_at = jobs[j].queued_at /\ r.lease = NoLease
        /\ r.cancellation = 0
        /\ r.attempt_number = jobs[j].attempt_number
        /\ r.previous_attempt = jobs[j].previous_attempt
        /\ r.created_at = jobs[j].created_at /\ r.available_at = jobs[j].available_at
        /\ r.started_at = jobs[j].started_at /\ r.finished_at = t
    BY <1>1, <2>4 DEF Record
  <2>8. ValidRecord(w.updated)
    BY <2>5, <2>6, ValidVersions
  <2> QED
    BY <1>8, <2>1, <2>5, <2>6, <2>7, <2>8, WritingType, WritingFields DEF Updates
<1> HIDE DEF Goal
<1>9. Goal
  BY <1>3, <1>4, <1>5, <1>6, <1>7, <1>8 DEF Prepared
<1> QED
  BY <1>9 DEF Goal

(* A call that begins has prepared its writes at a time its caller read.     *)
LEMMA BeginPrepares ==
    ASSUME TypeOK, NEW c \in Worker, NEW op \in Op, NEW now \in CallTimes, NEW writes,
           NEW due \in SUBSET Job,
           Begin(c, op, now, writes, due),
           \A w \in writes : Prepared(op, c, now, w)
    PROVE  /\ calls' \in [Worker -> Call]
           /\ calls'[c].now \in CallTimes
           /\ \A w \in calls'[c].writes : Prepared(calls'[c].op, c, calls'[c].now, w)
           /\ \A d \in Worker \ {c} : calls'[d] = calls[d]
           /\ UNCHANGED <<jobs, executors, clock>>
<1>1. now \in Int
  BY DEF CallTimes
<1>2. writes \in SUBSET Write
  BY <1>1, PreparedUpdates
<1>3. calls' \in [Worker -> Call]
  BY <1>1, <1>2 DEF TypeOK, Begin, Call
<1>4. calls'[c].op = op /\ calls'[c].now = now /\ calls'[c].writes = writes
  BY DEF TypeOK, Begin
<1> QED
  BY <1>3, <1>4 DEF TypeOK, Begin

(* Every call prepares its writes from what is stored when it begins, and    *)
(* enqueue_due_jobs the next one when its turn comes.                        *)
LEMMA CallsPrepare ==
    ASSUME TypeOK, NEW c \in Worker,
           \/ \E j \in Job : JobCall(c, j)
           \/ EnqueueDue(c) \/ Acquire(c) \/ RecoverExpired(c)
    PROVE  /\ calls' \in [Worker -> Call]
           /\ calls'[c].now \in CallTimes
           /\ \A w \in calls'[c].writes : Prepared(calls'[c].op, c, calls'[c].now, w)
           /\ \A d \in Worker \ {c} : calls'[d] = calls[d]
           /\ UNCHANGED <<jobs, executors, clock>>
<1> DEFINE Opens ==
        /\ calls' \in [Worker -> Call]
        /\ calls'[c].now \in CallTimes
        /\ \A w \in calls'[c].writes : Prepared(calls'[c].op, c, calls'[c].now, w)
        /\ \A d \in Worker \ {c} : calls'[d] = calls[d]
        /\ UNCHANGED <<jobs, executors, clock>>
<1> USE DEF Op
<1>0. ASSUME NEW op \in Op, NEW now \in CallTimes, NEW w,
             Begin(c, op, now, {w}, {}), Prepared(op, c, now, w)
      PROVE  Opens
  BY <1>0, BeginPrepares
<1>1. ASSUME NEW j \in Job, Enqueue(c, j) PROVE Opens
  <2>1. PICK now \in CallTimes : /\ AvailableForQueueAt(jobs[j], now)
                                 /\ Begin(c, "enqueue", now, {EnqueueWrite(j, now)}, {})
    BY <1>1 DEF Enqueue
  <2>2. Prepared("enqueue", c, now, EnqueueWrite(j, now))
    BY <2>1 DEF Prepared
  <2> QED
    BY <1>0, <2>1, <2>2
<1>2. ASSUME NEW j \in Job, Start(c, j) PROVE Opens
  <2> DEFINE W(now) == Writing(j, [jobs[j] EXCEPT !.status = "running", !.started_at = now])
  <2>1. PICK now \in CallTimes : /\ HoldsLease(jobs[j], c, now)
                                 /\ CanTransition(jobs[j].status, "running")
                                 /\ Begin(c, "start", now, {W(now)}, {})
    BY <1>2 DEF Start
  <2>2. Prepared("start", c, now, W(now))
    BY <2>1 DEF Prepared
  <2> QED
    BY <1>0, <2>1, <2>2
<1>3. ASSUME NEW j \in Job, Release(c, j) PROVE Opens
  <2> DEFINE W == Writing(j, [jobs[j] EXCEPT !.status = "queued", !.lease = NoLease])
  <2>1. PICK now \in CallTimes : /\ HoldsLease(jobs[j], c, now)
                                 /\ jobs[j].status = "leased"
                                 /\ Begin(c, "release", now, {W}, {})
    BY <1>3 DEF Release
  <2>2. Prepared("release", c, now, W)
    BY <2>1 DEF Prepared
  <2> QED
    BY <1>0, <2>1, <2>2
<1>4. ASSUME NEW j \in Job, Renew(c, j) PROVE Opens
  <2> DEFINE W(now, d) == Writing(j, [jobs[j] EXCEPT !.lease.expires_at = now + d])
  <2>1. PICK now \in CallTimes, d \in LeaseDurations :
            HoldsLease(jobs[j], c, now) /\ Begin(c, "renew", now, {W(now, d)}, {})
    BY <1>4 DEF Renew
  <2>2. Prepared("renew", c, now, W(now, d))
    BY <2>1 DEF Prepared
  <2> QED
    BY <1>0, <2>1, <2>2
<1>5. ASSUME NEW j \in Job, Report(c, j) PROVE Opens
  <2> DEFINE W(now, target, f) == Writing(j, ReportedRecord(jobs[j], target, f, now))
  <2>1. PICK now \in CallTimes, target \in ReportTargets, f \in Failure :
            /\ c \in executors[j]
            /\ CanTransition(jobs[j].status, target)
            /\ ValidRecord(ReportedRecord(jobs[j], target, f, now))
            /\ Begin(c, "report", now, {W(now, target, f)}, {})
    BY <1>5 DEF Report
  <2>2. Prepared("report", c, now, W(now, target, f))
    BY <2>1 DEF Prepared
  <2> QED
    BY <1>0, <2>1, <2>2
<1>6. ASSUME Acquire(c) PROVE Opens
  <2> DEFINE W(j, now, d) ==
          Writing(j, [jobs[j] EXCEPT !.status = "leased",
                                     !.lease = [worker |-> c, acquired_at |-> now,
                                                expires_at |-> now + d]])
  <2>1. PICK now \in CallTimes, d \in LeaseDurations :
            \E j \in AcquireCandidate(now) : Begin(c, "acquire", now, {W(j, now, d)}, {})
    BY <1>6 DEF Acquire
  <2>2. PICK j \in AcquireCandidate(now) : Begin(c, "acquire", now, {W(j, now, d)}, {})
    BY <2>1
  <2>3. j \in Job /\ jobs[j].status = "queued" /\ jobs[j].available_at <= now
    BY DEF AcquireCandidate, FindAvailable, Available
  <2>4. Prepared("acquire", c, now, W(j, now, d))
    BY <2>3 DEF Prepared
  <2> QED
    BY <1>0, <2>2, <2>4
<1>7. ASSUME RecoverExpired(c) PROVE Opens
  <2>1. PICK now \in CallTimes : Begin(c, "recover", now, RecoverWrites(now), {})
    BY <1>7 DEF RecoverExpired
  <2>2. \A w \in RecoverWrites(now) : Prepared("recover", c, now, w)
    BY DEF RecoverWrites, Page, Prepared
  <2> QED
    BY <2>1, <2>2, BeginPrepares
<1>8. ASSUME EnqueueDue(c) PROVE Opens
  <2>1. PICK now \in CallTimes : Begin(c, "enqueue", now, {}, Page(DueJobs(now)))
    BY <1>8 DEF EnqueueDue
  <2>2. \A w \in {} : Prepared("enqueue", c, now, w)
    OBVIOUS
  <2>3. Page(DueJobs(now)) \in SUBSET Job
    BY DEF Page, DueJobs
  <2> QED
    BY <2>1, <2>2, <2>3, BeginPrepares
<1> HIDE DEF Opens
<1>9. Opens
  BY <1>1, <1>2, <1>3, <1>4, <1>5, <1>6, <1>7, <1>8 DEF JobCall
<1> QED
  BY <1>9 DEF Opens

(* Every write a call holds after a step it held before, or has just         *)
(* prepared: the whole call at a time its caller read, or the next job of    *)
(* enqueue_due_jobs at the time of that call.                                *)
LEMMA StepWrites ==
    ASSUME TypeOK, [Next]_vars, NEW c \in Worker, NEW w \in calls'[c].writes
    PROVE  \/ /\ w \in calls[c].writes
              /\ calls'[c].op = calls[c].op /\ calls'[c].now = calls[c].now
           \/ /\ calls'[c].now \in CallTimes
              /\ Prepared(calls'[c].op, c, calls'[c].now, w)
           \/ /\ calls[c].due # {}
              /\ calls'[c].op = calls[c].op /\ calls'[c].now = calls[c].now
              /\ Prepared("enqueue", c, calls[c].now, w)
<1> DEFINE Goal ==
        \/ /\ w \in calls[c].writes
           /\ calls'[c].op = calls[c].op /\ calls'[c].now = calls[c].now
        \/ /\ calls'[c].now \in CallTimes
           /\ Prepared(calls'[c].op, c, calls'[c].now, w)
        \/ /\ calls[c].due # {}
           /\ calls'[c].op = calls[c].op /\ calls'[c].now = calls[c].now
           /\ Prepared("enqueue", c, calls[c].now, w)
<1>1. CASE calls'[c] = calls[c]
  BY <1>1
<1>2. ASSUME NEW d \in Worker,
             \/ \E j \in Job : JobCall(d, j)
             \/ EnqueueDue(d) \/ Acquire(d) \/ RecoverExpired(d)
      PROVE  Goal
  BY <1>1, <1>2, CallsPrepare
<1>3. ASSUME EnqueueNext(c) PROVE Goal
  <2>1. PICK j \in calls[c].due :
            \/ /\ AvailableForQueueAt(jobs[j], calls[c].now)
               /\ calls' = [calls EXCEPT
                                ![c].writes = {EnqueueWrite(j, calls[c].now)},
                                ![c].due = @ \ {j}]
            \/ calls' = [calls EXCEPT ![c] = Idle]
    BY <1>3 DEF EnqueueNext
  <2>2. CASE calls' = [calls EXCEPT ![c] = Idle]
    BY <2>2 DEF Idle, TypeOK
  <2>3. CASE /\ AvailableForQueueAt(jobs[j], calls[c].now)
             /\ calls' = [calls EXCEPT
                              ![c].writes = {EnqueueWrite(j, calls[c].now)},
                              ![c].due = @ \ {j}]
    <3>1. /\ calls'[c].writes = {EnqueueWrite(j, calls[c].now)}
          /\ calls'[c].op = calls[c].op /\ calls'[c].now = calls[c].now
      BY <2>3 DEF TypeOK, Call
    <3>2. j \in Job
      BY DEF TypeOK, Call
    <3>3. Prepared("enqueue", c, calls[c].now, EnqueueWrite(j, calls[c].now))
      BY <2>3, <3>2 DEF Prepared
    <3> QED
      BY <2>1, <3>1, <3>3
  <2> QED
    BY <2>1, <2>2, <2>3
<1>4. ASSUME Commit(c) PROVE Goal
  <2>1. PICK v \in calls[c].writes :
            \/ calls' = [calls EXCEPT ![c] = Remaining(@, v)]
            \/ calls' = [calls EXCEPT ![c] = Idle]
    BY <1>4 DEF Commit
  <2>2. CASE calls' = [calls EXCEPT ![c] = Idle]
    BY <2>2 DEF Idle, TypeOK
  <2>3. CASE calls' = [calls EXCEPT ![c] = Remaining(@, v)]
    <3>1. calls'[c] = Remaining(calls[c], v)
      BY <2>3 DEF TypeOK
    <3> QED
      BY <3>1 DEF Remaining, Idle, TypeOK, Call
  <2> QED
    BY <2>1, <2>2, <2>3
<1>5. ASSUME NEW d \in Worker, d # c, QueueCall(d)
      PROVE  Goal
  <2>1. CASE EnqueueNext(d) \/ Commit(d) \/ Crash(d)
    <3>1. calls'[c] = calls[c]
      BY <1>5, <2>1 DEF EnqueueNext, Commit, Crash, TypeOK
    <3> QED
      BY <1>1, <3>1
  <2> QED
    BY <1>2, <1>5, <2>1 DEF QueueCall
<1>6. ASSUME Crash(c) PROVE Goal
  BY <1>6 DEF Crash, Idle, TypeOK
<1>7. ASSUME (\E j \in Job : Submit(j)) \/ Tick \/ UNCHANGED vars
      PROVE  Goal
  BY <1>1, <1>7 DEF Submit, Tick, vars
<1> HIDE DEF Goal
<1>8. ASSUME NEW d \in Worker, QueueCall(d)
      PROVE  Goal
  <2>1. CASE d = c
    BY <1>2, <1>3, <1>4, <1>6, <1>8, <2>1 DEF QueueCall
  <2> QED
    BY <1>5, <1>8, <2>1
<1>9. Goal
  BY <1>2, <1>7, <1>8 DEF Next
<1> QED
  BY <1>9 DEF Goal

(* A record that appears in the repository is a new job's or was prepared.   *)
LEMMA StepRecords ==
    ASSUME TypeOK, [Next]_vars, NEW j \in Job
    PROVE  \/ jobs'[j] = jobs[j]
           \/ /\ ~Stored(jobs[j])
              /\ \E p \in Priorities, d \in Delays : jobs'[j] = SubmittedRecord(p, d)
           \/ \E c \in Worker : \E w \in calls[c].writes :
                 UpdateAccepted(w) /\ w.job = j /\ jobs'[j] = w.updated
<1>1. CASE jobs' = jobs
  BY <1>1
<1>2. ASSUME NEW k \in Job, Submit(k)
      PROVE  \/ jobs'[j] = jobs[j]
             \/ /\ ~Stored(jobs[j])
                /\ \E p \in Priorities, d \in Delays : jobs'[j] = SubmittedRecord(p, d)
  <2>1. PICK p \in Priorities, d \in Delays :
            jobs' = [jobs EXCEPT ![k] = SubmittedRecord(p, d)]
    BY <1>2 DEF Submit
  <2>2. jobs'[j] = IF j = k THEN SubmittedRecord(p, d) ELSE jobs[j]
    BY <2>1 DEF TypeOK
  <2> QED
    BY <1>2, <2>2 DEF Submit
<1>3. ASSUME NEW c \in Worker, NEW w \in calls[c].writes, UpdateAccepted(w),
             jobs' = [jobs EXCEPT ![w.job] = w.updated]
      PROVE  jobs'[j] = jobs[j] \/ (w.job = j /\ jobs'[j] = w.updated)
  BY <1>3 DEF TypeOK
<1> QED
  BY <1>1, <1>2, <1>3, StepKinds DEF Crash

(* Types alone are kept by every step of the queue, whatever else was done   *)
(* to the repository before.                                                 *)
LEMMA TypesStep == TypeOK /\ [Next]_vars => TypeOK'
<1> SUFFICES ASSUME TypeOK, [Next]_vars PROVE TypeOK'
  OBVIOUS
<1>1. ASSUME NEW c \in Worker,
             \/ \E j \in Job : JobCall(c, j)
             \/ EnqueueDue(c) \/ Acquire(c) \/ RecoverExpired(c)
      PROVE  TypeOK'
  BY <1>1, CallsPrepare DEF TypeOK
<1>2. Idle \in Call
  BY DEF Idle, Call, Op
<1>3. ASSUME NEW c \in Worker, calls' = [calls EXCEPT ![c] = Idle],
             UNCHANGED <<jobs, clock>>, executors' \in [Job -> SUBSET Worker]
      PROVE  TypeOK'
  BY <1>2, <1>3 DEF TypeOK
<1>4. ASSUME NEW c \in Worker, EnqueueNext(c) PROVE TypeOK'
  <2>1. PICK j \in calls[c].due :
            \/ /\ AvailableForQueueAt(jobs[j], calls[c].now)
               /\ calls' = [calls EXCEPT
                                ![c].writes = {EnqueueWrite(j, calls[c].now)},
                                ![c].due = @ \ {j}]
            \/ calls' = [calls EXCEPT ![c] = Idle]
    BY <1>4 DEF EnqueueNext
  <2>2. UNCHANGED <<jobs, executors, clock>>
    BY <1>4 DEF EnqueueNext
  <2>3. j \in Job /\ calls[c].now \in Int /\ calls[c] \in Call
    BY DEF TypeOK, Call
  <2>4. CASE AvailableForQueueAt(jobs[j], calls[c].now)
    <3>1. PICK w : w = EnqueueWrite(j, calls[c].now)
      OBVIOUS
    <3>2. Prepared("enqueue", c, calls[c].now, w)
      BY <2>3, <2>4, <3>1 DEF Prepared
    <3>3. w \in Write
      BY <2>3, <3>2, PreparedUpdates
    <3>4. CASE calls' = [calls EXCEPT ![c].writes = {EnqueueWrite(j, calls[c].now)},
                                      ![c].due = @ \ {j}]
      BY <2>2, <2>3, <3>1, <3>3, <3>4 DEF TypeOK, Call
    <3> QED
      BY <1>3, <2>1, <2>2, <3>4 DEF TypeOK
  <2> QED
    BY <1>3, <2>1, <2>2, <2>4 DEF TypeOK
<1>5. ASSUME NEW c \in Worker, Commit(c) PROVE TypeOK'
  <2>1. PICK w \in calls[c].writes :
            \/ /\ jobs' = [jobs EXCEPT ![w.job] = w.updated]
               /\ executors' = ExecutorsAfter(c, w)
               /\ calls' = [calls EXCEPT ![c] = Remaining(@, w)]
            \/ /\ calls' = [calls EXCEPT ![c] = Idle]
               /\ UNCHANGED <<jobs, executors>>
    BY <1>5 DEF Commit
  <2>2. clock' = clock
    BY <1>5 DEF Commit
  <2>3. w \in Write /\ calls[c] \in Call
    BY DEF TypeOK, Call
  <2>4. w.job \in Job /\ w.updated \in Record
    BY <2>3 DEF Write
  <2>5. Remaining(calls[c], w) \in Call
    BY <1>2, <2>3 DEF Remaining, Call
  <2>6. ExecutorsAfter(c, w) \in [Job -> SUBSET Worker]
    BY <2>4 DEF ExecutorsAfter, TypeOK
  <2> QED
    BY <1>3, <2>1, <2>2, <2>4, <2>5, <2>6 DEF TypeOK
<1>6. ASSUME NEW c \in Worker, Crash(c) PROVE TypeOK'
  BY <1>3, <1>6 DEF Crash, TypeOK
<1>7. ASSUME NEW j \in Job, Submit(j) PROVE TypeOK'
  <2>1. PICK p \in Priorities, d \in Delays :
            jobs' = [jobs EXCEPT ![j] = SubmittedRecord(p, d)]
    BY <1>7 DEF Submit
  <2>2. SubmittedRecord(p, d) \in Record
    BY SubmittedType
  <2> QED
    BY <1>7, <2>1, <2>2 DEF Submit, TypeOK
<1>8. CASE Tick \/ UNCHANGED vars
  BY <1>8 DEF Tick, vars, TypeOK
<1> QED
  BY <1>1, <1>4, <1>5, <1>6, <1>7, <1>8 DEF Next, QueueCall

-----------------------------------------------------------------------------
(* What model_copy stores is sound, whatever time the callers pass and       *)
(* however often a job is queued again.                                      *)

(* The record of a job that is queued or at work.                            *)
AtWork(r) ==
    /\ r.attempt_number <= MaximumAttempts
    /\ r.attempt_number = 1 <=> r.previous_attempt = 0
    /\ r.created_at <= r.available_at /\ r.available_at <= r.queued_at
    /\ r.finished_at = NoTime /\ r.cancellation = 0
    /\ r.status \in LeasedStatus <=> r.lease.worker # NoWorker
    /\ (r.failure # "none" \/ r.status = "running") => r.started_at # NoTime

(* A sound record: what started or is leased was available by then, and a    *)
(* job that is to be retried has been started.                               *)
Sound(r) ==
    /\ IF r.status \in InQueue THEN AtWork(r) ELSE ValidRecord(r)
    /\ r.started_at # NoTime => r.started_at >= r.available_at
    /\ r.status = "retry_scheduled" => r.started_at # NoTime
    /\ r.status \in LeasedStatus => r.lease.acquired_at >= r.available_at

(* Stored and prepared records are sound; callers' times are not negative.   *)
SoundInv ==
    /\ \A j \in Job : Stored(jobs[j]) => Sound(jobs[j])
    /\ \A c \in Worker :
          /\ calls[c].now \in Nat
          /\ \A w \in calls[c].writes : Sound(w.updated)

(* A sound record of a job in the queue satisfies validate_record but for    *)
(* its failure and queued_at.                                                *)
LEMMA SoundValidates ==
    ASSUME NEW r \in Record, r.status \in InQueue, Sound(r)
    PROVE  SoundInQueue(r)
<1> DEFINE q == [r EXCEPT !.failure = "none", !.queued_at = r.available_at]
<1>1. /\ q.status = r.status /\ q.lease = r.lease /\ q.failure = "none"
      /\ q.cancellation = r.cancellation /\ q.attempt_number = r.attempt_number
      /\ q.previous_attempt = r.previous_attempt
      /\ q.created_at = r.created_at /\ q.available_at = r.available_at
      /\ q.queued_at = r.available_at /\ q.started_at = r.started_at
      /\ q.finished_at = r.finished_at
  BY DEF Record
<1>2. /\ r.created_at \in Int /\ r.queued_at \in Int /\ r.started_at \in Int
      /\ r.available_at \in Int /\ NoTime \in Int
  BY DEF Record, NoTime
<1>3. AtWork(r) /\ (r.started_at # NoTime => r.started_at >= r.available_at)
  BY DEF Sound
<1> HIDE DEF q
<1>4. ValidTimestamps(q)
  BY <1>1, <1>2, <1>3 DEF ValidTimestamps, AtWork
<1>5. ValidStatusContract(q)
  BY <1>1, <1>3 DEF ValidStatusContract, AtWork, InQueue, TerminalStatus, LeasedStatus,
                    FailureStatus, CancellationStatus
<1>6. ValidRecord(q)
  BY <1>1, <1>3, <1>4, <1>5 DEF ValidRecord, AtWork
<1> QED
  BY <1>2, <1>3, <1>6 DEF SoundInQueue, AtWork, q

(* What a call prepares from a sound record is sound.                        *)
LEMMA SoundUpdates ==
    ASSUME NEW op, NEW c \in Worker, NEW now \in Nat,
           NEW r \in Record, NEW u \in Record,
           Sound(r), Updates(op, c, now, r, u)
    PROVE  Sound(u)
<1>1. /\ r.created_at \in Int /\ r.queued_at \in Int /\ r.started_at \in Int
      /\ r.finished_at \in Int /\ r.available_at \in Int /\ r.attempt_number \in Nat
      /\ u.created_at \in Int /\ u.queued_at \in Int /\ u.started_at \in Int
      /\ u.finished_at \in Int /\ u.available_at \in Int
      /\ r.lease \in Lease /\ u.lease \in Lease
      /\ r.lease.acquired_at \in Int /\ u.lease.acquired_at \in Int
  BY DEF Record, Lease
<1>2. now \in Int /\ NoTime \in Int /\ now # NoTime
  BY DEF NoTime
<1>3. NoLease.acquired_at = NoTime /\ NoLease.worker = NoWorker /\ c # NoWorker
  BY WorkerAssumption DEF NoLease
<1>4. CASE op = "enqueue"
  <2>1. r.status \notin InQueue /\ r.status \in EnqueueableStatus
    BY <1>4 DEF Updates, EnqueueableStatus, InQueue
  <2>2. ValidRecord(r)
    BY <2>1 DEF Sound
  <2>3. r.finished_at = NoTime /\ r.cancellation = 0 /\ r.lease.worker = NoWorker
    BY <2>1, <2>2 DEF ValidRecord, ValidStatusContract, EnqueueableStatus,
                      TerminalStatus, CancellationStatus, LeasedStatus
  <2>4. r.failure # "none" => r.started_at # NoTime
    BY <2>1, <2>2 DEF ValidRecord, ValidStatusContract, EnqueueableStatus,
                      FailureStatus, Sound
  <2>5. r.created_at <= r.available_at
    BY <1>1, <2>2 DEF ValidRecord, ValidTimestamps
  <2>6. AtWork(u)
    BY <1>1, <1>2, <1>4, <2>2, <2>3, <2>4, <2>5
       DEF AtWork, Updates, ValidRecord, LeasedStatus
  <2> QED
    BY <1>4, <2>6 DEF Sound, Updates, InQueue, LeasedStatus
<1>5. CASE op \in {"acquire", "start", "release", "recover"}
  <2>1. r.status \in InQueue /\ u.status \in InQueue
    BY <1>5 DEF Updates, InQueue
  <2>2. AtWork(r)
    BY <2>1 DEF Sound
  <2>3. op = "start" => u.started_at >= u.available_at /\ u.started_at # NoTime
    BY <1>1, <1>2 DEF Updates, Sound, LeasedStatus
  <2>4. AtWork(u)
    BY <1>1, <1>2, <1>3, <1>5, <2>2, <2>3 DEF AtWork, Updates, LeasedStatus
  <2>5. u.status \in LeasedStatus => u.lease.acquired_at >= u.available_at
    BY <1>1, <1>2, <1>5 DEF Updates, Sound, LeasedStatus
  <2>6. u.started_at # NoTime => u.started_at >= u.available_at
    BY <1>5, <2>3 DEF Updates, Sound
  <2> QED
    BY <2>1, <2>4, <2>5, <2>6 DEF Sound, InQueue
<1>6. CASE op = "renew"
  <2>1. r.status \in LeasedStatus
    BY <1>3, <1>6 DEF Updates, Sound, AtWork, ValidRecord, ValidStatusContract
  <2>2. r.status \in InQueue /\ AtWork(r)
    BY <2>1 DEF Sound, InQueue, LeasedStatus
  <2>3. AtWork(u)
    BY <1>3, <1>6, <2>1, <2>2 DEF AtWork, Updates
  <2> QED
    BY <1>6, <2>2, <2>3 DEF Sound, Updates
<1>7. CASE op = "report"
  <2>1. u.status \notin InQueue /\ u.status \notin LeasedStatus /\ ValidRecord(u)
    BY <1>7, QueueAssumption DEF Updates, InQueue, LeasedStatus
  <2>2. u.started_at = r.started_at /\ u.available_at = r.available_at
    BY <1>7 DEF Updates
  <2>3. u.status = "retry_scheduled" => r.status = "running"
    BY <1>7 DEF Updates, CanTransition, AllowedTransitions, Status
  <2>4. r.status = "running" => r.started_at # NoTime
    BY DEF Sound, InQueue, AtWork
  <2> QED
    BY <2>1, <2>2, <2>3, <2>4 DEF Sound
<1> QED
  BY <1>4, <1>5, <1>6, <1>7 DEF Updates

(* The record of a new job is sound.                                         *)
LEMMA SubmittedSound ==
    ASSUME TypeOK, NEW p \in Priorities, NEW d \in Delays
    PROVE  Sound(SubmittedRecord(p, d))
<1>1. PICK r : r = SubmittedRecord(p, d)
  OBVIOUS
<1>2. /\ r.status \in {"pending", "scheduled"}
      /\ r.lease = NoLease /\ r.failure = "none" /\ r.cancellation = 0
      /\ r.created_at = clock /\ r.available_at = clock + d
      /\ r.queued_at = NoTime /\ r.started_at = NoTime /\ r.finished_at = NoTime
      /\ r.attempt_number = 1 /\ r.previous_attempt = 0
  BY <1>1, SubmittedType
<1>3. clock \in Int /\ NoTime \in Int /\ d \in Nat /\ NoLease.worker = NoWorker
  BY QueueAssumption DEF TypeOK, NoTime, NoLease
<1>4. ValidTimestamps(r)
  BY <1>2, <1>3 DEF ValidTimestamps
<1>5. ValidStatusContract(r)
  BY <1>2, <1>3 DEF ValidStatusContract, TerminalStatus, LeasedStatus,
                    FailureStatus, CancellationStatus
<1>6. ValidRecord(r)
  BY <1>2, <1>4, <1>5, AttemptsAssumption DEF ValidRecord
<1>7. Sound(r)
  BY <1>2, <1>6 DEF Sound, InQueue, LeasedStatus
<1> QED
  BY <1>1, <1>7

(* The time a call works with is one its caller read, for as long as it      *)
(* runs.                                                                     *)
LEMMA StepNow ==
    ASSUME TypeOK, [Next]_vars, NEW c \in Worker
    PROVE  /\ calls'[c].now \in CallTimes \union {calls[c].now, 0}
           /\ clock' \in Nat /\ clock <= clock'
<1>1. CASE (\E j \in Job : Submit(j)) \/ Tick \/ UNCHANGED vars
  BY <1>1 DEF Submit, Tick, vars, TypeOK
<1>2. ASSUME NEW d \in Worker,
             \/ \E j \in Job : JobCall(d, j)
             \/ EnqueueDue(d) \/ Acquire(d) \/ RecoverExpired(d)
      PROVE  /\ calls'[c].now \in CallTimes \union {calls[c].now, 0}
             /\ clock' = clock
  BY <1>2, CallsPrepare
<1>3. ASSUME NEW d \in Worker, EnqueueNext(d) \/ Commit(d) \/ Crash(d)
      PROVE  /\ calls'[c].now \in {calls[c].now, 0}
             /\ clock' = clock
  <2>1. clock' = clock
    BY <1>3 DEF EnqueueNext, Commit, Crash
  <2>2. CASE EnqueueNext(d)
    <3>1. PICK j : \/ calls' = [calls EXCEPT
                                    ![d].writes = {EnqueueWrite(j, calls[d].now)},
                                    ![d].due = @ \ {j}]
                   \/ calls' = [calls EXCEPT ![d] = Idle]
      BY <2>2 DEF EnqueueNext
    <3> QED
      BY <2>1, <3>1 DEF TypeOK, Call, Idle
  <2>3. CASE Commit(d)
    <3>1. PICK w : \/ calls' = [calls EXCEPT ![d] = Remaining(@, w)]
                   \/ calls' = [calls EXCEPT ![d] = Idle]
      BY <2>3 DEF Commit
    <3>2. \A e \in Worker : calls'[e] = IF e = d THEN calls'[d] ELSE calls[e]
      BY <3>1 DEF TypeOK
    <3>3. calls'[d] \in {Remaining(calls[d], w), Idle}
      BY <3>1 DEF TypeOK
    <3>4. calls'[d].now \in {calls[d].now, 0}
      BY <3>3 DEF Remaining, Idle, TypeOK, Call
    <3> QED
      BY <2>1, <3>2, <3>4
  <2>4. CASE Crash(d)
    BY <2>1, <2>4 DEF Crash, TypeOK, Idle
  <2> QED
    BY <1>3, <2>2, <2>3, <2>4
<1>4. clock \in Nat
  BY DEF TypeOK
<1> QED
  BY <1>1, <1>2, <1>3, <1>4 DEF Next, QueueCall

(* No step of the queue stores or prepares an unsound record.                *)
LEMMA SoundStep ==
    ASSUME IInv, SoundInv, [Next]_vars
    PROVE  SoundInv'
<1>1. TypeOK /\ clock \in Nat /\ TypeOK'
  BY TypesStep DEF IInv, TypeOK
<1>2. \A t \in CallTimes : t \in Nat
  BY DEF CallTimes
<1>3. ASSUME NEW j \in Job, Stored(jobs'[j])
      PROVE  Sound(jobs'[j])
  <2>1. CASE jobs'[j] = jobs[j]
    BY <1>3, <2>1 DEF SoundInv
  <2>2. ASSUME NEW p \in Priorities, NEW d \in Delays, jobs'[j] = SubmittedRecord(p, d)
        PROVE  Sound(jobs'[j])
    BY <1>1, <2>2, SubmittedSound
  <2>3. ASSUME NEW c \in Worker, NEW w \in calls[c].writes, jobs'[j] = w.updated
        PROVE  Sound(jobs'[j])
    BY <2>3 DEF SoundInv
  <2> QED
    BY <1>1, <2>1, <2>2, <2>3, StepRecords
<1>4. ASSUME NEW c \in Worker
      PROVE  calls'[c].now \in Nat
  BY <1>1, <1>2, StepNow DEF SoundInv
<1>5. ASSUME NEW c \in Worker, NEW w \in calls'[c].writes
      PROVE  Sound(w.updated)
  <2>1. w \in Write
    BY <1>1 DEF TypeOK, Call
  <2>2. w.seen \in Record /\ w.updated \in Record /\ w.job \in Job
    BY <2>1 DEF Write
  <2>3. CASE w \in calls[c].writes
    BY <2>3 DEF SoundInv
  <2>4. ASSUME NEW op, NEW now \in Nat, Prepared(op, c, now, w)
        PROVE  Sound(w.updated)
    <3>1. w.seen = jobs[w.job] /\ Updates(op, c, now, w.seen, w.updated)
      BY <1>1, <2>4, PreparedUpdates
    <3>2. Stored(w.seen)
      <4>1. w.seen.lease.worker = c => w.seen.status \in LeasedStatus
        BY <2>2, <3>1, WorkerAssumption DEF IInv, RecordInv, LeaseMatches
      <4> QED
        BY <3>1, <4>1 DEF Updates, EnqueueableStatus, Stored, CanTransition, Status,
                          LeasedStatus
    <3>3. Sound(w.seen)
      BY <2>2, <3>1, <3>2 DEF SoundInv
    <3> QED
      BY <2>2, <2>4, <3>1, <3>3, SoundUpdates
  <2>5. calls[c].now \in Nat
    BY DEF SoundInv
  <2> QED
    BY <1>1, <1>2, <2>3, <2>4, <2>5, StepWrites
<1> QED
  BY <1>3, <1>4, <1>5 DEF SoundInv, Sound, AtWork, Stored, ValidRecord, ValidTimestamps,
                          ValidStatusContract

(* Every stored record satisfies ApplicationJobRecord.validate_record,       *)
(* although model_copy does not run it, except that a job in the queue may   *)
(* keep the failure of its last attempt and may have been queued later than  *)
(* that attempt, or an old "now", started it.                                *)
THEOREM RecordsStaySound == Spec => []StoredRecordsSound
<1>1. Init => SoundInv
  BY DEF Init, SoundInv, Idle, Absent, Stored
<1>2. IInv /\ SoundInv /\ [Next]_vars => SoundInv'
  BY SoundStep
<1>3. IInv /\ SoundInv => StoredRecordsSound
  BY SoundValidates DEF IInv, TypeOK, SoundInv, StoredRecordsSound, Sound
<1> QED
  BY <1>1, <1>2, <1>3, Invariance, PTL DEF Spec

-----------------------------------------------------------------------------
(* Who may end an active lease.                                              *)

(* A lease to be recovered has run out, or was acquired after the time of    *)
(* the recovery; a lease to be released is the caller's own.                 *)
LeaseInv ==
    \A c \in Worker : \A w \in calls[c].writes :
        /\ calls[c].op = "recover" =>
              \/ w.seen.lease.expires_at <= clock
              \/ calls[c].now < w.seen.lease.acquired_at
        /\ calls[c].op = "release" => w.seen.lease.worker = c

(* What a call prepares keeps this, whatever its time.                       *)
LEMMA LeaseStep ==
    ASSUME IInv, LeaseInv, [Next]_vars
    PROVE  LeaseInv'
<1> SUFFICES ASSUME NEW c \in Worker, NEW w \in calls'[c].writes
             PROVE  /\ calls'[c].op = "recover" =>
                          \/ w.seen.lease.expires_at <= clock'
                          \/ calls'[c].now < w.seen.lease.acquired_at
                    /\ calls'[c].op = "release" => w.seen.lease.worker = c
  BY DEF LeaseInv
<1>1. TypeOK /\ clock \in Nat /\ TypeOK'
  BY TypesStep DEF IInv, TypeOK
<1>2. clock' \in Nat /\ clock <= clock'
  BY <1>1, StepNow
<1>3. w \in Write
  BY <1>1 DEF TypeOK, Call
<1>4. w.seen.lease.expires_at \in Int /\ w.seen.lease.acquired_at \in Int
  BY <1>3 DEF Write, Record, Lease
<1>5. CASE w \in calls[c].writes /\ calls'[c].op = calls[c].op /\ calls'[c].now = calls[c].now
  BY <1>1, <1>2, <1>4, <1>5 DEF LeaseInv
<1>6. CASE calls'[c].now \in CallTimes /\ Prepared(calls'[c].op, c, calls'[c].now, w)
  <2>1. calls'[c].now \in Int /\ calls'[c].now <= clock
    BY <1>1, <1>6 DEF CallTimes
  <2>2. Updates(calls'[c].op, c, calls'[c].now, w.seen, w.updated)
    BY <1>1, <1>6, <2>1, PreparedUpdates
  <2> QED
    BY <1>1, <1>2, <1>4, <2>1, <2>2 DEF Updates, LeaseActiveAt
<1>7. CASE calls[c].due # {} /\ calls'[c].op = calls[c].op
  BY <1>7 DEF IInv, WritesJustified
<1> QED
  BY <1>1, <1>5, <1>6, <1>7, StepWrites

(* A stored record is replaced by a write that some call commits with this   *)
(* step.                                                                     *)
LEMMA StepCommits ==
    ASSUME TypeOK, [Next]_vars, NEW j \in Job, Stored(jobs[j]), jobs'[j] # jobs[j]
    PROVE  \E c \in Worker : \E w \in calls[c].writes :
              /\ UpdateAccepted(w) /\ w.job = j /\ jobs'[j] = w.updated
              /\ calls'[c] # calls[c]
<1>1. ASSUME NEW k \in Job, Submit(k) PROVE FALSE
  <2>1. jobs'[j] = jobs[j]
    BY <1>1 DEF Submit, TypeOK
  <2> QED
    BY <2>1
<1>2. ASSUME NEW c \in Worker, NEW k \in Job, JobCall(c, k) PROVE FALSE
  BY <1>2 DEF JobCall, Enqueue, Start, Release, Renew, Report, Begin
<1>3. ASSUME NEW c \in Worker,
             EnqueueDue(c) \/ EnqueueNext(c) \/ Acquire(c) \/ RecoverExpired(c) \/ Crash(c)
      PROVE  FALSE
  BY <1>3 DEF EnqueueDue, EnqueueNext, Acquire, RecoverExpired, Begin, Crash
<1>4. PICK c \in Worker : Commit(c)
  BY <1>1, <1>2, <1>3 DEF Next, QueueCall, Tick, vars
<1>5. PICK w \in calls[c].writes :
          /\ UpdateAccepted(w)
          /\ jobs' = [jobs EXCEPT ![w.job] = w.updated]
          /\ calls' = [calls EXCEPT ![c] = Remaining(@, w)]
  BY <1>4 DEF Commit
<1>6. w.job = j /\ jobs'[j] = w.updated
  BY <1>5 DEF TypeOK
<1>7. calls[c] \in Call /\ calls'[c] = Remaining(calls[c], w)
  BY <1>5 DEF TypeOK
<1>8. w \notin Remaining(calls[c], w).writes
  BY <1>7 DEF Remaining, Idle, Call
<1> QED
  BY <1>5, <1>6, <1>7, <1>8

(* Whatever time the callers pass, an active lease is taken away from its    *)
(* owner by its own release or by a recovery whose time precedes the         *)
(* acquisition of the lease, and by nothing else: a recovery that was under  *)
(* way when the lease was renewed or acquired anew is refused for its        *)
(* version.                                                                  *)
THEOREM LeasesAreKept == Spec => LeaseTakenByOldCallOnly
<1> DEFINE Ended(j, c) ==
        /\ calls'[c] # calls[c]
        /\ \/ c = jobs[j].lease.worker /\ calls[c].op = "release"
           \/ /\ calls[c].op = "recover"
              /\ calls[c].now < jobs[j].lease.acquired_at
<1> DEFINE P == \A j \in Job :
                    (/\ jobs[j].status = "leased"
                     /\ LeaseActiveAt(jobs[j].lease, clock)
                     /\ jobs'[j].lease.worker # jobs[j].lease.worker)
                        => \E c \in Worker : Ended(j, c)
<1>1. Init => LeaseInv
  BY DEF Init, LeaseInv, Idle
<1>2. IInv /\ LeaseInv /\ [Next]_vars => LeaseInv'
  BY LeaseStep
<1>3. IInv /\ LeaseInv /\ [Next]_vars => P
  <2> SUFFICES ASSUME IInv, LeaseInv, [Next]_vars, NEW j \in Job,
                      jobs[j].status = "leased", LeaseActiveAt(jobs[j].lease, clock),
                      jobs'[j].lease.worker # jobs[j].lease.worker
               PROVE  \E c \in Worker : Ended(j, c)
    OBVIOUS
  <2>1. TypeOK /\ Stored(jobs[j])
    BY DEF IInv, Stored
  <2>2. PICK c \in Worker : \E w \in calls[c].writes :
            /\ UpdateAccepted(w) /\ w.job = j /\ jobs'[j] = w.updated
            /\ calls'[c] # calls[c]
    BY <2>1, StepCommits
  <2>3. PICK w \in calls[c].writes :
            /\ UpdateAccepted(w) /\ w.job = j /\ jobs'[j] = w.updated
            /\ calls'[c] # calls[c]
    BY <2>2
  <2>4. w.seen = jobs[j] /\ Effect(calls[c].op, c, w)
    BY <2>3, AcceptedIsFresh
  <2>5. executors[j] = {}
    BY DEF IInv, RunnerInv, TerminalStatus
  <2>6. calls[c].op \in {"release", "recover"}
    BY <2>3, <2>4, <2>5 DEF Effect, EnqueueableStatus
  <2>7. CASE calls[c].op = "release"
    BY <2>3, <2>4, <2>7 DEF LeaseInv
  <2>8. CASE calls[c].op = "recover"
    <3>1. \/ w.seen.lease.expires_at <= clock
          \/ calls[c].now < w.seen.lease.acquired_at
      BY <2>8 DEF LeaseInv
    <3>2. jobs[j].lease.expires_at \in Int /\ clock \in Int
      BY DEF IInv, TypeOK, Record, Lease
    <3>3. calls[c].now < jobs[j].lease.acquired_at
      BY <2>4, <3>1, <3>2 DEF LeaseActiveAt
    <3> QED
      BY <2>3, <2>8, <3>3
  <2> QED
    BY <2>6, <2>7, <2>8
<1> QED
  BY <1>1, <1>2, <1>3, Invariance, PTL DEF Spec, LeaseTakenByOldCallOnly
=============================================================================
