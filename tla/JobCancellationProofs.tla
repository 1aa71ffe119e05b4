------------------------ MODULE JobCancellationProofs ------------------------
(* Proofs about the cancellation service, for any number of jobs, workers,   *)
(* cancelling threads and requests, inside transactions and outside.  The    *)
(* invariant comes in four layers, each inductive on top of those before it: *)
(* types, what backs a cancellation, one active request within transactions, *)
(* and the queue's own invariant outside them.                               *)
EXTENDS JobCancellation, JobQueueProofs

-----------------------------------------------------------------------------
(* Layer 1: types.                                                           *)

Requests == [RequestId -> RequestRecord]

Transaction == [managed : BOOLEAN, holder : Canceller \cup {NoCanceller},
                saved : [Canceller -> [jobs : [Job -> Record] \cup {<<>>},
                                       requests : Requests \cup {<<>>}]]]

(* A request that exists names a job, one that does not names none.          *)
WellFormed(rs) == \A q \in RequestId : rs[q].status = "absent" <=> rs[q].job = 0

(* What a call carries at each of its steps.                                 *)
CallTyped(k) ==
    /\ k.step \in {"find", "create", "save", "job", "close"} => k.job \in Job
    /\ k.step \in {"ack", "job", "close"} => k.request \in RequestId /\ k.seen.job \in Job
    /\ k.step \in {"job", "close"} => k.job = k.seen.job

(* Within transactions a call runs only while its thread holds the lock, and *)
(* the snapshots were taken.                                                 *)
HolderTyped(x) ==
    /\ tx.managed /\ cancels[x].step # "idle" =>
          tx.holder = x /\ tx.saved[x].jobs \in [Job -> Record]
    /\ tx.managed /\ cancels[x].step \notin {"idle", "snapshot"} =>
          tx.saved[x].requests \in Requests /\ WellFormed(tx.saved[x].requests)
    /\ ~tx.managed => cancels[x].step \notin {"snapshot", "ready", "rollback", "restore"}

TypeInv ==
    /\ CTypeOK /\ tx \in Transaction
    /\ WellFormed(requests)
    /\ \A x \in Canceller : CallTyped(cancels[x]) /\ HolderTyped(x)

-----------------------------------------------------------------------------
(* Layer 2: what backs a cancellation.                                       *)

(* The requests rs account for the cancellation of record r of job j.        *)
BackedBy(rs, j, r) ==
    /\ r.cancellation # 0 => r.cancellation \in RequestId /\ rs[r.cancellation].job = j
    /\ r.status = "cancelled" =>
          \E q \in RequestId : rs[q].job = j /\ rs[q].status = "completed"

AllBackedBy(rs) ==
    /\ \A j \in Job : BackedBy(rs, j, jobs[j])
    /\ \A c \in Worker : \A w \in calls[c].writes : BackedBy(rs, w.job, w.updated)

(* The requests only grow: none disappears, changes its job or is reopened.  *)
Grows(rs, rt) ==
    \A q \in RequestId :
        /\ rs[q].status # "absent" => rt[q].status # "absent" /\ rt[q].job = rs[q].job
        /\ rs[q].status = "completed" => rt[q].status = "completed"

(* The request a call has read is still there, and unchanged if its version  *)
(* is; a job that is about to be stored is backed.                           *)
CallBacked(k) ==
    /\ k.step \in {"ack", "job", "close"} =>
          /\ k.seen.status \in {"requested", "acknowledged"}
          /\ requests[k.request].status # "absent"
          /\ k.seen.record_version <= requests[k.request].record_version
          /\ k.seen.record_version = requests[k.request].record_version
                => k.seen = requests[k.request]
    /\ k.step = "close" => BackedBy(requests, k.job, k.seenJob)
    /\ k.step = "save" => BackedBy(requests, k.job, k.updated)

(* What a rollback would restore is backed, and so is all that the workers   *)
(* did meanwhile.                                                            *)
SnapshotBacked(x) ==
    /\ cancels[x].step = "snapshot" =>
          \A j \in Job : BackedBy(requests, j, tx.saved[x].jobs[j])
    /\ cancels[x].step \notin {"idle", "snapshot"} =>
          /\ AllBackedBy(tx.saved[x].requests)
          /\ \A j \in Job : BackedBy(tx.saved[x].requests, j, tx.saved[x].jobs[j])
    /\ cancels[x].step = "restore" => requests = tx.saved[x].requests

BackedInv ==
    /\ AllBackedBy(requests)
    /\ \A x \in Canceller :
          CallBacked(cancels[x]) /\ (tx.managed => SnapshotBacked(x))

-----------------------------------------------------------------------------
(* Layer 3: within transactions, one active request per job.                 *)

ActiveIn(rs, q) == rs[q].status \in {"requested", "acknowledged"}

OneActive(rs) ==
    \A p, q \in RequestId :
        (ActiveIn(rs, p) /\ ActiveIn(rs, q) /\ rs[p].job = rs[q].job) => p = q

ActiveInv ==
    tx.managed =>
        /\ OneActive(requests)
        /\ \A x \in Canceller :
              /\ cancels[x].step \notin {"idle", "snapshot"} => OneActive(tx.saved[x].requests)
              /\ cancels[x].step = "create" =>
                    \A q \in RequestId : ActiveIn(requests, q) =>
                                            requests[q].job # cancels[x].job

-----------------------------------------------------------------------------
(* Layer 4: outside transactions, the queue's invariant.                     *)

(* The job a call has read is unchanged if its version is, and the record it *)
(* means to store is one step of the policy away.                            *)
CallFenced(k) ==
    /\ k.step \in {"find", "create", "close", "save"} =>
          /\ Stored(k.seenJob)
          /\ k.seenJob.record_version <= jobs[k.job].record_version
          /\ k.seenJob.record_version = jobs[k.job].record_version
                => k.seenJob = jobs[k.job]
    /\ k.step = "create" => CanTransition(k.seenJob.status, "cancellation_requested")
    /\ k.step = "close" => k.seenJob.status = "cancellation_requested"
    /\ k.step = "save" =>
          /\ k.updated.record_version = k.seenJob.record_version + 1
          /\ k.updated.lease = NoLease
          /\ \/ /\ k.updated.status = "cancellation_requested"
                /\ CanTransition(k.seenJob.status, "cancellation_requested")
             \/ /\ k.updated.status = "cancelled"
                /\ k.seenJob.status = "cancellation_requested"

FenceInv == ~tx.managed => IInv /\ \A x \in Canceller : CallFenced(cancels[x])

-----------------------------------------------------------------------------
(* The steps of a cancelling thread.                                         *)

(* The call of x raises: it ends, or its transaction is rolled back.         *)
Raised(x, k) ==
    /\ cancels[x].step \notin {"idle", "snapshot", "rollback", "restore"}
    /\ k.step = IF tx.managed THEN "rollback" ELSE "idle"

(* A call of x reads and decides, and k is the call from then on.            *)
Advances(x, k) ==
    \/ Raised(x, k)
    \/ /\ MayCall(x)
       /\ \/ /\ k.step = "find" /\ k.job \in Job
             /\ k.seenJob = jobs[k.job] /\ Stored(k.seenJob)
          \/ /\ k.step \in {"ack", "job"} /\ k.request \in RequestId
             /\ k.seen = requests[k.request] /\ ActiveIn(requests, k.request)
             /\ k.step = "job" => k.job = k.seen.job
    \/ /\ cancels[x].step = "find" /\ k.step = "create"
       /\ k.job = cancels[x].job /\ k.seenJob = cancels[x].seenJob
       /\ CanTransition(k.seenJob.status, "cancellation_requested")
       /\ \A q \in RequestId : ActiveIn(requests, q) => requests[q].job # k.job
    \/ /\ cancels[x].step = "job" /\ k.step = "close"
       /\ k.request = cancels[x].request /\ k.seen = cancels[x].seen
       /\ k.job = cancels[x].job /\ k.seenJob = jobs[k.job]
       /\ k.seenJob.status = "cancellation_requested"

(* x goes on to store the job as u, or raises.                               *)
GoesOn(x, k, u) ==
    /\ UNCHANGED tx
    /\ \/ Raised(x, k)
       \/ /\ k.step = "save" /\ k.job = cancels[x].job
          /\ k.seenJob = cancels[x].seenJob /\ k.updated = u

(* The call returns.                                                         *)
Returns(x, k) ==
    /\ k.step = "idle"
    /\ tx' = IF tx.managed
              THEN [tx EXCEPT !.holder = NoCanceller, !.saved[x] = NoSnapshot]
              ELSE tx

(* x writes the request q, as r.                                             *)
Stores(x, k, q, r) ==
    /\ requests' = [requests EXCEPT ![q] = r]
    /\ \/ /\ cancels[x].step = "create" /\ requests[q].status = "absent"
          /\ r.status = "requested" /\ r.job = cancels[x].job
          /\ GoesOn(x, k, CancellingRecord(cancels[x].seenJob, q))
       \/ /\ cancels[x].step \in {"ack", "close"} /\ q = cancels[x].request
          /\ RequestAccepted(x)
          /\ r.job = cancels[x].seen.job
          /\ r.record_version = cancels[x].seen.record_version + 1
          /\ \/ /\ cancels[x].step = "ack" /\ r.status = "acknowledged"
                /\ Returns(x, k)
             \/ /\ cancels[x].step = "close" /\ r.status = "completed"
                /\ GoesOn(x, k, CancelledRecord(cancels[x].seenJob, cancels[x].now))

(* x stores the job.                                                         *)
SavesJob(x, k) ==
    /\ cancels[x].step = "save"
    /\ jobs[cancels[x].job].record_version = cancels[x].seenJob.record_version
    /\ jobs' = [jobs EXCEPT ![cancels[x].job] = cancels[x].updated]
    /\ Returns(x, k)

(* What a step of x does, k being its call afterwards.                       *)
CancelEffect(x, k) ==
    \/ /\ tx.managed /\ cancels[x].step = "idle" /\ tx.holder = NoCanceller
       /\ k.step = "snapshot"
       /\ tx' = [tx EXCEPT !.holder = x, !.saved[x].jobs = jobs]
       /\ UNCHANGED <<jobs, requests>>
    \/ /\ cancels[x].step = "snapshot" /\ k.step = "ready"
       /\ tx' = [tx EXCEPT !.saved[x].requests = requests]
       /\ UNCHANGED <<jobs, requests>>
    \/ /\ cancels[x].step = "rollback" /\ k.step = "restore"
       /\ requests' = tx.saved[x].requests
       /\ UNCHANGED <<jobs, tx>>
    \/ /\ cancels[x].step = "restore"
       /\ jobs' = tx.saved[x].jobs
       /\ Returns(x, k)
       /\ UNCHANGED requests
    \/ Advances(x, k) /\ UNCHANGED <<jobs, requests, tx>>
    \/ UNCHANGED jobs /\ \E q \in RequestId, r \in RequestRecord : Stores(x, k, q, r)
    \/ SavesJob(x, k) /\ UNCHANGED requests

(* The values a call starts from and goes through have their types.          *)
LEMMA CancelTypes ==
    /\ NoRequest \in RequestRecord /\ NoRequest.status = "absent" /\ NoRequest.job = 0
    /\ NoCancel \in CancelCall /\ NoCancel.step = "idle"
<1>1. NoRequest \in RequestRecord /\ NoRequest.status = "absent" /\ NoRequest.job = 0
  BY DEF NoRequest, RequestRecord, NoTime
<1> QED
  BY <1>1, AbsentType DEF NoCancel, CancelCall, CancelStep

(* The records request and complete store are records.                       *)
LEMMA CancelledTypes ==
    ASSUME NEW r \in Record, NEW q \in RequestId, NEW now \in Int
    PROVE  /\ CancellingRecord(r, q) \in Record /\ CancelledRecord(r, now) \in Record
           /\ CancellingRecord(r, q).status = "cancellation_requested"
           /\ CancellingRecord(r, q).cancellation = q
           /\ CancellingRecord(r, q).lease = NoLease
           /\ CancellingRecord(r, q).record_version = r.record_version + 1
           /\ CancelledRecord(r, now).status = "cancelled"
           /\ CancelledRecord(r, now).cancellation = r.cancellation
           /\ CancelledRecord(r, now).lease = NoLease
           /\ CancelledRecord(r, now).record_version = r.record_version + 1
<1>1. /\ q \in Nat /\ NoLease \in Lease
      /\ "cancellation_requested" \in Status /\ "cancelled" \in Status
  BY CancellationAssumption, NoLeaseType DEF Status
<1>2. r.record_version + 1 \in Nat
  BY DEF Record
<1>3. CancellingRecord(r, q) \in Record /\ CancelledRecord(r, now) \in Record
  BY <1>1, <1>2 DEF CancellingRecord, CancelledRecord, Record
<1> QED
  BY <1>3 DEF CancellingRecord, CancelledRecord, Record

(* A call that raises ends, or starts the rollback of its transaction.       *)
LEMMA RaiseIsRaised ==
    ASSUME TypeInv, NEW x \in Canceller, Raise(x),
           cancels[x].step \notin {"idle", "snapshot", "rollback", "restore"}
    PROVE  /\ \E k \in CancelCall : cancels' = [cancels EXCEPT ![x] = k] /\ Raised(x, k)
           /\ UNCHANGED tx
<1>1. PICK k : k = IF tx.managed THEN [NoCancel EXCEPT !.step = "rollback"] ELSE NoCancel
  OBVIOUS
<1>2. k \in CancelCall /\ k.step = IF tx.managed THEN "rollback" ELSE "idle"
  BY <1>1, CancelTypes DEF CancelCall, CancelStep
<1> QED
  BY <1>1, <1>2 DEF Raise, Raised

(* Every step of a cancelling thread is one of these.                        *)
LEMMA CancelSteps ==
    ASSUME TypeInv, NEW x \in Canceller, CancelNext(x)
    PROVE  /\ UNCHANGED <<calls, executors, clock>>
           /\ \E k \in CancelCall :
                 cancels' = [cancels EXCEPT ![x] = k] /\ CancelEffect(x, k)
<1> DEFINE Goal == /\ UNCHANGED <<calls, executors, clock>>
                   /\ \E k \in CancelCall :
                         cancels' = [cancels EXCEPT ![x] = k] /\ CancelEffect(x, k)
<1>0. /\ cancels \in [Canceller -> CancelCall] /\ requests \in [RequestId -> RequestRecord]
      /\ jobs \in [Job -> Record] /\ cancels[x] \in CancelCall
  BY DEF TypeInv, CTypeOK, TypeOK
<1>1. PICK p \in CancelCall : p = cancels[x]
  BY <1>0
<1>2. /\ p.now \in Int /\ p.request \in RequestId \cup {0} /\ p.seen \in RequestRecord
      /\ p.job \in Job \cup {0} /\ p.seenJob \in Record /\ p.updated \in Record
  BY DEF CancelCall
<1>3. CallTyped(p)
  BY <1>1 DEF TypeInv
<1>4. CASE BeginTransaction(x)
  <2>1. PICK k : k = [p EXCEPT !.step = "snapshot"]
    OBVIOUS
  <2>2. k \in CancelCall /\ k.step = "snapshot"
    BY <2>1 DEF CancelCall, CancelStep
  <2>3. cancels' = [cancels EXCEPT ![x] = k]
    BY <1>1, <1>4, <2>1 DEF BeginTransaction
  <2> QED
    BY <1>4, <2>2, <2>3 DEF BeginTransaction, CancelEffect
<1>5. CASE SnapshotRequests(x)
  <2>1. PICK k : k = [p EXCEPT !.step = "ready"]
    OBVIOUS
  <2>2. k \in CancelCall /\ k.step = "ready"
    BY <2>1 DEF CancelCall, CancelStep
  <2>3. cancels' = [cancels EXCEPT ![x] = k]
    BY <1>1, <1>5, <2>1 DEF SnapshotRequests
  <2> QED
    BY <1>5, <2>2, <2>3 DEF SnapshotRequests, CancelEffect
<1>6. CASE RestoreRequests(x)
  <2>1. PICK k : k = [p EXCEPT !.step = "restore"]
    OBVIOUS
  <2>2. k \in CancelCall /\ k.step = "restore"
    BY <2>1 DEF CancelCall, CancelStep
  <2>3. cancels' = [cancels EXCEPT ![x] = k]
    BY <1>1, <1>6, <2>1 DEF RestoreRequests
  <2> QED
    BY <1>6, <2>2, <2>3 DEF RestoreRequests, CancelEffect
<1>7. CASE RestoreJobs(x)
  BY <1>7, CancelTypes DEF RestoreJobs, CancelEffect, Return, Returns
<1>8. ASSUME NEW j \in Job, RequestCancellation(x, j)
      PROVE  Goal
  <2>1. PICK now \in CallTimes :
            cancels' = [cancels EXCEPT ![x] =
               [NoCancel EXCEPT !.step = "find", !.now = now, !.job = j,
                                !.seenJob = jobs[j]]]
    BY <1>8 DEF RequestCancellation
  <2>2. PICK k : k = [NoCancel EXCEPT !.step = "find", !.now = now, !.job = j,
                                !.seenJob = jobs[j]]
    OBVIOUS
  <2>3. now \in Int /\ jobs[j] \in Record
    BY <1>0 DEF CallTimes
  <2>4. k \in CancelCall /\ k.step = "find" /\ k.job = j /\ k.seenJob = jobs[j]
    BY <2>2, <2>3, CancelTypes DEF CancelCall, CancelStep
  <2>5. Advances(x, k)
    BY <1>8, <2>4 DEF Advances, RequestCancellation
  <2> QED
    BY <1>8, <2>1, <2>2, <2>4, <2>5 DEF RequestCancellation, CancelEffect
<1>9. ASSUME NEW q \in RequestId, Acknowledge(x, q) \/ Complete(x, q)
      PROVE  Goal
  <2>1. PICK now \in CallTimes, s \in {"ack", "job"}, j \in Job \cup {0} :
            /\ cancels' = [cancels EXCEPT ![x] =
                 [NoCancel EXCEPT !.step = s, !.now = now, !.request = q,
                                !.seen = requests[q], !.job = j]]
            /\ s = "job" => j = requests[q].job
    <3>1. requests[q].job \in Job \cup {0} /\ NoCancel.job = 0
      BY <1>0 DEF RequestRecord, NoCancel
    <3>2. CASE Acknowledge(x, q)
      <4>1. PICK now \in CallTimes : cancels' = [cancels EXCEPT ![x] =
                 [NoCancel EXCEPT !.step = "ack", !.now = now, !.request = q,
                                !.seen = requests[q]]]
        BY <3>2 DEF Acknowledge
      <4>2. [NoCancel EXCEPT !.step = "ack", !.now = now, !.request = q, !.seen = requests[q]]
             = [NoCancel EXCEPT !.step = "ack", !.now = now, !.request = q,
                                !.seen = requests[q], !.job = 0]
        BY <3>1 DEF NoCancel
      <4> QED
        BY <4>1, <4>2
    <3>3. CASE Complete(x, q)
      BY <3>1, <3>3 DEF Complete
    <3> QED
      BY <1>9, <3>2, <3>3
  <2>2. PICK k : k = [NoCancel EXCEPT !.step = s, !.now = now, !.request = q,
                                !.seen = requests[q], !.job = j]
    OBVIOUS
  <2>3. now \in Int /\ requests[q] \in RequestRecord
    BY <1>0 DEF CallTimes
  <2>4. /\ k \in CancelCall /\ k.step = s /\ k.job = j /\ k.request = q
        /\ k.seen = requests[q]
    BY <2>1, <2>2, <2>3, CancelTypes DEF CancelCall, CancelStep
  <2>5. Advances(x, k)
    BY <1>9, <2>1, <2>4 DEF Advances, Acknowledge, Complete, Active, ActiveIn
  <2>6. UNCHANGED <<jobs, calls, executors, clock, requests, tx>>
    BY <1>9 DEF Acknowledge, Complete
  <2> QED
    BY <2>1, <2>2, <2>4, <2>5, <2>6 DEF CancelEffect
<1>10. ASSUME Raise(x), UNCHANGED <<jobs, calls, executors, clock, requests>>,
              cancels[x].step \notin {"idle", "snapshot", "rollback", "restore"}
       PROVE  Goal
  BY <1>10, RaiseIsRaised DEF CancelEffect, Advances
<1>11. CASE FindActive(x)
  <2> SUFFICES ASSUME ~Raise(x)
               PROVE  Goal
    BY <1>10, <1>11 DEF FindActive
  <2>1. PICK k : k = [p EXCEPT !.step = "create"]
    OBVIOUS
  <2>2. /\ k \in CancelCall /\ k.step = "create" /\ k.job = p.job
        /\ k.seenJob = p.seenJob
    BY <2>1 DEF CancelCall, CancelStep
  <2>3. cancels' = [cancels EXCEPT ![x] = k] /\ UNCHANGED tx
    BY <1>1, <1>11, <2>1 DEF FindActive
  <2>4. /\ CanTransition(p.seenJob.status, "cancellation_requested")
        /\ \A q \in RequestId : ActiveIn(requests, q) => requests[q].job # p.job
    BY <1>1, <1>11 DEF FindActive, Active, ActiveIn
  <2>5. Advances(x, k)
    BY <1>1, <1>11, <2>2, <2>4 DEF Advances, FindActive
  <2> QED
    BY <1>11, <2>2, <2>3, <2>5 DEF FindActive, CancelEffect
<1>12. CASE ReadJob(x)
  <2> SUFFICES ASSUME ~Raise(x)
               PROVE  Goal
    BY <1>10, <1>12 DEF ReadJob
  <2>1. p.job \in Job /\ p.step = "job"
    BY <1>1, <1>3, <1>12 DEF CallTyped, ReadJob
  <2>2. PICK k : k = [p EXCEPT !.step = "close", !.seenJob = jobs[p.job]]
    OBVIOUS
  <2>3. jobs[p.job] \in Record
    BY <1>0, <2>1
  <2>4. /\ k \in CancelCall /\ k.step = "close" /\ k.job = p.job
        /\ k.seenJob = jobs[p.job] /\ k.request = p.request /\ k.seen = p.seen
    BY <2>2, <2>3 DEF CancelCall, CancelStep
  <2>5. cancels' = [cancels EXCEPT ![x] = k] /\ UNCHANGED tx
    BY <1>0, <1>1, <1>12, <2>2 DEF ReadJob, CancelCall
  <2>6. jobs[p.job].status = "cancellation_requested"
    BY <1>1, <1>12 DEF ReadJob
  <2>7. Advances(x, k)
    BY <1>1, <2>1, <2>4, <2>6 DEF Advances
  <2> QED
    BY <1>12, <2>4, <2>5, <2>7 DEF ReadJob, CancelEffect
<1>13. CASE Interrupt(x)
  BY <1>10, <1>13 DEF Interrupt
<1>14. ASSUME NEW q \in RequestId, NEW u \in Record, ContinueToSave(x, q, u),
              cancels[x].step \in {"create", "close"}
       PROVE  \E k \in CancelCall : cancels' = [cancels EXCEPT ![x] = k] /\ GoesOn(x, k, u)
  <2>1. CASE ValidRecord(u)
    <3>1. PICK k : k = [p EXCEPT !.step = "save", !.request = q, !.updated = u]
      OBVIOUS
    <3>2. /\ k \in CancelCall /\ k.step = "save" /\ k.job = p.job
          /\ k.seenJob = p.seenJob /\ k.updated = u
      BY <3>1 DEF CancelCall, CancelStep
    <3>3. cancels' = [cancels EXCEPT ![x] = k] /\ UNCHANGED tx
      BY <1>0, <1>1, <1>14, <2>1, <3>1 DEF ContinueToSave, CancelCall
    <3> QED
      BY <1>1, <3>2, <3>3 DEF GoesOn
  <2>2. CASE ~ValidRecord(u)
    BY <1>14, <2>2, RaiseIsRaised DEF ContinueToSave, GoesOn
  <2> QED
    BY <2>1, <2>2
<1>15. CASE CreateRequest(x)
  <2>1. PICK q \in RequestId :
        /\ requests[q].status = "absent"
        /\ requests' = [requests EXCEPT ![q] =
               [status |-> "requested", job |-> p.job, at |-> p.now, record_version |-> 1]]
        /\ ContinueToSave(x, q, CancellingRecord(p.seenJob, q))
    BY <1>1, <1>15 DEF CreateRequest
  <2>2. PICK r : r = [status |-> "requested", job |-> p.job, at |-> p.now,
                      record_version |-> 1]
    OBVIOUS
  <2>3. r \in RequestRecord /\ r.status = "requested" /\ r.job = p.job
    BY <1>2, <2>2 DEF RequestRecord
  <2>4. CancellingRecord(p.seenJob, q) \in Record
    BY <1>2, CancelledTypes
  <2>5. p.step = "create" /\ UNCHANGED <<jobs, calls, executors, clock>>
    BY <1>1, <1>15 DEF CreateRequest
  <2>6. PICK k \in CancelCall :
            /\ cancels' = [cancels EXCEPT ![x] = k]
            /\ GoesOn(x, k, CancellingRecord(p.seenJob, q))
    BY <1>1, <1>14, <2>1, <2>4, <2>5
  <2>7. Stores(x, k, q, r)
    BY <1>1, <2>1, <2>2, <2>3, <2>5, <2>6 DEF Stores
  <2> QED
    BY <2>3, <2>5, <2>6, <2>7 DEF CancelEffect
<1>16. ASSUME NEW s \in {"acknowledged", "completed"}, StoreRequest(x, s),
              cancels[x].step \in {"ack", "close"}
       PROVE  \E r \in RequestRecord :
                 /\ requests' = [requests EXCEPT ![p.request] = r]
                 /\ p.request \in RequestId
                 /\ r.job = p.seen.job /\ r.status = s
                 /\ r.record_version = p.seen.record_version + 1
  <2>1. PICK o \in RequestRecord : o = p.seen
    BY <1>2
  <2>2. PICK n \in Nat : n = o.record_version + 1
    BY DEF RequestRecord
  <2>3. PICK r : r = [o EXCEPT !.status = s, !.at = p.now, !.record_version = n]
    OBVIOUS
  <2>4. s \in {"absent", "requested", "acknowledged", "completed"} /\ p.now \in Int
    BY <1>2
  <2>5. r \in RequestRecord
    BY <2>3, <2>4 DEF RequestRecord
  <2>6. r.job = o.job /\ r.status = s /\ r.record_version = n
    BY <2>3 DEF RequestRecord
  <2>7. requests' = [requests EXCEPT ![p.request] = r]
    BY <1>1, <1>16, <2>1, <2>2, <2>3 DEF StoreRequest
  <2> QED
    BY <1>1, <1>3, <1>16, <2>1, <2>2, <2>5, <2>6, <2>7 DEF StoreRequest, CallTyped
<1>17. CASE SaveAcknowledgement(x)
  <2> SUFFICES ASSUME RequestAccepted(x)
               PROVE  Goal
    BY <1>10, <1>17 DEF SaveAcknowledgement
  <2>1. p.step = "ack" /\ StoreRequest(x, "acknowledged") /\ Return(x)
    BY <1>1, <1>17 DEF SaveAcknowledgement
  <2>2. PICK r \in RequestRecord :
                 /\ requests' = [requests EXCEPT ![p.request] = r]
                 /\ p.request \in RequestId
                 /\ r.job = p.seen.job /\ r.status = "acknowledged"
                 /\ r.record_version = p.seen.record_version + 1
    BY <1>1, <1>16, <2>1
  <2>3. Returns(x, NoCancel) /\ cancels' = [cancels EXCEPT ![x] = NoCancel]
    BY <2>1, CancelTypes DEF Return, Returns
  <2>4. Stores(x, NoCancel, p.request, r)
    BY <1>1, <2>1, <2>2, <2>3 DEF Stores
  <2> QED
    BY <1>17, <2>2, <2>3, <2>4, CancelTypes DEF SaveAcknowledgement, CancelEffect
<1>18. CASE CloseRequest(x)
  <2> SUFFICES ASSUME RequestAccepted(x)
               PROVE  Goal
    BY <1>10, <1>18 DEF CloseRequest
  <2>1. /\ p.step = "close" /\ StoreRequest(x, "completed")
        /\ ContinueToSave(x, p.request, CancelledRecord(p.seenJob, p.now))
    BY <1>1, <1>18 DEF CloseRequest
  <2>2. PICK r \in RequestRecord :
                 /\ requests' = [requests EXCEPT ![p.request] = r]
                 /\ p.request \in RequestId
                 /\ r.job = p.seen.job /\ r.status = "completed"
                 /\ r.record_version = p.seen.record_version + 1
    BY <1>1, <1>16, <2>1
  <2>3. CancelledRecord(p.seenJob, p.now) \in Record
    BY <1>2, <2>2, CancelledTypes
  <2>4. PICK k \in CancelCall :
            /\ cancels' = [cancels EXCEPT ![x] = k]
            /\ GoesOn(x, k, CancelledRecord(p.seenJob, p.now))
    BY <1>1, <1>14, <2>1, <2>2, <2>3
  <2>5. Stores(x, k, p.request, r)
    BY <1>1, <2>1, <2>2, <2>4 DEF Stores
  <2> QED
    BY <1>18, <2>2, <2>4, <2>5 DEF CloseRequest, CancelEffect
<1>19. CASE SaveJob(x)
  <2> SUFFICES ASSUME jobs[p.job].record_version = p.seenJob.record_version
               PROVE  Goal
    BY <1>1, <1>10, <1>19 DEF SaveJob
  <2>1. /\ p.step = "save" /\ Return(x) /\ UNCHANGED <<calls, executors, clock, requests>>
        /\ jobs' = [jobs EXCEPT ![p.job] = p.updated]
    BY <1>1, <1>19 DEF SaveJob
  <2>2. Returns(x, NoCancel) /\ cancels' = [cancels EXCEPT ![x] = NoCancel]
    BY <2>1, CancelTypes DEF Return, Returns
  <2>3. SavesJob(x, NoCancel)
    BY <1>1, <2>1, <2>2 DEF SavesJob
  <2> QED
    BY <2>1, <2>2, <2>3, CancelTypes DEF CancelEffect
<1> HIDE DEF Goal
<1>20. Goal
  <2>1. CASE BeginTransaction(x) \/ SnapshotRequests(x) \/ RestoreRequests(x) \/ RestoreJobs(x)
    BY <1>4, <1>5, <1>6, <1>7, <2>1 DEF Goal
  <2>2. CASE CreateRequest(x) \/ SaveAcknowledgement(x) \/ CloseRequest(x) \/ SaveJob(x)
    BY <1>15, <1>17, <1>18, <1>19, <2>2 DEF Goal
  <2>3. CASE FindActive(x) \/ ReadJob(x) \/ Interrupt(x)
    BY <1>11, <1>12, <1>13, <2>3 DEF Goal
  <2> QED
    BY <1>8, <1>9, <2>1, <2>2, <2>3 DEF CancelNext
<1> QED
  BY <1>20 DEF Goal

-----------------------------------------------------------------------------
(* Layer 1.                                                                  *)

(* Inside a transaction, and when one begins, every other thread is idle.    *)
LEMMA OthersIdle ==
    ASSUME TypeInv, tx.managed, NEW x \in Canceller, NEW y \in Canceller, x # y,
           cancels[x].step # "idle" \/ tx.holder = NoCanceller
    PROVE  cancels[y].step = "idle"
<1>1. cancels[x].step # "idle" => tx.holder = x
  BY DEF TypeInv, HolderTyped
<1>2. cancels[y].step # "idle" => tx.holder = y
  BY DEF TypeInv, HolderTyped
<1> QED
  BY <1>1, <1>2, CancellationAssumption

(* What beginning, snapshotting and ending does to the transaction.          *)
LEMMA TransactionUpdates ==
    ASSUME TypeInv, NEW x \in Canceller
    PROVE  /\ LET t == [tx EXCEPT !.holder = x, !.saved[x].jobs = jobs] IN
              /\ t \in Transaction /\ t.managed = tx.managed /\ t.holder = x
              /\ t.saved[x].jobs = jobs
           /\ LET t == [tx EXCEPT !.saved[x].requests = requests] IN
              /\ t \in Transaction /\ t.managed = tx.managed /\ t.holder = tx.holder
              /\ t.saved[x].jobs = tx.saved[x].jobs /\ t.saved[x].requests = requests
           /\ LET t == [tx EXCEPT !.holder = NoCanceller, !.saved[x] = NoSnapshot] IN
              t \in Transaction /\ t.managed = tx.managed
<1>1. /\ tx \in Transaction /\ jobs \in [Job -> Record] /\ requests \in Requests
  BY DEF TypeInv, CTypeOK, TypeOK, Requests
<1>2. NoSnapshot \in [jobs : [Job -> Record] \cup {<<>>}, requests : Requests \cup {<<>>}]
  BY DEF NoSnapshot
<1>3. PICK s : s = [tx.saved EXCEPT ![x].jobs = jobs]
  OBVIOUS
<1>4. PICK t : t = [tx EXCEPT !.holder = x, !.saved = s]
  OBVIOUS
<1>5. [tx EXCEPT !.holder = x, !.saved[x].jobs = jobs] = t
  BY <1>1, <1>3, <1>4 DEF Transaction
<1>6. /\ s \in [Canceller -> [jobs : [Job -> Record] \cup {<<>>},
                              requests : Requests \cup {<<>>}]]
      /\ s[x].jobs = jobs
  BY <1>1, <1>3 DEF Transaction
<1>7. t \in Transaction /\ t.managed = tx.managed /\ t.holder = x /\ t.saved = s
  BY <1>1, <1>4, <1>6 DEF Transaction
<1>8. PICK v : v = [tx.saved EXCEPT ![x].requests = requests]
  OBVIOUS
<1>9. PICK u : u = [tx EXCEPT !.saved = v]
  OBVIOUS
<1>10. [tx EXCEPT !.saved[x].requests = requests] = u
  BY <1>1, <1>8, <1>9 DEF Transaction
<1>11. /\ v \in [Canceller -> [jobs : [Job -> Record] \cup {<<>>},
                              requests : Requests \cup {<<>>}]]
       /\ v[x].jobs = tx.saved[x].jobs /\ v[x].requests = requests
  BY <1>1, <1>8 DEF Transaction
<1>12. /\ u \in Transaction /\ u.managed = tx.managed /\ u.holder = tx.holder
       /\ u.saved = v
  BY <1>1, <1>9, <1>11 DEF Transaction
<1>13. LET e == [tx EXCEPT !.holder = NoCanceller, !.saved[x] = NoSnapshot] IN
              e \in Transaction /\ e.managed = tx.managed
  BY <1>1, <1>2 DEF Transaction
<1> QED
  BY <1>5, <1>6, <1>7, <1>10, <1>11, <1>12, <1>13

(* No step changes whether transactions are used.                            *)
LEMMA ManagedStays ==
    ASSUME TypeInv, NEW x \in Canceller, NEW k, CancelEffect(x, k)
    PROVE  tx' \in Transaction /\ tx'.managed = tx.managed
<1>1. tx \in Transaction
  BY DEF TypeInv
<1>2. CASE tx' = [tx EXCEPT !.holder = x, !.saved[x].jobs = jobs]
  BY <1>2, TransactionUpdates
<1>3. CASE tx' = [tx EXCEPT !.saved[x].requests = requests]
  BY <1>3, TransactionUpdates
<1>4. CASE tx' = [tx EXCEPT !.holder = NoCanceller, !.saved[x] = NoSnapshot]
  BY <1>4, TransactionUpdates
<1> QED
  BY <1>1, <1>2, <1>3, <1>4 DEF CancelEffect, Returns, GoesOn, Stores, SavesJob

(* A step of the cancellation service keeps the types.                       *)
LEMMA CancelKeepsTypes ==
    ASSUME TypeInv, NEW x \in Canceller, NEW k \in CancelCall,
           UNCHANGED <<calls, executors, clock>>,
           cancels' = [cancels EXCEPT ![x] = k],
           CancelEffect(x, k)
    PROVE  TypeInv'
<1>0. /\ cancels \in [Canceller -> CancelCall] /\ requests \in Requests
      /\ jobs \in [Job -> Record] /\ tx \in Transaction
      /\ CallTyped(cancels[x]) /\ HolderTyped(x) /\ WellFormed(requests)
  BY DEF TypeInv, CTypeOK, TypeOK, Requests
<1>1. tx' \in Transaction /\ tx'.managed = tx.managed
  BY ManagedStays
<1>2. cancels' \in [Canceller -> CancelCall] /\ cancels'[x] = k
      /\ \A y \in Canceller \ {x} : cancels'[y] = cancels[y]
  BY <1>0
<1>3. cancels[x].updated \in Record
  BY <1>0 DEF CancelCall
<1>4. jobs' \in [Job -> Record]
  <2>1. CASE cancels[x].step = "restore" /\ jobs' = tx.saved[x].jobs
    BY <1>0, <2>1 DEF HolderTyped
  <2>2. CASE jobs' = [jobs EXCEPT ![cancels[x].job] = cancels[x].updated]
    BY <1>0, <1>3, <2>2
  <2>3. CASE UNCHANGED jobs
    BY <1>0, <2>3
  <2> QED
    BY <2>1, <2>2, <2>3 DEF CancelEffect, SavesJob
<1>5. requests' \in Requests /\ WellFormed(requests')
  <2>1. CASE cancels[x].step = "rollback" /\ requests' = tx.saved[x].requests
    BY <1>0, <2>1 DEF HolderTyped
  <2>2. ASSUME NEW q \in RequestId, NEW r \in RequestRecord, Stores(x, k, q, r)
        PROVE  requests' \in Requests /\ WellFormed(requests')
    <3>1. requests' = [requests EXCEPT ![q] = r] /\ r.status # "absent"
      BY <2>2 DEF Stores
    <3>2. r.job \in Job
      BY <1>0, <2>2 DEF Stores, CallTyped
    <3>3. r.job # 0
      BY <3>2, JobAssumption
    <3> QED
      BY <1>0, <3>1, <3>3 DEF WellFormed, Requests
  <2>3. CASE UNCHANGED requests
    BY <1>0, <2>3
  <2> QED
    BY <2>1, <2>2, <2>3 DEF CancelEffect
<1>6. CallTyped(k)
  <2>1. CASE Advances(x, k)
    <3>1. CASE Raised(x, k)
      BY <3>1 DEF Raised, CallTyped
    <3>2. CASE k.step = "find" /\ k.job \in Job
      BY <3>2 DEF CallTyped
    <3>3. CASE /\ k.step \in {"ack", "job"} /\ k.request \in RequestId
               /\ k.seen = requests[k.request] /\ ActiveIn(requests, k.request)
               /\ k.step = "job" => k.job = k.seen.job
      <4>1. k.seen.job \in Job \cup {0} /\ k.seen.job # 0
        BY <1>0, <3>3 DEF WellFormed, ActiveIn, Requests, RequestRecord
      <4> QED
        BY <3>3, <4>1 DEF CallTyped
    <3>4. CASE cancels[x].step \in {"find", "job"}
      BY <1>0, <2>1, <3>1, <3>4 DEF CallTyped, Advances, MayCall
    <3> QED
      BY <2>1, <3>1, <3>2, <3>3, <3>4 DEF Advances
  <2>2. ASSUME NEW u, GoesOn(x, k, u), cancels[x].step \in {"create", "close"}
        PROVE  CallTyped(k)
    BY <1>0, <2>2 DEF GoesOn, Raised, CallTyped
  <2>3. CASE k.step \in {"idle", "snapshot", "ready", "restore"}
    BY <2>3 DEF CallTyped
  <2> QED
    BY <2>1, <2>2, <2>3 DEF CancelEffect, Stores, SavesJob, Returns
<1>7. HolderTyped(x)'
  <2>1. CASE ~tx.managed
    <3>1. k.step \notin {"snapshot", "ready", "rollback", "restore"}
      BY <1>0, <2>1 DEF HolderTyped, CancelEffect, Advances, Raised, MayCall, Stores, GoesOn,
                        Returns, SavesJob
    <3> QED
      BY <1>1, <1>2, <2>1, <3>1 DEF HolderTyped
  <2>2. CASE tx.managed /\ k.step = "idle"
    BY <1>1, <1>2, <2>2 DEF HolderTyped
  <2>3. CASE tx.managed /\ k.step = "snapshot"
    <3>1. tx' = [tx EXCEPT !.holder = x, !.saved[x].jobs = jobs]
      BY <2>3 DEF CancelEffect, Advances, Raised, MayCall, Stores, GoesOn,
                        Returns, SavesJob
    <3>2. tx'.holder = x /\ tx'.saved[x].jobs = jobs
      BY <3>1, TransactionUpdates
    <3> QED
      BY <1>0, <1>1, <1>2, <2>3, <3>2 DEF HolderTyped
  <2>4. CASE tx.managed /\ k.step = "ready"
    <3>1. cancels[x].step = "snapshot" /\ tx' = [tx EXCEPT !.saved[x].requests = requests]
      BY <2>4 DEF CancelEffect, Advances, Raised, MayCall, Stores, GoesOn,
                        Returns, SavesJob
    <3>2. /\ tx'.holder = tx.holder /\ tx'.saved[x].jobs = tx.saved[x].jobs
          /\ tx'.saved[x].requests = requests
      BY <3>1, TransactionUpdates
    <3> QED
      BY <1>0, <1>1, <1>2, <2>4, <3>1, <3>2 DEF HolderTyped
  <2>5. CASE tx.managed /\ k.step \notin {"idle", "snapshot", "ready"}
    <3>1. UNCHANGED tx /\ cancels[x].step \notin {"idle", "snapshot"}
      BY <2>5 DEF CancelEffect, Advances, Raised, MayCall, Stores, GoesOn,
                        Returns, SavesJob
    <3> QED
      BY <1>0, <1>1, <1>2, <2>5, <3>1 DEF HolderTyped
  <2> QED
    BY <2>1, <2>2, <2>3, <2>4, <2>5
<1>8. \A y \in Canceller : CallTyped(cancels'[y])
  BY <1>2, <1>6 DEF TypeInv
<1>9. ASSUME NEW y \in Canceller, y # x
      PROVE  HolderTyped(y)'
  <2>1. CASE ~tx.managed
    BY <1>1, <1>2, <1>9, <2>1 DEF TypeInv, HolderTyped
  <2>2. CASE tx.managed
    <3>1. cancels[x].step # "idle" \/ tx.holder = NoCanceller
      BY <2>2 DEF CancelEffect, Advances, Raised, MayCall, Stores, SavesJob
    <3>2. cancels'[y].step = "idle"
      BY <1>2, <1>9, <2>2, <3>1, OthersIdle
    <3> QED
      BY <1>1, <2>2, <3>2 DEF HolderTyped
  <2> QED
    BY <2>1, <2>2
<1>10. CTypeOK'
  <2>1. TypeOK'
    BY <1>4 DEF TypeInv, CTypeOK, TypeOK
  <2>2. tx'.holder \in Canceller \cup {NoCanceller} /\ tx'.managed \in BOOLEAN
    BY <1>1 DEF Transaction
  <2> QED
    BY <1>2, <1>5, <2>1, <2>2 DEF CTypeOK, Requests
<1> QED
  BY <1>1, <1>5, <1>7, <1>8, <1>9, <1>10 DEF TypeInv, WellFormed

(* The steps of the workers leave the cancellation service alone.            *)
LEMMA CancellersStay ==
    ASSUME TypeInv, TypeOK', UNCHANGED <<requests, cancels, tx>>
    PROVE  TypeInv'
<1>1. CTypeOK'
  BY DEF TypeInv, CTypeOK
<1>2. ASSUME NEW x \in Canceller
      PROVE  CallTyped(cancels[x])' /\ HolderTyped(x)'
  BY DEF TypeInv, HolderTyped, CallTyped
<1> QED
  BY <1>1, <1>2 DEF TypeInv, WellFormed

(* What the steps of the whole system are: a step of the queue, a worker     *)
(* that gives up a cancelled job, a step of a cancelling thread.             *)
LEMMA StepCases ==
    ASSUME TypeInv, [CNext]_cvars
    PROVE  \/ [Next]_vars /\ UNCHANGED <<requests, cancels, tx>>
           \/ \E c \in Worker, j \in Job : Abandon(c, j)
           \/ /\ UNCHANGED <<calls, executors, clock>>
              /\ \E x \in Canceller, k \in CancelCall :
                    cancels' = [cancels EXCEPT ![x] = k] /\ CancelEffect(x, k)
<1>1. CASE UNCHANGED cvars
  BY <1>1 DEF cvars, vars
<1>2. CASE QueueNext
  BY <1>2 DEF QueueNext
<1>3. ASSUME NEW x \in Canceller, CancelNext(x)
      PROVE  /\ UNCHANGED <<calls, executors, clock>>
             /\ \E y \in Canceller, k \in CancelCall :
                    cancels' = [cancels EXCEPT ![y] = k] /\ CancelEffect(y, k)
  BY <1>3, CancelSteps
<1> QED
  BY <1>1, <1>2, <1>3 DEF CNext

(* The service starts with no request, no call and no transaction.           *)
LEMMA CTypesInit == CInit => TypeInv
<1> SUFFICES ASSUME CInit
             PROVE  TypeInv
  OBVIOUS
<1>1. TypeOK
  BY InitEstablishesInv DEF CInit, IInv
<1>2. PICK managed \in BOOLEAN : tx = NoTransaction(managed)
  BY CancellationAssumption DEF CInit
<1>3. /\ tx \in Transaction /\ tx.holder = NoCanceller
  BY <1>2 DEF NoTransaction, Transaction, NoSnapshot
<1>4. CTypeOK
  BY <1>1, <1>3, CancelTypes DEF CInit, CTypeOK, Transaction
<1>5. WellFormed(requests)
  BY CancelTypes DEF CInit, WellFormed
<1>6. ASSUME NEW x \in Canceller
      PROVE  CallTyped(cancels[x]) /\ HolderTyped(x)
  BY CancelTypes DEF CInit, CallTyped, HolderTyped
<1> QED
  BY <1>3, <1>4, <1>5, <1>6 DEF TypeInv

(* Every step keeps the types.                                               *)
LEMMA CTypesStep == TypeInv /\ [CNext]_cvars => TypeInv'
<1> SUFFICES ASSUME TypeInv, [CNext]_cvars
             PROVE  TypeInv'
  OBVIOUS
<1>1. TypeOK
  BY DEF TypeInv, CTypeOK
<1>2. CASE [Next]_vars /\ UNCHANGED <<requests, cancels, tx>>
  BY <1>1, <1>2, TypesStep, CancellersStay
<1>3. ASSUME NEW c \in Worker, NEW j \in Job, Abandon(c, j)
      PROVE  TypeInv'
  <2>1. TypeOK'
    BY <1>1, <1>3 DEF Abandon, TypeOK
  <2> QED
    BY <1>3, <2>1, CancellersStay DEF Abandon
<1> QED
  BY <1>2, <1>3, StepCases, CancelKeepsTypes

(* The stored requests, the calls of the cancelling threads and the          *)
(* transaction keep their types, inside transactions and outside them,       *)
(* rollbacks included.                                                       *)
THEOREM CancellationTypes == CSpec => []CTypeOK
<1>1. TypeInv => CTypeOK
  BY DEF TypeInv
<1> QED
  BY <1>1, CTypesInit, CTypesStep, PTL DEF CSpec

-----------------------------------------------------------------------------
(* Layer 2.                                                                  *)

(* No operation of the workers attaches a cancellation or cancels a job.     *)
LEMMA UpdatesBacked ==
    ASSUME NEW rs, NEW j, NEW op, NEW c, NEW now, NEW r, NEW u,
           Updates(op, c, now, r, u), BackedBy(rs, j, r)
    PROVE  BackedBy(rs, j, u)
<1>1. u.cancellation \in {0, r.cancellation}
  BY DEF Updates
<1>2. u.status = "cancelled" => r.status = "cancelled"
  BY QueueAssumption DEF Updates
<1> QED
  BY <1>1, <1>2 DEF BackedBy

(* Requests that grow still account for what they accounted for.             *)
LEMMA GrowsBacked ==
    ASSUME NEW rs, NEW rt, WellFormed(rs), Grows(rs, rt), NEW j \in Job, NEW r,
           BackedBy(rs, j, r)
    PROVE  BackedBy(rt, j, r)
<1>1. \A q \in RequestId : rs[q].job = j => rs[q].status # "absent"
  BY JobAssumption DEF WellFormed
<1> QED
  BY <1>1 DEF BackedBy, Grows

(* Whatever the workers do, the same requests account for the records.       *)
LEMMA QueueStepBacked ==
    ASSUME TypeOK, [Next]_vars, NEW rs, AllBackedBy(rs)
    PROVE  /\ \A j \in Job : BackedBy(rs, j, jobs'[j])
           /\ \A c \in Worker : \A w \in calls'[c].writes : BackedBy(rs, w.job, w.updated)
<1>1. ASSUME NEW j \in Job
      PROVE  BackedBy(rs, j, jobs'[j])
  <2>1. CASE jobs'[j] = jobs[j]
    BY <2>1 DEF AllBackedBy
  <2>2. ASSUME NEW p \in Priorities, NEW d \in Delays, jobs'[j] = SubmittedRecord(p, d)
        PROVE  BackedBy(rs, j, jobs'[j])
    BY <2>2, SubmittedType DEF BackedBy
  <2>3. ASSUME NEW c \in Worker, NEW w \in calls[c].writes, w.job = j,
               jobs'[j] = w.updated
        PROVE  BackedBy(rs, j, jobs'[j])
    BY <2>3 DEF AllBackedBy
  <2> QED
    BY <2>1, <2>2, <2>3, StepRecords
<1>2. ASSUME NEW c \in Worker, NEW w \in calls'[c].writes
      PROVE  BackedBy(rs, w.job, w.updated)
  <2>1. CASE w \in calls[c].writes
    BY <2>1 DEF AllBackedBy
  <2>2. ASSUME NEW op, NEW now \in Int, Prepared(op, c, now, w)
        PROVE  BackedBy(rs, w.job, w.updated)
    <3>1. w \in Write /\ w.seen = jobs[w.job] /\ Updates(op, c, now, w.seen, w.updated)
      BY <2>2, PreparedUpdates
    <3>2. BackedBy(rs, w.job, w.seen)
      BY <3>1 DEF AllBackedBy, Write
    <3> QED
      BY <3>1, <3>2, UpdatesBacked
  <2>3. calls[c].now \in Int /\ \A n \in CallTimes : n \in Int
    BY DEF TypeOK, Call, CallTimes
  <2> QED
    BY <2>1, <2>2, <2>3, StepWrites
<1> QED
  BY <1>1, <1>2

(* What the workers do leaves every cancellation backed.                     *)
LEMMA WorkersKeepBacked ==
    ASSUME TypeInv, BackedInv, UNCHANGED <<requests, cancels, tx>>,
           ASSUME NEW rs, AllBackedBy(rs)
           PROVE  /\ \A j \in Job : BackedBy(rs, j, jobs'[j])
                  /\ \A c \in Worker : \A w \in calls'[c].writes :
                         BackedBy(rs, w.job, w.updated)
    PROVE  BackedInv'
<1>1. /\ \A j \in Job : BackedBy(requests', j, jobs'[j])
      /\ \A c \in Worker : \A w \in calls'[c].writes : BackedBy(requests', w.job, w.updated)
  BY DEF BackedInv
<1>2. ASSUME NEW x \in Canceller
      PROVE  CallBacked(cancels[x])'
  BY DEF BackedInv, CallBacked, BackedBy
<1>3. ASSUME NEW x \in Canceller, tx.managed
      PROVE  SnapshotBacked(x)'
  <2>1. SnapshotBacked(x)
    BY <1>3 DEF BackedInv
  <2>2. cancels'[x] = cancels[x] /\ tx'.saved[x] = tx.saved[x] /\ requests' = requests
    OBVIOUS
  <2>3. cancels'[x].step = "snapshot" =>
            \A j \in Job : BackedBy(requests', j, tx'.saved[x].jobs[j])
    BY <2>1, <2>2 DEF SnapshotBacked
  <2>4. cancels'[x].step \notin {"idle", "snapshot"} =>
          /\ \A j \in Job : BackedBy(tx'.saved[x].requests, j, jobs'[j])
          /\ \A c \in Worker : \A w \in calls'[c].writes :
                BackedBy(tx'.saved[x].requests, w.job, w.updated)
          /\ \A j \in Job : BackedBy(tx'.saved[x].requests, j, tx'.saved[x].jobs[j])
    BY <2>1, <2>2 DEF SnapshotBacked
  <2>5. cancels'[x].step = "restore" => requests' = tx'.saved[x].requests
    BY <2>1, <2>2 DEF SnapshotBacked
  <2> QED
    BY <2>3, <2>4, <2>5 DEF SnapshotBacked, AllBackedBy
<1> QED
  BY <1>1, <1>2, <1>3 DEF BackedInv, AllBackedBy

(* A request that is stored makes the requests grow: update replaces exactly *)
(* the request the call read, create uses a new id.                          *)
LEMMA StoredGrows ==
    ASSUME TypeInv, BackedInv, NEW x \in Canceller, NEW k,
           NEW q \in RequestId, NEW r \in RequestRecord, Stores(x, k, q, r)
    PROVE  /\ Grows(requests, requests')
           /\ requests'[q] = r /\ \A p \in RequestId \ {q} : requests'[p] = requests[p]
           /\ \/ requests[q].status = "absent"
              \/ r.record_version = requests[q].record_version + 1
<1>1. requests' = [requests EXCEPT ![q] = r] /\ requests \in Requests
  BY DEF Stores, TypeInv, CTypeOK, Requests
<1>2. requests'[q] = r /\ \A p \in RequestId \ {q} : requests'[p] = requests[p]
  BY <1>1 DEF Requests
<1>3. CASE requests[q].status = "absent"
  BY <1>2, <1>3 DEF Grows
<1>4. CASE cancels[x].step \in {"ack", "close"}
  <2>1. cancels[x].seen = requests[q] /\ ActiveIn(requests, q)
    BY <1>4 DEF Stores, RequestAccepted, BackedInv, CallBacked, ActiveIn
  <2>2. r.job = requests[q].job /\ r.status # "absent"
    BY <1>4, <2>1 DEF Stores
  <2>3. Grows(requests, requests')
    BY <1>2, <2>1, <2>2 DEF Grows, ActiveIn
  <2> QED
    BY <1>2, <1>4, <2>1, <2>3 DEF Stores
<1> QED
  BY <1>3, <1>4 DEF Stores

(* What another call has read and means to store stays accounted for.        *)
LEMMA OtherCallBacked ==
    ASSUME TypeInv, BackedInv, NEW x \in Canceller, NEW k, CancelEffect(x, k),
           NEW y \in Canceller, y # x
    PROVE  LET p == cancels[y] IN
           /\ p.step \in {"ack", "job", "close"} =>
                 /\ p.seen.status \in {"requested", "acknowledged"}
                 /\ requests'[p.request].status # "absent"
                 /\ p.seen.record_version <= requests'[p.request].record_version
                 /\ p.seen.record_version = requests'[p.request].record_version
                       => p.seen = requests'[p.request]
           /\ p.step = "close" => BackedBy(requests', p.job, p.seenJob)
           /\ p.step = "save" => BackedBy(requests', p.job, p.updated)
<1> DEFINE Goal ==
           LET p == cancels[y] IN
           /\ p.step \in {"ack", "job", "close"} =>
                 /\ p.seen.status \in {"requested", "acknowledged"}
                 /\ requests'[p.request].status # "absent"
                 /\ p.seen.record_version <= requests'[p.request].record_version
                 /\ p.seen.record_version = requests'[p.request].record_version
                       => p.seen = requests'[p.request]
           /\ p.step = "close" => BackedBy(requests', p.job, p.seenJob)
           /\ p.step = "save" => BackedBy(requests', p.job, p.updated)
<1>1. CallBacked(cancels[y]) /\ CallTyped(cancels[y]) /\ WellFormed(requests)
  BY DEF BackedInv, TypeInv
<1>2. CASE tx.managed
  <2>1. cancels[x].step # "idle" \/ tx.holder = NoCanceller
    BY <1>2 DEF CancelEffect, Advances, Raised, MayCall, Stores, SavesJob
  <2>2. cancels[y].step = "idle"
    BY <1>2, <2>1, OthersIdle
  <2> QED
    BY <2>2
<1>3. CASE UNCHANGED requests
  BY <1>1, <1>3 DEF CallBacked
<1>4. ASSUME NEW q \in RequestId, NEW r \in RequestRecord, Stores(x, k, q, r)
      PROVE  Goal
  <2>1. PICK p : p = cancels[y]
    OBVIOUS
  <2>2. /\ Grows(requests, requests')
        /\ requests'[q] = r /\ \A o \in RequestId \ {q} : requests'[o] = requests[o]
        /\ \/ requests[q].status = "absent"
           \/ r.record_version = requests[q].record_version + 1
    BY <1>4, StoredGrows
  <2>3. p.seen.record_version \in Nat /\ r.record_version \in Nat
        /\ requests[q].record_version \in Nat
    BY <2>1 DEF TypeInv, CTypeOK, CancelCall, RequestRecord
  <2>4. ASSUME p.step \in {"ack", "job", "close"}
        PROVE  /\ p.seen.status \in {"requested", "acknowledged"}
               /\ requests'[p.request].status # "absent"
               /\ p.seen.record_version <= requests'[p.request].record_version
               /\ p.seen.record_version = requests'[p.request].record_version
                     => p.seen = requests'[p.request]
    <3>1. /\ p.seen.status \in {"requested", "acknowledged"}
          /\ p.request \in RequestId /\ requests[p.request].status # "absent"
          /\ p.seen.record_version <= requests[p.request].record_version
          /\ p.seen.record_version = requests[p.request].record_version
                     => p.seen = requests[p.request]
      BY <1>1, <2>1, <2>4 DEF CallBacked, CallTyped
    <3>2. requests'[p.request].status # "absent"
      BY <2>2, <3>1 DEF Grows
    <3>3. CASE p.request = q
      BY <2>2, <2>3, <3>1, <3>2, <3>3
    <3>4. CASE p.request # q
      BY <2>2, <3>1, <3>2, <3>4
    <3> QED
      BY <3>3, <3>4
  <2>5. p.step \in {"close", "save"} => p.job \in Job
    BY <1>1, <2>1 DEF CallTyped
  <2>6. /\ p.step = "close" => BackedBy(requests', p.job, p.seenJob)
        /\ p.step = "save" => BackedBy(requests', p.job, p.updated)
    BY <1>1, <2>1, <2>2, <2>5, GrowsBacked DEF CallBacked
  <2> QED
    BY <2>1, <2>4, <2>6
<1>5. CASE cancels[x].step = "rollback"
  BY <1>2, <1>5 DEF TypeInv, HolderTyped
<1> HIDE DEF Goal
<1>6. Goal
  BY <1>2, <1>3, <1>4, <1>5 DEF CancelEffect, Goal
<1> QED
  BY <1>6 DEF Goal

(* Storing a request, storing a job and restoring a snapshot leave every     *)
(* cancellation backed.                                                      *)
LEMMA CancelKeepsBacked ==
    ASSUME TypeInv, BackedInv, NEW x \in Canceller, NEW k \in CancelCall,
           UNCHANGED <<calls, executors, clock>>,
           cancels' = [cancels EXCEPT ![x] = k],
           CancelEffect(x, k)
    PROVE  BackedInv'
<1>0. /\ cancels \in [Canceller -> CancelCall] /\ requests \in Requests
      /\ jobs \in [Job -> Record] /\ WellFormed(requests)
      /\ CallTyped(cancels[x]) /\ HolderTyped(x)
      /\ CallBacked(cancels[x]) /\ AllBackedBy(requests)
      /\ tx.managed => SnapshotBacked(x)
      /\ tx'.managed = tx.managed
  BY ManagedStays DEF TypeInv, BackedInv, CTypeOK, TypeOK, Requests
<1>1. cancels'[x] = k /\ \A y \in Canceller \ {x} : cancels'[y] = cancels[y]
  BY <1>0
<1>2. ASSUME NEW q \in RequestId, NEW r \in RequestRecord, Stores(x, k, q, r)
      PROVE  Grows(requests, requests') /\ requests'[q] = r
  BY <1>2, StoredGrows
<1>3. /\ \A j \in Job : BackedBy(requests', j, jobs'[j])
      /\ \A c \in Worker : \A w \in calls'[c].writes : BackedBy(requests', w.job, w.updated)
  <2>1. CASE UNCHANGED <<jobs, requests>>
    BY <1>0, <2>1 DEF AllBackedBy
  <2>2. CASE cancels[x].step = "rollback" /\ requests' = tx.saved[x].requests /\ UNCHANGED jobs
    <3>1. tx.managed
      BY <1>0, <2>2 DEF HolderTyped
    <3> QED
      BY <1>0, <2>2, <3>1 DEF SnapshotBacked, AllBackedBy
  <2>3. CASE cancels[x].step = "restore" /\ jobs' = tx.saved[x].jobs /\ UNCHANGED requests
    <3>1. tx.managed
      BY <1>0, <2>3 DEF HolderTyped
    <3> QED
      BY <1>0, <2>3, <3>1 DEF SnapshotBacked, AllBackedBy
  <2>4. ASSUME NEW q \in RequestId, NEW r \in RequestRecord, Stores(x, k, q, r),
               UNCHANGED jobs
        PROVE  /\ \A j \in Job : BackedBy(requests', j, jobs'[j])
               /\ \A c \in Worker : \A w \in calls'[c].writes :
                     BackedBy(requests', w.job, w.updated)
    <3>1. Grows(requests, requests')
      BY <1>2, <2>4
    <3>2. \A c \in Worker : \A w \in calls[c].writes : w.job \in Job
      BY DEF TypeInv, CTypeOK, TypeOK, Call, Write
    <3> QED
      BY <1>0, <2>4, <3>1, <3>2, GrowsBacked DEF AllBackedBy
  <2>5. CASE SavesJob(x, k) /\ UNCHANGED requests
    <3>1. jobs' = [jobs EXCEPT ![cancels[x].job] = cancels[x].updated]
      BY <2>5 DEF SavesJob
    <3>2. BackedBy(requests, cancels[x].job, cancels[x].updated)
      BY <1>0, <2>5 DEF SavesJob, CallBacked
    <3> QED
      BY <1>0, <2>5, <3>1, <3>2 DEF AllBackedBy
  <2> QED
    BY <2>1, <2>2, <2>3, <2>4, <2>5 DEF CancelEffect
<1>4. CallBacked(cancels[x])'
  <2> SUFFICES
        /\ k.step \in {"ack", "job", "close"} =>
              /\ k.seen.status \in {"requested", "acknowledged"}
              /\ requests'[k.request].status # "absent"
              /\ k.seen.record_version <= requests'[k.request].record_version
              /\ k.seen.record_version = requests'[k.request].record_version
                    => k.seen = requests'[k.request]
        /\ k.step = "close" => BackedBy(requests', k.job, k.seenJob)
        /\ k.step = "save" => BackedBy(requests', k.job, k.updated)
    BY <1>1 DEF CallBacked
  <2>1. CASE k.step \in {"ack", "job"}
    <3>1. /\ UNCHANGED requests /\ k.request \in RequestId
          /\ k.seen = requests[k.request] /\ ActiveIn(requests, k.request)
      BY <2>1 DEF CancelEffect, Advances, Raised, Stores, GoesOn, Returns, SavesJob
    <3>2. requests[k.request].record_version \in Nat
      BY <1>0, <3>1 DEF Requests, RequestRecord
    <3> QED
      BY <2>1, <3>1, <3>2 DEF ActiveIn
  <2>2. CASE k.step = "close"
    <3>1. /\ UNCHANGED requests /\ cancels[x].step = "job"
          /\ k.request = cancels[x].request /\ k.seen = cancels[x].seen
          /\ k.job = cancels[x].job /\ k.seenJob = jobs[k.job]
      BY <2>2 DEF CancelEffect, Advances, Raised, Stores, GoesOn, Returns, SavesJob
    <3>2. k.job \in Job
      BY <1>0, <3>1 DEF CallTyped
    <3>3. BackedBy(requests, k.job, k.seenJob)
      BY <1>0, <3>1, <3>2 DEF AllBackedBy
    <3> QED
      BY <1>0, <2>2, <3>1, <3>3 DEF CallBacked
  <2>3. CASE k.step = "save"
    <3>1. PICK q \in RequestId, r \in RequestRecord : Stores(x, k, q, r)
      BY <2>3 DEF CancelEffect, Advances, Raised, Returns, SavesJob
    <3>2. PICK p \in CancelCall : p = cancels[x]
      BY <1>0
    <3>3. p.seenJob \in Record /\ p.now \in Int
      BY DEF CancelCall
    <3>4. p.step \in {"create", "close"} /\ k.job = p.job /\ p.job \in Job
      BY <1>0, <2>3, <3>1, <3>2 DEF Stores, GoesOn, Raised, Returns, CallTyped
    <3>5. CASE p.step = "create"
      <4>1. k.updated = CancellingRecord(p.seenJob, q) /\ r.job = p.job
        BY <2>3, <3>1, <3>2, <3>5 DEF Stores, GoesOn, Raised
      <4>2. k.updated.status # "cancelled" /\ k.updated.cancellation = q
        BY <3>3, <4>1, CancelledTypes
      <4> QED
        BY <1>2, <2>3, <3>1, <3>4, <4>1, <4>2 DEF BackedBy
    <3>6. CASE p.step = "close"
      <4>1. /\ k.updated = CancelledRecord(p.seenJob, p.now) /\ r.job = p.seen.job
            /\ r.status = "completed" /\ p.seen.job = p.job
        BY <1>0, <2>3, <3>1, <3>2, <3>6 DEF Stores, GoesOn, Raised, Returns, CallTyped
      <4>2. k.updated.cancellation = p.seenJob.cancellation
        BY <3>3, <4>1, CancelledTypes
      <4>3. BackedBy(requests', p.job, p.seenJob)
        BY <1>0, <1>2, <3>1, <3>2, <3>4, <3>6, GrowsBacked DEF CallBacked
      <4> QED
        BY <1>2, <2>3, <3>1, <3>4, <4>1, <4>2, <4>3 DEF BackedBy
    <3> QED
      BY <3>4, <3>5, <3>6
  <2> QED
    BY <2>1, <2>2, <2>3
<1>5. ASSUME NEW y \in Canceller, y # x
      PROVE  CallBacked(cancels[y])'
  BY <1>1, <1>5, OtherCallBacked DEF CallBacked
<1>6. ASSUME tx.managed
      PROVE  SnapshotBacked(x)'
  <2>0. SnapshotBacked(x)
    BY <1>0, <1>6
  <2>1. CASE k.step = "idle"
    BY <1>1, <2>1 DEF SnapshotBacked
  <2>2. CASE k.step = "snapshot"
    <3>1. /\ tx' = [tx EXCEPT !.holder = x, !.saved[x].jobs = jobs]
          /\ UNCHANGED <<jobs, requests>>
      BY <2>2 DEF CancelEffect, Advances, Raised, MayCall, Stores, GoesOn, Returns, SavesJob
    <3>2. tx'.saved[x].jobs = jobs
      BY <3>1, TransactionUpdates
    <3> QED
      BY <1>0, <1>1, <2>2, <3>1, <3>2 DEF SnapshotBacked, AllBackedBy
  <2>3. CASE k.step = "ready"
    <3>1. /\ cancels[x].step = "snapshot" /\ tx' = [tx EXCEPT !.saved[x].requests = requests]
          /\ UNCHANGED <<jobs, requests>>
      BY <2>3 DEF CancelEffect, Advances, Raised, MayCall, Stores, GoesOn, Returns, SavesJob
    <3>2. tx'.saved[x].jobs = tx.saved[x].jobs /\ tx'.saved[x].requests = requests
      BY <3>1, TransactionUpdates
    <3>3. \A j \in Job : BackedBy(requests, j, tx.saved[x].jobs[j])
      BY <2>0, <3>1 DEF SnapshotBacked
    <3> QED
      BY <1>0, <1>1, <2>3, <3>1, <3>2, <3>3 DEF SnapshotBacked, AllBackedBy
  <2>4. CASE k.step \notin {"idle", "snapshot", "ready"}
    <3>1. UNCHANGED <<jobs, tx>> /\ cancels[x].step \notin {"idle", "snapshot"}
      BY <1>6, <2>4 DEF CancelEffect, Advances, Raised, MayCall, Stores, GoesOn,
                        Returns, SavesJob
    <3>2. k.step = "restore" => requests' = tx.saved[x].requests
      BY <2>4 DEF CancelEffect, Advances, Raised, MayCall, Stores, GoesOn,
                        Returns, SavesJob
    <3>3. /\ AllBackedBy(tx.saved[x].requests)
          /\ \A j \in Job : BackedBy(tx.saved[x].requests, j, tx.saved[x].jobs[j])
      BY <2>0, <3>1 DEF SnapshotBacked
    <3> QED
      BY <1>1, <2>4, <3>1, <3>2, <3>3 DEF SnapshotBacked, AllBackedBy
  <2> QED
    BY <2>1, <2>2, <2>3, <2>4
<1>7. ASSUME NEW y \in Canceller, y # x, tx.managed
      PROVE  SnapshotBacked(y)'
  <2>1. cancels[x].step # "idle" \/ tx.holder = NoCanceller
    BY <1>7 DEF CancelEffect, Advances, Raised, MayCall, Stores, SavesJob
  <2>2. cancels'[y].step = "idle"
    BY <1>1, <1>7, <2>1, OthersIdle
  <2> QED
    BY <2>2 DEF SnapshotBacked
<1> QED
  BY <1>0, <1>3, <1>4, <1>5, <1>6, <1>7 DEF BackedInv, AllBackedBy

(* At first there is nothing to account for.                                 *)
LEMMA BackedInit == CInit => BackedInv
<1> SUFFICES ASSUME CInit
             PROVE  BackedInv
  OBVIOUS
<1>1. AllBackedBy(requests)
  BY AbsentType DEF CInit, Init, AllBackedBy, BackedBy, Absent, Idle
<1>2. ASSUME NEW x \in Canceller
      PROVE  CallBacked(cancels[x]) /\ SnapshotBacked(x)
  BY CancelTypes DEF CInit, CallBacked, SnapshotBacked
<1> QED
  BY <1>1, <1>2 DEF BackedInv

(* Every step keeps cancellations backed.                                    *)
LEMMA BackedStep == TypeInv /\ BackedInv /\ [CNext]_cvars => BackedInv'
<1> SUFFICES ASSUME TypeInv, BackedInv, [CNext]_cvars
             PROVE  BackedInv'
  OBVIOUS
<1>1. TypeOK
  BY DEF TypeInv, CTypeOK
<1>2. CASE [Next]_vars /\ UNCHANGED <<requests, cancels, tx>>
  BY <1>1, <1>2, QueueStepBacked, WorkersKeepBacked
<1>3. ASSUME NEW c \in Worker, NEW j \in Job, Abandon(c, j)
      PROVE  BackedInv'
  <2>1. UNCHANGED <<jobs, calls, requests, cancels, tx>>
    BY <1>3 DEF Abandon
  <2>2. ASSUME NEW rs, AllBackedBy(rs)
        PROVE  /\ \A k \in Job : BackedBy(rs, k, jobs'[k])
               /\ \A d \in Worker : \A w \in calls'[d].writes : BackedBy(rs, w.job, w.updated)
    BY <2>1, <2>2 DEF AllBackedBy
  <2> QED
    BY <2>1, <2>2, WorkersKeepBacked
<1> QED
  BY <1>2, <1>3, StepCases, CancelKeepsBacked

(* The cancellation a job carries names a stored request for that very job,  *)
(* and a cancelled job has a completed request: request and complete store   *)
(* the request before the job, and no interleaving with workers and other    *)
(* cancelling threads, no exception and no rollback parts the two.           *)
THEOREM CancellationsAreBacked == CSpec => []CancellationIsBacked
<1>1. BackedInv => CancellationIsBacked
  BY DEF BackedInv, AllBackedBy, BackedBy, CancellationIsBacked
<1> QED
  BY <1>1, BackedInit, CTypesInit, CTypesStep, BackedStep, PTL DEF CSpec

-----------------------------------------------------------------------------
(* Layer 3.                                                                  *)

(* Within a transaction a request is created only when no request for the    *)
(* job is active, and an update never activates one.                         *)
LEMMA StoredStaysOne ==
    ASSUME TypeInv, BackedInv, ActiveInv, tx.managed, NEW x \in Canceller, NEW k,
           NEW q \in RequestId, NEW r \in RequestRecord, Stores(x, k, q, r)
    PROVE  \A o, p \in RequestId :
              /\ requests'[o].status \in {"requested", "acknowledged"}
              /\ requests'[p].status \in {"requested", "acknowledged"}
              /\ requests'[o].job = requests'[p].job
              => o = p
<1>1. requests'[q] = r /\ \A p \in RequestId \ {q} : requests'[p] = requests[p]
  BY StoredGrows
<1>2. OneActive(requests)
  BY DEF ActiveInv
<1>3. CASE cancels[x].step = "create"
  <2>1. \A p \in RequestId : ActiveIn(requests, p) => requests[p].job # r.job
    BY <1>3 DEF ActiveInv, Stores
  <2> QED
    BY <1>1, <1>2, <2>1 DEF OneActive, ActiveIn
<1>4. CASE cancels[x].step \in {"ack", "close"}
  <2>1. cancels[x].seen = requests[q] /\ ActiveIn(requests, q)
    BY <1>4 DEF Stores, RequestAccepted, BackedInv, CallBacked, ActiveIn
  <2>2. r.job = requests[q].job
    BY <1>4, <2>1 DEF Stores
  <2> QED
    BY <1>1, <1>2, <2>1, <2>2 DEF OneActive, ActiveIn
<1> QED
  BY <1>3, <1>4 DEF Stores

(* Every step of a cancelling thread keeps the active requests apart.        *)
LEMMA CancelKeepsActive ==
    ASSUME TypeInv, BackedInv, ActiveInv, NEW x \in Canceller, NEW k \in CancelCall,
           cancels' = [cancels EXCEPT ![x] = k],
           CancelEffect(x, k)
    PROVE  ActiveInv'
<1> SUFFICES ASSUME tx.managed
             PROVE  ActiveInv'
  BY ManagedStays DEF ActiveInv
<1>0. /\ cancels \in [Canceller -> CancelCall] /\ HolderTyped(x)
  BY DEF TypeInv, CTypeOK
<1>1. cancels'[x] = k /\ \A y \in Canceller \ {x} : cancels'[y] = cancels[y]
  BY <1>0
<1>2. OneActive(requests)'
  <2>1. CASE UNCHANGED requests
    BY <2>1 DEF ActiveInv, OneActive, ActiveIn
  <2>2. CASE cancels[x].step = "rollback" /\ requests' = tx.saved[x].requests
    <3>1. OneActive(tx.saved[x].requests)
      BY <2>2 DEF ActiveInv
    <3> QED
      BY <2>2, <3>1 DEF OneActive, ActiveIn
  <2>3. ASSUME NEW q \in RequestId, NEW r \in RequestRecord, Stores(x, k, q, r)
        PROVE  OneActive(requests)'
    BY <2>3, StoredStaysOne DEF OneActive, ActiveIn
  <2> QED
    BY <2>1, <2>2, <2>3 DEF CancelEffect
<1>3. k.step \notin {"idle", "snapshot"} => OneActive(tx.saved[x].requests)'
  <2>1. CASE k.step = "ready"
    <3>1. tx' = [tx EXCEPT !.saved[x].requests = requests] /\ UNCHANGED requests
      BY <2>1 DEF CancelEffect, Advances, Raised, MayCall, Stores, GoesOn, Returns, SavesJob
    <3>2. tx'.saved[x].requests = requests'
      BY <3>1, TransactionUpdates
    <3> QED
      BY <1>2, <3>2 DEF OneActive, ActiveIn
  <2>2. CASE k.step \notin {"idle", "snapshot", "ready"}
    <3>1. UNCHANGED tx /\ cancels[x].step \notin {"idle", "snapshot"}
      BY <2>2 DEF CancelEffect, Advances, Raised, MayCall, Stores, GoesOn, Returns, SavesJob
    <3>2. OneActive(tx.saved[x].requests)
      BY <3>1 DEF ActiveInv
    <3> QED
      BY <3>1, <3>2 DEF OneActive, ActiveIn
  <2> QED
    BY <2>1, <2>2
<1>4. k.step = "create" =>
          \A q \in RequestId : ActiveIn(requests, q)' => requests'[q].job # k.job
  <2> SUFFICES ASSUME k.step = "create"
               PROVE  \A q \in RequestId : ActiveIn(requests, q)' => requests'[q].job # k.job
    OBVIOUS
  <2>1. /\ UNCHANGED requests
        /\ \A q \in RequestId : ActiveIn(requests, q) => requests[q].job # k.job
    BY DEF CancelEffect, Advances, Raised, MayCall, Stores, GoesOn, Returns, SavesJob
  <2> QED
    BY <2>1 DEF ActiveIn
<1>5. ASSUME NEW y \in Canceller, y # x
      PROVE  cancels'[y].step = "idle"
  <2>1. cancels[x].step # "idle" \/ tx.holder = NoCanceller
    BY DEF CancelEffect, Advances, Raised, MayCall, Stores, SavesJob
  <2> QED
    BY <1>1, <1>5, <2>1, OthersIdle
<1> QED
  BY <1>1, <1>2, <1>3, <1>4, <1>5 DEF ActiveInv

(* Within transactions a job has at most one active cancellation request:    *)
(* between find_active_by_job_id and create no other caller comes, and a     *)
(* rollback brings back requests of which the same holds.                    *)
THEOREM OneActiveRequest == CSpec => []AtMostOneActiveRequest
<1>1. CInit => ActiveInv
  <2> SUFFICES ASSUME CInit
               PROVE  ActiveInv
    OBVIOUS
  <2>1. OneActive(requests)
    BY CancelTypes DEF CInit, OneActive, ActiveIn
  <2> QED
    BY <2>1, CancelTypes DEF CInit, ActiveInv
<1>2. TypeInv /\ BackedInv /\ ActiveInv /\ [CNext]_cvars => ActiveInv'
  <2> SUFFICES ASSUME TypeInv, BackedInv, ActiveInv, [CNext]_cvars
               PROVE  ActiveInv'
    OBVIOUS
  <2>1. CASE UNCHANGED <<requests, cancels, tx>>
    BY <2>1 DEF ActiveInv, OneActive, ActiveIn
  <2> QED
    BY <2>1, StepCases, CancelKeepsActive DEF Abandon
<1>3. ActiveInv => AtMostOneActiveRequest
  BY DEF ActiveInv, OneActive, ActiveIn, AtMostOneActiveRequest, Active
<1> QED
  BY <1>1, <1>2, <1>3, BackedInit, CTypesInit, CTypesStep, BackedStep, PTL DEF CSpec

-----------------------------------------------------------------------------
(* Layer 4.                                                                  *)

(* Storing a cancellation keeps the invariant of the queue: the version      *)
(* fences off every write prepared before.                                   *)
LEMMA ReplaceKeepsInv ==
    ASSUME IInv, NEW j \in Job, NEW u \in Record,
           jobs' = [jobs EXCEPT ![j] = u],
           UNCHANGED <<calls, executors, clock>>,
           u.record_version = jobs[j].record_version + 1,
           u.lease = NoLease,
           u.status \in CancellationStatus
    PROVE  IInv'
<1>1. \A k \in Job : jobs'[k] = IF k = j THEN u ELSE jobs[k]
  BY DEF IInv, TypeOK
<1>2. TypeOK'
  BY DEF IInv, TypeOK
<1>3. SnapshotFence'
  <2> SUFFICES ASSUME NEW c \in Worker, NEW w \in calls[c].writes
               PROVE  /\ w.seen.record_version <= jobs'[w.job].record_version
                      /\ w.seen.record_version = jobs'[w.job].record_version
                             => w.seen = jobs'[w.job]
    BY DEF SnapshotFence
  <2>1. w.job \in Job /\ w.seen.record_version \in Nat
        /\ jobs[w.job].record_version \in Nat
    BY DEF IInv, TypeOK, Call, Write, Record
  <2>2. /\ w.seen.record_version <= jobs[w.job].record_version
        /\ w.seen.record_version = jobs[w.job].record_version => w.seen = jobs[w.job]
    BY DEF IInv, SnapshotFence
  <2> QED
    BY <1>1, <2>1, <2>2
<1>4. RecordInv'
  <2>1. LeaseMatches(u) /\ Stored(u)
    BY NoLeaseType DEF LeaseMatches, LeasedStatus, CancellationStatus, Stored
  <2> QED
    BY <1>1, <2>1 DEF IInv, RecordInv, LeaseMatches
<1>5. RunnerInv'
  <2>1. u.status \in {"cancellation_requested"} \cup TerminalStatus /\ u.status # "running"
    BY DEF CancellationStatus, TerminalStatus
  <2> QED
    BY <1>1, <2>1 DEF IInv, RunnerInv
<1>6. WritesJustified'
  BY DEF IInv, WritesJustified, Effect
<1> QED
  BY <1>2, <1>3, <1>4, <1>5, <1>6 DEF IInv

(* A step of the queue changes a stored record only together with its        *)
(* version.                                                                  *)
LEMMA VersionsMoveOn ==
    ASSUME IInv, [Next]_vars, NEW j \in Job, Stored(jobs[j])
    PROVE  jobs'[j] = jobs[j] \/ jobs'[j].record_version = jobs[j].record_version + 1
  BY StepRecords, AcceptedIsFresh DEF IInv

(* What a call has read of its job stays behind the version or unchanged.    *)
LEMMA FenceMoves ==
    ASSUME IInv, NEW y \in Canceller, cancels[y] \in CancelCall, CallTyped(cancels[y]),
           CallFenced(cancels[y]), UNCHANGED cancels,
           \A j \in Job : \/ jobs'[j] = jobs[j]
                          \/ ~Stored(jobs[j])
                          \/ jobs'[j].record_version = jobs[j].record_version + 1
    PROVE  CallFenced(cancels[y])'
<1>1. PICK p \in CancelCall : p = cancels[y]
  OBVIOUS
<1>2. ASSUME p.step \in {"find", "create", "close", "save"}
      PROVE  /\ Stored(p.seenJob)
             /\ p.seenJob.record_version <= jobs'[p.job].record_version
             /\ p.seenJob.record_version = jobs'[p.job].record_version
                   => p.seenJob = jobs'[p.job]
  <2>1. p.job \in Job
    BY <1>1, <1>2 DEF CallTyped
  <2>2. /\ Stored(p.seenJob)
        /\ p.seenJob.record_version <= jobs[p.job].record_version
        /\ p.seenJob.record_version = jobs[p.job].record_version => p.seenJob = jobs[p.job]
    BY <1>1, <1>2 DEF CallFenced
  <2>3. p.seenJob.record_version \in Nat /\ jobs[p.job].record_version \in Nat
    BY <2>1 DEF CancelCall, Record, IInv, TypeOK
  <2>4. Stored(jobs[p.job])
    BY <2>1, <2>2, <2>3 DEF IInv, RecordInv
  <2> QED
    BY <2>1, <2>2, <2>3, <2>4
<1> QED
  BY <1>1, <1>2 DEF CallFenced

(* What the call of x stores is one step of the policy from what is stored.  *)
LEMMA SavedIsFresh ==
    ASSUME TypeInv, FenceInv, ~tx.managed, NEW x \in Canceller, NEW k, SavesJob(x, k)
    PROVE  LET p == cancels[x] IN
           /\ p.job \in Job /\ p.updated \in Record
           /\ jobs' = [jobs EXCEPT ![p.job] = p.updated]
           /\ p.updated.record_version = jobs[p.job].record_version + 1
           /\ p.updated.lease = NoLease
           /\ \/ /\ p.updated.status = "cancellation_requested"
                 /\ CanTransition(jobs[p.job].status, "cancellation_requested")
              \/ /\ p.updated.status = "cancelled"
                 /\ jobs[p.job].status = "cancellation_requested"
<1>1. PICK p \in CancelCall : p = cancels[x]
  BY DEF TypeInv, CTypeOK
<1>2. /\ CallFenced(p) /\ p.step = "save" /\ p.job \in Job /\ p.updated \in Record
      /\ jobs[p.job].record_version = p.seenJob.record_version
      /\ jobs' = [jobs EXCEPT ![p.job] = p.updated]
  BY <1>1 DEF FenceInv, SavesJob, TypeInv, CallTyped, CancelCall
<1>3. p.seenJob = jobs[p.job]
  BY <1>2 DEF CallFenced
<1> QED
  BY <1>1, <1>2, <1>3 DEF CallFenced

(* Outside transactions every step of a cancelling thread keeps the fences.  *)
LEMMA CancelKeepsFence ==
    ASSUME TypeInv, FenceInv, NEW x \in Canceller, NEW k \in CancelCall,
           UNCHANGED <<calls, executors, clock>>,
           cancels' = [cancels EXCEPT ![x] = k],
           CancelEffect(x, k)
    PROVE  FenceInv'
<1> SUFFICES ASSUME ~tx.managed
             PROVE  FenceInv'
  BY ManagedStays DEF FenceInv
<1>0. /\ IInv /\ cancels \in [Canceller -> CancelCall]
      /\ CallTyped(cancels[x]) /\ CallFenced(cancels[x])
      /\ cancels[x].step \notin {"snapshot", "ready", "rollback", "restore"}
  BY DEF FenceInv, TypeInv, CTypeOK, HolderTyped
<1>1. cancels'[x] = k /\ \A y \in Canceller \ {x} : cancels'[y] = cancels[y]
  BY <1>0
<1>2. CASE SavesJob(x, k)
  <2>1. PICK p \in CancelCall : p = cancels[x]
    BY <1>0
  <2>2. /\ p.job \in Job /\ p.updated \in Record
        /\ jobs' = [jobs EXCEPT ![p.job] = p.updated]
        /\ p.updated.record_version = jobs[p.job].record_version + 1
        /\ p.updated.lease = NoLease
        /\ p.updated.status \in CancellationStatus
    BY <1>2, <2>1, SavedIsFresh DEF CancellationStatus
  <2>3. IInv'
    BY <1>0, <2>2, ReplaceKeepsInv
  <2>4. \A j \in Job : jobs'[j] = jobs[j]
                          \/ jobs'[j].record_version = jobs[j].record_version + 1
    BY <1>0, <2>2 DEF IInv, TypeOK
  <2>5. k.step = "idle"
    BY <1>2 DEF SavesJob, Returns
  <2>6. CallFenced(cancels[x])'
    BY <1>1, <2>5 DEF CallFenced
  <2>7. ASSUME NEW y \in Canceller, y # x
        PROVE  CallFenced(cancels[y])'
    <3>1. PICK p1 \in CancelCall : p1 = cancels[y]
      BY <1>0
    <3>2. CallTyped(p1) /\ CallFenced(p1) /\ cancels'[y] = p1
      BY <1>1, <2>7, <3>1 DEF TypeInv, FenceInv
    <3>3. ASSUME p1.step \in {"find", "create", "close", "save"}
          PROVE  /\ p1.seenJob.record_version <= jobs'[p1.job].record_version
                 /\ p1.seenJob.record_version = jobs'[p1.job].record_version
                       => p1.seenJob = jobs'[p1.job]
      <4>1. p1.job \in Job
        BY <3>2, <3>3 DEF CallTyped
      <4>2. /\ p1.seenJob.record_version <= jobs[p1.job].record_version
            /\ p1.seenJob.record_version = jobs[p1.job].record_version
                  => p1.seenJob = jobs[p1.job]
        BY <3>2, <3>3 DEF CallFenced
      <4>3. p1.seenJob.record_version \in Nat /\ jobs[p1.job].record_version \in Nat
        BY <1>0, <4>1 DEF CancelCall, Record, IInv, TypeOK
      <4> QED
        BY <2>4, <4>1, <4>2, <4>3
    <3> QED
      BY <3>2, <3>3 DEF CallFenced
  <2> QED
    BY <2>3, <2>6, <2>7 DEF FenceInv
<1>3. CASE ~SavesJob(x, k)
  <2>1. UNCHANGED jobs
    BY <1>0, <1>3 DEF CancelEffect
  <2>2. IInv'
    BY <1>0, <2>1, StutterKeepsInv DEF vars
  <2>3. ASSUME NEW y \in Canceller, y # x
        PROVE  CallFenced(cancels[y])'
    BY <1>1, <2>1, <2>3 DEF FenceInv, CallFenced
  <2>4. CallFenced(cancels[x])'
    <3>0. PICK p \in CancelCall : p = cancels[x]
      BY <1>0
    <3>1. CASE k.step \notin {"find", "create", "close", "save"}
      BY <1>1, <3>1 DEF CallFenced
    <3>2. CASE k.step \in {"find", "close"}
      <4>1. /\ k.job \in Job /\ k.seenJob = jobs[k.job] /\ Stored(k.seenJob)
            /\ k.step = "close" => k.seenJob.status = "cancellation_requested"
        BY <1>0, <1>3, <3>2 DEF CancelEffect, Advances, Raised, MayCall, Stores, GoesOn,
                                Returns, CallTyped, Stored
      <4>2. jobs[k.job].record_version \in Nat
        BY <1>0, <4>1 DEF IInv, TypeOK, Record
      <4> QED
        BY <1>1, <2>1, <3>2, <4>1, <4>2 DEF CallFenced
    <3>3. CASE k.step = "create"
      <4>1. /\ p.step = "find" /\ k.job = p.job /\ k.seenJob = p.seenJob
            /\ CanTransition(k.seenJob.status, "cancellation_requested")
        BY <1>0, <1>3, <3>0, <3>3 DEF CancelEffect, Advances, Raised, MayCall, Stores,
                                GoesOn, Returns
      <4> QED
        BY <1>0, <1>1, <2>1, <3>0, <3>3, <4>1 DEF CallFenced
    <3>4. CASE k.step = "save"
      <4>1. PICK q \in RequestId, r \in RequestRecord : Stores(x, k, q, r)
        BY <1>3, <3>4 DEF CancelEffect, Advances, Raised, Returns
      <4>2. /\ p.step \in {"create", "close"} /\ k.job = p.job /\ k.seenJob = p.seenJob
            /\ p.step = "create" => k.updated = CancellingRecord(p.seenJob, q)
            /\ p.step = "close" => k.updated = CancelledRecord(p.seenJob, p.now)
        BY <3>0, <3>4, <4>1 DEF Stores, GoesOn, Raised, Returns
      <4>3. p.seenJob \in Record /\ p.now \in Int
        BY DEF CancelCall
      <4>4. /\ k.updated.record_version = k.seenJob.record_version + 1
            /\ k.updated.lease = NoLease
            /\ p.step = "create" => k.updated.status = "cancellation_requested"
            /\ p.step = "close" => k.updated.status = "cancelled"
        BY <4>2, <4>3, CancelledTypes
      <4>5. CallFenced(p)
        BY <1>0, <3>0
      <4> QED
        BY <1>1, <2>1, <3>4, <4>2, <4>4, <4>5 DEF CallFenced
    <3> QED
      BY <3>1, <3>2, <3>3, <3>4
  <2> QED
    BY <2>2, <2>3, <2>4 DEF FenceInv
<1> QED
  BY <1>2, <1>3

(* A worker that gives up a cancelled job is between two calls.              *)
LEMMA AbandonKeepsInv ==
    ASSUME IInv, NEW c \in Worker, NEW j \in Job, Abandon(c, j)
    PROVE  IInv' /\ Lifecycle!Next
<1>1. /\ executors' = [executors EXCEPT ![j] = @ \ {c}] /\ calls[c] = Idle
      /\ UNCHANGED <<jobs, calls, clock>>
  BY DEF Abandon
<1>2. calls' = [calls EXCEPT ![c] = Idle]
  BY <1>1 DEF IInv, TypeOK
<1>3. executors' = [k \in Job |-> IF k \in {j} THEN executors[k] \ {c} ELSE executors[k]]
  BY <1>1 DEF IInv, TypeOK
<1>4. {j} \in SUBSET Job
  OBVIOUS
<1>5. IInv'
  BY <1>1, <1>2, <1>3, <1>4, QuitKeepsInv
<1>6. Lifecycle!Quit(c)
  BY <1>1, <1>3, <1>4 DEF Lifecycle!Quit
<1> QED
  BY <1>5, <1>6 DEF Lifecycle!Next

(* Every step keeps the fences.                                              *)
LEMMA FenceStep == TypeInv /\ FenceInv /\ [CNext]_cvars => FenceInv'
<1> SUFFICES ASSUME TypeInv, FenceInv, [CNext]_cvars
             PROVE  FenceInv'
  OBVIOUS
<1>1. CASE [Next]_vars /\ UNCHANGED <<requests, cancels, tx>>
  <2> SUFFICES ASSUME ~tx.managed
               PROVE  FenceInv'
    BY <1>1 DEF FenceInv
  <2>1. IInv /\ IInv'
    BY <1>1, NextKeepsInv DEF FenceInv
  <2>2. ASSUME NEW y \in Canceller
        PROVE  CallFenced(cancels[y])'
    BY <1>1, <2>1, VersionsMoveOn, FenceMoves DEF TypeInv, CTypeOK, FenceInv
  <2> QED
    BY <2>1, <2>2 DEF FenceInv
<1>2. ASSUME NEW c \in Worker, NEW j \in Job, Abandon(c, j)
      PROVE  FenceInv'
  <2>1. UNCHANGED <<jobs, cancels, tx>>
    BY <1>2 DEF Abandon
  <2>2. ~tx.managed => IInv'
    BY <1>2, AbandonKeepsInv DEF FenceInv
  <2> QED
    BY <2>1, <2>2 DEF FenceInv, CallFenced
<1> QED
  BY <1>1, <1>2, StepCases, CancelKeepsFence

(* At first no call is under way.                                            *)
LEMMA FenceInit == CInit => FenceInv
  BY InitEstablishesInv, CancelTypes DEF CInit, FenceInv, CallFenced

(* Outside transactions every step of the whole system is one of the         *)
(* lifecycle, or changes nothing that it knows of.                           *)
LEMMA CancelStepMaps ==
    ASSUME TypeInv, FenceInv, [CNext]_cvars, ~tx.managed
    PROVE  Lifecycle!Next \/ UNCHANGED Lifecycle!vars
<1>0. IInv
  BY DEF FenceInv
<1>1. CASE [Next]_vars
  BY <1>0, <1>1, StepMaps
<1>2. ASSUME NEW c \in Worker, NEW j \in Job, Abandon(c, j)
      PROVE  Lifecycle!Next
  BY <1>0, <1>2, AbandonKeepsInv
<1>3. ASSUME NEW x \in Canceller, NEW k \in CancelCall, CancelEffect(x, k),
             UNCHANGED executors
      PROVE  Lifecycle!Next \/ UNCHANGED Lifecycle!vars
  <2>1. CASE SavesJob(x, k)
    <3>1. PICK j, u : j = cancels[x].job /\ u = cancels[x].updated
      OBVIOUS
    <3>2. /\ j \in Job /\ jobs' = [jobs EXCEPT ![j] = u] /\ u.lease.worker = NoWorker
          /\ \/ /\ u.status = "cancellation_requested"
                /\ CanTransition(jobs[j].status, "cancellation_requested")
             \/ /\ u.status = "cancelled"
                /\ jobs[j].status = "cancellation_requested"
      BY <2>1, <3>1, SavedIsFresh, NoLeaseType
    <3>3. jobs \in [Job -> Record]
      BY <1>0 DEF IInv, TypeOK
    <3>4. CASE /\ u.status = "cancellation_requested"
               /\ CanTransition(jobs[j].status, "cancellation_requested")
      <4>1. /\ jobs[j].status \in {"pending", "scheduled", "queued", "leased", "running",
                                   "retry_scheduled"}
            /\ u.status \in {"cancellation_requested"}
        BY <3>4 DEF CanTransition, AllowedTransitions, Status
      <4>2. Lifecycle!RequestCancellation(j)
        BY <1>3, <3>2, <3>3, <4>1, MoveMaps DEF Lifecycle!RequestCancellation
      <4> QED
        BY <3>2, <4>2 DEF Lifecycle!Next
    <3>5. CASE u.status = "cancelled" /\ jobs[j].status = "cancellation_requested"
      <4>1. jobs[j].status \in {"cancellation_requested"} /\ u.status \in {"cancelled"}
        BY <3>5
      <4>2. Lifecycle!CompleteCancellation(j)
        BY <1>3, <3>2, <3>3, <4>1, MoveMaps DEF Lifecycle!CompleteCancellation
      <4> QED
        BY <3>2, <4>2 DEF Lifecycle!Next
    <3> QED
      BY <3>2, <3>4, <3>5
  <2>2. CASE ~SavesJob(x, k)
    <3>1. cancels[x].step # "restore"
      BY DEF TypeInv, HolderTyped
    <3>2. UNCHANGED jobs
      BY <1>3, <2>2, <3>1 DEF CancelEffect
    <3> QED
      BY <1>3, <3>2 DEF Lifecycle!vars
  <2> QED
    BY <2>1, <2>2
<1> QED
  BY <1>1, <1>2, <1>3, StepCases

(* Outside transactions the cancelling threads and the workers together take *)
(* every job along the atomic lifecycle: the two writes of request and of    *)
(* complete are single steps of it, whoever else reads and writes the job in *)
(* between.                                                                  *)
THEOREM CancellationImplementsLifecycle == CSpec => CancellationFollowsLifecycle
<1>1. /\ TypeInv /\ FenceInv /\ [CNext]_cvars
      => [~tx.managed => Lifecycle!Next \/ UNCHANGED Lifecycle!vars]_cvars
  BY CancelStepMaps
<1> QED
  BY <1>1, CTypesInit, CTypesStep, FenceInit, FenceStep, PTL
     DEF CSpec, CancellationFollowsLifecycle

(* Outside transactions no worker begins to execute a job whose cancellation *)
(* was requested, although its start may have read the job before: only Run  *)
(* adds a runner, and only of a leased job.                                  *)
THEOREM CancelledNeverStarts == CSpec => CancelStopsStart
<1>1. ASSUME TypeInv, FenceInv, [CNext]_cvars, ~tx.managed, NEW j \in Job,
             jobs[j].status \in CancellationStatus
      PROVE  executors'[j] \subseteq executors[j]
  <2>1. Lifecycle!Next \/ UNCHANGED Lifecycle!vars
    BY <1>1, CancelStepMaps
  <2>2. CASE UNCHANGED executors
    BY <2>2
  <2>3. ASSUME NEW i \in Job, NEW w \in Worker, Lifecycle!Run(i, w)
        PROVE  executors'[j] \subseteq executors[j]
    <3>1. jobs[i].status = "leased" /\ executors' = [executors EXCEPT ![i] = {w}]
      BY <2>3 DEF Lifecycle!Run, Lifecycle!Moves
    <3>2. i # j
      BY <1>1, <3>1 DEF CancellationStatus
    <3> QED
      BY <3>1, <3>2
  <2>4. ASSUME NEW i \in Job, NEW w \in Worker, Lifecycle!Finish(i, w)
        PROVE  executors'[j] \subseteq executors[j]
    <3>1. executors' = [executors EXCEPT ![i] = {}]
      BY <2>4 DEF Lifecycle!Finish
    <3>2. executors \in [Job -> SUBSET Worker]
      BY <1>1 DEF TypeInv, CTypeOK, TypeOK
    <3> QED
      BY <3>1, <3>2
  <2>5. ASSUME NEW w \in Worker, Lifecycle!Quit(w)
        PROVE  executors'[j] \subseteq executors[j]
    BY <2>5 DEF Lifecycle!Quit
  <2> QED
    BY <2>1, <2>2, <2>3, <2>4, <2>5
       DEF Lifecycle!Next, Lifecycle!vars, Lifecycle!Submit, Lifecycle!Queue,
           Lifecycle!GiveBack, Lifecycle!RequestCancellation,
           Lifecycle!CompleteCancellation, Lifecycle!Take
<1>2. /\ TypeInv /\ FenceInv /\ [CNext]_cvars
      => [~tx.managed => \A j \in Job : jobs[j].status \in CancellationStatus
                          => executors'[j] \subseteq executors[j]]_cvars
  BY <1>1
<1> QED
  BY <1>2, CTypesInit, CTypesStep, FenceInit, FenceStep, PTL DEF CSpec, CancelStopsStart
=============================================================================
