---------------------------- MODULE ResearchFlow ----------------------------
(* ApplicationResearchFlowService: one research request per idempotency key, *)
(* run inside InMemoryApplicationTransactionManager.transaction() over the   *)
(* idempotency and the execution repository.  FlowCaller threads call it.    *)
(* DirectCaller threads call one of the execution services (research, tool,  *)
(* workflow), which use the same execution repository and no transaction.    *)
(*                                                                           *)
(* Every repository method takes the repository's own lock, so each is a     *)
(* step.  The runner is external: it returns, raises an exception the        *)
(* execution service catches, or raises another one.                         *)
EXTENDS Integers, FiniteSets

CONSTANTS FlowCaller, DirectCaller, NoCaller,
          Key, NoKey,  \* idempotency keys
          Payload,     \* research requests, up to their fingerprint
          NoPayload,
          MaxCalls     \* bound: how many calls draw an execution id

ASSUME FlowAssumption ==
    /\ FlowCaller \cap DirectCaller = {}
    /\ NoCaller \notin FlowCaller \cup DirectCaller
    /\ NoKey \notin Key
    /\ NoPayload \notin Payload
    /\ MaxCalls \in Nat

Caller == FlowCaller \cup DirectCaller
ExecId == 1..MaxCalls

VARIABLES idem,        \* the record of each key in the idempotency repository
          executions,  \* the status of each id in the execution repository
          callers,     \* the call each thread is executing
          tx,          \* the transaction manager: lock holder and snapshots
          owner,       \* ids the execution id factory gave out, and to whom
          ended        \* how the work of an execution ended, for the properties

fvars == <<idem, executions, callers, tx, owner, ended>>

IdemRecord == [status : {"absent", "in_progress", "succeeded", "failed"},
               fingerprint : Payload \cup {NoPayload},
               result : ExecId \cup {0},
               record_version : Nat]
NoRecord == [status |-> "absent", fingerprint |-> NoPayload, result |-> 0,
             record_version |-> 0]

(* An execution is written three times by the one call that owns it, so its  *)
(* record_version is 1, 2, 3 as its status is pending, running, terminal.    *)
ExecutionStatus == {"absent", "pending", "running", "succeeded", "failed"}
Terminal == {"succeeded", "failed"}

(* ApplicationExecutionTransitionPolicy, the part the services use.          *)
ExecutionTransitions ==
    [s \in ExecutionStatus |->
        CASE s = "pending" -> {"running"}
          [] s = "running" -> Terminal
          [] OTHER -> {}]

Step == {"idle", "wait", "snapshot", "find", "create", "restart", "reuse",
         "execute", "start", "run", "succeeded", "failed", "succeed", "fail",
         "rollback", "restore"}

CallRecord == [step : Step, key : Key \cup {NoKey},
               payload : Payload \cup {NoPayload}, exec : ExecId \cup {0},
               seen : IdemRecord]
NoCall == [step |-> "idle", key |-> NoKey, payload |-> NoPayload, exec |-> 0,
           seen |-> NoRecord]

NoTransaction == [holder |-> NoCaller, idem |-> <<>>, executions |-> <<>>]

-----------------------------------------------------------------------------
Goto(c, s) == callers' = [callers EXCEPT ![c].step = s]

(* The call is over; a flow releases the transaction lock.                   *)
Return(c) ==
    /\ callers' = [callers EXCEPT ![c] = NoCall]
    /\ tx' = IF c \in FlowCaller THEN NoTransaction ELSE tx

(* The call raises; a flow's transaction rolls back first.                   *)
Raise(c) ==
    /\ callers' = [callers EXCEPT ![c] =
           IF c \in FlowCaller THEN [@ EXCEPT !.step = "rollback"] ELSE NoCall]
    /\ UNCHANGED tx

(* A call begins.  The execution id, fresh each time, is drawn here; a flow  *)
(* that reuses a stored result never uses it.                                *)
Arrive(c, step, key, payload) ==
    /\ callers[c].step = "idle"
    /\ \E e \in ExecId :
        /\ {d \in ExecId : owner[d] # NoCaller} = 1..(e - 1)
        /\ owner' = [owner EXCEPT ![e] = c]
        /\ callers' = [callers EXCEPT ![c] =
               [step |-> step, key |-> key, payload |-> payload, exec |-> e,
                seen |-> NoRecord]]
    /\ UNCHANGED <<idem, executions, tx, ended>>

CallFlow(c) ==
    /\ c \in FlowCaller
    /\ \E k \in Key, p \in Payload : Arrive(c, "wait", k, p)

CallDirectly(c) == c \in DirectCaller /\ Arrive(c, "execute", NoKey, NoPayload)

\* Mutant: a second thread enters while the lock is held.
BeginTransactionUnlocked(c) ==
    /\ callers[c].step = "wait"
    /\ tx' = [NoTransaction EXCEPT !.holder = c, !.idem = idem]
    /\ Goto(c, "snapshot")
    /\ UNCHANGED <<idem, executions, owner, ended>>

(* transaction(): the lock, then a snapshot of each resource in turn.        *)
BeginTransaction(c) ==
    /\ callers[c].step = "wait"
    /\ tx.holder = NoCaller
    /\ tx' = [NoTransaction EXCEPT !.holder = c, !.idem = idem]
    /\ Goto(c, "snapshot")
    /\ UNCHANGED <<idem, executions, owner, ended>>

SnapshotExecutions(c) ==
    /\ callers[c].step = "snapshot"
    /\ tx' = [tx EXCEPT !.executions = executions]
    /\ Goto(c, "find")
    /\ UNCHANGED <<idem, executions, owner, ended>>

(* Rollback: restore_state in reverse order, then the lock is released.      *)
RestoreExecutions(c) ==
    /\ callers[c].step = "rollback"
    /\ executions' = tx.executions
    /\ Goto(c, "restore")
    /\ UNCHANGED <<idem, tx, owner, ended>>

\* Mutant: the rollback stops after the first resource.
RestoreIdempotencySkipped(c) ==
    /\ callers[c].step = "restore"
    /\ Return(c)
    /\ UNCHANGED <<idem, executions, owner, ended>>

\* Mutant: a rolled-back transaction does not release the lock.
RestoreIdempotencyLocked(c) ==
    /\ callers[c].step = "restore"
    /\ idem' = tx.idem
    /\ callers' = [callers EXCEPT ![c] = NoCall]
    /\ UNCHANGED <<executions, tx, owner, ended>>

RestoreIdempotency(c) ==
    /\ callers[c].step = "restore"
    /\ idem' = tx.idem
    /\ Return(c)
    /\ UNCHANGED <<executions, owner, ended>>

-----------------------------------------------------------------------------
\* Mutant: a key that succeeded may be started again.
MayRestartAny(r, fingerprint) ==
    r.status \in {"failed", "succeeded"} /\ r.fingerprint = fingerprint

(* ApplicationIdempotencyService.begin, up to its write.                     *)
MayRestart(r, fingerprint) ==
    r.status = "failed" /\ r.fingerprint = fingerprint

MayReuse(r, fingerprint) ==
    r.status = "succeeded" /\ r.fingerprint = fingerprint

Find(c) ==
    LET call == callers[c]
        existing == idem[call.key]
        Proceed(s) == /\ callers' = [callers EXCEPT ![c].step = s,
                                                    ![c].seen = existing]
                      /\ UNCHANGED tx
    IN
    /\ call.step = "find"
    /\ \/ existing.status = "absent" /\ Proceed("create")
       \/ MayReuse(existing, call.payload) /\ Proceed("reuse")
       \/ MayRestart(existing, call.payload) /\ Proceed("restart")
       \/ /\ existing.status # "absent"
          /\ ~MayReuse(existing, call.payload)
          /\ ~MayRestart(existing, call.payload)
          /\ Raise(c)
    /\ UNCHANGED <<idem, executions, owner, ended>>

CreateRecord(c) ==
    LET call == callers[c] IN
    /\ call.step = "create"
    /\ IF idem[call.key].status = "absent"
       THEN /\ idem' = [idem EXCEPT ![call.key] =
                  [status |-> "in_progress", fingerprint |-> call.payload,
                   result |-> 0, record_version |-> 1]]
            /\ Goto(c, "execute") /\ UNCHANGED tx
       ELSE Raise(c) /\ UNCHANGED idem
    /\ UNCHANGED <<executions, owner, ended>>

Restart(c) ==
    LET call == callers[c] IN
    /\ call.step = "restart"
    /\ IF idem[call.key].record_version = call.seen.record_version
       THEN /\ idem' = [idem EXCEPT ![call.key] =
                  [call.seen EXCEPT !.status = "in_progress",
                                    !.record_version = @ + 1]]
            /\ Goto(c, "execute") /\ UNCHANGED tx
       ELSE Raise(c) /\ UNCHANGED idem
    /\ UNCHANGED <<executions, owner, ended>>

(* _restore_reused_result: the stored execution must be there.               *)
Reuse(c) ==
    /\ callers[c].step = "reuse"
    /\ IF executions[callers[c].seen.result] # "absent"
       THEN Return(c) ELSE Raise(c)
    /\ UNCHANGED <<idem, executions, owner, ended>>

-----------------------------------------------------------------------------
(* execute of an execution service: create the pending record.               *)
CreateExecution(c) ==
    /\ callers[c].step = "execute"
    /\ executions' = [executions EXCEPT ![callers[c].exec] = "pending"]
    /\ Goto(c, "start")
    /\ UNCHANGED <<idem, tx, owner, ended>>

(* update of the execution repository from status s to t.                    *)
Mark(c, s, t, next) ==
    LET e == callers[c].exec IN
    /\ t \in ExecutionTransitions[s]
    /\ IF executions[e] = s
       THEN /\ executions' = [executions EXCEPT ![e] = t]
            /\ IF next = "return" THEN Return(c)
               ELSE IF next = "raise" THEN Raise(c)
               ELSE Goto(c, next) /\ UNCHANGED tx
       ELSE Raise(c) /\ UNCHANGED executions
    /\ UNCHANGED <<idem, owner, ended>>

MarkRunning(c) ==
    callers[c].step = "start" /\ Mark(c, "pending", "running", "run")

(* runner.execute: output, RuntimeError or ValueError, or any other.         *)
Runs(c, e) ==
    \/ ended' = [ended EXCEPT ![e] = "output"] /\ Goto(c, "succeeded") /\ UNCHANGED tx
    \/ ended' = [ended EXCEPT ![e] = "error"] /\ Goto(c, "failed") /\ UNCHANGED tx
    \/ ended' = [ended EXCEPT ![e] = "error"] /\ Raise(c)

Run(c) ==
    /\ callers[c].step = "run"
    /\ Runs(c, callers[c].exec)
    /\ UNCHANGED <<idem, executions, owner>>

(* A direct call is over once its execution is terminal.                     *)
MarkSucceeded(c) ==
    /\ callers[c].step = "succeeded"
    /\ Mark(c, "running", "succeeded",
            IF c \in FlowCaller THEN "succeed" ELSE "return")

MarkFailed(c) ==
    /\ callers[c].step = "failed"
    /\ Mark(c, "running", "failed",
            IF c \in FlowCaller THEN "fail" ELSE "raise")

(* succeed and fail of the idempotency service; the error of a failed        *)
(* execution is raised after the transaction has ended.                      *)
StoreOutcome(c, s, e) ==
    LET k == callers[c].key IN
    /\ IF idem[k].status = "in_progress"
       THEN /\ idem' = [idem EXCEPT ![k].status = s, ![k].result = e,
                                    ![k].record_version = @ + 1]
            /\ Return(c)
       ELSE Raise(c) /\ UNCHANGED idem
    /\ UNCHANGED <<executions, owner, ended>>

RecordSuccess(c) ==
    callers[c].step = "succeed" /\ StoreOutcome(c, "succeeded", callers[c].exec)

\* Mutant: a failed research is stored as a result to reuse.
RecordFailureAsSuccess(c) ==
    callers[c].step = "fail" /\ StoreOutcome(c, "succeeded", callers[c].exec)

RecordFailure(c) == callers[c].step = "fail" /\ StoreOutcome(c, "failed", 0)

-----------------------------------------------------------------------------
FlowInit ==
    /\ idem = [k \in Key |-> NoRecord]
    /\ executions = [e \in ExecId |-> "absent"]
    /\ callers = [c \in Caller |-> NoCall]
    /\ tx = NoTransaction
    /\ owner = [e \in ExecId |-> NoCaller]
    /\ ended = [e \in ExecId |-> "no"]

CallStep(c) ==
    \/ SnapshotExecutions(c) \/ RestoreExecutions(c) \/ RestoreIdempotency(c)
    \/ Find(c) \/ CreateRecord(c) \/ Restart(c) \/ Reuse(c)
    \/ CreateExecution(c) \/ MarkRunning(c) \/ Run(c)
    \/ MarkSucceeded(c) \/ MarkFailed(c)
    \/ RecordSuccess(c) \/ RecordFailure(c)

FlowNext ==
    \E c \in Caller :
        CallFlow(c) \/ CallDirectly(c) \/ BeginTransaction(c) \/ CallStep(c)

FlowSpec == FlowInit /\ [][FlowNext]_fvars

(* Threads are scheduled, runners end, and a lock that stays free is taken.  *)
(* The calls are MaxCalls at most, so others do not get it for ever.         *)
FlowFairness ==
    \A c \in Caller : WF_fvars(CallStep(c)) /\ WF_fvars(BeginTransaction(c))

FairFlowSpec == FlowSpec /\ FlowFairness

-----------------------------------------------------------------------------
(* The records and calls are well typed.                                     *)
FlowTypeOK ==
    /\ idem \in [Key -> IdemRecord]
    /\ executions \in [ExecId -> ExecutionStatus]
    /\ callers \in [Caller -> CallRecord]
    /\ tx.holder \in FlowCaller \cup {NoCaller}
    /\ owner \in [ExecId -> Caller \cup {NoCaller}]
    /\ ended \in [ExecId -> {"no", "output", "error"}]

(* What the transactions that ended have stored.                             *)
Committed == IF tx.holder = NoCaller THEN idem ELSE tx.idem

Operation ==
    INSTANCE IdempotentOperation
        WITH Result <- ExecId,
             outcome <- [k \in Key |->
                 [status |-> IF Committed[k].status = "absent"
                             THEN "none" ELSE Committed[k].status,
                  payload |-> Committed[k].fingerprint,
                  result |-> Committed[k].result]]

(* The flow, a dozen steps that may raise anywhere, is atomic per key, binds *)
(* a key to one payload and never lets a key that succeeded take effect      *)
(* again.                                                                    *)
ImplementsOperation == Operation!Spec

(* A key that succeeded is not researched again: no later call with it       *)
(* reaches the runner.                                                       *)
NoRerun ==
    [][\A c \in FlowCaller :
          (callers'[c].step = "run" /\ callers[c].step # "run")
              => Committed[callers[c].key].status # "succeeded"]_fvars

(* A stored result can be reused: its execution is in the repository, is     *)
(* stored as succeeded and did return an output, although a rollback may     *)
(* replace both repositories.                                                *)
ReusableResult ==
    \A k \in Key : idem[k].status = "succeeded" =>
        /\ executions[idem[k].result] = "succeeded"
        /\ ended[idem[k].result] = "output"

(* No key is left in progress, which would refuse it for ever, and no        *)
(* execution of a flow is left open, whatever the runner raised.             *)
NothingLeftOpen ==
    tx.holder = NoCaller =>
        /\ \A k \in Key : idem[k].status # "in_progress"
        /\ \A e \in ExecId : owner[e] \in FlowCaller =>
               executions[e] \in Terminal \cup {"absent"}

(* Every flow call returns or raises: no thread waits, or holds the lock,    *)
(* for ever.                                                                 *)
FlowReturns == \A c \in FlowCaller : []<>(callers[c].step = "idle")
=============================================================================
