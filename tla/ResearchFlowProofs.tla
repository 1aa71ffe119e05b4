------------------------- MODULE ResearchFlowProofs -------------------------
(* Proofs about the research flow, for any number of flow and direct         *)
(* callers, keys, payloads and executions: the flow implements the atomic    *)
(* idempotent operation, never runs the work of a key that succeeded again,  *)
(* keeps every stored result reusable and leaves nothing open.               *)
EXTENDS ResearchFlow, TLAPS

-----------------------------------------------------------------------------
(* The inductive invariant.                                                  *)

Working == {"execute", "start", "run", "succeeded", "failed", "succeed", "fail"}

Snapshots == [holder : FlowCaller \cup {NoCaller},
              idem : [Key -> IdemRecord] \cup {<<>>},
              executions : [ExecId -> ExecutionStatus] \cup {<<>>}]

(* The transaction lock is held by the flow whose call is past waiting, the  *)
(* execution services called directly take no part.                          *)
LockInv ==
    /\ \A c \in FlowCaller : callers[c].step \notin {"idle", "wait"} <=> tx.holder = c
    /\ \A c \in DirectCaller :
          callers[c].step \in {"idle", "execute", "start", "run", "succeeded", "failed"}
    /\ tx.holder # NoCaller => tx.idem \in [Key -> IdemRecord]

(* An execution id belongs to the one call that drew it.                     *)
OwnerInv ==
    \A c \in Caller :
        /\ callers[c].step = "idle" => callers[c].exec = 0
        /\ callers[c].step # "idle" => /\ callers[c].exec \in ExecId
                                       /\ owner[callers[c].exec] = c
                                       /\ c \in FlowCaller => /\ callers[c].key \in Key
                                                              /\ callers[c].payload \in Payload

(* The execution of the flow that holds the lock.                            *)
Open(e) == tx.holder # NoCaller /\ callers[tx.holder].exec = e

(* The status of that execution, by the step of the flow.                    *)
ExpectedStatus(step) ==
    CASE step = "start" -> {"pending"}
      [] step \in {"run", "succeeded", "failed"} -> {"running"}
      [] step = "succeed" -> {"succeeded"}
      [] step = "fail" -> {"failed"}
      [] step = "rollback" -> ExecutionStatus
      [] OTHER -> {"absent"}

(* Executions of flows are settled but the one of the flow that holds the    *)
(* lock; the snapshot agrees with the repository on the settled ones and has *)
(* not seen the open one.  What direct callers do, a rollback may undo.      *)
ExecInv ==
    /\ \A e \in ExecId :
          /\ owner[e] \notin DirectCaller /\ ~Open(e) =>
                executions[e] \in Terminal \cup {"absent"}
          /\ owner[e] = NoCaller => executions[e] = "absent"
    /\ \A c \in FlowCaller :
          /\ callers[c].step # "idle" =>
                executions[callers[c].exec] \in ExpectedStatus(callers[c].step)
          /\ callers[c].step \in {"succeeded", "succeed"} =>
                ended[callers[c].exec] = "output"
          /\ callers[c].step \notin {"idle", "wait", "snapshot"} =>
                /\ tx.executions \in [ExecId -> ExecutionStatus]
                /\ \A e \in ExecId : owner[e] \notin DirectCaller =>
                      tx.executions[e] = IF Open(e) THEN "absent" ELSE executions[e]

(* A committed record is of no, of a failed or of a successful research, and *)
(* the result of the latter is there.                                        *)
CommittedRecord(r) ==
    \/ r = NoRecord
    \/ r.status = "failed" /\ r.fingerprint \in Payload /\ r.result = 0
    \/ /\ r.status = "succeeded" /\ r.fingerprint \in Payload /\ r.result \in ExecId
       /\ owner[r.result] \in FlowCaller
       /\ executions[r.result] = "succeeded" /\ ended[r.result] = "output"
       /\ \A c \in Caller : callers[c].exec # r.result

CommitInv == \A k \in Key : CommittedRecord(Committed[k])

(* What the flow that holds the lock has changed: its own key, which was     *)
(* free or failed when the flow began.                                       *)
ProgressInv ==
    \A c \in FlowCaller :
        LET p == callers[c] IN
        p.step \notin {"idle", "wait"} =>
            /\ \A l \in Key \ {p.key} : idem[l] = tx.idem[l]
            /\ p.step \in {"snapshot", "find", "create", "restart", "reuse"} =>
                  idem[p.key] = tx.idem[p.key]
            /\ p.step = "restart" => /\ p.seen = idem[p.key]
                                     /\ MayRestart(p.seen, p.payload)
            /\ p.step \in Working =>
                  /\ idem[p.key].status = "in_progress" /\ idem[p.key].result = 0
                  /\ idem[p.key].fingerprint = p.payload
                  /\ tx.idem[p.key] = NoRecord \/ MayRestart(tx.idem[p.key], p.payload)
            /\ p.step \in {"rollback", "restore"} =>
                  idem[p.key] = tx.idem[p.key] \/ idem[p.key].status = "in_progress"

IInv ==
    /\ FlowTypeOK /\ tx \in Snapshots
    /\ LockInv /\ OwnerInv /\ ExecInv /\ CommitInv /\ ProgressInv

-----------------------------------------------------------------------------
(* Facts the steps share.                                                    *)

(* The values a call starts from and ends with have their types.             *)
LEMMA FlowTypes ==
    /\ NoRecord \in IdemRecord /\ NoRecord.status = "absent"
    /\ NoRecord.fingerprint = NoPayload /\ NoRecord.result = 0
    /\ NoCall \in CallRecord /\ NoCall.step = "idle" /\ NoCall.exec = 0
    /\ NoTransaction \in Snapshots /\ NoTransaction.holder = NoCaller
<1>1. /\ NoRecord \in IdemRecord /\ NoRecord.status = "absent"
      /\ NoRecord.fingerprint = NoPayload /\ NoRecord.result = 0
  BY DEF NoRecord, IdemRecord
<1>2. NoCall \in CallRecord /\ NoCall.step = "idle" /\ NoCall.exec = 0
  BY <1>1 DEF NoCall, CallRecord, Step
<1>3. NoTransaction \in Snapshots /\ NoTransaction.holder = NoCaller
  BY DEF NoTransaction, Snapshots
<1> QED
  BY <1>1, <1>2, <1>3

(* Only one flow is past waiting.                                            *)
LEMMA OneFlow ==
    ASSUME IInv, NEW c \in FlowCaller, NEW d \in FlowCaller, c # d,
           tx.holder = c \/ tx.holder = NoCaller
    PROVE  callers[d].step \in {"idle", "wait"}
  BY FlowAssumption DEF IInv, LockInv

(* Two calls never share an execution id.                                    *)
LEMMA OwnExecution ==
    ASSUME IInv, NEW c \in Caller, NEW d \in Caller, c # d, callers[d].step # "idle"
    PROVE  callers[c].exec # callers[d].exec
<1>1. callers[d].exec \in ExecId /\ owner[callers[d].exec] = d
  BY DEF IInv, OwnerInv
<1>2. callers[d].exec # 0
  BY <1>1 DEF ExecId
<1> QED
  BY <1>1, <1>2 DEF IInv, OwnerInv

(* A committed record stays one while no one touches the executions that are *)
(* not of a call under way.                                                  *)
LEMMA CommitStays ==
    ASSUME IInv, \A k \in Key : Committed'[k] = Committed[k],
           \A e \in ExecId :
               owner[e] \in FlowCaller /\ (\A c \in Caller : callers[c].exec # e) =>
                   /\ executions'[e] = executions[e] /\ ended'[e] = ended[e]
                   /\ owner'[e] = owner[e]
                   /\ \A c \in Caller : callers'[c].exec # e
    PROVE  CommitInv'
<1> SUFFICES ASSUME NEW k \in Key
             PROVE  CommittedRecord(Committed[k])'
  BY DEF CommitInv
<1>1. PICK r : r = Committed[k]
  OBVIOUS
<1>2. CommittedRecord(r) /\ Committed'[k] = r
  BY <1>1 DEF IInv, CommitInv
<1> QED
  BY <1>2 DEF CommittedRecord

-----------------------------------------------------------------------------
(* The kinds of steps.                                                       *)

(* The flow that holds the lock takes a step inside its transaction.         *)
LEMMA FlowStepKeepsInv ==
    ASSUME IInv, NEW c \in FlowCaller, NEW p \in CallRecord,
           callers[c].step \notin {"idle", "wait", "snapshot"},
           callers' = [callers EXCEPT ![c] = p],
           p.key = callers[c].key, p.payload = callers[c].payload,
           p.exec = callers[c].exec,
           p.step \notin {"idle", "wait", "snapshot"},
           UNCHANGED <<tx, owner>>,
           idem' \in [Key -> IdemRecord],
           \A l \in Key \ {p.key} : idem'[l] = idem[l],
           executions' \in [ExecId -> ExecutionStatus],
           \A e \in ExecId \ {p.exec} :
               owner[e] \notin DirectCaller => executions'[e] = executions[e],
           ended' \in [ExecId -> {"no", "output", "error"}],
           \A e \in ExecId \ {p.exec} : ended'[e] = ended[e],
           executions'[p.exec] \in ExpectedStatus(p.step),
           p.step \in {"succeeded", "succeed"} => ended'[p.exec] = "output",
           p.step \in {"create", "restart", "reuse", "find"} =>
               idem'[p.key] = tx.idem[p.key],
           p.step = "restart" => p.seen = idem'[p.key] /\ MayRestart(p.seen, p.payload),
           p.step \in Working =>
               /\ idem'[p.key].status = "in_progress" /\ idem'[p.key].result = 0
               /\ idem'[p.key].fingerprint = p.payload
               /\ tx.idem[p.key] = NoRecord \/ MayRestart(tx.idem[p.key], p.payload),
           p.step \in {"rollback", "restore"} =>
               idem'[p.key] = tx.idem[p.key] \/ idem'[p.key].status = "in_progress"
    PROVE  IInv' /\ Committed' = Committed
<1>0. /\ callers \in [Caller -> CallRecord] /\ c \in Caller /\ c # NoCaller
  BY FlowAssumption DEF IInv, FlowTypeOK, Caller
<1>1. callers'[c] = p /\ \A d \in Caller \ {c} : callers'[d] = callers[d]
  BY <1>0
<1>2. tx.holder = c /\ tx' = tx
  BY DEF IInv, LockInv
<1>3. /\ p.exec \in ExecId /\ owner[p.exec] = c /\ p.key \in Key /\ p.payload \in Payload
  BY <1>0 DEF IInv, OwnerInv
<1>4. \A d \in Caller : callers'[d].exec = callers[d].exec
  BY <1>0, <1>1
<1>5. \A d \in FlowCaller \ {c} : callers[d].step \in {"idle", "wait"}
  BY <1>2, OneFlow
<1>6. Committed' = Committed
  BY <1>0, <1>2 DEF Committed
<1>7. FlowTypeOK' /\ (tx \in Snapshots)'
  BY <1>0, <1>2 DEF IInv, FlowTypeOK
<1>8. LockInv'
  BY <1>1, <1>2, FlowAssumption DEF IInv, LockInv, Caller
<1>9. OwnerInv'
  BY <1>0, <1>1, <1>3 DEF IInv, OwnerInv
<1>10. \A e \in ExecId : Open(e)' <=> Open(e)
  BY <1>0, <1>2, <1>4 DEF Open
<1>11. \A e \in ExecId : Open(e) <=> e = p.exec
  BY <1>0, <1>2 DEF Open
<1>12. ExecInv'
  <2>1. ASSUME NEW e \in ExecId
        PROVE  /\ owner'[e] \notin DirectCaller /\ ~Open(e)' =>
                      executions'[e] \in Terminal \cup {"absent"}
               /\ owner'[e] = NoCaller => executions'[e] = "absent"
    <3>1. NoCaller \notin DirectCaller /\ owner'[e] = owner[e]
      BY FlowAssumption
    <3>2. CASE e = p.exec
      BY <1>0, <1>3, <1>10, <1>11, <3>1, <3>2
    <3>3. CASE e # p.exec
      BY <1>10, <1>11, <3>1, <3>3 DEF IInv, ExecInv
    <3> QED
      BY <3>2, <3>3
  <2>2. ASSUME NEW d \in FlowCaller, d # c
        PROVE  /\ callers'[d].step # "idle" =>
                      executions'[callers'[d].exec] \in ExpectedStatus(callers'[d].step)
               /\ callers'[d].step \in {"idle", "wait"}
    <3>1. callers'[d] = callers[d] /\ callers[d].step \in {"idle", "wait"} /\ d \in Caller
      BY <1>1, <1>5, <2>2 DEF Caller
    <3>2. ASSUME callers[d].step # "idle"
          PROVE  /\ callers[d].exec \in ExecId /\ callers[d].exec # p.exec
                 /\ owner[callers[d].exec] \notin DirectCaller
                 /\ executions[callers[d].exec] \in ExpectedStatus(callers[d].step)
      BY <1>0, <2>2, <3>1, <3>2, OwnExecution, FlowAssumption DEF IInv, OwnerInv, ExecInv
    <3> QED
      BY <3>1, <3>2
  <2>3. /\ tx'.executions \in [ExecId -> ExecutionStatus]
        /\ \A e \in ExecId : owner'[e] \notin DirectCaller =>
              tx'.executions[e] = IF Open(e)' THEN "absent" ELSE executions'[e]
    BY <1>2, <1>10, <1>11 DEF IInv, ExecInv
  <2> QED
    BY <1>1, <1>2, <2>1, <2>2, <2>3 DEF ExecInv
<1>13. CommitInv'
  BY <1>0, <1>4, <1>6, FlowAssumption, CommitStays
<1>14. ProgressInv'
  BY <1>1, <1>2, <1>5 DEF IInv, ProgressInv, Caller
<1> QED
  BY <1>6, <1>7, <1>8, <1>9, <1>12, <1>13, <1>14 DEF IInv

(* The flow that holds the lock returns and releases it: what it leaves      *)
(* behind is committed.                                                      *)
LEMMA FlowEndKeepsInv ==
    ASSUME IInv, NEW c \in FlowCaller,
           callers[c].step \notin {"idle", "wait"},
           callers' = [callers EXCEPT ![c] = NoCall],
           tx' = NoTransaction,
           UNCHANGED <<executions, owner, ended>>,
           idem' \in [Key -> IdemRecord],
           executions[callers[c].exec] \in Terminal \cup {"absent"},
           \A k \in Key :
               \/ idem'[k] = tx.idem[k]
               \/ /\ idem'[k].status = "failed" /\ idem'[k].fingerprint \in Payload
                  /\ idem'[k].result = 0
               \/ /\ idem'[k].status = "succeeded" /\ idem'[k].fingerprint \in Payload
                  /\ idem'[k].result = callers[c].exec
                  /\ executions[callers[c].exec] = "succeeded"
                  /\ ended[callers[c].exec] = "output"
    PROVE  IInv' /\ Committed' = idem'
<1>0. /\ callers \in [Caller -> CallRecord] /\ c \in Caller /\ c # NoCaller
  BY FlowAssumption DEF IInv, FlowTypeOK, Caller
<1>1. callers'[c] = NoCall /\ \A d \in Caller \ {c} : callers'[d] = callers[d]
  BY <1>0
<1>2. tx.holder = c /\ tx'.holder = NoCaller /\ tx' \in Snapshots
  BY FlowTypes DEF IInv, LockInv
<1>3. callers[c].exec \in ExecId /\ owner[callers[c].exec] = c
  BY <1>0 DEF IInv, OwnerInv
<1>4. \A d \in FlowCaller \ {c} : callers[d].step \in {"idle", "wait"}
  BY <1>2, OneFlow
<1>5. Committed' = idem'
  BY <1>2 DEF Committed
<1>6. FlowTypeOK'
  BY <1>0, <1>2, FlowTypes DEF IInv, FlowTypeOK
<1>7. LockInv'
  <2>1. ASSUME NEW d \in FlowCaller
        PROVE  callers'[d].step \in {"idle", "wait"} /\ d # NoCaller
    BY <1>1, <1>4, FlowTypes, FlowAssumption DEF Caller
  <2>2. ASSUME NEW d \in DirectCaller
        PROVE  callers'[d] = callers[d]
    BY <1>1, FlowAssumption DEF Caller
  <2> QED
    BY <1>2, <2>1, <2>2 DEF IInv, LockInv
<1>8. OwnerInv'
  BY <1>0, <1>1, FlowTypes DEF IInv, OwnerInv
<1>9. \A e \in ExecId : ~Open(e)' /\ (Open(e) <=> e = callers[c].exec)
  BY <1>0, <1>2 DEF Open
<1>10. ExecInv'
  <2>1. ASSUME NEW e \in ExecId
        PROVE  /\ owner'[e] \notin DirectCaller => executions'[e] \in Terminal \cup {"absent"}
               /\ owner'[e] = NoCaller => executions'[e] = "absent"
    BY <1>9 DEF IInv, ExecInv
  <2>2. ASSUME NEW d \in FlowCaller
        PROVE  /\ callers'[d].step # "idle" =>
                      executions'[callers'[d].exec] \in ExpectedStatus(callers'[d].step)
               /\ callers'[d].step \in {"idle", "wait"}
    BY <1>1, <1>4, FlowTypes DEF IInv, ExecInv, Caller
  <2> QED
    BY <2>1, <2>2 DEF ExecInv
<1>11. CommitInv'
  <2> SUFFICES ASSUME NEW k \in Key
               PROVE  CommittedRecord(Committed[k])'
    BY DEF CommitInv
  <2>1. PICK r : r = idem'[k]
    OBVIOUS
  <2>2. CASE r = tx.idem[k]
    <3>1. CommittedRecord(r)
      BY <1>0, <1>2, <2>2 DEF IInv, CommitInv, Committed
    <3>2. \A d \in Caller : callers'[d].exec \in {callers[d].exec, 0}
      BY <1>0, <1>1, FlowTypes
    <3>3. 0 \notin ExecId
      BY DEF ExecId
    <3> QED
      BY <1>5, <2>1, <3>1, <3>2, <3>3 DEF CommittedRecord
  <2>3. CASE r.status = "failed" /\ r.fingerprint \in Payload /\ r.result = 0
    BY <1>5, <2>1, <2>3 DEF CommittedRecord
  <2>4. CASE /\ r.status = "succeeded" /\ r.fingerprint \in Payload
             /\ r.result = callers[c].exec
             /\ executions[callers[c].exec] = "succeeded"
             /\ ended[callers[c].exec] = "output"
    <3>1. ASSUME NEW d \in Caller
          PROVE  callers'[d].exec # r.result
      <4>1. r.result # 0
        BY <1>3, <2>4 DEF ExecId
      <4>2. CASE d = c
        BY <1>1, <4>1, <4>2, FlowTypes
      <4>3. CASE d # c
        BY <1>0, <1>1, <2>4, <4>3, OwnExecution
      <4> QED
        BY <4>2, <4>3
    <3> QED
      BY <1>3, <1>5, <2>1, <2>4, <3>1 DEF CommittedRecord
  <2> QED
    BY <2>1, <2>2, <2>3, <2>4
<1>12. ProgressInv'
  BY <1>1, <1>4, FlowTypes DEF ProgressInv, Caller
<1> QED
  BY <1>2, <1>5, <1>6, <1>7, <1>8, <1>10, <1>11, <1>12 DEF IInv

(* A direct caller takes a step or returns: it touches its own execution,    *)
(* which no flow owns.                                                       *)
LEMMA DirectStepKeepsInv ==
    ASSUME IInv, NEW c \in DirectCaller, NEW p \in CallRecord, callers[c].step # "idle",
           callers' = [callers EXCEPT ![c] = p],
           p = NoCall \/ /\ p.exec = callers[c].exec
                         /\ p.step \in {"execute", "start", "run", "succeeded", "failed"},
           UNCHANGED <<idem, tx, owner>>,
           executions' \in [ExecId -> ExecutionStatus],
           \A e \in ExecId \ {callers[c].exec} : executions'[e] = executions[e],
           ended' \in [ExecId -> {"no", "output", "error"}],
           \A e \in ExecId \ {callers[c].exec} : ended'[e] = ended[e]
    PROVE  IInv' /\ Committed' = Committed
<1>0. /\ callers \in [Caller -> CallRecord] /\ c \in Caller /\ c \notin FlowCaller /\ c # NoCaller
  BY FlowAssumption DEF IInv, FlowTypeOK, Caller
<1>1. callers'[c] = p /\ \A d \in Caller \ {c} : callers'[d] = callers[d]
  BY <1>0
<1>2. \A d \in FlowCaller : callers'[d] = callers[d] /\ d \in Caller
  BY <1>0, <1>1 DEF Caller
<1>3. callers[c].exec \in ExecId /\ owner[callers[c].exec] = c
  BY <1>0 DEF IInv, OwnerInv
<1>4. p.step \in {"idle", "execute", "start", "run", "succeeded", "failed"}
      /\ (p.step = "idle" => p.exec = 0)
      /\ (p.step # "idle" => p.exec = callers[c].exec)
  BY FlowTypes
<1>5. \A e \in ExecId : owner[e] \notin DirectCaller =>
          executions'[e] = executions[e] /\ ended'[e] = ended[e]
  BY <1>3
<1>6. Committed' = Committed
  BY DEF Committed
<1>7. FlowTypeOK' /\ (tx \in Snapshots)'
  BY <1>0 DEF IInv, FlowTypeOK
<1>8. LockInv'
  BY <1>0, <1>1, <1>2, <1>4 DEF IInv, LockInv, Caller
<1>9. OwnerInv'
  BY <1>0, <1>1, <1>3, <1>4 DEF IInv, OwnerInv
<1>10. \A e \in ExecId : Open(e)' <=> Open(e)
  BY <1>2 DEF Open, IInv, FlowTypeOK
<1>11. ExecInv'
  <2>1. ASSUME NEW e \in ExecId
        PROVE  /\ owner'[e] \notin DirectCaller /\ ~Open(e)' =>
                      executions'[e] \in Terminal \cup {"absent"}
               /\ owner'[e] = NoCaller => executions'[e] = "absent"
    BY <1>5, <1>10, FlowAssumption DEF IInv, ExecInv
  <2>2. ASSUME NEW d \in FlowCaller
        PROVE  /\ callers'[d].step # "idle" =>
                      executions'[callers'[d].exec] \in ExpectedStatus(callers'[d].step)
               /\ callers'[d].step \in {"succeeded", "succeed"} =>
                      ended'[callers'[d].exec] = "output"
               /\ callers'[d].step \notin {"idle", "wait", "snapshot"} =>
                      /\ tx'.executions \in [ExecId -> ExecutionStatus]
                      /\ \A e \in ExecId : owner'[e] \notin DirectCaller =>
                            tx'.executions[e] = IF Open(e)' THEN "absent" ELSE executions'[e]
    <3>1. callers'[d] = callers[d] /\ d \in Caller /\ d \notin DirectCaller
      BY <1>2, FlowAssumption
    <3>2. callers[d].step # "idle" =>
              callers[d].exec \in ExecId /\ owner[callers[d].exec] \notin DirectCaller
      BY <3>1 DEF IInv, OwnerInv
    <3> QED
      BY <1>5, <1>10, <3>1, <3>2 DEF IInv, ExecInv
  <2> QED
    BY <2>1, <2>2 DEF ExecInv
<1>12. CommitInv'
  <2>1. ASSUME NEW e \in ExecId, owner[e] \in FlowCaller,
               \A d \in Caller : callers[d].exec # e
        PROVE  /\ executions'[e] = executions[e] /\ ended'[e] = ended[e]
               /\ owner'[e] = owner[e]
               /\ \A d \in Caller : callers'[d].exec # e
    <3>1. e # 0
      BY DEF ExecId
    <3> QED
      BY <1>0, <1>1, <1>4, <1>5, <2>1, <3>1, FlowAssumption
  <2> QED
    BY <1>6, <2>1, CommitStays
<1>13. ProgressInv'
  BY <1>2 DEF IInv, ProgressInv
<1> QED
  BY <1>6, <1>7, <1>8, <1>9, <1>11, <1>12, <1>13 DEF IInv

(* A call arrives: the execution id it draws is new.                         *)
LEMMA ArriveKeepsInv ==
    ASSUME IInv, NEW c \in Caller, NEW s, NEW k, NEW pl, Arrive(c, s, k, pl),
           \/ c \in FlowCaller /\ s = "wait" /\ k \in Key /\ pl \in Payload
           \/ c \in DirectCaller /\ s = "execute" /\ k = NoKey /\ pl = NoPayload
    PROVE  IInv' /\ Committed' = Committed
<1>1. PICK e \in ExecId :
        /\ {d \in ExecId : owner[d] # NoCaller} = 1..(e - 1)
        /\ owner' = [owner EXCEPT ![e] = c]
        /\ callers' = [callers EXCEPT ![c] =
               [step |-> s, key |-> k, payload |-> pl, exec |-> e, seen |-> NoRecord]]
  BY DEF Arrive
<1>2. UNCHANGED <<idem, executions, tx, ended>> /\ callers[c].step = "idle"
  BY DEF Arrive
<1>3. owner[e] = NoCaller
  <2>1. e \in Nat /\ e \notin 1..(e - 1)
    BY FlowAssumption DEF ExecId
  <2> QED
    BY <1>1, <2>1
<1>4. PICK p : p = [step |-> s, key |-> k, payload |-> pl, exec |-> e, seen |-> NoRecord]
  OBVIOUS
<1>5. /\ p \in CallRecord /\ p.step = s /\ p.key = k /\ p.payload = pl /\ p.exec = e
  BY <1>4, FlowTypes DEF CallRecord, Step
<1>6. /\ callers \in [Caller -> CallRecord] /\ c # NoCaller
      /\ NoCaller \notin FlowCaller /\ NoCaller \notin DirectCaller
      /\ c \in FlowCaller => c \notin DirectCaller
  BY FlowAssumption DEF IInv, FlowTypeOK, Caller
<1>7. callers'[c] = p /\ \A d \in Caller \ {c} : callers'[d] = callers[d]
  BY <1>1, <1>4, <1>6
<1>8. owner'[e] = c /\ \A d \in ExecId \ {e} : owner'[d] = owner[d]
  BY <1>1 DEF IInv, FlowTypeOK
<1>9. \A d \in Caller : callers[d].exec # e
  <2>1. e # 0
    BY DEF ExecId
  <2> QED
    BY <1>3, <1>6, <2>1, FlowAssumption DEF IInv, OwnerInv, Caller
<1>10. tx.holder # c
  BY <1>2, <1>6 DEF IInv, LockInv, FlowTypeOK
<1>11. Committed' = Committed
  BY <1>2 DEF Committed
<1>12. FlowTypeOK' /\ (tx \in Snapshots)'
  BY <1>1, <1>2, <1>4, <1>5 DEF IInv, FlowTypeOK
<1>13. LockInv'
  BY <1>2, <1>5, <1>6, <1>7, <1>10 DEF IInv, LockInv, Caller
<1>14. OwnerInv'
  <2>1. ASSUME NEW d \in Caller, d # c
        PROVE  callers'[d] = callers[d]
               /\ (callers[d].step # "idle" => owner'[callers[d].exec] = owner[callers[d].exec])
    BY <1>7, <1>8, <1>9, <2>1 DEF IInv, OwnerInv
  <2> QED
    BY <1>5, <1>6, <1>7, <1>8, <2>1 DEF IInv, OwnerInv
<1>15. \A d \in ExecId : Open(d)' <=> Open(d)
  BY <1>2, <1>7, <1>10 DEF Open, IInv, FlowTypeOK, Caller
<1>16. executions[e] = "absent" /\ ~Open(e)
  BY <1>3, <1>9 DEF IInv, ExecInv, Open, FlowTypeOK, Caller
<1>17. ExecInv'
  <2>1. ASSUME NEW d \in ExecId
        PROVE  /\ owner'[d] \notin DirectCaller /\ ~Open(d)' =>
                      executions'[d] \in Terminal \cup {"absent"}
               /\ owner'[d] = NoCaller => executions'[d] = "absent"
    BY <1>2, <1>8, <1>15, <1>16 DEF IInv, ExecInv
  <2>2. ASSUME NEW d \in FlowCaller
        PROVE  /\ callers'[d].step # "idle" =>
                      executions'[callers'[d].exec] \in ExpectedStatus(callers'[d].step)
               /\ callers'[d].step \in {"succeeded", "succeed"} =>
                      ended'[callers'[d].exec] = "output"
    BY <1>2, <1>5, <1>6, <1>7, <1>16 DEF IInv, ExecInv, ExpectedStatus, Caller
  <2>3. ASSUME NEW d \in FlowCaller, callers'[d].step \notin {"idle", "wait", "snapshot"}
        PROVE  /\ tx'.executions \in [ExecId -> ExecutionStatus]
               /\ \A i \in ExecId : owner'[i] \notin DirectCaller =>
                      tx'.executions[i] = IF Open(i)' THEN "absent" ELSE executions'[i]
    <3>1. d # c /\ callers'[d] = callers[d]
      BY <1>5, <1>6, <1>7, <2>3 DEF Caller
    <3>2. /\ tx.executions \in [ExecId -> ExecutionStatus]
          /\ \A i \in ExecId : owner[i] \notin DirectCaller =>
                 tx.executions[i] = IF Open(i) THEN "absent" ELSE executions[i]
      BY <2>3, <3>1 DEF IInv, ExecInv
    <3> QED
      BY <1>2, <1>3, <1>6, <1>8, <1>15, <3>2
  <2> QED
    BY <2>1, <2>2, <2>3 DEF ExecInv
<1>18. CommitInv'
  <2>1. ASSUME NEW i \in ExecId, owner[i] \in FlowCaller,
               \A d \in Caller : callers[d].exec # i
        PROVE  /\ executions'[i] = executions[i] /\ ended'[i] = ended[i]
               /\ owner'[i] = owner[i]
               /\ \A d \in Caller : callers'[d].exec # i
    BY <1>2, <1>3, <1>5, <1>6, <1>7, <1>8, <2>1
  <2> QED
    BY <1>11, <2>1, CommitStays
<1>19. ProgressInv'
  <2> SUFFICES ASSUME NEW d \in FlowCaller, callers'[d].step \notin {"idle", "wait"}
               PROVE  callers'[d] = callers[d]
    BY <1>2 DEF IInv, ProgressInv
  <2> QED
    BY <1>5, <1>6, <1>7 DEF Caller
<1> QED
  BY <1>11, <1>12, <1>13, <1>14, <1>17, <1>18, <1>19 DEF IInv

(* A flow gets the lock and snapshots the idempotency records, then the      *)
(* executions.                                                               *)
LEMMA BeginKeepsInv ==
    ASSUME IInv, NEW c \in Caller,
           BeginTransaction(c) \/ SnapshotExecutions(c)
    PROVE  IInv' /\ Committed' = Committed
<1>0. /\ callers \in [Caller -> CallRecord] /\ callers[c] \in CallRecord /\ c # NoCaller
      /\ idem \in [Key -> IdemRecord] /\ executions \in [ExecId -> ExecutionStatus]
      /\ tx \in Snapshots /\ NoCaller \notin FlowCaller
      /\ \A d \in FlowCaller : d \notin DirectCaller /\ d \in Caller
  BY FlowAssumption DEF IInv, FlowTypeOK, Caller
<1>1. c \in FlowCaller
  BY DEF BeginTransaction, SnapshotExecutions, IInv, LockInv, Caller
<1>2. UNCHANGED <<idem, executions, owner, ended>>
  BY DEF BeginTransaction, SnapshotExecutions
<1>3. PICK s \in {"snapshot", "find"} :
        /\ callers' = [callers EXCEPT ![c] = [callers[c] EXCEPT !.step = s]]
        /\ s = "snapshot" => BeginTransaction(c)
        /\ s = "find" => SnapshotExecutions(c)
  BY <1>0 DEF BeginTransaction, SnapshotExecutions, Goto
<1>4. PICK p : p = [callers[c] EXCEPT !.step = s]
  OBVIOUS
<1>5. /\ p \in CallRecord /\ p.step = s /\ p.key = callers[c].key
      /\ p.payload = callers[c].payload /\ p.exec = callers[c].exec
  BY <1>0, <1>4 DEF CallRecord, Step
<1>6. callers'[c] = p /\ \A d \in Caller \ {c} : callers'[d] = callers[d]
  BY <1>0, <1>3, <1>4
<1>7. /\ tx' \in Snapshots /\ tx'.holder = c /\ tx'.idem \in [Key -> IdemRecord]
      /\ tx'.idem = Committed
      /\ s = "find" => tx'.executions = executions
      /\ s = "snapshot" => tx.holder = NoCaller /\ tx'.idem = idem
      /\ s = "find" => tx.holder = c /\ tx'.idem = tx.idem
      /\ tx.holder \in {c, NoCaller}
      /\ callers[c].step = IF s = "snapshot" THEN "wait" ELSE "snapshot"
  <2>1. CASE s = "snapshot"
    <3>1. /\ tx' = [NoTransaction EXCEPT !.holder = c, !.idem = idem]
          /\ tx.holder = NoCaller /\ callers[c].step = "wait"
      BY <1>3, <2>1 DEF BeginTransaction
    <3> QED
      BY <1>0, <1>1, <2>1, <3>1, FlowTypes DEF Snapshots, Committed
  <2>2. CASE s = "find"
    <3>1. tx' = [tx EXCEPT !.executions = executions] /\ callers[c].step = "snapshot"
      BY <1>3, <2>2 DEF SnapshotExecutions
    <3>2. tx.holder = c /\ tx.idem \in [Key -> IdemRecord]
      BY <1>0, <1>1, <3>1 DEF IInv, LockInv
    <3> QED
      BY <1>0, <1>1, <2>2, <3>1, <3>2 DEF Snapshots, Committed
  <2> QED
    BY <2>1, <2>2
<1>8. \A d \in FlowCaller \ {c} : callers[d].step \in {"idle", "wait"}
  BY <1>1, <1>7, OneFlow
<1>9. Committed' = Committed
  BY <1>0, <1>7 DEF Committed
<1>10. \A d \in Caller : callers'[d].exec = callers[d].exec
  BY <1>0, <1>5, <1>6
<1>11. FlowTypeOK'
  BY <1>0, <1>1, <1>2, <1>3, <1>4, <1>5, <1>7 DEF IInv, FlowTypeOK
<1>12. LockInv'
  <2>1. ASSUME NEW d \in DirectCaller
        PROVE  callers'[d] = callers[d]
    BY <1>0, <1>1, <1>6 DEF Caller
  <2> QED
    BY <1>0, <1>1, <1>5, <1>6, <1>7, <1>8, <2>1 DEF IInv, LockInv
<1>13. OwnerInv'
  BY <1>0, <1>2, <1>5, <1>6, <1>7 DEF IInv, OwnerInv
<1>14. callers[c].exec \in ExecId /\ executions[callers[c].exec] = "absent"
       /\ owner[callers[c].exec] = c /\ callers[c].key \in Key
  BY <1>0, <1>1, <1>7 DEF IInv, OwnerInv, ExecInv, ExpectedStatus
<1>15. \A e \in ExecId : /\ Open(e)' <=> e = callers[c].exec
                         /\ Open(e) => e = callers[c].exec
  BY <1>0, <1>7, <1>10 DEF Open
<1>16. ExecInv'
  <2>1. ASSUME NEW e \in ExecId
        PROVE  /\ owner'[e] \notin DirectCaller /\ ~Open(e)' =>
                      executions'[e] \in Terminal \cup {"absent"}
               /\ owner'[e] = NoCaller => executions'[e] = "absent"
    BY <1>2, <1>15 DEF IInv, ExecInv
  <2>2. ASSUME NEW d \in FlowCaller, d # c
        PROVE  /\ callers'[d].step # "idle" =>
                      executions'[callers'[d].exec] \in ExpectedStatus(callers'[d].step)
               /\ callers'[d].step \in {"idle", "wait"}
    BY <1>0, <1>2, <1>6, <1>8, <2>2 DEF IInv, ExecInv
  <2>3. executions'[callers'[c].exec] \in ExpectedStatus(callers'[c].step)
    BY <1>2, <1>5, <1>6, <1>14 DEF ExpectedStatus
  <2>4. s = "find" => \A e \in ExecId :
              tx'.executions[e] = IF Open(e)' THEN "absent" ELSE executions'[e]
    BY <1>2, <1>7, <1>14, <1>15
  <2> QED
    BY <1>0, <1>5, <1>6, <1>7, <2>1, <2>2, <2>3, <2>4 DEF ExecInv
<1>17. CommitInv'
  BY <1>2, <1>9, <1>10, CommitStays
<1>18. ProgressInv'
  <2>1. idem' = tx'.idem
    <3>1. CASE s = "snapshot"
      BY <1>2, <1>7, <3>1
    <3>2. CASE s = "find"
      <4>1. /\ \A l \in Key \ {callers[c].key} : idem[l] = tx.idem[l]
            /\ idem[callers[c].key] = tx.idem[callers[c].key]
        BY <1>1, <1>7, <3>2 DEF IInv, ProgressInv
      <4> QED
        BY <1>0, <1>2, <1>7, <3>2, <4>1
    <3> QED
      BY <3>1, <3>2
  <2>2. \A d \in FlowCaller \ {c} : callers'[d].step \in {"idle", "wait"}
    BY <1>0, <1>6, <1>8
  <2> QED
    BY <1>5, <1>6, <2>1, <2>2 DEF ProgressInv, Working
<1> QED
  BY <1>7, <1>9, <1>11, <1>12, <1>13, <1>16, <1>17, <1>18 DEF IInv

-----------------------------------------------------------------------------
(* The actions.                                                              *)

(* Goto changes the step of a call and nothing else.                         *)
LEMMA GotoCall ==
    ASSUME IInv, NEW c \in Caller, NEW s \in Step
    PROVE  LET p == [callers[c] EXCEPT !.step = s] IN
           /\ p \in CallRecord /\ p.step = s /\ p.key = callers[c].key
           /\ p.payload = callers[c].payload /\ p.exec = callers[c].exec
           /\ p.seen = callers[c].seen
<1>1. callers[c] \in CallRecord
  BY DEF IInv, FlowTypeOK
<1> QED
  BY <1>1 DEF CallRecord

(* What holds of the flow that has its snapshots.                            *)
LEMMA FlowFacts ==
    ASSUME IInv, NEW c \in FlowCaller,
           callers[c].step \notin {"idle", "wait", "snapshot"}
    PROVE  /\ c \in Caller /\ callers[c] \in CallRecord /\ tx.holder = c
           /\ callers[c].exec \in ExecId /\ owner[callers[c].exec] = c
           /\ callers[c].key \in Key /\ callers[c].payload \in Payload
           /\ callers[c].seen \in IdemRecord
           /\ executions[callers[c].exec] \in ExpectedStatus(callers[c].step)
           /\ tx.idem \in [Key -> IdemRecord] /\ tx.executions \in [ExecId -> ExecutionStatus]
           /\ tx.executions[callers[c].exec] = "absent"
           /\ \A e \in ExecId \ {callers[c].exec} :
                 owner[e] \notin DirectCaller => tx.executions[e] = executions[e]
           /\ \A k \in Key : CommittedRecord(tx.idem[k])
           /\ idem \in [Key -> IdemRecord] /\ executions \in [ExecId -> ExecutionStatus]
           /\ ended \in [ExecId -> {"no", "output", "error"}]
<1>1. c \in Caller /\ c # NoCaller /\ c \notin DirectCaller
  BY FlowAssumption DEF Caller
<1>2. /\ callers[c] \in CallRecord /\ tx.holder = c
      /\ callers[c].exec \in ExecId /\ owner[callers[c].exec] = c
      /\ callers[c].key \in Key /\ callers[c].payload \in Payload
      /\ executions[callers[c].exec] \in ExpectedStatus(callers[c].step)
      /\ tx.idem \in [Key -> IdemRecord] /\ tx.executions \in [ExecId -> ExecutionStatus]
      /\ idem \in [Key -> IdemRecord] /\ executions \in [ExecId -> ExecutionStatus]
      /\ ended \in [ExecId -> {"no", "output", "error"}]
  BY <1>1 DEF IInv, FlowTypeOK, LockInv, OwnerInv, ExecInv
<1>3. callers[c].seen \in IdemRecord
  BY <1>2 DEF CallRecord
<1>4. \A e \in ExecId : Open(e) <=> e = callers[c].exec
  BY <1>1, <1>2 DEF Open
<1>5. \A e \in ExecId : owner[e] \notin DirectCaller =>
          tx.executions[e] = IF Open(e) THEN "absent" ELSE executions[e]
  BY DEF IInv, ExecInv
<1>6. \A k \in Key : CommittedRecord(tx.idem[k])
  BY <1>1, <1>2 DEF IInv, CommitInv, Committed
<1> QED
  BY <1>1, <1>2, <1>3, <1>4, <1>5, <1>6

(* A call of a flow raises and its rollback begins.                          *)
LEMMA FlowRaiseKeepsInv ==
    ASSUME IInv, NEW c \in FlowCaller, Raise(c),
           callers[c].step \notin {"idle", "wait", "snapshot"},
           UNCHANGED <<idem, executions, owner>>,
           ended' \in [ExecId -> {"no", "output", "error"}],
           \A e \in ExecId \ {callers[c].exec} : ended'[e] = ended[e]
    PROVE  IInv' /\ Committed' = Committed
<1>1. PICK p : p = [callers[c] EXCEPT !.step = "rollback"]
  OBVIOUS
<1>2. c \in Caller /\ callers[c].exec \in ExecId
  BY FlowFacts
<1>3. /\ p \in CallRecord /\ p.step = "rollback" /\ p.key = callers[c].key
      /\ p.payload = callers[c].payload /\ p.exec = callers[c].exec
  BY <1>1, <1>2, GotoCall DEF Step
<1>4. callers' = [callers EXCEPT ![c] = p] /\ UNCHANGED tx
  BY <1>1 DEF Raise
<1>5. executions'[p.exec] \in ExpectedStatus(p.step)
  BY <1>2, <1>3 DEF ExpectedStatus, IInv, FlowTypeOK
<1>6. idem'[p.key] = tx.idem[p.key] \/ idem'[p.key].status = "in_progress"
  <2>1. callers[c] \in CallRecord
    BY FlowFacts
  <2>2. callers[c].step \in Step
    BY <2>1 DEF CallRecord
  <2> QED
    BY <1>3, <2>2 DEF IInv, ProgressInv, Working, Step
<1>7. /\ idem' \in [Key -> IdemRecord] /\ executions' \in [ExecId -> ExecutionStatus]
  BY DEF IInv, FlowTypeOK
<1> QED
  BY <1>3, <1>4, <1>5, <1>6, <1>7, FlowStepKeepsInv DEF Working

(* begin reads the record of the key and decides.                            *)
LEMMA FindKeepsInv ==
    ASSUME IInv, NEW c \in FlowCaller, Find(c)
    PROVE  IInv' /\ Committed' = Committed
<1>0. callers[c].step = "find" /\ UNCHANGED <<idem, executions, owner, ended>>
  BY DEF Find
<1>1. CASE Raise(c)
  BY <1>0, <1>1, FlowRaiseKeepsInv DEF IInv, FlowTypeOK
<1>2. ASSUME NEW s \in {"create", "reuse", "restart"},
             callers' = [callers EXCEPT ![c].step = s, ![c].seen = idem[callers[c].key]],
             s = "restart" => MayRestart(idem[callers[c].key], callers[c].payload),
             UNCHANGED tx
      PROVE  IInv' /\ Committed' = Committed
  <2>1. PICK p : p = [callers[c] EXCEPT !.step = s, !.seen = idem[callers[c].key]]
    OBVIOUS
  <2>2. /\ c \in Caller /\ callers[c] \in CallRecord /\ idem[callers[c].key] \in IdemRecord
        /\ executions[callers[c].exec] \in ExpectedStatus("find")
    BY <1>0, FlowFacts
  <2>3. /\ p \in CallRecord /\ p.step = s /\ p.key = callers[c].key
        /\ p.payload = callers[c].payload /\ p.exec = callers[c].exec
        /\ p.seen = idem[callers[c].key]
    BY <1>2, <2>1, <2>2 DEF CallRecord, Step
  <2>4. callers' = [callers EXCEPT ![c] = p]
    BY <1>2, <2>1, <2>2 DEF IInv, FlowTypeOK, CallRecord
  <2>5. executions'[p.exec] \in ExpectedStatus(p.step)
    BY <1>0, <1>2, <2>2, <2>3 DEF ExpectedStatus
  <2>6. idem[p.key] = tx.idem[p.key]
    BY <1>0, <2>3 DEF IInv, ProgressInv
  <2>7. /\ idem' \in [Key -> IdemRecord] /\ executions' \in [ExecId -> ExecutionStatus]
        /\ ended' \in [ExecId -> {"no", "output", "error"}]
    BY <1>0 DEF IInv, FlowTypeOK
  <2>8. /\ p.step \notin {"idle", "wait", "snapshot", "succeeded", "succeed", "rollback",
                          "restore"}
        /\ p.step \notin Working
        /\ p.step = "restart" => p.seen = idem'[p.key] /\ MayRestart(p.seen, p.payload)
        /\ idem'[p.key] = tx.idem[p.key]
    BY <1>0, <1>2, <2>3, <2>6 DEF Working
  <2>9. /\ callers[c].step \notin {"idle", "wait", "snapshot"} /\ UNCHANGED <<tx, owner>>
        /\ idem' = idem /\ executions' = executions /\ ended' = ended
    BY <1>0, <1>2
  <2> QED
    BY <2>3, <2>4, <2>5, <2>7, <2>8, <2>9, FlowStepKeepsInv
<1> QED
  BY <1>1, <1>2 DEF Find

(* begin writes: the key is in progress now, in this transaction.            *)
LEMMA BeginWritesKeepsInv ==
    ASSUME IInv, NEW c \in FlowCaller, CreateRecord(c) \/ Restart(c)
    PROVE  IInv' /\ Committed' = Committed
<1>0. callers[c].step \in {"create", "restart"} /\ UNCHANGED <<executions, owner, ended>>
  BY DEF CreateRecord, Restart
<1>1. CASE Raise(c) /\ UNCHANGED idem
  BY <1>0, <1>1, FlowRaiseKeepsInv DEF IInv, FlowTypeOK
<1>2. ASSUME NEW r \in IdemRecord, r.status = "in_progress", r.result = 0,
             r.fingerprint = callers[c].payload,
             tx.idem[callers[c].key] = NoRecord
                 \/ MayRestart(tx.idem[callers[c].key], callers[c].payload),
             idem' = [idem EXCEPT ![callers[c].key] = r],
             Goto(c, "execute"), UNCHANGED tx
      PROVE  IInv' /\ Committed' = Committed
  <2>1. PICK p : p = [callers[c] EXCEPT !.step = "execute"]
    OBVIOUS
  <2>2. /\ c \in Caller /\ callers[c].key \in Key /\ callers[c].exec \in ExecId
        /\ executions[callers[c].exec] \in ExpectedStatus(callers[c].step)
    BY <1>0, FlowFacts
  <2>3. /\ p \in CallRecord /\ p.step = "execute" /\ p.key = callers[c].key
        /\ p.payload = callers[c].payload /\ p.exec = callers[c].exec
    <3>1. "execute" \in Step
      BY DEF Step
    <3> QED
      BY <2>1, <2>2, <3>1, GotoCall
  <2>4. callers' = [callers EXCEPT ![c] = p]
    BY <1>2, <2>1 DEF Goto
  <2>5. executions'[p.exec] \in ExpectedStatus(p.step)
    BY <1>0, <2>2, <2>3 DEF ExpectedStatus
  <2>6. /\ idem' \in [Key -> IdemRecord] /\ executions' \in [ExecId -> ExecutionStatus]
        /\ ended' \in [ExecId -> {"no", "output", "error"}]
        /\ idem'[p.key] = r /\ \A l \in Key \ {p.key} : idem'[l] = idem[l]
    BY <1>0, <1>2, <2>2, <2>3 DEF IInv, FlowTypeOK
  <2> QED
    BY <1>0, <1>2, <2>3, <2>4, <2>5, <2>6, FlowStepKeepsInv
<1>3. CASE CreateRecord(c) /\ ~(Raise(c) /\ UNCHANGED idem)
  <2>1. PICK r : r = [status |-> "in_progress", fingerprint |-> callers[c].payload,
                      result |-> 0, record_version |-> 1]
    OBVIOUS
  <2>2. /\ callers[c].key \in Key /\ callers[c].payload \in Payload
        /\ CommittedRecord(tx.idem[callers[c].key])
    BY <1>0, FlowFacts
  <2>3. /\ r \in IdemRecord /\ r.status = "in_progress" /\ r.result = 0
        /\ r.fingerprint = callers[c].payload
    BY <2>1, <2>2 DEF IdemRecord
  <2>4. /\ idem[callers[c].key].status = "absent"
        /\ idem' = [idem EXCEPT ![callers[c].key] = r]
        /\ Goto(c, "execute") /\ UNCHANGED tx
    BY <1>3, <2>1 DEF CreateRecord
  <2>5. idem[callers[c].key] = tx.idem[callers[c].key]
    BY <1>0 DEF IInv, ProgressInv
  <2>6. tx.idem[callers[c].key] = NoRecord
    BY <2>2, <2>4, <2>5 DEF CommittedRecord
  <2> QED
    BY <1>2, <2>3, <2>4, <2>6
<1>4. CASE Restart(c) /\ ~(Raise(c) /\ UNCHANGED idem)
  <2>0. callers[c].step = "restart"
    BY <1>4 DEF Restart
  <2>1. PICK o : o = callers[c].seen
    OBVIOUS
  <2>2. /\ o \in IdemRecord /\ o = idem[callers[c].key] /\ o = tx.idem[callers[c].key]
        /\ MayRestart(o, callers[c].payload) /\ CommittedRecord(o)
    <3>1. o \in IdemRecord /\ callers[c].key \in Key
          /\ CommittedRecord(tx.idem[callers[c].key])
      BY <2>0, <2>1, FlowFacts
    <3>2. /\ idem[callers[c].key] = tx.idem[callers[c].key] /\ o = idem[callers[c].key]
          /\ MayRestart(o, callers[c].payload)
      BY <2>0, <2>1 DEF IInv, ProgressInv
    <3> QED
      BY <3>1, <3>2
  <2>3. PICK r : r = [o EXCEPT !.status = "in_progress", !.record_version = @ + 1]
    OBVIOUS
  <2>4. o.record_version + 1 \in Nat
    BY <2>2 DEF IdemRecord
  <2>5. /\ r \in IdemRecord /\ r.status = "in_progress" /\ r.result = o.result
        /\ r.fingerprint = o.fingerprint
    BY <2>2, <2>3, <2>4 DEF IdemRecord
  <2>6. o.result = 0 /\ o.fingerprint = callers[c].payload
    BY <2>2, FlowTypes DEF CommittedRecord, MayRestart
  <2>7. /\ idem' = [idem EXCEPT ![callers[c].key] = r]
        /\ Goto(c, "execute") /\ UNCHANGED tx
    BY <1>4, <2>1, <2>3 DEF Restart
  <2> QED
    BY <1>2, <2>2, <2>5, <2>6, <2>7
<1> QED
  BY <1>1, <1>3, <1>4

(* The stored result is returned, or is not there.                           *)
LEMMA ReuseKeepsInv ==
    ASSUME IInv, NEW c \in FlowCaller, Reuse(c)
    PROVE  IInv' /\ Committed' = Committed
<1>0. callers[c].step = "reuse" /\ UNCHANGED <<idem, executions, owner, ended>>
  BY DEF Reuse
<1>1. CASE Raise(c)
  BY <1>0, <1>1, FlowRaiseKeepsInv DEF IInv, FlowTypeOK
<1>2. CASE Return(c)
  <2>1. callers' = [callers EXCEPT ![c] = NoCall] /\ tx' = NoTransaction
    BY <1>2 DEF Return
  <2>2. /\ tx.holder = c /\ callers[c].key \in Key
        /\ executions[callers[c].exec] \in ExpectedStatus("reuse")
    BY <1>0, FlowFacts
  <2>3. executions[callers[c].exec] = "absent"
    BY <2>2 DEF ExpectedStatus
  <2>4. \A k \in Key : idem'[k] = tx.idem[k]
    BY <1>0, <2>2 DEF IInv, ProgressInv
  <2>5. IInv' /\ Committed' = idem'
    BY <1>0, <2>1, <2>3, <2>4, FlowEndKeepsInv DEF IInv, FlowTypeOK
  <2>6. Committed = tx.idem /\ tx.idem \in [Key -> IdemRecord] /\ idem' \in [Key -> IdemRecord]
    BY <1>0, <2>2, FlowFacts, FlowAssumption DEF Committed, Caller
  <2> QED
    BY <2>4, <2>5, <2>6
<1> QED
  BY <1>1, <1>2 DEF Reuse

(* The rollback restores the executions, then the idempotency records, and   *)
(* ends the transaction.                                                     *)
LEMMA RestoreKeepsInv ==
    ASSUME IInv, NEW c \in FlowCaller, RestoreExecutions(c) \/ RestoreIdempotency(c)
    PROVE  IInv' /\ Committed' = Committed
<1>0. callers[c].step \in {"rollback", "restore"}
  BY DEF RestoreExecutions, RestoreIdempotency
<1>1. /\ c \in Caller /\ tx.holder = c /\ callers[c].exec \in ExecId
      /\ tx.idem \in [Key -> IdemRecord] /\ tx.executions \in [ExecId -> ExecutionStatus]
      /\ tx.executions[callers[c].exec] = "absent"
      /\ \A e \in ExecId \ {callers[c].exec} :
            owner[e] \notin DirectCaller => tx.executions[e] = executions[e]
      /\ executions[callers[c].exec] \in ExpectedStatus(callers[c].step)
  BY <1>0, FlowFacts
<1>2. CASE RestoreExecutions(c)
  <2>1. PICK p : p = [callers[c] EXCEPT !.step = "restore"]
    OBVIOUS
  <2>2. /\ p \in CallRecord /\ p.step = "restore" /\ p.key = callers[c].key
        /\ p.payload = callers[c].payload /\ p.exec = callers[c].exec
    <3>1. "restore" \in Step
      BY DEF Step
    <3> QED
      BY <1>1, <2>1, <3>1, GotoCall
  <2>3. /\ callers' = [callers EXCEPT ![c] = p] /\ UNCHANGED <<idem, tx, owner, ended>>
        /\ executions' = tx.executions
    BY <1>2, <2>1 DEF RestoreExecutions, Goto
  <2>4. executions'[p.exec] \in ExpectedStatus(p.step)
    BY <1>1, <2>2, <2>3 DEF ExpectedStatus
  <2>5. idem'[p.key] = tx.idem[p.key] \/ idem'[p.key].status = "in_progress"
    BY <1>0, <2>2, <2>3 DEF IInv, ProgressInv
  <2>6. /\ idem' \in [Key -> IdemRecord] /\ executions' \in [ExecId -> ExecutionStatus]
        /\ ended' \in [ExecId -> {"no", "output", "error"}]
    BY <1>1, <2>3 DEF IInv, FlowTypeOK
  <2> QED
    BY <1>0, <1>1, <2>2, <2>3, <2>4, <2>5, <2>6, FlowStepKeepsInv DEF Working
<1>3. CASE RestoreIdempotency(c)
  <2>1. /\ callers' = [callers EXCEPT ![c] = NoCall] /\ tx' = NoTransaction
        /\ idem' = tx.idem /\ UNCHANGED <<executions, owner, ended>>
        /\ callers[c].step = "restore"
    BY <1>3 DEF RestoreIdempotency, Return
  <2>2. executions[callers[c].exec] = "absent"
    BY <1>1, <2>1 DEF ExpectedStatus
  <2>3. IInv' /\ Committed' = idem'
    BY <1>1, <2>1, <2>2, FlowEndKeepsInv
  <2>4. Committed = tx.idem
    BY <1>1, FlowAssumption DEF Committed, Caller
  <2> QED
    BY <2>1, <2>3, <2>4
<1> QED
  BY <1>2, <1>3

(* The execution service: create, mark running, run, mark the outcome.       *)
LEMMA ExecuteKeepsInv ==
    ASSUME IInv, NEW c \in FlowCaller,
           CreateExecution(c) \/ MarkRunning(c) \/ Run(c) \/ MarkSucceeded(c) \/ MarkFailed(c)
    PROVE  IInv' /\ Committed' = Committed
<1>0. /\ callers[c].step \in {"execute", "start", "run", "succeeded", "failed"}
      /\ UNCHANGED <<idem, owner>>
  BY DEF CreateExecution, MarkRunning, Run, MarkSucceeded, MarkFailed, Mark
<1>1. /\ c \in Caller /\ callers[c].exec \in ExecId
      /\ executions[callers[c].exec] \in ExpectedStatus(callers[c].step)
      /\ idem \in [Key -> IdemRecord] /\ executions \in [ExecId -> ExecutionStatus]
      /\ ended \in [ExecId -> {"no", "output", "error"}]
  BY <1>0, FlowFacts
<1>2. ASSUME NEW s \in {"start", "run", "succeeded", "failed", "succeed", "fail"},
             Goto(c, s), UNCHANGED tx,
             executions' \in [ExecId -> ExecutionStatus],
             \A e \in ExecId \ {callers[c].exec} : executions'[e] = executions[e],
             ended' \in [ExecId -> {"no", "output", "error"}],
             \A e \in ExecId \ {callers[c].exec} : ended'[e] = ended[e],
             executions'[callers[c].exec] \in ExpectedStatus(s),
             s \in {"succeeded", "succeed"} => ended'[callers[c].exec] = "output"
      PROVE  IInv' /\ Committed' = Committed
  <2>1. PICK p : p = [callers[c] EXCEPT !.step = s]
    OBVIOUS
  <2>2. /\ p \in CallRecord /\ p.step = s /\ p.key = callers[c].key
        /\ p.payload = callers[c].payload /\ p.exec = callers[c].exec
    <3>1. s \in Step
      BY <1>2 DEF Step
    <3> QED
      BY <1>1, <2>1, <3>1, GotoCall
  <2>3. callers' = [callers EXCEPT ![c] = p]
    BY <1>2, <2>1 DEF Goto
  <2>4. /\ idem'[p.key].status = "in_progress" /\ idem'[p.key].result = 0
        /\ idem'[p.key].fingerprint = p.payload
        /\ tx.idem[p.key] = NoRecord \/ MayRestart(tx.idem[p.key], p.payload)
    BY <1>0, <2>2 DEF IInv, ProgressInv, Working
  <2>5. /\ s \notin {"create", "restart", "reuse", "find", "rollback", "restore",
                     "idle", "wait", "snapshot"}
        /\ callers[c].step \notin {"idle", "wait", "snapshot"}
    BY <1>0, <1>2
  <2>6. idem' \in [Key -> IdemRecord] /\ \A l \in Key \ {p.key} : idem'[l] = idem[l]
    BY <1>0, <1>1
  <2> QED
    BY <1>0, <1>2, <2>2, <2>3, <2>4, <2>5, <2>6, FlowStepKeepsInv
<1>3. CASE CreateExecution(c)
  <2>1. /\ executions' = [executions EXCEPT ![callers[c].exec] = "pending"]
        /\ Goto(c, "start") /\ UNCHANGED <<tx, ended>>
    BY <1>3 DEF CreateExecution
  <2>2. executions'[callers[c].exec] \in ExpectedStatus("start")
    BY <1>1, <2>1 DEF ExpectedStatus
  <2> QED
    BY <1>1, <1>2, <2>1, <2>2 DEF ExecutionStatus
<1>4. ASSUME NEW s, NEW t \in ExecutionStatus, NEW n \in {"run", "succeed", "fail"},
             Mark(c, s, t, n), t \in ExpectedStatus(n),
             n = "succeed" => callers[c].step = "succeeded"
      PROVE  IInv' /\ Committed' = Committed
  <2>1. CASE Raise(c) /\ UNCHANGED executions
    BY <1>0, <1>1, <1>4, <2>1, FlowRaiseKeepsInv DEF Mark
  <2>2. CASE ~(Raise(c) /\ UNCHANGED executions)
    <3>1. /\ executions' = [executions EXCEPT ![callers[c].exec] = t]
          /\ Goto(c, n) /\ UNCHANGED <<tx, ended>>
      BY <1>4, <2>2 DEF Mark
    <3>2. n = "succeed" => ended[callers[c].exec] = "output"
      BY <1>4 DEF IInv, ExecInv
    <3> QED
      BY <1>1, <1>2, <1>4, <3>1, <3>2
  <2> QED
    BY <2>1, <2>2
<1>5. CASE MarkRunning(c)
  <2>1. "running" \in ExecutionStatus /\ "running" \in ExpectedStatus("run")
    BY DEF ExecutionStatus, ExpectedStatus
  <2> QED
    BY <1>4, <1>5, <2>1 DEF MarkRunning
<1>6. CASE MarkSucceeded(c)
  <2>1. "succeeded" \in ExecutionStatus /\ "succeeded" \in ExpectedStatus("succeed")
    BY DEF ExecutionStatus, ExpectedStatus
  <2> QED
    BY <1>4, <1>6, <2>1 DEF MarkSucceeded
<1>7. CASE MarkFailed(c)
  <2>1. "failed" \in ExecutionStatus /\ "failed" \in ExpectedStatus("fail")
    BY DEF ExecutionStatus, ExpectedStatus
  <2> QED
    BY <1>4, <1>7, <2>1 DEF MarkFailed
<1>8. CASE Run(c)
  <2>1. callers[c].step = "run" /\ Runs(c, callers[c].exec) /\ UNCHANGED executions
    BY <1>8 DEF Run
  <2>2. PICK o \in {"output", "error"} :
            /\ ended' = [ended EXCEPT ![callers[c].exec] = o]
            /\ \/ o = "output" /\ Goto(c, "succeeded") /\ UNCHANGED tx
               \/ o = "error" /\ Goto(c, "failed") /\ UNCHANGED tx
               \/ Raise(c)
    BY <2>1 DEF Runs
  <2>3. /\ ended' \in [ExecId -> {"no", "output", "error"}]
        /\ ended'[callers[c].exec] = o
        /\ \A e \in ExecId \ {callers[c].exec} : ended'[e] = ended[e]
    BY <1>1, <2>2
  <2>4. executions'[callers[c].exec] \in ExpectedStatus("succeeded")
        /\ executions'[callers[c].exec] \in ExpectedStatus("failed")
    BY <1>1, <2>1 DEF ExpectedStatus
  <2>5. CASE Raise(c)
    BY <1>0, <2>1, <2>3, <2>5, FlowRaiseKeepsInv
  <2>6. executions' \in [ExecId -> ExecutionStatus]
        /\ \A e \in ExecId \ {callers[c].exec} : executions'[e] = executions[e]
    BY <1>1, <2>1
  <2>7. CASE o = "output" /\ Goto(c, "succeeded") /\ UNCHANGED tx
    BY <1>2, <2>3, <2>4, <2>6, <2>7
  <2>8. CASE o = "error" /\ Goto(c, "failed") /\ UNCHANGED tx
    BY <1>2, <2>3, <2>4, <2>6, <2>8
  <2> QED
    BY <2>2, <2>5, <2>7, <2>8
<1> QED
  BY <1>3, <1>5, <1>6, <1>7, <1>8

(* What the abstract operation sees of the flow.                             *)
Outcome ==
    [k \in Key |-> [status |-> IF Committed[k].status = "absent"
                               THEN "none" ELSE Committed[k].status,
                    payload |-> Committed[k].fingerprint,
                    result |-> Committed[k].result]]

(* succeed and fail of the idempotency service commit the flow's             *)
(* transaction: one step of the abstract operation.                          *)
LEMMA RecordKeepsInv ==
    ASSUME IInv, NEW c \in FlowCaller, RecordSuccess(c) \/ RecordFailure(c)
    PROVE  IInv' /\ Operation!Next
<1>1. PICK k, pl, e : k = callers[c].key /\ pl = callers[c].payload /\ e = callers[c].exec
  OBVIOUS
<1>2. PICK s \in {"succeeded", "failed"}, r \in {e, 0} :
          /\ StoreOutcome(c, s, r)
          /\ s = "succeeded" => callers[c].step = "succeed" /\ r = e
          /\ s = "failed" => callers[c].step = "fail" /\ r = 0
  BY <1>1 DEF RecordSuccess, RecordFailure
<1>3. callers[c].step \in {"succeed", "fail"}
  BY <1>2
<1>4. /\ tx.holder = c /\ e \in ExecId /\ owner[e] = c /\ k \in Key /\ pl \in Payload
      /\ executions[e] \in ExpectedStatus(callers[c].step) /\ c \in Caller
      /\ tx.idem \in [Key -> IdemRecord] /\ idem \in [Key -> IdemRecord]
      /\ \A l \in Key : CommittedRecord(tx.idem[l])
  BY <1>1, <1>3, FlowFacts
<1>5. /\ idem[k].status = "in_progress" /\ idem[k].fingerprint = pl
      /\ tx.idem[k] = NoRecord \/ MayRestart(tx.idem[k], pl)
      /\ \A l \in Key \ {k} : idem[l] = tx.idem[l]
  BY <1>1, <1>3 DEF IInv, ProgressInv, Working
<1>6. /\ idem' = [idem EXCEPT ![k].status = s, ![k].result = r, ![k].record_version = @ + 1]
      /\ callers' = [callers EXCEPT ![c] = NoCall] /\ tx' = NoTransaction
      /\ UNCHANGED <<executions, owner, ended>>
  BY <1>1, <1>2, <1>5 DEF StoreOutcome, Return
<1>7. idem[k].record_version + 1 \in Nat /\ r \in ExecId \cup {0}
  BY <1>4 DEF IdemRecord
<1>8. PICK q : q = [idem[k] EXCEPT !.status = s, !.result = r,
                                   !.record_version = idem[k].record_version + 1]
  OBVIOUS
<1>9. q \in IdemRecord /\ q.status = s /\ q.result = r /\ q.fingerprint = pl
  BY <1>4, <1>5, <1>7, <1>8 DEF IdemRecord
<1>10. idem' = [idem EXCEPT ![k] = q]
  BY <1>4, <1>6, <1>8
<1>11. idem' \in [Key -> IdemRecord] /\ idem'[k] = q
       /\ \A l \in Key \ {k} : idem'[l] = tx.idem[l]
  BY <1>4, <1>5, <1>9, <1>10
<1>12. /\ executions[e] \in Terminal
       /\ s = "succeeded" => executions[e] = "succeeded" /\ ended[e] = "output"
  BY <1>1, <1>2, <1>3, <1>4 DEF ExpectedStatus, Terminal, IInv, ExecInv
<1>13. IInv' /\ Committed' = idem'
  <2>1. ASSUME NEW l \in Key
        PROVE  \/ idem'[l] = tx.idem[l]
               \/ /\ idem'[l].status = "failed" /\ idem'[l].fingerprint \in Payload
                  /\ idem'[l].result = 0
               \/ /\ idem'[l].status = "succeeded" /\ idem'[l].fingerprint \in Payload
                  /\ idem'[l].result = callers[c].exec
                  /\ executions[callers[c].exec] = "succeeded"
                  /\ ended[callers[c].exec] = "output"
    BY <1>1, <1>2, <1>4, <1>9, <1>11, <1>12
  <2> QED
    BY <1>1, <1>3, <1>6, <1>11, <1>12, <2>1, FlowEndKeepsInv
<1>14. Committed = tx.idem
  BY <1>4, FlowAssumption DEF Committed, Caller
<1>15. Operation!Open(k, pl)
  <2>1. CASE tx.idem[k] = NoRecord
    BY <1>4, <1>14, <2>1, FlowTypes DEF Operation!Open, Operation!NoOutcome
  <2>2. CASE MayRestart(tx.idem[k], pl)
    BY <1>4, <1>14, <2>2 DEF Operation!Open, MayRestart
  <2> QED
    BY <1>5, <2>1, <2>2
<1>16. Outcome' = [Outcome EXCEPT ![k] = [status |-> s, payload |-> pl, result |-> r]]
  BY <1>4, <1>9, <1>11, <1>13, <1>14 DEF Outcome
<1>17. \A l \in Key : tx.idem[l].result # e
  <2> SUFFICES ASSUME NEW l \in Key
               PROVE  tx.idem[l].result # e
    OBVIOUS
  <2>1. e # 0
    BY <1>4 DEF ExecId
  <2> QED
    BY <1>1, <1>4, <2>1, FlowTypes DEF CommittedRecord
<1>18. CASE s = "succeeded"
  <2>1. Operation!Succeed(k, pl, e)
    BY <1>2, <1>14, <1>15, <1>16, <1>17, <1>18 DEF Operation!Succeed, Outcome
  <2> QED
    BY <1>4, <1>13, <2>1 DEF Operation!Next
<1>19. CASE s = "failed"
  <2>1. Operation!Fail(k, pl)
    BY <1>2, <1>15, <1>16, <1>19 DEF Operation!Fail, Outcome
  <2> QED
    BY <1>4, <1>13, <2>1 DEF Operation!Next
<1> QED
  BY <1>18, <1>19

(* A direct caller runs its execution.                                       *)
LEMMA DirectKeepsInv ==
    ASSUME IInv, NEW c \in DirectCaller, CallStep(c)
    PROVE  IInv' /\ Committed' = Committed
<1>0. /\ callers[c].step \in {"idle", "execute", "start", "run", "succeeded", "failed"}
      /\ c \in Caller /\ c \notin FlowCaller
      /\ executions \in [ExecId -> ExecutionStatus]
      /\ ended \in [ExecId -> {"no", "output", "error"}]
  BY FlowAssumption DEF IInv, LockInv, FlowTypeOK, Caller
<1>1. CreateExecution(c) \/ MarkRunning(c) \/ Run(c) \/ MarkSucceeded(c) \/ MarkFailed(c)
  BY <1>0 DEF CallStep, SnapshotExecutions, RestoreExecutions, RestoreIdempotency, Find,
              CreateRecord, Restart, Reuse, RecordSuccess, RecordFailure
<1>2. callers[c].step # "idle" /\ UNCHANGED <<idem, owner>>
  BY <1>1 DEF CreateExecution, MarkRunning, Run, MarkSucceeded, MarkFailed, Mark
<1>3. /\ executions' \in [ExecId -> ExecutionStatus]
      /\ \A e \in ExecId \ {callers[c].exec} : executions'[e] = executions[e]
      /\ ended' \in [ExecId -> {"no", "output", "error"}]
      /\ \A e \in ExecId \ {callers[c].exec} : ended'[e] = ended[e]
  <2>1. CASE UNCHANGED ended /\ \E t \in ExecutionStatus :
                 executions' = [executions EXCEPT ![callers[c].exec] = t]
    BY <1>0, <2>1
  <2>2. CASE Run(c)
    BY <1>0, <2>2 DEF Run, Runs
  <2>3. CASE UNCHANGED <<executions, ended>>
    BY <1>0, <2>3
  <2>4. {"pending", "running", "succeeded", "failed"} \subseteq ExecutionStatus
    BY DEF ExecutionStatus
  <2> QED
    BY <1>1, <2>1, <2>2, <2>3, <2>4
       DEF CreateExecution, MarkRunning, MarkSucceeded, MarkFailed, Mark
<1>4. UNCHANGED tx
  BY <1>0, <1>1 DEF CreateExecution, MarkRunning, Run, Runs, MarkSucceeded, MarkFailed, Mark,
                    Return, Raise
<1>5. CASE callers' = [callers EXCEPT ![c] = NoCall]
  BY <1>2, <1>3, <1>4, <1>5, FlowTypes, DirectStepKeepsInv
<1>6. ASSUME NEW s \in {"start", "run", "succeeded", "failed"}, Goto(c, s)
      PROVE  IInv' /\ Committed' = Committed
  <2>1. PICK p : p = [callers[c] EXCEPT !.step = s]
    OBVIOUS
  <2>2. p \in CallRecord /\ p.step = s /\ p.exec = callers[c].exec
    <3>1. s \in Step
      BY <1>6 DEF Step
    <3> QED
      BY <1>0, <2>1, <3>1, GotoCall
  <2>3. callers' = [callers EXCEPT ![c] = p]
    BY <1>6, <2>1 DEF Goto
  <2>4. p.step \in {"execute", "start", "run", "succeeded", "failed"}
    BY <1>6, <2>2
  <2> QED
    BY <1>2, <1>3, <1>4, <2>2, <2>3, <2>4, DirectStepKeepsInv
<1>7. callers' = [callers EXCEPT ![c] = NoCall]
      \/ \E s \in {"start", "run", "succeeded", "failed"} : Goto(c, s)
  BY <1>0, <1>1 DEF CreateExecution, MarkRunning, Run, Runs, MarkSucceeded, MarkFailed, Mark,
                    Return, Raise
<1> QED
  BY <1>5, <1>6, <1>7

(* Every step keeps the invariant, and commits nothing but what the abstract *)
(* operation allows.                                                         *)
LEMMA FlowStep ==
    ASSUME IInv, [FlowNext]_fvars
    PROVE  IInv' /\ (Operation!Next \/ Committed' = Committed)
<1>1. CASE UNCHANGED fvars
  <2>1. IInv' <=> IInv
    BY <1>1 DEF fvars, IInv, FlowTypeOK, LockInv, OwnerInv, ExecInv, CommitInv, ProgressInv,
                CommittedRecord, Committed, Open
  <2> QED
    BY <1>1, <2>1 DEF fvars, Committed
<1>2. ASSUME NEW c \in Caller, CallFlow(c)
      PROVE  IInv' /\ Committed' = Committed
  BY <1>2, ArriveKeepsInv DEF CallFlow
<1>3. ASSUME NEW c \in Caller, CallDirectly(c)
      PROVE  IInv' /\ Committed' = Committed
  BY <1>3, ArriveKeepsInv DEF CallDirectly
<1>4. ASSUME NEW c \in Caller, BeginTransaction(c)
      PROVE  IInv' /\ Committed' = Committed
  BY <1>4, BeginKeepsInv
<1>5. ASSUME NEW c \in FlowCaller, CallStep(c)
      PROVE  IInv' /\ (Operation!Next \/ Committed' = Committed)
  <2>1. c \in Caller
    BY DEF Caller
  <2> QED
    BY <1>5, <2>1, BeginKeepsInv, RestoreKeepsInv, FindKeepsInv, BeginWritesKeepsInv,
       ReuseKeepsInv, ExecuteKeepsInv, RecordKeepsInv DEF CallStep
<1>6. ASSUME NEW c \in DirectCaller, CallStep(c)
      PROVE  IInv' /\ Committed' = Committed
  BY <1>6, DirectKeepsInv
<1> QED
  BY <1>1, <1>2, <1>3, <1>4, <1>5, <1>6 DEF FlowNext, Caller

(* At first nothing is stored, no call is under way and the lock is free.    *)
LEMMA FlowStart == FlowInit => IInv
<1> SUFFICES ASSUME FlowInit
             PROVE  IInv
  OBVIOUS
<1>1. FlowTypeOK /\ tx \in Snapshots /\ tx.holder = NoCaller
  BY FlowTypes DEF FlowInit, FlowTypeOK, ExecutionStatus
<1>2. \A c \in Caller : callers[c].step = "idle" /\ callers[c].exec = 0
  BY FlowTypes DEF FlowInit
<1>3. LockInv
  BY <1>1, <1>2, FlowAssumption DEF LockInv, Caller
<1>4. OwnerInv
  BY <1>2 DEF OwnerInv
<1>5. ExecInv
  BY <1>2 DEF FlowInit, ExecInv, Caller
<1>6. CommitInv
  BY <1>1 DEF FlowInit, CommitInv, Committed, CommittedRecord
<1>7. ProgressInv
  BY <1>2 DEF ProgressInv, Caller
<1> QED
  BY <1>1, <1>3, <1>4, <1>5, <1>6, <1>7 DEF IInv

-----------------------------------------------------------------------------
(* The records, the executions and the calls keep their types, and with them *)
(* the whole invariant.                                                      *)
THEOREM Invariance == FlowSpec => []IInv
<1>1. IInv /\ [FlowNext]_fvars => IInv'
  BY FlowStep
<1> QED
  BY <1>1, FlowStart, PTL DEF FlowSpec

(* A stored result stays reusable: its execution is in the repository, is    *)
(* stored as succeeded and did return an output, whatever other flows roll   *)
(* back and direct callers do to the execution repository.                   *)
THEOREM ResultsStayReusable == FlowSpec => []ReusableResult
<1>1. IInv => ReusableResult
  <2> SUFFICES ASSUME IInv, NEW k \in Key, idem[k].status = "succeeded"
               PROVE  executions[idem[k].result] = "succeeded"
                      /\ ended[idem[k].result] = "output"
    BY DEF ReusableResult
  <2>1. idem[k] = Committed[k]
    <3>1. CASE tx.holder = NoCaller
      BY <3>1 DEF Committed
    <3>2. CASE tx.holder # NoCaller
      <4>1. PICK c \in FlowCaller : c = tx.holder /\ c \in Caller
        BY <3>2 DEF IInv, FlowTypeOK, Caller
      <4>2. callers[c].step \in Step /\ callers[c].step \notin {"idle", "wait"}
        BY <4>1 DEF IInv, FlowTypeOK, LockInv, CallRecord
      <4>3. idem[k] = tx.idem[k]
        BY <4>1, <4>2 DEF IInv, ProgressInv, Working, Step
      <4> QED
        BY <3>2, <4>3 DEF Committed
    <3> QED
      BY <3>1, <3>2
  <2>2. CommittedRecord(idem[k])
    BY <2>1 DEF IInv, CommitInv
  <2> QED
    BY <2>2, FlowTypes DEF CommittedRecord
<1> QED
  BY <1>1, Invariance, PTL

(* Once the lock is free no key is in progress and no execution of a flow is *)
(* open, however the runner or a repository raised.                          *)
THEOREM EverythingIsClosed == FlowSpec => []NothingLeftOpen
<1>1. IInv => NothingLeftOpen
  <2> SUFFICES ASSUME IInv, tx.holder = NoCaller
               PROVE  /\ \A k \in Key : idem[k].status # "in_progress"
                      /\ \A e \in ExecId : owner[e] \in FlowCaller =>
                            executions[e] \in Terminal \cup {"absent"}
    BY DEF NothingLeftOpen
  <2>1. \A k \in Key : CommittedRecord(idem[k])
    BY DEF IInv, CommitInv, Committed
  <2>2. \A e \in ExecId : ~Open(e)
    BY DEF Open
  <2> QED
    BY <2>1, <2>2, FlowTypes, FlowAssumption DEF CommittedRecord, IInv, ExecInv
<1> QED
  BY <1>1, Invariance, PTL

(* Only MarkRunning takes a flow to the runner.                              *)
LEMMA OnlyStartRuns ==
    ASSUME IInv, [FlowNext]_fvars, NEW c \in FlowCaller,
           callers'[c].step = "run", callers[c].step # "run"
    PROVE  callers[c].step = "start"
<1>0. /\ c \in Caller /\ callers \in [Caller -> CallRecord] /\ c \notin DirectCaller
      /\ \A d \in Caller : callers[d] \in CallRecord
  BY FlowAssumption DEF Caller, IInv, FlowTypeOK
<1>1. ASSUME NEW d \in Caller, NEW s \in Step \ {"run"}, Goto(d, s)
      PROVE  FALSE
  <2>1. callers'[c] \in {callers[c], [callers[c] EXCEPT !.step = s]}
    BY <1>0, <1>1 DEF Goto
  <2> QED
    BY <1>0, <2>1 DEF CallRecord
<1>2. ASSUME NEW d \in Caller, Return(d)
      PROVE  FALSE
  BY <1>0, <1>2, FlowTypes DEF Return
<1>3. ASSUME NEW d \in Caller, Raise(d)
      PROVE  FALSE
  <2>1. callers'[c] \in {callers[c], [callers[c] EXCEPT !.step = "rollback"], NoCall}
    BY <1>0, <1>3 DEF Raise
  <2> QED
    BY <1>0, <2>1, FlowTypes DEF CallRecord
<1>4. ASSUME NEW d \in Caller, NEW s \in {"wait", "execute"}, NEW k, NEW pl,
             Arrive(d, s, k, pl)
      PROVE  FALSE
  BY <1>0, <1>4 DEF Arrive
<1>5. ASSUME NEW d \in Caller, Find(d)
      PROVE  FALSE
  <2>1. PICK s \in {"create", "reuse", "restart"} :
            callers' = [callers EXCEPT ![d].step = s, ![d].seen = idem[callers[d].key]]
    BY <1>3, <1>5 DEF Find
  <2>2. CASE c = d
    BY <1>0, <2>1, <2>2 DEF CallRecord
  <2>3. CASE c # d
    BY <1>0, <2>1, <2>3
  <2> QED
    BY <2>2, <2>3
<1>6. ASSUME NEW d \in Caller, MarkRunning(d)
      PROVE  callers[c].step = "start"
  <2>1. Goto(d, "run") /\ callers[d].step = "start"
    BY <1>3, <1>6 DEF MarkRunning, Mark
  <2>2. d = c
    BY <1>0, <2>1 DEF Goto
  <2> QED
    BY <2>1, <2>2
<1>7. {"snapshot", "find", "restore", "execute", "start", "succeeded", "failed", "succeed",
       "fail"} \subseteq Step \ {"run"}
  BY DEF Step
<1>8. ASSUME NEW d \in Caller, CallStep(d)
      PROVE  callers[c].step = "start"
  <2>1. CASE SnapshotExecutions(d) \/ RestoreExecutions(d) \/ RestoreIdempotency(d)
    BY <1>1, <1>2, <1>7, <2>1 DEF SnapshotExecutions, RestoreExecutions, RestoreIdempotency
  <2>2. CASE CreateRecord(d) \/ Restart(d) \/ Reuse(d) \/ CreateExecution(d)
    BY <1>1, <1>2, <1>3, <1>7, <2>2 DEF CreateRecord, Restart, Reuse, CreateExecution
  <2>3. CASE Run(d) \/ MarkSucceeded(d) \/ MarkFailed(d)
    BY <1>1, <1>2, <1>3, <1>7, <2>3 DEF Run, Runs, MarkSucceeded, MarkFailed, Mark
  <2>4. CASE RecordSuccess(d) \/ RecordFailure(d)
    BY <1>2, <1>3, <2>4 DEF RecordSuccess, RecordFailure, StoreOutcome
  <2> QED
    BY <1>5, <1>6, <1>8, <2>1, <2>2, <2>3, <2>4 DEF CallStep
<1>9. ASSUME NEW d \in Caller, CallFlow(d) \/ CallDirectly(d) \/ BeginTransaction(d)
      PROVE  FALSE
  BY <1>1, <1>4, <1>7, <1>9 DEF CallFlow, CallDirectly, BeginTransaction
<1> QED
  BY <1>8, <1>9 DEF FlowNext, fvars

(* A key that succeeded never reaches the runner again: the flow that is     *)
(* about to run found its key free or failed when it took the lock.          *)
THEOREM SucceededNeverReruns == FlowSpec => NoRerun
<1>1. ASSUME IInv, [FlowNext]_fvars, NEW c \in FlowCaller,
             callers'[c].step = "run", callers[c].step # "run"
      PROVE  Committed[callers[c].key].status # "succeeded"
  <2>1. callers[c].step = "start"
    BY <1>1, OnlyStartRuns
  <2>2. tx.holder = c /\ c # NoCaller
    BY <1>1, <2>1, FlowAssumption DEF IInv, LockInv, Caller
  <2>3. tx.idem[callers[c].key] = NoRecord
            \/ MayRestart(tx.idem[callers[c].key], callers[c].payload)
    BY <1>1, <2>1 DEF IInv, ProgressInv, Working
  <2> QED
    BY <2>2, <2>3, FlowTypes DEF Committed, MayRestart
<1>2. IInv /\ [FlowNext]_fvars =>
          [\A c \in FlowCaller : (callers'[c].step = "run" /\ callers[c].step # "run")
              => Committed[callers[c].key].status # "succeeded"]_fvars
  BY <1>1
<1> QED
  BY <1>2, Invariance, PTL DEF FlowSpec, NoRerun

(* The flow implements the idempotent operation: beginning, running, marking *)
(* and recording a research, with every exception and rollback in between,   *)
(* appear as one atomic failure or success of the key, for one payload, and  *)
(* never again after a success.                                              *)
THEOREM FlowImplementsOperation == FlowSpec => ImplementsOperation
<1>1. FlowInit => Operation!Init
  <2> SUFFICES ASSUME FlowInit
               PROVE  Outcome = [k \in Key |-> Operation!NoOutcome]
    BY DEF Operation!Init, Outcome
  <2>1. \A k \in Key : Committed[k] = NoRecord
    BY FlowTypes DEF FlowInit, Committed
  <2> QED
    BY <2>1, FlowTypes DEF Outcome, Operation!NoOutcome
<1>2. IInv /\ [FlowNext]_fvars => Operation!Next \/ UNCHANGED Outcome
  BY FlowStep DEF Outcome
<1> QED
  BY <1>1, <1>2, Invariance, PTL DEF FlowSpec, ImplementsOperation, Operation!Spec, Outcome
=============================================================================
