------------------------ MODULE IdempotentOperation ------------------------
(* What an idempotency key promises its callers: the operation behind a key  *)
(* takes effect as one atomic step, for one payload, and once it succeeded   *)
(* it never takes effect again.                                              *)
EXTENDS Naturals

CONSTANTS Key,        \* idempotency keys
          Payload,    \* request payloads
          NoPayload,
          Result      \* what an execution of the operation yields

VARIABLE outcome      \* the outcome each key is known by

NoOutcome == [status |-> "none", payload |-> NoPayload, result |-> 0]

Open(k, p) ==
    \/ outcome[k] = NoOutcome
    \/ outcome[k].status = "failed" /\ outcome[k].payload = p

Fail(k, p) ==
    /\ Open(k, p)
    /\ outcome' = [outcome EXCEPT ![k] =
           [status |-> "failed", payload |-> p, result |-> 0]]

Succeed(k, p, r) ==
    /\ Open(k, p)
    /\ \A l \in Key : outcome[l].result # r
    /\ outcome' = [outcome EXCEPT ![k] =
           [status |-> "succeeded", payload |-> p, result |-> r]]

Init == outcome = [k \in Key |-> NoOutcome]

Next ==
    \E k \in Key, p \in Payload :
        Fail(k, p) \/ \E r \in Result : Succeed(k, p, r)

Spec == Init /\ [][Next]_outcome
=============================================================================
