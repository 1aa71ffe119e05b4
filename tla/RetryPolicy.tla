----------------------------- MODULE RetryPolicy -----------------------------
(* RetryPolicyEvaluator (app/guardrails/retry_policy_evaluator.py): whether  *)
(* a failed attempt is retried, and after which delay.  Delays are whole     *)
(* time units; a jitter fraction between 0 and 1 is any point of its range.  *)
EXTENDS Integers, Loops

CONSTANTS PolicyMaximumAttempts,   \* policy.maximum_attempts
          BaseDelay,               \* base_delay_seconds
          DelayMultiplier,         \* multiplier
          MaximumDelay,            \* maximum_delay_seconds
          BackoffStrategy,         \* "fixed", "linear" or "exponential"
          JitterStrategy,          \* "none", "full" or "equal"
          RetryAfters,             \* Retry-After values a failure may carry;
                                   \* {} for respect_retry_after = False
          RetryAfterMaximum,       \* retry_after_max_seconds
          NoRetryAfterMaximum      \* its default, None: Retry-After is not capped

ASSUME PolicyAssumption ==
    /\ PolicyMaximumAttempts \in Nat \ {0}
    /\ BaseDelay \in Nat
    /\ DelayMultiplier \in Nat \ {0}
    /\ MaximumDelay \in Nat /\ BaseDelay <= MaximumDelay
    /\ BackoffStrategy \in {"fixed", "linear", "exponential"}
    /\ JitterStrategy \in {"none", "full", "equal"}
    /\ RetryAfters \subseteq Nat
    /\ NoRetryAfterMaximum \notin Nat
    /\ RetryAfterMaximum \in Nat \cup {NoRetryAfterMaximum}

NoRetryAfter == -1

(* RetryFailureContext.  listed: its category and error code pass the        *)
(* policy's allow and deny lists.                                            *)
FailureContext == [retryable : BOOLEAN, listed : BOOLEAN,
                   retry_after : RetryAfters \cup {NoRetryAfter}]

Smaller(a, b) == IF a <= b THEN a ELSE b

\* Mutant: an attempt more than the policy's maximum.
StopsRetryLate(f, attempt) ==
    ~f.retryable \/ attempt > PolicyMaximumAttempts \/ ~f.listed

(* _stop_reason is not NONE.                                                 *)
StopsRetry(f, attempt) ==
    ~f.retryable \/ attempt >= PolicyMaximumAttempts \/ ~f.listed

(* multiplier ** n                                                           *)
Power(n) == Loop(1, [at \in (1 .. n) \X Nat |-> at[2] * DelayMultiplier], n)

(* _base_backoff_delay.                                                      *)
BaseBackoffDelay(attempt) ==
    CASE BackoffStrategy = "fixed" -> BaseDelay
      [] BackoffStrategy = "linear" -> BaseDelay * attempt
      [] OTHER -> BaseDelay * Power(attempt - 1)

(* _apply_jitter: every value the configured jitter may give.                *)
Jittered(delay) ==
    CASE JitterStrategy = "none" -> {delay}
      [] JitterStrategy = "full" -> 0..delay
      [] OTHER -> {d \in 0..delay : 2 * d >= delay}

(* Retry-After is cut to a maximum of its own, if the policy sets one.       *)
CappedRetryAfter(seconds) ==
    IF RetryAfterMaximum = NoRetryAfterMaximum
    THEN seconds
    ELSE Smaller(seconds, RetryAfterMaximum)

(* _delay: Retry-After wins over the backoff.                                *)
RetryDelays(f, attempt) ==
    IF f.retry_after # NoRetryAfter
    THEN {CappedRetryAfter(f.retry_after)}
    ELSE Jittered(Smaller(BaseBackoffDelay(attempt), MaximumDelay))

(* evaluate: the failures that end the chain at this attempt, and the delays *)
(* of those that do not.                                                     *)
StoppingFailures(attempt) == {f \in FailureContext : StopsRetry(f, attempt)}

AllowedDelays(attempt) ==
    UNION {RetryDelays(f, attempt) :
              f \in FailureContext \ StoppingFailures(attempt)}
=============================================================================
