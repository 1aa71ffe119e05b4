CONSTANTS
    s1 = s1
    s2 = s2
    Job = {1, 2, 3}
    Worker = {w1}
    NoWorker = none
    MaximumAttempts = 3
    Priorities = {1}
    Delays = {0}
    LeaseDurations = {1}
    ReportTargets = {"failed"}
    BatchLimit = 1
    MaxDelay = 0
    MaxClock = 1
    MaxVersion = 3
    PolicyMaximumAttempts = 2
    BaseDelay = 1
    DelayMultiplier = 2
    MaximumDelay = 2
    BackoffStrategy = "exponential"
    JitterStrategy = "equal"
    RetryAfters = {0, 3}
    RetryAfterMaximum = nomax
    NoRetryAfterMaximum = nomax
    Scheduler = {s1, s2}
SPECIFICATION RSpec
SYMMETRY SchedulerSymmetry
INVARIANTS OneRetryPerFailure
CHECK_DEADLOCK FALSE
