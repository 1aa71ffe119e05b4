CONSTANTS
    x1 = x1
    x2 = x2
    Job = {1}
    Worker = {w1}
    NoWorker = none
    MaximumAttempts = 2
    Priorities = {1}
    Delays = {0}
    LeaseDurations = {1}
    ReportTargets = {"succeeded"}
    BatchLimit = 1
    MaxDelay = 0
    MaxClock = 1
    MaxVersion = 3
    Canceller = {x1, x2}
    NoCanceller = nocanceller
    RequestId = {1, 2}
    Boundaries = {TRUE}
    Interruptible = FALSE
SPECIFICATION CSpec
SYMMETRY CancellerSymmetry
INVARIANTS RequestTakesEffect
CHECK_DEADLOCK FALSE
