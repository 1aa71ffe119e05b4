CONSTANTS
    w1 = w1
    w2 = w2
    Job = {1}
    Worker = {w1, w2}
    NoWorker = none
    MaximumAttempts = 2
    Priorities = {1}
    Delays = {0}
    LeaseDurations = {1}
    ReportTargets = {"succeeded"}
    BatchLimit = 2
    MaxDelay = 0
    MaxClock = 1
    MaxVersion = 4
SPECIFICATION FairSpec
PROPERTIES CrashedJobRecovered
CHECK_DEADLOCK FALSE
