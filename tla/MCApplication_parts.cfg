CONSTANTS
    Job = {1, 2}
    Worker = {w1, w2}
    NoWorker = none
    MaximumAttempts = 2
    Priorities = {1}
    Delays = {1}
    LeaseDurations = {1}
    ReportTargets = {}
    BatchLimit = 2
    MaxDelay = 0
    MaxClock = 2
    MaxVersion = 3
    FlowCaller = {f1, f2}
    DirectCaller = {d1}
    NoCaller = nocaller
    Key = {k1}
    Payload = {p1, p2}
    NoKey = nokey
    NoPayload = nopayload
    MaxCalls = 3
SPECIFICATION MCSpec
INVARIANTS ReusableResult NothingLeftOpen
PROPERTIES ExpiredLeaseRecovered DueJobQueued ImplementsOperation NoRerun FlowReturns
CHECK_DEADLOCK FALSE
