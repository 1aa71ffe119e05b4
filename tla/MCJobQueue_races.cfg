CONSTANTS
    w1 = w1
    w2 = w2
    Job = {1}
    Worker = {w1, w2}
    NoWorker = none
    MaximumAttempts = 2
    Priorities = {1}
    Delays = {0, 1}
    LeaseDurations = {1, 2}
    ReportTargets = {"succeeded", "failed", "retry_scheduled"}
    BatchLimit = 2
    MaxDelay = 1
    MaxClock = 2
    MaxVersion = 7
SPECIFICATION Spec
SYMMETRY WorkerSymmetry
INVARIANTS IInv SnapshotFence SingleRunner StoredRecordsSound
PROPERTIES ImplementsLifecycle LeaseTakenByOldCallOnly
CHECK_DEADLOCK FALSE
