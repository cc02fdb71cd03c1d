SPECIFICATION Spec
CONSTANTS
    Jobs = {j1, j2, j3}
    Workers = {w1, w2}
    NoJob = NoJob
    MaxQueueSize = 1
    WhisperTimeout = 2
    LockOverrun = 1
    JobTTL = 3
    DrainTimeout = 2
    SheetsEnabled = TRUE
SYMMETRY Symmetry
INVARIANTS
    TypeOK
    OneOwner
    RetainedWhileOwned
    SettledOutcome
    CleanDrain
PROPERTY ImplementsLifecycle
