SPECIFICATION Spec
CONSTANTS
    Jobs = {j1, j2}
    Workers = {w1}
    NoJob = NoJob
    MaxQueueSize = 1
    WhisperTimeout = 1
    LockOverrun = 1
    JobTTL = 2
    DrainTimeout = 2
    SheetsEnabled = TRUE
PROPERTY WorkersDrainBeforeExit
