SPECIFICATION PollSpec
CONSTANTS
    Jobs = {j1, j2}
    Workers = {w1, w2}
    NoJob = NoJob
    MaxQueueSize = 1
    WhisperTimeout = 1
    LockOverrun = 1
    JobTTL = 2
    DrainTimeout = 1
    SheetsEnabled = TRUE
    Pollers = {p1}
INVARIANT FailedExtractionCarriesError
