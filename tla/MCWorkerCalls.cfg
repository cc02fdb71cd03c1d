SPECIFICATION FairCallsSpec
CONSTANTS
    Jobs = {j1, j2}
    Workers = {w1}
    NoJob = NoJob
    MaxQueueSize = 1
    WhisperTimeout = 4
    LockOverrun = 4
    JobTTL = 2
    DrainTimeout = 2
    SheetsEnabled = TRUE
    LLMTimeout = 1
    LLMRetries = 2
    SheetsTimeout = 1
    SheetsRetries = 1
    TokenWait = 1
    TabsWait = 1
    CatsWait = 1
INVARIANTS CallsTypeOK
PROPERTIES
    ImplementsQueue
    GivesUpLate
    AcceptedJobsSettle
    ShutdownCompletes
    SettledJobsExpire
    MeetsFairness
