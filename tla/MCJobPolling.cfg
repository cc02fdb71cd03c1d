SPECIFICATION PollSpec
CONSTANTS
    Jobs = {j1, j2, j3}
    Workers = {w1}
    NoJob = NoJob
    MaxQueueSize = 1
    WhisperTimeout = 1
    LockOverrun = 0
    JobTTL = 1
    DrainTimeout = 0
    SheetsEnabled = TRUE
    Pollers = {p1}
SYMMETRY Symmetry
INVARIANTS
    PollerTypeOK
    DoneCarriesExtraction
    MissingMeansSettled
    AcceptedAudioBounded
PROPERTY AnswersNeverRegress
