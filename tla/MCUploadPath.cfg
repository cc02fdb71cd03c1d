SPECIFICATION FairSpec
CONSTANTS
    Uploads = {u1, u2}
    Others = {o1}
    Files <- Recordings
    Allowed <- AllowedFormats
    KnownTabs = {t1}
    Tabs = {t1, t2}
    NoTab = NoTab
    ReadTimeout = 1
    WriteTimeout = 3
    ConvertTimeout = 2
    FetchTime = 1
INVARIANTS
    TypeOK
    AnsweredInTime
PROPERTY UploadsEnd
