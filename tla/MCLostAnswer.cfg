SPECIFICATION Spec
CONSTANTS
    Uploads = {u1}
    Others = {o1}
    Files <- Recordings
    Allowed <- AllowedFormats
    KnownTabs = {t1}
    Tabs = {t1, t2}
    NoTab = NoTab
    ReadTimeout = 1
    WriteTimeout = 3
    ConvertTimeout = 12
    FetchTime = 3
INVARIANT AcceptedHeard
