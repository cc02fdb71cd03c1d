SPECIFICATION FairSpec
CONSTANTS
    Callers = {p1, p2}
    Nobody = Nobody
    Tabs = {t1}
    NoTab = NoTab
    TabsTTL = 1
    CatsTTL = 2
    TokenLife = 4
    Margin = 2
    CallTime = 1
    MaxRanges = 2
INVARIANTS
    TypeOK
    AnswersCurrent
    FetchOnlyWhenStale
    TokensValid
    HoldersProceed
PROPERTIES
    CallsReturn
    HoldsRunOut
