SPECIFICATION Spec
CONSTANTS
    Callers = {p1}
    Nobody = Nobody
    Tabs = {t1, t2}
    NoTab = NoTab
    TabsTTL = 1
    CatsTTL = 2
    TokenLife = 4
    Margin = 3
    CallTime = 1
    MaxRanges = 1
INVARIANT CategoriesOfTab
