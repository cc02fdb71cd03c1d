SPECIFICATION FairSpec
CONSTANTS
    Workers = {w1, w2}
    Rows = {r1, r2}
    Full = {r1}
    LookupRows = 3
    MaxRetries = 1
    MaxExports = 3
INVARIANTS
    TypeOK
    ReportedInSheet
    CopiesBounded
    RowsPerExport
PROPERTY ExportsReturn
