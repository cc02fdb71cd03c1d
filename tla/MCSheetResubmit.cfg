SPECIFICATION Spec
CONSTANTS
    Workers = {w1, w2}
    Rows = {r1}
    Full = {r1}
    LookupRows = 4
    MaxRetries = 1
    MaxExports = 2
INVARIANT NeverDuplicates
