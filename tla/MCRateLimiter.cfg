SPECIFICATION FairSpec
CONSTANTS
    IPs = {a, b}
    Rate = 2
    Cost = 3
    Burst = 2
    MaxAge = 3
    MaxWindow = 4
INVARIANTS
    TypeOK
    WindowBound
PROPERTIES
    ImplementsTokenBucket
    NoStarvation
