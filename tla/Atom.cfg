SPECIFICATION AtomSpec
CONSTANTS
    Ask <- MCAsk
    Stores <- MCStores
    MaxCalls = 2
    MaxFaults = 1
INVARIANTS
    VerdictIsHonest
    KindIsRight
    
PROPERTIES
    UpdateIsExact
\* All calls are made.
CHECK_DEADLOCK FALSE
