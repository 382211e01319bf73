SPECIFICATION BatchSpec
CONSTANTS
    Calls = 2
    Msgs = 3
    Max = 2
    MaxFaults = 2
INVARIANTS
    BatchesApart
PROPERTIES
    BatchReturns
CHECK_DEADLOCK FALSE
