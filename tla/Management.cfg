SPECIFICATION Spec
CONSTANTS
    Client = {"q1", "q2"}
    Owner = "q1"
    Request <- MCRequest
    Last = 3
    MaxOps = 2
    MaxFaults = 1
INVARIANTS
    OneManagementLink
    
    DeferredIsKnown
PROPERTIES
    RequestsEnd
CHECK_DEADLOCK FALSE
