SPECIFICATION Spec
CONSTANTS
    Receiver = {"r1", "r2"}
    None = None
    MaxAttempts = 2
    MaxLosses = 2
    MaxErrors = 1
INVARIANTS
    
    ResolvedAfterAttach
    LossIsHandled
PROPERTIES
    AloneSettles
    ClosedStaysClosed
    
\* Every route has settled and no error is left to raise.
CHECK_DEADLOCK FALSE
