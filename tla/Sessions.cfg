SPECIFICATION Spec
CONSTANTS
    None = None
    Session = {o1, o2}
    o1 = o1
    o2 = o2
    Sid = {"s1"}
    Reader = {"r1", "r2"}
    Call = {"handler","batch","other"}
    ReaderOf <- MCReaderOf
    KindOf <- MCKindOf
    WantOf <- MCWantOf
    BatchSize = 1
    MaxCalls = 1
    MaxMessages = 1
    MaxLosses = 1
INVARIANTS
    RenewalStops
    CacheIsHolder
PROPERTIES
    BatchReturns
\* Everything may be closed, with no call under way.
CHECK_DEADLOCK FALSE
