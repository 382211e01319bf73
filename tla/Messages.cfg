SPECIFICATION Spec
CONSTANTS
    Absent = Absent
    Long = Long
    Forever = Forever
    Later = Later
    None = None
    Copy <- MCCopy
    Post <- MCPost
    Op = {"complete"}
    MaxCalls = 2
    MaxRenewals = 2
    MaxFaults = 1
INVARIANTS CreditIsWhole RenewalStops ResolvedIsSettled RetriesSayTheSame
\* All messages were handled, and the receiver is closed.
CHECK_DEADLOCK FALSE
