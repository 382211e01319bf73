SPECIFICATION Spec
CONSTANTS
    None = None
    m1 = m1
    m2 = m2
    m3 = m3
    a1 = a1
    a2 = a2
    s1 = s1
    s2 = s2
    Msg = {m1, m2}
    MSender = {s1, s2}
    Api = {a1}
    ApiOf <- MCApiOf
    MaxAttempts = 2
    MaxFaults = 1
INVARIANTS
    OneLink
    OpenIsWatched
PROPERTIES
    SendsSettle
CHECK_DEADLOCK FALSE
