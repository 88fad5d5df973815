SPECIFICATION Spec
CONSTANTS
    t1 = t1
    t2 = t2
    s1 = s1
    s2 = s2
    wr = wr
    none = none
    Threads = {t1, t2}
    Registry <- MCRegistry
    Capabilities = {"search"}
    Asked = {s1, none}
    Granted = {}
    Threshold = 2
    CoolOff = 1
    MaxTime = 2
    MaxCalls = 2
    Metering = TRUE
    MeterMayFail = TRUE
SYMMETRY Symmetry
CHECK_DEADLOCK FALSE
INVARIANTS
    ConsentHolds
    OpenIsAccounted
    HammeringBounded
    FallbackExhaustive
