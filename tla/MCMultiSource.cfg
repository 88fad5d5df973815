SPECIFICATION FanSpec
CONSTANTS
    t1 = t1
    t2 = t2
    s1 = s1
    s2 = s2
    s3 = s3
    f1 = f1
    wr = wr
    stub = stub
    Threads = {t1, t2}
    Registry <- MCRegistry
    Capabilities = {"search", "feed"}
    Asked = {}
    Granted = {}
    Threshold = 2
    CoolOff = 0
    MaxTime = 1
    MaxCalls = 5
    Metering = TRUE
    MeterMayFail = TRUE
    Wanted <- MCWanted
    MaybeFailed = {s1}
CHECK_DEADLOCK FALSE
INVARIANTS
    EverySourceAccounted
PROPERTY
    FanOutEnds
