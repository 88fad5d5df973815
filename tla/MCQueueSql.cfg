SPECIFICATION FairSpec
CONSTANTS
    w1 = w1
    w2 = w2
    t1 = t1
    t2 = t2
    a = a
    b = b
    None = None
    Admin = Admin
    Nobody = Nobody
    Workers = {w1, w2}
    Tenants = {a, b}
    Poll <- MCPoll
    Topics = {t1, t2}
    MaxJobs = 3
    MaxCrashes = 1
INVARIANTS
    SelectionStable
    DeliveredOnce
PROPERTIES
    ImplementsJobQueue
    OldestFirst
    TenantIsolation
    EveryJobSettles
