SPECIFICATION NoCrashSpec
CONSTANTS
    w = w
    d1 = d1
    d2 = d2
    h1 = h1
    h2 = h2
    t = t
    a = a
    None = None
    Workers = {w}
    Dispatchers = {d1}
    Handlers = {h1, h2}
    Raising = {h1, h2}
    Nameless = {}
    Topics = {t}
    Tenants = {a}
    MaxJobs = 2
    Poll <- MCPoll
CHECK_DEADLOCK FALSE
PROPERTIES
    WorkerCanReplay
