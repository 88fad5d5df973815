SPECIFICATION ResearchSpec
CONSTANTS
    Clients = {c1}
    Pages = {page1}
    NoPage = nopage
    Engine = engine
    MaxSources = 1
    MaxResults = 1
    MaxTools = 2
CHECK_DEADLOCK FALSE
INVARIANT
    FetchedIsQueryable
