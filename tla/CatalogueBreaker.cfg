SPECIFICATION CatalogueSpec
CONSTANTS
    BreakAfter = 3
    MaxRequests = 3
CHECK_DEADLOCK FALSE
INVARIANT
    OnlyFailingBackendsSkipped
