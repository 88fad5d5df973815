SPECIFICATION Spec
CONSTANTS
    Processes = {p1}
    Shas = {s1}
    MaxMishaps = 1
    MaxCreated = 2
CHECK_DEADLOCK FALSE
PROPERTY
    PutMeansStored
