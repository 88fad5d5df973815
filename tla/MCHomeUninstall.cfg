SPECIFICATION HomeSpec
CONSTANTS
    v1 = v1
    v2 = v2
    Commands = {c1}
    DataFiles <- MCDataFiles
    Values = {v1, v2}
    None = None
    Default = v1
    Absent = Absent
    Torn = Torn
    MaxSeconds = 0
    MaxWrites = 1
    MaxCrashes = 0
    MaxCommands = 1
CHECK_DEADLOCK FALSE
INVARIANT
    AlwaysBackedUp
