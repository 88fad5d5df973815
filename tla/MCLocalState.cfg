SPECIFICATION LocalSpec
CONSTANTS
    v1 = v1
    v2 = v2
    Commands = {c1, c2}
    DataFiles <- MCDataFiles
    Values = {v1, v2}
    None = None
    Default = v1
    Absent = Absent
    Torn = Torn
    MaxSeconds = 1
    MaxWrites = 1
    MaxCrashes = 1
    MaxCommands = 2
    Runs = {r1, r2}
    Missing = Missing
    Broken = Broken
    Cut = Cut
    LastSecond = 1
    MaxDeaths = 1
    Clients = {client1}
    Tokens = {k1}
    UserNames = {ann, bob}
    Tenants = {ta, tb}
    Nobody = Nobody
    Ttl = 1
    LastInstant = 2
    MaxUsers = 2
    MaxRows = 2
    MaxMethodCalls = 2
    Artifacts <- MCArtifacts
    Excluded = {"keys/PUBKEY.pem"}
    Keys = {key1, key2}
    NoKey = NoKey
    NoFile = NoFile
    MaxChanges = 1
    MaxCalls = 3
    Processes = {p1, p2, p3}
    Shas = {s1}
    MaxMishaps = 1
    MaxCreated = 2
SYMMETRY Twins
CHECK_DEADLOCK FALSE
INVARIANTS
    BackupIsWhole
    RemovalIsCovered
    RestoreIsFaithful
    ImportKeepsOtherKeys
    OriginalRecoverable
    DeadTokensStayDead
    AnswersScoped
    HandlesReleased
    VerdictIsExact
    NoStumps
    DeletedOnce
