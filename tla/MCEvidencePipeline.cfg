SPECIFICATION PipelineSpec
CONSTANTS
    Hosts = {h1}
    Addresses = {1, 2, 3}
    Public = {1, 2}
    Refused = refused
    MaxRedirects = 1
    MaxBytes = 1
    MaxWire = 3
    MaxRebinds = 2
    Languages = {"en", "en-GB", "de"}
    English = {"en", "en-GB"}
    Unset = ""
    MaxTracks = 2
    Clients = {c1, c2}
    Pages = {page1, page2}
    NoPage = nopage
    Engine = engine
    MaxSources = 2
    MaxResults = 3
    MaxTools = 1
    Writers = {w1, w2}
    Readers = {r1}
    Tenants = {default, acme}
    Default = default
    Urls = {u}
    Hashes = {hash1, hash2}
    MaxEnvelopes = 2
    MaxPackets = 2
    Admin = Admin
    Nobody = Nobody
    None = None
    Openers = {o1, o2}
    MaxCrashes = 2
    Norms = {norm}
    ContentHashes = {hash1}
    Blank = blank
    BadPort = badport
    Grams = {1, 2}
    Part = 1
    Whole = 2
    MaxRows = 3
    Sites = {site1, site2}
    Owners = {ta, tb}
    Everyone = everyone
    Terms = {term1, term2}
    Texts = {{}, {term1}, {term1, term2}}
    Labels = {{}, {term2}}
    IndexRows = 1
    ReadRows = 2
    HitLimit = 1
    TopRows = 1
    MaxSnippets = 1
    MaxCorpus = 2
CHECK_DEADLOCK FALSE
INVARIANTS
    OnlyVettedAddresses
    AttemptsBounded
    
    TranscriptHonest
    PacketAccounted
    NoOrphans
    ExportAllOrNothing
    OpenMeansMigrated
    DuplicatesRepresented
    AnswerGrounded
PROPERTY
    OpenSucceedsInTheEnd
