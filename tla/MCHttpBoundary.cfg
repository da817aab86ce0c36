CONSTANTS
    s1 = s1
    s2 = s2
    s3 = s3
    s4 = s4
    primary = primary
    mine = mine
    other = other
    Submissions = {s1, s2, s3, s4}
    Tokens = {primary, mine, other}
    Primary = primary
    ClientTokens <- MCClientTokens
    Bypass = TRUE
    HeaderOf <- MCHeaderOf
    Shared = "shared"
    Buckets <- MCBuckets
    Limit = 1
    Window = 2
    MaxGlobal = 1
    MaxPerClient = 2
    ReadTimeout = 2
    MaxBytes = 3
    SpecBytes = 1
    ArchiveBytes = 2
    ChunkSizes = {0, 2}
    MaxClock = 5
SPECIFICATION FairSpec
INVARIANTS
    ChargedAsServed
    WindowNeverExceeded
    SpoolBounded
PROPERTIES
    LimitedOnlyByOwnTraffic
    
    SlotComesBack
CHECK_DEADLOCK FALSE
