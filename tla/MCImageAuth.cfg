CONSTANTS
    Threads = {relay, t2}
    Relay = relay
    Images = {red, blue}
    Ids = {id1, id2}
    NoImage = none
    BucketSize = 2
    CacheTtl = 2
    MissBackoff = 1
    CacheSize = 2
    EvictedPart = 2
    MaxTime = 2

SYMMETRY Symmetry

SPECIFICATION Spec

INVARIANTS
    TypeOK
    CacheIsCurrent
    FetchedIsRecent

PROPERTIES
    AcceptedKeyIsGenuine
    GenuineKeyIsAccepted
    FallbackOnlyAfterMiss
