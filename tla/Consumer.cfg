SPECIFICATION FairSpec
CONSTANTS
    p1 = p1
    p2 = p2
    good = good
    bad = bad
    Partitions = {p1}
    Messages = {good, bad}
    Malformed = {bad}
    HasProducer = TRUE
    MaxRetries = 3
    MaxLen = 3
    MaxDisruptions = 2
INVARIANTS
    TypeOK
    CommitCovers
PROPERTIES
    HonoursContract
    EveryMessageDecided
    ShutdownStops
