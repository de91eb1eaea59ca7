SPECIFICATION Spec
CONSTANTS
    p1 = p1
    p2 = p2
    good = good
    bad = bad
    Partitions = {p1}
    Messages = {good}
    Malformed = {}
    HasProducer = TRUE
    MaxRetries = 3
    MaxLen = 2
    MaxDisruptions = 0
INVARIANT
    CommittedIsRecorded
