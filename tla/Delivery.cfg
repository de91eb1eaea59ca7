SPECIFICATION FairSpec
CONSTANTS
    n1 = n1
    n2 = n2
    Notifications = {n1}
    MaxRetries = 3
    DBFails = TRUE
    MaxCopies = 1
    MaxLen = 2
    MaxDisruptions = 1
PROPERTY PublishedIsSettled
INVARIANTS
    TypeOK
    StatusIsEarned
    NothingVanishes
    AttemptsCountOutcomes
