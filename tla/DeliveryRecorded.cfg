SPECIFICATION Spec
CONSTANTS
    n1 = n1
    n2 = n2
    Notifications = {n1}
    MaxRetries = 3
    DBFails = FALSE
    MaxCopies = 1
    MaxLen = 2
    MaxDisruptions = 0
INVARIANT
    AcceptedIsRecorded
