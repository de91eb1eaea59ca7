SPECIFICATION FairSpec
CONSTANTS
    n1 = n1
    n2 = n2
    Notifications = {n1, n2}
    Stuck = {n1}
    Deployments = {{"redis", "kafka"}, {"redis"}, {"kafka"}}
    Delays = {1, 2}
    Retention = 1
    BatchSize = 2
    MaxConcurrent = 1
    MaxClock = 2
    MaxFaults = 2
INVARIANTS
    TypeOK
    NothingForgotten
    
    
    
PROPERTIES
    DoneIsDone
    OthersProgress
    ShutdownEnds
