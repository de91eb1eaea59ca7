SPECIFICATION FairSpec
CONSTANTS
    r1 = r1
    r2 = r2
    r3 = r3
    r4 = r4
    k1 = k1
    acme = acme
    zeta = zeta
    NoKey = NoKey
    NoRequest = NoRequest
    MaxLookups = 3
    Requests = {r1, r2, r3, r4}
    Kind <- BatchSendSchedule
    Call <- OneBatch
    Tenant <- Acme
    Key <- BatchKeys
    Deployments = {{}, {"redis", "kafka"}}
    MaxConcurrent = 1
    MaxFaults = 1
    MaxExpiries = 1
INVARIANT TypeOK
INVARIANT AnswersArePersisted
INVARIANT OneNotificationPerKey
 
INVARIANT ReservationIsReleased
PROPERTY EveryRequestAnswered
CHECK_DEADLOCK FALSE
