SPECIFICATION Spec
CONSTANTS
    c1 = c1
    c2 = c2
    m1 = m1
    m2 = m2
    Conns = {c1, c2}
    Messages = {m1}
    NoConn = NoConn
    NoMessage = NoMessage
    Deployments = {TRUE}
    BufferSize = 1
    MaxRetries = 3
    MaxFaults = 0
SYMMETRY HubSymmetry
INVARIANT SendToUserReturns
CHECK_DEADLOCK FALSE
