SPECIFICATION Spec
CONSTANTS
    c1 = c1
    c2 = c2
    m1 = m1
    m2 = m2
    Conns = {c1, c2}
    Messages = {m1, m2}
    NoConn = NoConn
    NoMessage = NoMessage
    Deployments = {TRUE, FALSE}
    BufferSize = 1
    MaxRetries = 3
    MaxFaults = 1
SYMMETRY HubSymmetry
INVARIANT TypeOK
INVARIANT HubHoldsLatest
INVARIANT EntryIsOpen
 
INVARIANT SupersededIsTold
INVARIANT NoGhostPresence
CHECK_DEADLOCK FALSE
