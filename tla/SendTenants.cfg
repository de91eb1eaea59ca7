SPECIFICATION Spec
CONSTANTS
    r1 = r1
    r2 = r2
    r3 = r3
    r4 = r4
    k1 = k1
    acme = acme
    zeta = zeta
    NoKey = NoKey
    NoRequest = NoRequest
    MaxLookups = 3
    Requests = {r1, r2}
    Kind <- Sends
    Call <- Itself
    Tenant <- TwoTenants
    Key <- SameKey
    Deployments = {{"redis", "kafka"}}
    MaxConcurrent = 16
    MaxFaults = 0
    MaxExpiries = 0
INVARIANT TenantsAreSeparate
CHECK_DEADLOCK FALSE
