SPECIFICATION FairSpec
CONSTANTS
    r1 = r1
    r2 = r2
    acme = acme
    zeta = zeta
    nova = nova
    Requests = {r1, r2}
    Tenants = {acme, zeta, nova}
    Founded = {acme, zeta}
    Channels = {"email", "sms"}
    Home = "email"
    NoRow = NoRow
    NoTemplate = NoTemplate
    MaxFaults = 1
INVARIANTS TypeOK NoOrphans EveryTenantHasKey TemplatesAreSound
PROPERTIES  EveryRequestAnswered
CHECK_DEADLOCK FALSE
