SPECIFICATION Spec
CONSTANTS
    c1 = c1
    c2 = c2
    c3 = c3
    email = email
    sms = sms
    Calls = {c1, c2, c3}
    Channel <- MCChannel
    Channels = {email, sms}
    Caps = {1, 2}
    Window = 2
    MaxDelay = 1
    MaxClock = 3
    MaxUpdates = 1
SYMMETRY CallSymmetry
CHECK_DEADLOCK FALSE
INVARIANTS
    TypeOK
    WindowBound
    SlotHeld
    
