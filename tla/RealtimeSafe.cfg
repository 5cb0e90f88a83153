SPECIFICATION RealtimeSpec
CONSTANTS
    s1 = s1
    s2 = s2
    i1 = i1
    i2 = i2
    u1 = u1
    u2 = u2
    c1 = c1
    c2 = c2
    Sockets = {s1, s2}
    Instances = {i1, i2}
    CallSockets = {c1, c2}
    Users = {u1, u2}
    Owner = u2
    None = None
    Nobody = Nobody
    UserOf <- MCUserOf
    Home <- MCHome
    Ttl = 2
    CallTtl = 1
    MaxLag = 1
    MaxFaults = 1
    AtOnce = 3
    CallsAtOnce = 2
INVARIANT RealtimeTypeOK
INVARIANT LiveSocketKept
INVARIANT GoneIsUnlisted
INVARIANT GoneIsOffline
 
 
INVARIANT LeftIsHidden
 
CHECK_DEADLOCK FALSE
