SPECIFICATION FairSpec
CONSTANTS
    u1 = u1
    u2 = u2
    h1 = h1
    h2 = h2
    i1 = i1
    Users = {u1,u2}
    Handlers = {h1,h2}
    Instances = {i1}
    NoRing = NoRing
    NoUser = NoUser
    MaxRings = 2
    CountTo = 0
    MaxCrashes = 1
INVARIANT NoLeakedRing
PROPERTY RingEnds
CHECK_DEADLOCK FALSE
