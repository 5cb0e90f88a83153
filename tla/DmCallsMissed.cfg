SPECIFICATION Spec
CONSTANTS
    u1 = u1
    u2 = u2
    h1 = h1
    i1 = i1
    Users = {u1,u2}
    Handlers = {h1}
    Instances = {i1}
    NoRing = NoRing
    NoUser = NoUser
    MaxRings = 1
    CountTo = 2
    MaxCrashes = 0
INVARIANT RingMissedOnce
CHECK_DEADLOCK FALSE
