SPECIFICATION Spec
CONSTANTS
    u1 = u1
    u2 = u2
    u3 = u3
    h1 = h1
    h2 = h2
    i1 = i1
    i2 = i2
    Users = {u1,u2,u3}
    Handlers = {h1,h2}
    Instances = {i1,i2}
    NoRing = NoRing
    NoUser = NoUser
    MaxRings = 2
    CountTo = 0
    MaxCrashes = 0
SYMMETRY MCSymmetry
INVARIANT TypeOK
INVARIANT MissesAreClaimed
INVARIANT DeclinerOffRing
PROPERTY NoReturn
CHECK_DEADLOCK FALSE
