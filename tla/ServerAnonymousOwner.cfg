SPECIFICATION Spec
CONSTANTS
    u1 = u1
    u2 = u2
    h1 = h1
    i1 = i1
    Users = {u1,u2}
    Moderators = {u1}
    Handlers = {h1}
    Instances = {i1}
    NoUser = NoUser
    MaxUses = 2
    MaxRows = 3
INVARIANT NoAnonymousOwner
CHECK_DEADLOCK FALSE
