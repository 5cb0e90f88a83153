SPECIFICATION Spec
CONSTANTS
    u1 = u1
    u2 = u2
    u3 = u3
    h1 = h1
    h2 = h2
    i1 = i1
    Users = {u1,u2,u3}
    Moderators = {u1}
    Handlers = {h1,h2}
    Instances = {i1}
    NoUser = NoUser
    MaxUses = 1
    MaxRows = 4
SYMMETRY MCSymmetry
VIEW MCView
INVARIANT TypeOK
INVARIANT OneOwner
INVARIANT InviteOvershoot
PROPERTY TransferToMember
PROPERTY DeletedByOwner
PROPERTY RotatedOnce
CHECK_DEADLOCK FALSE
