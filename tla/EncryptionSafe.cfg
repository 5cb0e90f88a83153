SPECIFICATION Spec
CONSTANTS
    u1 = u1
    u2 = u2
    Users = {u1, u2}
    Browsers = {u1, u2}
    Owner <- MCOwner
    CanDisable = FALSE
    MaxIdentity = 2
    MaxKey = 2
    MaxVersion = 2
    MaxRounds = 1
    MaxWraps = 1
    MaxPosts = 1
    MaxFaults = 1
SYMMETRY MCSymmetry
INVARIANT TypeOK
INVARIANT RemovedGetNoNewKey
INVARIANT OneVersionPerKey
INVARIANT NoSendToRemoved
INVARIANT CoveredBeforeUse
INVARIANT PostedIsRecoverable
