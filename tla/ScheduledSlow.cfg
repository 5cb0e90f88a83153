SPECIFICATION Spec
CONSTANTS
    i1 = i1
    i2 = i2
    m1 = m1
    q1 = q1
    Instances = {i1, i2}
    Messages = {m1}
    Requests = {q1}
    Batch = 2
    PendingLimit = 1
    StaleClaim = 1
    MinLead = 0
    MaxLead = 1
    TickBound = 2
    MaxTime = 2
    MaxRev = 2
    MaxFaults = 0
    author = author
    channel = channel
    Accounts = {author}
    Destinations = {channel}
    NoRow = NoRow
    Author <- MCAuthor
    Dest <- MCDest
SYMMETRY MCSymmetry
INVARIANT OncePerScheduling
