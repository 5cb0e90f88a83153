SPECIFICATION Spec
CONSTANTS
    i1 = i1
    i2 = i2
    m1 = m1
    q1 = q1
    q2 = q2
    Instances = {i1, i2}
    Messages = {m1}
    Requests = {q1, q2}
    Batch = 2
    PendingLimit = 1
    StaleClaim = 1
    MinLead = 0
    MaxLead = 1
    TickBound = 1
    MaxTime = 2
    MaxRev = 2
    MaxFaults = 1
    author = author
    channel = channel
    Accounts = {author}
    Destinations = {channel}
    NoRow = NoRow
    Author <- MCAuthor
    Dest <- MCDest
SYMMETRY MCSymmetry
INVARIANT TypeOK
INVARIANT OncePerScheduling
INVARIANT SentWasPosted
INVARIANT OneNoticePerFailure
PROPERTY NeverEarly
PROPERTY SentIsFinal
PROPERTY SavedIsAJob
