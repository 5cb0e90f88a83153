SPECIFICATION FairSpec
CONSTANTS
    i1 = i1
    m1 = m1
    m2 = m2
    q1 = q1
    Instances = {i1}
    Messages = {m1, m2}
    Requests = {q1}
    Batch = 2
    PendingLimit = 1
    StaleClaim = 1
    MinLead = 0
    MaxLead = 1
    TickBound = 1
    MaxTime = 2
    MaxRev = 1
    MaxFaults = 1
    author = author
    channel = channel
    Accounts = {author}
    Destinations = {channel}
    NoRow = NoRow
    Author <- MCAuthor
    Dest <- MCDest
PROPERTY DueIsTaken
PROPERTY ClaimIsResolved
