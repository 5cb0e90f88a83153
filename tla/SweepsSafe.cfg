SPECIFICATION MCSpec
CONSTANTS
    w1 = w1
    w2 = w2
    w3 = w3
    i1 = i1
    i2 = i2
    c1 = c1
    NoHome = NoHome
    Instances = {i1, i2}
    Workflows = {w1, w2, w3}
    Servers = {{w1, w2}, {w3}}
    Callers = {c1}
    Trigger <- MCTrigger
    Actions <- MCActions
    Keys = {1}
    MaxDepth = 0
    PerWorkflow = 1
    PerServer = 2
    MaxRuns = 2
    MaxMessages = 2
    MaxFires = 1
    MaxUpsets = 1
    s1 = s1
    Sources = {s1}
    q1 = q1
    q2 = q2
    Requests = {q1, q2}
    MaxTime = 3
    MaxSaves = 2
    ReminderFaults = 1
    DecisionFaults = 1
    InteractionFaults = 1
    x1 = x1
    x2 = x2
    Tokens = {x1, x2}
    b1 = b1
    b2 = b2
    Callbacks = {b1, b2}
    d1 = d1
    d2 = d2
    Proposals = {d1}
    Elsewhere = {d2}
    v1 = v1
    v2 = v2
    Voters = {v1, v2}
    Quorum = 2
SYMMETRY MCSymmetry
CHECK_DEADLOCK FALSE
INVARIANT SweepsTypeOK
INVARIANT Lineage
INVARIANT AnsweredOrTimedOut
INVARIANT OutcomeFits
PROPERTY ClaimsHonoured
