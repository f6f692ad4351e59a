SPECIFICATION PartsSpec
CONSTANTS
    c1 = c1
    c2 = c2
    c3 = c3
    c4 = c4
    d1 = d1
    x = x
    y = y
    f1 = f1
    f2 = f2
    f3 = f3
    n1 = n1
    p1 = p1
    p2 = p2
    k1 = k1
    k2 = k2
    Calls = {c1, c2, c3, c4, d1}
    Addresses = {x, y}
    From <- MCFrom
    limit = 2
    window = 2
    Forwarders = {f1, f2, f3}
    Speeds = {1, 2, 5}
    stale_duration = 2
    Default = 3
    History = 1
    Nodes = {n1}
    Costs <- MCCosts
    Decay <- MCDecay
    MaxStale = 2
    Verdicts = 3
    Processes = {p1, p2}
    Keys = {k1, k2}
    NoKey = NoKey
    Exclusive = TRUE
    MaxTime = 3
INVARIANTS
    PartsTypeOK
    AtMostLimit
    RefusedOnlyAtLimit
    MedianOfFresh
    RankedByRecord
    OneIdentity
PROPERTY
    FailureNeverHelps
CHECK_DEADLOCK FALSE
