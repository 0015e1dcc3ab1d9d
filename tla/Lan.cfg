CONSTANTS
    None = None
    k1 = k1
    k2 = k2
    view = view
    s1 = s1
    s2 = s2
    h1 = h1
    h2 = h2
    Sessions = {s1, s2}
    Keys = {k1, k2}
    Scopes = {view}
    Requests <- MCRequests
    Failures <- NoFailures
    MaxTime = 2
    MaxLeases = 0
    MaxInstances = 2
    MaxRevision = 3
    RecordLimit = 2
    PendingLimit = 2
    PendingPerPeer = 1
    Retention = 5
    HistoryLimit = 0
    Handlers = {h1, h2}
    SessionOf <- OneSession
    RequestOf <- TwoPeers
    GrantLife = 1
SPECIFICATION LanFairSpec
CHECK_DEADLOCK FALSE
INVARIANT DistrustedHasNothing
INVARIANT DisabledHasNothing
PROPERTY EverythingEnds
