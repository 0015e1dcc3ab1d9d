CONSTANTS
    None = None
    k1 = k1
    view = view
    input = input
    s1 = s1
    Sessions = {s1}
    Keys = {k1}
    Scopes = {view, input}
    Requests <- TheRequests
    Failures <- OneFailure
    MaxTime = 2
    MaxLeases = 1
    MaxInstances = 2
    MaxRevision = 3
    RecordLimit = 2
    PendingLimit = 1
    PendingPerPeer = 1
    Retention = 0
    HistoryLimit = 2
    PageLimit = 1
SPECIFICATION FeedSpec
CHECK_DEADLOCK FALSE
INVARIANT GrantWithinApproval
INVARIANT LeaseEndsWithGrant
INVARIANT NoPromptLost
PROPERTY NoStaleMaterial
