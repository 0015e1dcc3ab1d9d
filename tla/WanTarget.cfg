SPECIFICATION FairSpec
CONSTANTS
    None = None
    r1 = r1
    r2 = r2
    i1 = i1
    n1 = n1
    k1 = k1
    disp = disp
    ipc = ipc
    o1 = o1
    o2 = o2
    s1 = s1
    s2 = s2
    Requests = {r1, r2}
    Intents = {i1}
    Keys = {k1}
    Accesses <- TheAccess
    Grants <- TheGrant
    LocalKey = k1
    Ids = {s1}
    MaxEntries = 1
    Callers = {disp, ipc}
    Owned = {o1}
    Duties <- TargetDuties
    Faults = {"port"}
    Deadlines = {2}
    MaxTime = 2
    MaxSessions = 1
    MaxTerminal = 1
    MaxTasks = 1
INVARIANT GrantNeedsConsent
INVARIANT CleanupLeavesNothing
PROPERTY OnlyLockHolderChanges
PROPERTY VerifiedInTime
PROPERTY EveryCallReturns
PROPERTY DueSessionsEnd
