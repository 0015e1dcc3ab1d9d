SPECIFICATION Spec
CONSTANTS
    None = None
    r1 = r1
    r2 = r2
    i1 = i1
    n1 = n1
    k1 = k1
    disp = disp
    ipc = ipc
    o1 = o1
    o2 = o2
    s1 = s1
    s2 = s2
    Requests = {r1}
    Intents = {i1}
    Keys = {k1}
    Accesses <- TheAccess
    Grants <- TheGrant
    LocalKey = k1
    Ids = {s1, s2}
    MaxEntries = 2
    Callers = {disp, ipc}
    Owned = {o1, o2}
    Duties <- ControllerDuties
    Faults = {"peer", "drop", "close_backend"}
    Deadlines = {1}
    MaxTime = 0
    MaxSessions = 1
    MaxTerminal = 1
    MaxTasks = 2
SYMMETRY Symmetries
INVARIANT RegistryExact
INVARIANT TerminalIffCleanup
INVARIANT VerifiedRouteInstalled
PROPERTY ImplementsRegistry
