SPECIFICATION Spec
CONSTANTS
    None = None
    r1 = r1
    r2 = r2
    i1 = i1
    i2 = i2
    n1 = n1
    n2 = n2
    k1 = k1
    k2 = k2
    Requests <- MCRequests
    Intents <- MCIntents
    Keys <- MCKeys
    Accesses <- MCAccesses
    Grants <- MCGrants
    Deadlines = {2, 3}
    MaxTime = 3
INVARIANT PhaseChain
INVARIANT AuthorityChain
