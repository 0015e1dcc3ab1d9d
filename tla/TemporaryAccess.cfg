SPECIFICATION FairSpec
CONSTANTS
    Calls = {c1}
    Ticker = tick
    Sessions = {s1}
    TTL = 1
    Margin = 0
    Enrolled = TRUE
    Late = TRUE
    MaxTime = 1
    MaxFaults = 1
CHECK_DEADLOCK FALSE
INVARIANTS
    ReadyIsServed
    RefreshedNeverShown
    DisableEndsGuests
PROPERTY StatusPublished
