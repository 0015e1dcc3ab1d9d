SPECIFICATION FairSpec
CONSTANTS
    Sessions = {s1}
    Subscribers = {u1}
    MaxRequests = 2
    MaxEvents = 2
    QueueCap = 2
    EventCap = 1
CHECK_DEADLOCK FALSE
INVARIANTS
    SentOnceInOrder
    NoGapNoRepeat
PROPERTIES
    SilentAfterClose
    CallersReturn
