SPECIFICATION FairSpec
CONSTANTS
    t1 = t1
    t2 = t2
    Threads = {t1, t2}
    NoThread = NoThread
    Kinds <- AllKinds
    MaxCalls = 3
CHECK_DEADLOCK FALSE
INVARIANTS
    RunsOnItsThread
    BlockingCallsAreDone
    CallsKeepTheirOrder
    ConnectionsEnd
PROPERTIES
    CallsComplete
