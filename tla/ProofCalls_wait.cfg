SPECIFICATION Spec
CONSTANTS
    t1 = t1
    t2 = t2
    Threads = {t1, t2}
    NoThread = NoThread
    Kinds <- AllKinds
    MaxCalls = 2
CHECK_DEADLOCK FALSE
INVARIANTS
    QueuedCallsDoNotWait
