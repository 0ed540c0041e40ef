SPECIFICATION FairSpec
CONSTANTS
    c1 = c1
    c2 = c2
    Calls = {c1, c2}
    Limit = 1
    IgnoreSslErrors = {c1}
    Host = Host
    NoHost = NoHost
    NoCall = NoCall
CHECK_DEADLOCK FALSE
INVARIANTS
    OkMeansClean
    RememberedWhilePending
    RepliesAreReleased
PROPERTIES
    OnlyLateStepsTouchDeleted
    Answered
