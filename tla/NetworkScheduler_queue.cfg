SPECIFICATION FairSpec
CONSTANTS
    r1 = r1
    r2 = r2
    r3 = r3
    h1 = h1
    NoHost = NoHost
    NoRequest = NoRequest
    Hosts = {h1}
    Requests = {r1, r2, r3}
    HostOf <- MCHostOf
    Limit = 1
    IgnoreSslErrors = {r1}
INVARIANTS
    SlotAccounting
    IInv
    HostLimit
    NoLostWakeup
    OnlyLateCancelLeaks
PROPERTIES
    CanceledInQueueIsNeverSent
    ImplementsSlots
    EventuallyTaken
