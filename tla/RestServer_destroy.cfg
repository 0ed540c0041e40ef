SPECIFICATION FairSpec
CONSTANTS
    c1 = c1
    c2 = c2
    c3 = c3
    a1 = a1
    a2 = a2
    a3 = a3
    Conns <- TwoConns
    Addresses <- TwoAddresses
    MaxThreads = 2
    NoConn = NoConn
    NoAddress = NoAddress
CHECK_DEADLOCK FALSE
PROPERTIES
    DestructorReturns
