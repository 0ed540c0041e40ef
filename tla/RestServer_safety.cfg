SPECIFICATION Spec
CONSTANTS
    c1 = c1
    c2 = c2
    c3 = c3
    a1 = a1
    a2 = a2
    a3 = a3
    Conns <- MCConns
    Addresses <- MCAddresses
    MaxThreads = 2
    NoConn = NoConn
    NoAddress = NoAddress
SYMMETRY Interchangeable
CHECK_DEADLOCK FALSE
INVARIANTS
    CountsAreExact
    RegistriesAgree
    EventsMeetTheirSocket
    AskedOnce
    AnswersAreNotLost
