SPECIFICATION Spec
CONSTANTS
    t1 = t1
    t2 = t2
    o1 = o1
    o2 = o2
    k1 = k1
    NoObject = NoObject
    Threads = {t1}
    Objects = {o1, o2}
    Keys = {k1}
    MinLifeTime = 1
    Step = 2
    MaxTime = 2
CHECK_DEADLOCK FALSE
PROPERTIES
    OtherCachesAreAsked
