CONSTANTS
    m = m
    t1 = t1
    t2 = t2
    l1 = l1
    l2 = l2
    Main <- m
    NoTraceHolder = NoTraceHolder
    Threads <- MCThreadSet
    Daemons <- MCDaemons
    Lockers <- MCTwoLockers
SPECIFICATION MCSpec
PROPERTY CountFrozen
