CONSTANTS
    B = B  C = C  D = D  Null = Null  t1 = t1  t2 = t2  MethodInvoke = MethodInvoke
    Invoke <- MethodInvoke
    Classes <- MCClasses
    NoClass <- Null
    Super <- MCSuper
    ClinitClasses <- MCClinitClasses
    Uses <- MCUses
    Threads <- MCThreads
    Requests <- MCRequests
SPECIFICATION Spec
INVARIANT TypeOK
INVARIANT ClassContextExact
PROPERTY WalkReturns
