SPECIFICATION FairSpec
CONSTANTS
    s1 = s1
    p1 = p1
    p2 = p2
    Sessions = {s1}
    Procs = {p1, p2}
    CleanShapes <- MCCleanShapes
    PartialShapes <- MCPartialShapes
    UnsafeShapes = {}
    MaxCrashes = 0
    Sections <- MCSections
    Shapes <- TwoShapes
    Clocks <- TwoClocks
INVARIANT LockProtocol
PROPERTIES
    ImplementsLedger
    LockReleased
CHECK_DEADLOCK FALSE
