SPECIFICATION CompileSpec
CONSTANTS
    s1 = s1
    p1 = p1
    p2 = p2
    Sessions = {s1}
    Procs = {p1}
    CleanShapes <- MCCleanShapes
    PartialShapes <- MCPartialShapes
    UnsafeShapes = {}
    MaxCrashes = 1
    Sections <- MCSections
    Shapes <- OneShapes
    Clocks <- OneClocks
INVARIANTS
    CompileTypeOK
    SessionTracksLastBuild
    InspectionIsTrue
    LedgerMatchesLastPack
CHECK_DEADLOCK FALSE
