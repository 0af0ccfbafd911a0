SPECIFICATION RetentionSpec
CONSTANTS
    s1 = s1
    c1 = c1
    c2 = c2
    Sessions = {s1}
    Compactors = {c1}
    Sections <- MCSections
    Shapes <- RetentionShapes
    Clocks <- RetentionClocks
INVARIANTS
    RetentionTypeOK
    RestorableKept
    NewestKept
    ActiveKept
PROPERTIES
    LeavesNoTrace
CHECK_DEADLOCK FALSE
