SPECIFICATION FairLocalSpec
CONSTANTS
    None = None
    Slots = 2
    Kinds <- MCKinds
    LastMigration = 2
    MaxStarts = 3
    MaxBreaks = 1
INVARIANTS
    LocalTypeOK
    WorksOnWholeSchema
    CommittedIsKept
PROPERTY
    Recovers
CHECK_DEADLOCK FALSE
