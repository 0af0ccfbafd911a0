SPECIFICATION FairServerSpec
CONSTANTS
    s1 = s1
    a1 = a1
    None = None
    Sessions <- MCServerSessions
    Sections <- MCSections
    Shapes <- MCShapes
    Clocks <- MCServerClocks
    Worktrees <- MCWorktrees
    FirstTree = "base"
    Queries <- MCQueries
    Notes <- MCNotes
    Snapshots <- MCSnapshots
    FileDeps <- MCFileDeps
    Compiled <- MCCompiled
    Lines <- MCLines
    OddLines <- MCOddLines
    MaxLines = 3
    MaxOdd = 1
    MaxMoves = 1
    MaxStarts = 2
INVARIANTS
    ServerTypeOK
    AnswersInOrder
    OmittedIsRecoverable
    RestoredIsCurrent
PROPERTY
    EveryRequestAnswered
CHECK_DEADLOCK FALSE
