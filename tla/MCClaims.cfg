SPECIFICATION ClaimsSpec
CONSTANTS
    None = None
    Trees <- MCTrees
    FirstTree = "clean"
    RefTypes <- MCRefTypes
    SourceKinds <- MCSourceKinds
    Roots <- MCRoots
    Contents <- MCContents
    Requests <- MCRequests
    TestFiles = {"src/parse.ts"}
    Blamed = {"src/parse.ts"}
    RunKinds <- MCRunKinds
    ForeignEdges <- MCForeignEdges
    Processes = {p1, p2}
    p1 = p1
    p2 = p2
    MaxCompiles = 2
    MaxRuns = 1
    MaxForeign = 1
    MaxResolutions = 1
    MaxMoves = 1
CHECK_DEADLOCK FALSE
SYMMETRY Symmetry
INVARIANTS
    ClaimsTypeOK
    ActiveIsTrue
    RunsStayInTheirWorktree
    CompletedCompilesHold
    ConflictAnswersAgree
    RunsFollowCompiles
PROPERTY ResolvedStaysResolved
