SPECIFICATION StoreSpec
CONSTANTS
    None = None
    Trees <- MCTrees
    FirstTree = "main"
    GitIgnored = {"build"}
    PrivacyIgnored = {".env"}
    RuntimePaths = {}
    Contents <- MCContents
    SourceKinds <- MCSourceKinds
    Candidates <- MCCandidates
    MaxSelected = 4
    NameTerms <- MCNameTerms
    PathWeights <- MCPathWeights
    PackageRoots <- MCPackageRoots
    Languages <- MCLanguages
    TestPaths <- MCTestPaths
    PathOrder <- MCPathOrder
    Requests <- MCRequests
    Processes = {p1, p2}
    p1 = p1
    p2 = p2
    Sessions = {s1, s2}
    s1 = s1
    s2 = s2
    MaxCompiles = 2
    MaxMoves = 1
    MaxCompactions = 1
CHECK_DEADLOCK FALSE
SYMMETRY Symmetry
INVARIANTS
    StoreTypeOK
    IndexMatchesSnapshot
    SnapshotsAreWhole
    SeedsFirst
    SafeIsComplete
PROPERTIES
    LatestIndexKept
    KnownArtifactsKeepTheirInputs
