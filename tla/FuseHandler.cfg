CONSTANTS
    Paths <- MCPaths
    Ignored <- MCIgnored
    Empty = Empty
    Contents = {Empty, x}
    Absent = Absent
    Dir = Dir
    Files = {f1, f2}
    NoTree = NoTree
    NoPath = NoPath
    AutoCommit = TRUE
    Debounced = TRUE
    BatchSize = 2
    MaxInode = 3
    MaxHandle = 1
    MayFail = TRUE
    Letters = {"a", "b"}
    MaxPattern = 3
    MaxPath = 5
    MaxLines = 3
SPECIFICATION MCSpec
INVARIANTS
    TypeOK
    CleanMeansCommitted
    BatchesBounded
    InodesLeadBack
    GlobAgrees
    PlainPatternsNameComponents
    LastLineDecides
PROPERTIES
    CommittedStaysCommitted
SYMMETRY FileNames
