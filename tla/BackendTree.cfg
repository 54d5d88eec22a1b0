CONSTANTS
    Paths <- MCPaths
    Ignored <- MCIgnored
    Empty = Empty
    Contents = {Empty, x}
    Absent = Absent
    Dir = Dir
    Files = {f1, f2}
    NoTree = NoTree
    AutoCommit = TRUE
    Debounced = TRUE
    BatchSize = 2
SPECIFICATION TreeSpec
INVARIANTS
    TreeTypeOK
    HeadWellFormed
    WritesTracked
    DescentAgrees
SYMMETRY FileNames
