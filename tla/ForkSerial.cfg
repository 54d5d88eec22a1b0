CONSTANTS
    c1 = c1
    c2 = c2
    process = process
    Callers = {c1}
    Managers = {process}
    ManagerOf <- OneManager
    Names = {a, b}
    Main = main
    Files = {f}
    ForksJson = forks_json
    Contents = {x}
    InitialFiles <- AllAlike
    Absent = Absent
    Empty = Empty
    Torn = Torn
    Dangling = Dangling
    NoFork = NoFork
    MaxCommits = 4
    MaxPlain = 3
    MaxCalls = 3
    MaxFaults = 0
SPECIFICATION Spec
INVARIANTS
    ForkPointInHistory
    MergeKeepsBothSides
    MergeLandsOnParent
    MergedOnce
PROPERTIES
    ImplementsForkFates
SYMMETRY ForkNames
CHECK_DEADLOCK FALSE
