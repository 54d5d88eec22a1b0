CONSTANTS
    c1 = c1
    c2 = c2
    process = process
    Callers = {c1, c2}
    Managers = {process}
    ManagerOf <- OneManager
    Names = {a, b}
    Main = main
    Files = {}
    ForksJson = forks_json
    Contents = {}
    InitialFiles <- AllAlike
    Absent = Absent
    Empty = Empty
    Torn = Torn
    Dangling = Dangling
    NoFork = NoFork
    MaxCommits = 2
    MaxPlain = 2
    MaxCalls = 3
    MaxFaults = 1
SPECIFICATION Spec
INVARIANTS
    TypeOK
    
SYMMETRY ForkNames
CHECK_DEADLOCK FALSE
