\* Two threads of one process; no debounce, one fault or crash.
CONSTANTS
    t1 = t1
    t2 = t2
    mount = mount
    cli = cli
    f = f
    g = g
    h = h
    Threads = {t1, t2}
    Backends = {mount}
    BackendOf <- SharedBackendOf
    Paths = {f, g}
    Own <- SharedOwn
    Ignored = {}
    Contents = {v1}
    Empty = empty
    Absent = absent
    Inodes <- FourInodes
    AutoCommit = TRUE
    Debounced = FALSE
    BatchSize = 2
    MaxCalls = 3
    MaxFaults = 1
SPECIFICATION FairSpec
INVARIANTS
    TypeOK
    FlagMatchesBuilder
    HistoryWellFormed
    HeadSurvives
PROPERTIES
    ImplementsCommitHistory
    CallsReturn
CHECK_DEADLOCK FALSE
