\* Two threads of one process, each on its own file.
CONSTANTS
    t1 = t1
    t2 = t2
    mount = mount
    cli = cli
    f = f
    g = g
    h = h
    Threads = {t1, t2}
    Backends = {mount}
    BackendOf <- SharedBackendOf
    Paths = {f, g}
    Own <- SharedOwn
    Ignored = {}
    Contents = {v1}
    Empty = empty
    Absent = absent
    Inodes <- FourInodes
    AutoCommit = TRUE
    Debounced = TRUE
    BatchSize = 2
    MaxCalls = 3
    MaxFaults = 0
SPECIFICATION Spec
INVARIANT DataIntegrity
CHECK_DEADLOCK FALSE
