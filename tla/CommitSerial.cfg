\* One thread; debounce on, batches of 2.
CONSTANTS
    t1 = t1
    t2 = t2
    mount = mount
    cli = cli
    f = f
    g = g
    h = h
    Threads = {t1}
    Backends = {mount}
    BackendOf <- SingleBackendOf
    Paths = {f, g, h}
    Own <- SingleOwn
    Ignored = {h}
    Contents = {v1, v2}
    Empty = empty
    Absent = absent
    Inodes <- FourInodes
    AutoCommit = TRUE
    Debounced = TRUE
    BatchSize = 2
    MaxCalls = 5
    MaxFaults = 0
SPECIFICATION Spec
INVARIANTS
    DataIntegrity
    WritesTracked
    NoCommitLost
    IgnoredNotCommitted
PROPERTY ImplementsLinearHistory
CHECK_DEADLOCK FALSE
