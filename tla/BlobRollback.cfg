CONSTANTS
    c1 = c1
    c2 = c2
    f1 = f1
    f2 = f2
    g = g
    x = x
    y = y
    s = s
    Callers = {c1}
    Files = {f1}
    Owner <- OneOwner
    Large = {x}
    Small = {s}
    Writes <- OneWriter
    InitialFiles <- Fresh
    Absent = Absent
    Empty = Empty
    Torn = Torn
    Committer = Committer
    Unknown = Unknown
    NoBlob = NoBlob
    MaxCalls = 4
    MaxCommits = 1
    MaxFaults = 0
SPECIFICATION Spec
INVARIANTS
    CheckpointsRestorable
CHECK_DEADLOCK FALSE
