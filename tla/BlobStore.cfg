CONSTANTS
    c1 = c1
    c2 = c2
    f1 = f1
    f2 = f2
    g = g
    x = x
    y = y
    s = s
    Callers = {c1, c2}
    Files = {f1, f2, g}
    Owner <- TwoOwners
    Large = {x, y}
    Small = {s}
    Writes <- TwoWriters
    InitialFiles <- FreshOrRaw
    Absent = Absent
    Empty = Empty
    Torn = Torn
    Committer = Committer
    Unknown = Unknown
    NoBlob = NoBlob
    MaxCalls = 4
    MaxCommits = 1
    MaxFaults = 1
SPECIFICATION Spec
INVARIANTS
    TypeOK
    ReadsBack
    OrphansDeleted
CHECK_DEADLOCK FALSE
