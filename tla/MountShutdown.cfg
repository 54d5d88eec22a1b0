\* The command alone, with files written in its mount.
CONSTANTS
    t1 = t1
    t2 = t2
    main = main
    library = library
    gofs = gofs
    Processes = {library, gofs}
    Commands = {gofs}
    Callers = {main}
    ProcessOf <- MCProcessOf
    r1 = r1
    r2 = r2
    x = x
    y = y
    Repos = {r1}
    Points = {y}
    Plans <- MCPlans
    NoRepo = NoRepo
    Writers = {gofs}
    MaxMounts = 1
    Monitor = library
    ServerAlone = TRUE
SPECIFICATION Spec
INVARIANT ShutdownLosesNothing
