\* Two threads of one process and the command, two mounts.
CONSTANTS
    t1 = t1
    t2 = t2
    main = main
    library = library
    gofs = gofs
    Processes = {library, gofs}
    Commands = {gofs}
    Callers = {t1, t2, main}
    ProcessOf <- MCProcessOf
    r1 = r1
    r2 = r2
    x = x
    y = y
    Repos = {r1, r2}
    Points = {x, y}
    Plans <- MCPlans
    NoRepo = NoRepo
    Writers = {gofs}
    MaxMounts = 2
    Monitor = library
    ServerAlone = TRUE
SPECIFICATION FairSpec
INVARIANTS
    MountTypeOK
    MountedIsRegistered
    RegisteredIsMounted
    NotReadyOnceStopped
PROPERTIES
    InterruptEnds
    StoppedServerEnds
