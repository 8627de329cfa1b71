\* Two pushes of a layer in one directory and two GETs of it, any two of them at a
\* time; one crash and any panic.
CONSTANTS
    s1 = s1
    s2 = s2
    r1 = r1
    r2 = r2
    A = A
    B = B
    x = x
    y = y
    z = z
    NoHost = NoHost
    Servers = {s1}
    Repos = {r1, r2}
    Layers = {A, B}
    Blocks = {x, y, z}
    Pushes <- PushesBB
    Content <- ContentAB
    CompSize <- SizeFlat
    NotGzip = {}
    ChunkSize = 2
    WarmCount = 0
    SizeThres = 0
    CntThres = 0
    MaxFaults = 0
    MaxCrashes = 1
    Gets <- GetsBB
    MaxRequests = 4
    MaxActive = 2
SPECIFICATION PPFairSpec
INVARIANTS
    NeverGotta
    LockReleased
PROPERTIES
    GetAnswered
    DedupEnds
\* Every push and GET of the instance may have ended.
CHECK_DEADLOCK FALSE
