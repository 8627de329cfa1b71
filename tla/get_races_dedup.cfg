\* A GET while the layer is being deduplicated.
CONSTANTS
    s1 = s1
    s2 = s2
    r1 = r1
    r2 = r2
    A = A
    B = B
    x = x
    y = y
    z = z
    NoHost = NoHost
    Servers = {s1}
    Repos = {r1, r2}
    Layers = {A, B}
    Blocks = {x, y, z}
    Pushes <- PushesA
    Content <- ContentAB
    CompSize <- SizeFlat
    NotGzip = {}
    ChunkSize = 2
    WarmCount = 0
    SizeThres = 0
    CntThres = 0
    MaxFaults = 0
    MaxCrashes = 0
    Gets <- GetsA
    MaxRequests = 4
    MaxActive = 4
SPECIFICATION PPSpec
INVARIANTS
    FallbackFindsOriginal
\* Every push and GET of the instance may have ended.
CHECK_DEADLOCK FALSE
