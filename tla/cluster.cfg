\* A layer pushed to two servers and asked for at one of them, and a layer that is
\* a chunk of it; any three of the four requests, two at a time.  One Redis error,
\* one crash, F-mode after a dedup.  Layers of up to two blocks stay on their server.
CONSTANTS
    s1 = s1
    s2 = s2
    r1 = r1
    r2 = r2
    A = A
    B = B
    x = x
    y = y
    z = z
    NoHost = NoHost
    Servers = {s1, s2}
    Repos = {r1, r2}
    Layers = {A, B}
    Blocks = {x, y, z}
    Pushes <- PushesCluster
    Content <- ContentAB
    CompSize <- SizeAB
    NotGzip = {}
    ChunkSize = 2
    WarmCount = 0
    SizeThres = 2
    CntThres = 0
    MaxFaults = 1
    MaxCrashes = 1
    Gets <- GetsAs2
    MaxRequests = 3
    MaxActive = 2
SPECIFICATION PPSpec
INVARIANTS
    TypeOK
    OriginalKept
    NoOrphanFiles
    RecipesClosed
    DescriptorsLive
    RecipesComplete
    RecipesServable
    NoLeftovers
    FileInv
PROPERTIES
    MetadataStable
\* Every push and GET of the instance may have ended.
CHECK_DEADLOCK FALSE
