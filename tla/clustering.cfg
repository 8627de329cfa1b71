\* Ten blocks, two workers, a window of three blocks.
CONSTANTS
    Blocks = {1, 2, 3, 4, 5, 6, 7, 8, 9, 10}
    Dist <- MCDist
    Hash <- MCHash
    Lz4 <- MCLz4
    INF = 99
    CoarseShift = 1
    NUM_THREAD = 3
    CoarseQ = 1
    FineQ = 1
    COARSE_T = 5
    SampleLimit = 2
    FineStep = 1
    FineMax = 3
SPECIFICATION FairSpec
INVARIANTS
    BTypeOK
    ThreadInv
    WithinThreshold
    LabelsComplete
PROPERTIES
    SequentialClustering
    Labelled
\* The programs end.
CHECK_DEADLOCK FALSE
