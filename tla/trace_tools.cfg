\* Traces of up to six blocks through every program; two search threads.
CONSTANTS
    Contents <- AllContents
    Traces <- AllTraces
    BFTraces <- SearchedTraces
    BLOCK_SIZE = 8
    Lz4 <- Lz4Sizes
    Delta <- DeltaSizes
    SF = {1, 2}
    SuperFeature <- Features
    MyHash <- Sketches
    Dist <- Distances
    BATCH_SIZE = 2
    LINEAR_SIZE = 2
    THRESHOLD = 2
    Threads = {1, 2}
    MaxWork = 6
SPECIFICATION Spec
INVARIANTS TTTypeOK RecipesRestore FileRestores NoBlockForgotten ResumedExact
PROPERTIES BFEnds
\* The programs end.
CHECK_DEADLOCK FALSE
