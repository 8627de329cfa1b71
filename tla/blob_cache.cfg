\* Four files in a cache that two or three of them fill.
CONSTANTS
    Keys <- Files
    SizeOf <- FileSizes
    Capacity = 3
SPECIFICATION Spec
INVARIANTS CacheOK SizesExact
PROPERTIES FullNeverGrows EvictedUnlisted
\* A division by zero ends the process.
CHECK_DEADLOCK FALSE
