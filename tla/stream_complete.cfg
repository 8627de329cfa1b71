\* A gzip file with an extra field, and one with two members.
CONSTANTS
    Files <- LossFiles
    Chunks = {40}
    FastIn = 6
    FastOut = 8
    LitBufsize = 32
SPECIFICATION Spec
INVARIANT StreamComplete
