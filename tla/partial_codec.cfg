\* Every kind of block and damage, with buffers that end in every place.
CONSTANTS
    Files <- PassFiles
    Chunks <- PassChunks
    FastIn = 6
    FastOut = 8
    LitBufsize = 32
SPECIFICATION FairSpec
INVARIANTS PTypeOK DecodesPrefix RoundTrip NoSilentDamage ToolsSucceed TablesDecode
PROPERTY ToolsEnd
