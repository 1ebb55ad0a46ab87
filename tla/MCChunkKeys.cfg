CONSTANTS
    BIG = 6
    TINY = 2
    MAX_FILE_SIZE = 50
    FileSizes <- MCFileSizes
    Offsets <- MCKeyOffsets
    MaxRanges = 2
SPECIFICATION Spec
INVARIANTS
    ChunksAreSeparateFiles
CHECK_DEADLOCK FALSE
