\* Messages in fragments, and reads that fail.
SPECIFICATION Spec
CONSTANTS
    BUFFER_CHUNK_SIZE <- ChunkOfFour
    BUFFER_CHUNK_INCREASE_THRESHOLD <- AQuarter
    MaxMessages = 2
    MaxFragments = 3
    MaxBuffer = 8
INVARIANTS
    TypeOK
    UnfragmentedMessagesWhole
    DataSizeIsTrue
    BufferIsBounded
CHECK_DEADLOCK FALSE
