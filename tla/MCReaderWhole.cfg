\* Messages in two fragments.
SPECIFICATION Spec
CONSTANTS
    BUFFER_CHUNK_SIZE <- ChunkOfFour
    BUFFER_CHUNK_INCREASE_THRESHOLD <- AQuarter
    MaxMessages = 1
    MaxFragments = 2
    MaxBuffer = 4
INVARIANTS
    MessagesWhole
CHECK_DEADLOCK FALSE
