\* A buffer of 3 bytes and files from none to more than two buffers.
SPECIFICATION ReaderSpec
CONSTANTS
    BufferSize = 3
    FileSizes = {0, 2, 3, 5, 8}
    Sizes = {0, 1, 2, 3, 4, 5}
    Positions = {0, 1, 2, 3, 5}
    MaxPosition = 9
    Unknown = Unknown
INVARIANTS
    ReaderTypeOK
    ReadsExact
    NoOverrun
\* Nothing happens after memory was read from behind the buffer.
CHECK_DEADLOCK FALSE
