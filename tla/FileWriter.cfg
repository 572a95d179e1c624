\* A buffer of 3 bytes, writes below, at and above its size.
SPECIFICATION Spec
CONSTANTS
    BufferSize = 3
    Sizes = {0, 1, 2, 3, 4}
    Positions = {0, 4}
    MaxWrites = 4
    MaxRefusals = 1
INVARIANTS
    TypeOK
    ClosedIsFlushed
PROPERTIES
    ImplementsByteFile
