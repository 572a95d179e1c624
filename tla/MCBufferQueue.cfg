\* Two queues, three pushes of 0 or 2 bytes behind a header of one byte.
SPECIFICATION Spec
CONSTANTS
    Queues = {q1, q2}
    Blocks = {b1, b2, b3}
    Payloads = {"empty", "pair"}
    SizeOf <- MCSizeOf
    Capacities = {4}
    Header = 1
    Word = 64
    MaxPushes = 3
    MaxEnd = 12
    Null = Null
SYMMETRY Symmetry
INVARIANTS
    TypeOK
    CapacityCoversSize
    Ownership
    Layout
PROPERTIES
    ImplementsFifo
\* A copy of a queue with storage ends the program.
CHECK_DEADLOCK FALSE
