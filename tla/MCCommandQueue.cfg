\* Two queues, three commands, callbacks nested two deep.
SPECIFICATION CommandSpec
CONSTANTS
    Queues = {q1, q2}
    Blocks = {b1, b2, b3}
    Payloads <- MCPayloads
    SizeOf <- MCSizeOf
    Capacities = {4}
    Header = 1
    Word = 64
    MaxPushes = 3
    MaxEnd = 12
    MaxDepth = 2
    Null = Null
SYMMETRY Symmetry
INVARIANTS
    ArgumentStable
\* A copy of a queue with storage ends the program.
CHECK_DEADLOCK FALSE
