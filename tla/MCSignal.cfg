\* Three objects, a send within a send.
SPECIFICATION Spec
CONSTANTS
    Objects = {a, b, c}
    FunctionWords = 1
    MaxDepth = 2
    Nobody = Nobody
SYMMETRY Symmetry
INVARIANTS
    TypeOK
    CalledWereConnected
    NobodyMissed
    SentOnce
