\* Two vectors of at most three elements, or two maps of four keys.
SPECIFICATION Spec
CONSTANTS
    v1 = v1
    v2 = v2
    h1 = h1
    h2 = h2
    Unset = Unset
    None = None
    Unspecified = Unspecified
    Vectors <- MCVectors
    Maps <- MCMaps
    Objects <- MCObjects
    Blank <- MCBlank
    Keys <- MCKeys
    Values <- MCValues
    KeyBits = 3
    StackCapacity = 2
    MaxSize = 3
    MaxCalls = 3
    MaxArrays = 5
INVARIANTS
    
    EntriesFound
PROPERTIES
    ImplementsCollections
    AddEnds
\* The calls of a behaviour are bounded.
CHECK_DEADLOCK FALSE
