\* Two threads and three calls, from an empty tree and two full ones.
SPECIFICATION Spec
CONSTANTS
    Threads = {"t1", "t2"}
    Requests <- MCRequests
    Trees <- MCTrees
    Contents <- MCContents
    MaxCalls = 3
    MaxOpen = 2
INVARIANTS
    TypeOK
    
PROPERTIES
    CallsAnswer
    CreatedExists
    CallsReturn
\* The calls of a behaviour are bounded.
CHECK_DEADLOCK FALSE
