\* Thirteen trees; texts that end anywhere; three calls.
SPECIFICATION Spec
CONSTANTS
    Trees <- MCTrees
    Large = "large"
    MaxCalls = 3
    MaxRow = 3
INVARIANTS
    TypeOK
    ReadsBack
    TruncatedRefused
    RefusedIsBeginning
PROPERTIES
    WritingEnds
\* The calls of a behaviour are bounded.
CHECK_DEADLOCK FALSE
