SPECIFICATION Spec
CONSTANTS
    Pages = {p1, p2}
    Null = Null
    Sizes = {0, 1, 8}
    PageSizes = {6}
    InitialPageSize = 10
    PageHeaderSize = 1
    HeaderSize = 2
    Domains = {1}
    DomainWord = 256
    MaxAllocations = 5
SYMMETRY PageSymmetry
INVARIANTS Tiling StatisticsExact
CHECK_DEADLOCK FALSE
