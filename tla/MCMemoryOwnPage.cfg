SPECIFICATION Spec
CONSTANTS
    Pages = {p1, p2}
    Null = Null
    Sizes = {1, 8}
    PageSizes = {}
    InitialPageSize = 10
    PageHeaderSize = 1
    HeaderSize = 2
    Domains = {0}
    DomainWord = 256
    MaxAllocations = 4
PROPERTY OwnPageOnly
CHECK_DEADLOCK FALSE
