SPECIFICATION Spec
CONSTANTS
    Start = 1
    Size = 14
    Header = 2
    Requests = {0, 1, 2, 3, 5}
INVARIANTS
    TypeOK
    ListTilesHeap
    ListInOrder
    NoFreeNeighbours
PROPERTIES
    RefinesAllocator
