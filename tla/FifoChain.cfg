SPECIFICATION Spec
CONSTANTS
    IntSize = 2
    WordSize = 3
    MaxSize = 5
    Capacity = 8
    PipeBuf = 4
INVARIANTS
    RightWhenPrompt
PROPERTIES
    ParentEnds
CHECK_DEADLOCK FALSE
