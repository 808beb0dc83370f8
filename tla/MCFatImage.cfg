SPECIFICATION Spec
CONSTANTS
    RootEntries = 2
    PerBlock = 1
    ByteValues = 3
    NBlocks = 4
    short = short
    long = long
    Names = {short, long}
    Stored <- MCStored
    Paths <- MCPaths
    Procs = {p, q}
    Free = Free
    Lost = Lost
SYMMETRY Symmetric
INVARIANTS
    TypeOK
    NoSharedBlocks
    ChildrenAreYounger
PROPERTIES
    NothingElseGoes
