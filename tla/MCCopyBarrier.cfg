SPECIFICATION BarrierSpec
CONSTANTS
    Workers = {w1, w2}
    BufferSize = 2
    Entries <- MCEntries
    Root = "root"
    Parent <- MCParent
    Kind <- MCKind
    NoRead = {"e"}
    NoWrite = {"b"}
    FdLimit = 12
    NoFile = NoFile
INVARIANTS
    TypeOK
    ExitedMeansDrained
    NoLostWakeup
    
    NoStrayCopies
    OneOwner
    PassedMeansCopied
PROPERTIES
    RefinesWorkQueue
    RefinesPool
