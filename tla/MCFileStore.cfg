SPECIFICATION Spec
CONSTANTS
    Handlers = {h1, h2, h3}
    ServerLines <- MCServer
    ClientLines <- MCClient
    MaxLine = 2
    Absent = Absent
SYMMETRY Symmetric
INVARIANTS
    TypeOK

    
    
