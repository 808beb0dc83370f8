SPECIFICATION Spec
CONSTANTS
    Spots <- MCSpots
    Wave <- LargeWave
INVARIANTS
    TypeOK
    SpotsConserved
    
PROPERTIES
    MainReturns
