SPECIFICATION Spec
CONSTANTS
    Generators = {g1}
    Customers = 1
    Cooks = {c1}
    Drivers = {d1}
    MaxOrders = 2
    Capacity = 2
    Nobody = Nobody
    StdIn = StdIn
PROPERTIES
    EveryWaitEnds
CHECK_DEADLOCK FALSE
