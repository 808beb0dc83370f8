SPECIFICATION Spec
CONSTANTS
    Generators = {g1}
    Customers = 2
    Cooks = {c1}
    Drivers = {d1, d2}
    MaxOrders = 1
    Capacity = 2
    Nobody = Nobody
    StdIn = StdIn
INVARIANTS
    TypeOK
PROPERTIES
    BegunIsDelivered
CHECK_DEADLOCK FALSE
