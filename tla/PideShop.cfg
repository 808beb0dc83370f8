SPECIFICATION Spec
CONSTANTS
    Generators = {g1}
    Customers = 2
    Cooks = {c1, c2}
    Drivers = {d1}
    MaxOrders = 2
    Capacity = 2
    Nobody = Nobody
    StdIn = StdIn
INVARIANTS
    CountIsDelivered
    HoldersOwnTheirSlots
PROPERTIES
    NoOrderDropped
CHECK_DEADLOCK FALSE
