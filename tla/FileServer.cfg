SPECIFICATION Spec
CONSTANTS
    Clients = {a, b}
    Arguments = {1, 2}
    Nobody = Nobody
INVARIANTS
    
    PlacesSuffice
PROPERTIES
    
    FirstCommandAnswered
CHECK_DEADLOCK FALSE
