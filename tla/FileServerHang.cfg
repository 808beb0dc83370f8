SPECIFICATION Spec
CONSTANTS
    Clients = {a, b}
    Arguments = {2}
    Nobody = Nobody
PROPERTIES
    EveryCommandAnswered
CHECK_DEADLOCK FALSE
