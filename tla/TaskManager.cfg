SPECIFICATION TaskSpec
CONSTANTS
    MaxTasks = 3
    Pids = {0, 1, 2, 3}
INVARIANTS
    TaskTypeOK
    WorkConserving
    WaitersHaveATarget
PROPERTIES
    NoStarvation
