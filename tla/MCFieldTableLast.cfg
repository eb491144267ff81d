SPECIFICATION Spec
CONSTANTS
    IdCount = 12
    WordSize = 4
    Ids = {0, 1, 3, 4, 7, 11}
INVARIANTS EveryIdBuilds
CHECK_DEADLOCK FALSE
