CONSTANTS
    Keys = {1, 2, 3, 4, 5, 6, 7, 8, 9, 10, 11}
    Values = {1}
    PHYS_KEYS_INTERNAL = 4
    PHYS_SIZE_LEAF = 4
    MaxKeys = 11
SPECIFICATION Spec
INVARIANTS CheckIntegrity
CHECK_DEADLOCK FALSE
