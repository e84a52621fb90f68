CONSTANTS
    Keys = {1, 2, 3, 4, 5, 6, 7, 8, 9, 10, 11, 12}
    Values = {1}
    PHYS_KEYS_INTERNAL = 4
    PHYS_SIZE_LEAF = 11
    MaxKeys = 12
SPECIFICATION Spec
INVARIANTS NeverFails
CHECK_DEADLOCK FALSE
