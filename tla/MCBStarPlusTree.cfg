CONSTANTS
    Keys = {1, 2, 3, 4, 5, 6, 7, 8}
    Values = {1, 2}
    PHYS_KEYS_INTERNAL = 4
    PHYS_SIZE_LEAF = 4
    MaxKeys = 8
SPECIFICATION Spec
INVARIANTS TypeOK CheckIntegrity OnlyMergesFail SearchFindsAll NoPageIsLost
