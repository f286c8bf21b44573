SPECIFICATION Spec
CONSTANTS
    MAX_NUM_MODULES = 4
    NumBlks = {10}
    BlkSizes = {30, 136}
    Blks = {1}
    LastPage = 7
INVARIANTS IInv CreatedIsDurable CacheIsCurrent
PROPERTIES IdsAreUnique TableSpec
