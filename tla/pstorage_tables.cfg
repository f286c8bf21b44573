SPECIFICATION Spec
CONSTANTS
    MAX_NUM_MODULES = 6
    NumBlks = {10}
    BlkSizes = {20}
    Blks = {2}
    LastPage = 8
PROPERTY TablesKept
