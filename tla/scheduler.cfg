SPECIFICATION FairSpec
CONSTANTS
    MAX_NUM_TASKS = 20
    Handle = {h1, h2}
    NoThread = NoThread
INVARIANTS
    IInv
    NoSurvivor
    CleanupNotForgotten
PROPERTIES
    DeleteHitsItsTask
    StopEndsTasks
