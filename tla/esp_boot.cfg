SPECIFICATION FairSpec
CONSTANTS
    Cmd <- MCCmd
    NoCmd = NoCmd
    MAX_TRIES = 1
    MaxPending = 3
    MaxTalk = 2
INVARIANTS
    IInv
PROPERTIES
    PhaseDone
    WaitEnds
    EngineReturns
    ImplementsQueue
