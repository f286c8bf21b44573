SPECIFICATION FairSpec
CONSTANT MaxText = 3
INVARIANTS
    IInv
    InterruptWaitsForByte
    MainStuckInWindowOnly
    CleanTextIsSent
PROPERTIES
    InterruptReturns
    InterruptFreesMain
