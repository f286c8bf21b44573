SPECIFICATION FairSpec
CONSTANTS
    b0 = b0
    b1 = b1
    b2 = b2
    Byte <- MCByte
    Nul = b0
    QLen = 4
    HwDepth = 2
INVARIANTS
    IInv
    WaitingByteAnnounced
    NothingReadFromEmpty
PROPERTIES
    ImplementsReceiver
    ReceiverIsFair
