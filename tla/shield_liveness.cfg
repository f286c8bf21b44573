SPECIFICATION FairSpec
CONSTANTS
    a1 = a1
    a2 = a2
    r = r
    NoAddr = NoAddr
    ZeroAddr = ZeroAddr
    torn = torn
    Cleared <- MCCleared
    Addr <- SmallAddr
    Rpa <- MCRpa
    Identity <- SmallIdentity
    Ediv = {7}
    EvtQueueLen = 2
    MAX_BONDS = 1
    SEC_PARAM_BOND = 1
PROPERTIES
    PairingAnswered
    ConnectableAgain
CHECK_DEADLOCK FALSE
