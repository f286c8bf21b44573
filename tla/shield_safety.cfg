SPECIFICATION Spec
CONSTANTS
    a1 = a1
    a2 = a2
    r = r
    NoAddr = NoAddr
    ZeroAddr = ZeroAddr
    torn = torn
    Cleared <- MCCleared
    Addr <- SmallAddr
    Rpa <- MCRpa
    Identity <- SmallIdentity
    Ediv = {7}
    EvtQueueLen = 3
    MAX_BONDS = 2
    SEC_PARAM_BOND = 1
INVARIANTS
    IInv
    ConnectedFindsFreeInstance
    InstanceFollowsLink
    AuthStatusFindsPeer
    KeysetIsOfConnection
PROPERTIES
    ImplementsStore
    RequestReplied
CHECK_DEADLOCK FALSE
