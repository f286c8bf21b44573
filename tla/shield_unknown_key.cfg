SPECIFICATION Spec
CONSTANTS
    a1 = a1
    a2 = a2
    r = r
    NoAddr = NoAddr
    ZeroAddr = ZeroAddr
    torn = torn
    Cleared <- MCCleared
    Addr <- MCAddr
    Rpa <- MCRpa
    Identity <- MCIdentity
    Ediv <- MCEdiv
    EvtQueueLen = 2
    MAX_BONDS = 2
    SEC_PARAM_BOND = 0
INVARIANTS
    EncryptionKeyInTable
CHECK_DEADLOCK FALSE
