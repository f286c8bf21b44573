SPECIFICATION Spec
CONSTANTS
    Cmd <- MCCmd
    NoCmd = NoCmd
    MAX_TRIES = 1
    MaxPending = 2
    MaxTalk = 0
INVARIANTS
    ServerOn
