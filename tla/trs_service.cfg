SPECIFICATION FairSpec
CONSTANTS
    EvtQueueLen = 4
INVARIANTS
    IInv
    SubscriptionKnown
PROPERTIES
    GoneCentralMovesNothing
    AnswerGetsThrough
    RequestAnswered
CHECK_DEADLOCK FALSE
