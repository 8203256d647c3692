SPECIFICATION FairHttpSpec
CONSTANTS
    Call <- Calls
    Host = {"A", "B", "C"}
    Literal = {"C"}
    CallDeadline <- Deadlines
    RunDeadline = 3
    MaxAttempts = 2
    MaxRedirects = 1
    BaseDelay = 1
    MaxRetryDelay = 1
    MaxJitter = 1
    MaxTime = 3
    NoCall = NoCall
INVARIANTS ResponseIsTimelyAndPinned SendsAreBounded OneResolverThread
PROPERTIES EveryCallEnds
CHECK_DEADLOCK FALSE
