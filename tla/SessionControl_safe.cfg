CONSTANTS
    c1 = c1
    Calls <- OneCall
    Verbs <- AllVerbs
    MaxCalls = 1
    Deltas <- CleanOrDirty
SPECIFICATION FairSpec
INVARIANTS
    CompletedIsProved
    BlockedHasReason
PROPERTIES
    EveryCallReturns
CHECK_DEADLOCK FALSE
