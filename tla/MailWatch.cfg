SPECIFICATION FairSpec
CONSTANTS
    NoCall = 0
    Call = {1, 2, 3, 4, 5, 6}
INVARIANT WatchInvariant
INVARIANT SequentialCalls
PROPERTY StopIsFinal
PROPERTY StartIsFinal
PROPERTY CallsReturn
ACTION_CONSTRAINT CallsInOrder
CHECK_DEADLOCK FALSE
