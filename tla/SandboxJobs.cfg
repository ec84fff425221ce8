SPECIFICATION FairSpec
CONSTANTS
    Job = {j1, j2}
    Request = {q1}
    Loop = Loop
    NoJob = NoJob
INVARIANT JobsInvariant
INVARIANT ListIsTold
PROPERTY JobsEnd
CHECK_DEADLOCK FALSE
