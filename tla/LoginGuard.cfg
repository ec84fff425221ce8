SPECIFICATION GuardSpec
CONSTANTS
    anne = anne
    anNE = anNE
    Anne = Anne
    Never = Never
    Thread = {t1, t2}
    Name = {anne, anNE, Anne}
    Fold <- LowerCase
    DbFold <- LowerAscii
    MaxAttempts = 2
    Window = 2
    Lockout = 1
    MaxTime = 4
    MaxListed = 3
SYMMETRY Threads
INVARIANT GuardInvariant
INVARIANT LockoutIsExact
INVARIANT AccountsAreDistinct
CHECK_DEADLOCK FALSE
