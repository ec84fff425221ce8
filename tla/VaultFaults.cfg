SPECIFICATION Spec
CONSTANTS
    Watcher = Watcher
    NoFile = NoFile
    NoItem = NoItem
    File = {u1}
    Upload = {u1}
    Bad = {u1}
    Item = {i1, i2}
    Request = {r1, r2}
    MayCrash = TRUE
    MayFail = TRUE
INVARIANT VaultInvariant
PROPERTY CustodyRefined
CHECK_DEADLOCK FALSE
