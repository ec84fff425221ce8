SPECIFICATION FairSpec
CONSTANTS
    Watcher = Watcher
    NoFile = NoFile
    NoItem = NoItem
    File = {u1, d1}
    Upload = {u1}
    Bad = {u1}
    Item = {i1, i2}
    Request = {r1}
    MayCrash = FALSE
    MayFail = FALSE
INVARIANT CatalogueMatchesVault
INVARIANT GoneIsOnRecord
PROPERTY BadUploadsAreQuarantined
CHECK_DEADLOCK FALSE
