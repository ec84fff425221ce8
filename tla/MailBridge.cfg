SPECIFICATION BridgeSpec
CONSTANTS
    MaxUid = 6
    MsgId <- CopyOfSecond
    NoSource = {4}
    Poison = {6}
    SyncLimit = 3
    MaxStored = 2
    MaxFaults = 1
    other = other
    Owner = Owner
    Account = {Owner, other}
    Polled <- PolledMC
    UidIn <- UidInMC
    InMail <- InMailMC
    Nothing = Nothing
INVARIANT SyncInvariant
INVARIANT NoGap
INVARIANT BridgeInvariant
INVARIANT SafeIsDetermined
INVARIANT ClaimedAreRecorded
PROPERTY ArrivedAreImported
PROPERTY PolledAreRecorded
CHECK_DEADLOCK FALSE
