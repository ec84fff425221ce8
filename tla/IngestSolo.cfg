SPECIFICATION SteadySpec
CONSTANTS
    m1 = m1
    m2 = m2
    m3 = m3
    c1 = c1
    c2 = c2
    i1 = i1
    i2 = i2
    inbox = inbox
    archive = archive
    NoMonitor = NoMonitor
    NoMail = NoMail
    NoFolder = NoFolder
    NoId = NoId
    Rank <- InboxFirst
    Monitor = {api}
    Config = {c1, c2}
    ConfigOf <- TwoMailboxes
    Folder = {inbox}
    FolderOf <- AllInbox
    UidOf <- OwnUid
    MsgIdOf <- CopiesShareId
    Mail = {m1, m2, m3}
    Dangerous = {m1, m3}
    Faulty = {m3}
    MayCrash = FALSE
PROPERTY EveryMessageIsRecorded
INVARIANT NoClaimedMailIsLost
INVARIANT CountersExactAtRest
