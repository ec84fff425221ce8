SPECIFICATION Spec
CONSTANTS
    m1 = m1
    m2 = m2
    m3 = m3
    c1 = c1
    c2 = c2
    i1 = i1
    i2 = i2
    inbox = inbox
    archive = archive
    NoMonitor = NoMonitor
    NoMail = NoMail
    NoFolder = NoFolder
    NoId = NoId
    Rank <- InboxFirst
    Monitor = {api, worker}
    Config = {c1}
    ConfigOf <- OneMailbox
    Mail = {m1, m2}
    Folder = {inbox, archive}
    FolderOf <- TwoFolders
    UidOf <- SameUid
    MsgIdOf <- OneHeader
    Dangerous = {m2}
    Faulty = {m2}
    MayCrash = TRUE
SYMMETRY LoopsAreAlike
INVARIANT IngestInvariant
INVARIANT CountersNeverOverstate
INVARIANT AnnouncedAreRecorded
PROPERTY LedgerRefined
