SPECIFICATION Spec
CONSTANTS
    public = public
    dmz = dmz
    out = out
    server = server
    web = web
    telnet = telnet
    r1 = r1
    r2 = r2
    Unknown = Unknown
    Ip = {out, server}
    Zone = {public, dmz}
    Service = {web, telnet}
    RuleList <- RuleListMC
    Covers <- CoversMC
    Src <- SrcMC
    Dst <- DstMC
    Matches <- MatchesMC
    Allows <- AllowsMC
    Priority <- PriorityMC
    Ceiling = 999
    Deny = {dmz}
    Pairs <- PairsMC
    Saver = {t1, t2}
    MaxLog = 1
    MaxEvents = 1
SYMMETRY Threads
INVARIANT FirewallInvariant
INVARIANT PassageIsPermitted
INVARIANT SettingsSurvive
CHECK_DEADLOCK FALSE
