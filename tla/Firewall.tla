------------------------------ MODULE Firewall ------------------------------
(***************************************************************************)
(* The zone firewall, services/firewall_service.py: decisions on           *)
(* connections, the blacklist, the statistics, the configuration and its   *)
(* file.                                                                   *)
(*                                                                         *)
(* Everything in memory changes under _firewall_lock, so each operation is *)
(* one step.  The file is not: every change of the configuration starts a  *)
(* thread that reads the file, puts the configuration in and writes it     *)
(* back, and nothing orders these threads.  Of the file the module keeps   *)
(* whether a restart would load what memory holds.  Names, addresses and   *)
(* ports are reduced to what the decision makes of them: the zones that    *)
(* cover an address and the traffic a rule applies to.                     *)
(***************************************************************************)
EXTENDS Integers, Sequences, SequencesExt

CONSTANTS
    Ip,          \* addresses
    Zone,        \* zones
    Service,     \* kinds of traffic: protocol and target port
    RuleList,    \* the inter-zone rules, in the order of the list
    Covers,      \* zones of each address, the most specific first
    Src, Dst,    \* zones a rule is about
    Matches,     \* traffic it applies to
    Allows,      \* whether it allows it
    Priority,    \* its priority, the least counting first
    Ceiling,     \* 999: a rule of this priority or a greater one is never found
    Deny,        \* zones whose default policy is "deny"
    Pairs,       \* pairs of zones with a counter of refusals of their own
    Unknown,     \* the zone of an address that no zone covers
    Saver,       \* threads that save; bound: changes being saved at once
    MaxLog,      \* entries the log keeps
    MaxEvents    \* bound: connections, and refusals, since the last reset

Rule == ToSet(RuleList)

ASSUME FirewallAssumption ==
    /\ RuleList \in Seq(Rule)
    /\ Covers \in [Ip -> Seq(Zone)]
    /\ Src \in [Rule -> Zone]
    /\ Dst \in [Rule -> Zone]
    /\ Matches \in [Rule -> SUBSET Service]
    /\ Allows \in [Rule -> BOOLEAN]
    /\ Priority \in [Rule -> Nat]
    /\ Ceiling \in Nat
    /\ Deny \subseteq Zone
    /\ Pairs \subseteq Zone \X Zone
    /\ Unknown \notin Zone
    /\ MaxLog \in Nat
    /\ MaxEvents \in Nat

VARIABLES
    on,          \* _enabled
    zone, rule,  \* each zone and rule: "on", "off" or "gone" from its list
    blocked,     \* addresses in _blocked_ips
    stats,       \* _stats
    log,         \* length of _connection_log
    saver,       \* where each thread stands
    fresh,       \* threads whose copy of the configuration is up to date
    mixed,       \* threads whose writing has overlapped another's
    file,        \* "current" if a restart loads what memory holds, else "stale" or "torn"
    spoilt       \* history: saves have overlapped, or a thread was killed writing

vars == <<on, zone, rule, blocked, stats, log, saver, fresh, mixed, file, spoilt>>

config == <<on, zone, rule>>
traffic == <<blocked, stats, log>>
saving == <<saver, fresh, mixed, file, spoilt>>

Presence == {"on", "off", "gone"}

TypeOK ==
    /\ on \in BOOLEAN
    /\ zone \in [Zone -> Presence]
    /\ rule \in [Rule -> Presence]
    /\ blocked \subseteq Ip
    /\ stats \in [connections : Nat, allowed : Nat, blocked : Nat, intra : Nat, pairs : Nat]
    /\ log \in 0 .. MaxLog
    /\ saver \in [Saver -> {"idle", "read", "open", "write"}]
    /\ fresh \subseteq Saver
    /\ mixed \subseteq Saver
    /\ file \in {"current", "stale", "torn"}
    /\ spoilt \in BOOLEAN

NoStats == [connections |-> 0, allowed |-> 0, blocked |-> 0, intra |-> 0, pairs |-> 0]

AllOn(S) == [x \in S |-> "on"]

\* The first start finds no file, and saves the defaults before it goes on.
Init ==
    /\ on = TRUE
    /\ zone = AllOn(Zone)
    /\ rule = AllOn(Rule)
    /\ blocked = {}
    /\ stats = NoStats
    /\ log = 0
    /\ saver = [t \in Saver |-> "idle"]
    /\ fresh = {}
    /\ mixed = {}
    /\ file = "current"
    /\ spoilt = FALSE

-----------------------------------------------------------------------------
(* The decision.                                                           *)

\* The most specific of the enabled zones that cover an address.
ZoneOf(a) ==
    LET known == {i \in DOMAIN Covers[a] : zone[Covers[a][i]] = "on"}
    IN  IF known = {} THEN Unknown ELSE Covers[a][Min(known)]

Applies(r, s, d, k) == rule[r] = "on" /\ Src[r] = s /\ Dst[r] = d /\ k \in Matches[r]

\* The priority a rule must be below to replace the best one so far.
Bar(best) == IF best = <<>> THEN Ceiling ELSE Priority[best[1]]

\* Mutant: among rules of one priority the last of the list wins.
Better_Last(r, best) == Priority[r] <= Bar(best)

Better(r, best) == Priority[r] < Bar(best)

\* The rule for traffic k from zone s to zone d, as a sequence of one or none: the
\* best one among the first i rules is kept from turn to turn of the loop.
FindRule(s, d, k) ==
    LET best[i \in 0 .. Len(RuleList)] ==
            IF i = 0 THEN <<>>
            ELSE IF Applies(RuleList[i], s, d, k) /\ Better(RuleList[i], best[i - 1])
                 THEN <<RuleList[i]>>
                 ELSE best[i - 1]
    IN  best[Len(RuleList)]

\* check_connection: what it answers and which counter it bumps.
Decision(a, b, k) ==
    LET s == ZoneOf(a)
        d == ZoneOf(b)
        best == FindRule(s, d, k)
    IN  CASE ~on                               -> "allowed"
          [] on /\ a \in blocked               -> "blocked"
          [] on /\ a \notin blocked /\ s = d   -> "intra"
          [] OTHER ->
               IF best # <<>>
               THEN IF Allows[best[1]] THEN "allowed" ELSE "blocked"
               ELSE IF d = Unknown \/ d \in Deny THEN "blocked" ELSE "allowed"

Logged == log' = IF log < MaxLog THEN log + 1 ELSE log

\* Mutant: a refusal on account of the blacklist is not counted.
Count_Silent(a, b, verdict) ==
    stats' = IF verdict = "blocked" /\ a \in blocked
             THEN [stats EXCEPT !.connections = @ + 1]
             ELSE [stats EXCEPT !.connections = @ + 1, ![verdict] = @ + 1]

Count(a, b, verdict) ==
    stats' = [stats EXCEPT
                !.connections = @ + 1,
                ![verdict] = @ + 1,
                !.pairs = IF verdict = "blocked" /\ <<ZoneOf(a), ZoneOf(b)>> \in Pairs
                          THEN @ + 1 ELSE @]

\* A connection from a to b is checked; a refusal puts a on the blacklist.
CheckConnection(a, b, k) ==
    LET verdict == Decision(a, b, k)
    IN  /\ stats.connections < MaxEvents
        /\ stats.blocked < MaxEvents
        /\ Count(a, b, verdict)
        /\ Logged
        /\ blocked' = IF verdict = "blocked" THEN blocked \cup {a} ELSE blocked
        /\ UNCHANGED <<config, saving>>

\* block_ip, for a request or a malicious file: logged and counted as a refusal
\* from Public to DMZ.
BlockIp(a) ==
    /\ stats.blocked < MaxEvents
    /\ blocked' = blocked \cup {a}
    /\ stats' = [stats EXCEPT !.blocked = @ + 1, !.pairs = @ + 1]
    /\ Logged
    /\ UNCHANGED <<config, saving>>

UnblockIp(a) ==
    /\ a \in blocked
    /\ blocked' = blocked \ {a}
    /\ UNCHANGED <<config, stats, log, saving>>

\* The log and the statistics are reset together; the blacklist stays.
ClearLog ==
    /\ stats' = NoStats
    /\ log' = 0
    /\ UNCHANGED <<config, blocked, saving>>

-----------------------------------------------------------------------------
(* The configuration and its file.                                         *)

\* A thread is started to save a change; copies made before are out of date.
Save ==
    /\ \E t \in Saver :
           /\ saver[t] = "idle"
           /\ saver' = [saver EXCEPT ![t] = "read"]
    /\ fresh' = {}
    /\ file' = IF file = "current" THEN "stale" ELSE file
    /\ spoilt' = (spoilt \/ \E t \in Saver : saver[t] # "idle")
    /\ UNCHANGED <<mixed, traffic>>

SetEnabled ==
    /\ on' = ~on
    /\ Save
    /\ UNCHANGED <<zone, rule>>

Toggled(p) == IF p = "on" THEN "off" ELSE "on"

ToggleZone(z) ==
    /\ zone[z] # "gone"
    /\ zone' = [zone EXCEPT ![z] = Toggled(@)]
    /\ Save
    /\ UNCHANGED <<on, rule>>

\* toggle_zone of an id that is not there fails after it has started the thread.
ToggleMissingZone ==
    /\ \E z \in Zone : zone[z] = "gone"
    /\ Save
    /\ UNCHANGED config

DeleteZone(z) ==
    /\ zone[z] # "gone"
    /\ zone' = [zone EXCEPT ![z] = "gone"]
    /\ Save
    /\ UNCHANGED <<on, rule>>

ToggleRule(r) ==
    /\ rule[r] # "gone"
    /\ rule' = [rule EXCEPT ![r] = Toggled(@)]
    /\ Save
    /\ UNCHANGED <<on, zone>>

DeleteRule(r) ==
    /\ rule[r] # "gone"
    /\ rule' = [rule EXCEPT ![r] = "gone"]
    /\ Save
    /\ UNCHANGED <<on, zone>>

\* Zones and rules can be added; here, one that was deleted.
Add ==
    /\ \/ \E z \in Zone : zone[z] = "gone" /\ zone' = [zone EXCEPT ![z] = "on"] /\ UNCHANGED rule
       \/ \E r \in Rule : rule[r] = "gone" /\ rule' = [rule EXCEPT ![r] = "on"] /\ UNCHANGED zone
    /\ Save
    /\ UNCHANGED on

\* The thread reads the file, which must be readable, and takes a copy of the
\* configuration.
SaverReads(t) ==
    /\ saver[t] = "read"
    /\ saver' = [saver EXCEPT ![t] = IF file = "torn" THEN "idle" ELSE "open"]
    /\ fresh' = IF file = "torn" THEN fresh ELSE fresh \cup {t}
    /\ UNCHANGED <<config, traffic, mixed, file, spoilt>>

Writing == {t \in Saver : saver[t] = "write"}

\* It opens the file for writing, which empties it.
SaverOpens(t) ==
    /\ saver[t] = "open"
    /\ saver' = [saver EXCEPT ![t] = "write"]
    /\ file' = "torn"
    /\ mixed' = IF Writing = {} THEN mixed ELSE mixed \cup Writing \cup {t}
    /\ UNCHANGED <<config, traffic, fresh, spoilt>>

\* Mutant: the copy is taken before the change it is to save.
Written_Old(t) == {"stale"}

\* It writes its copy, in which a change made meanwhile shows or not; what two
\* threads write at once may be no settings at all.
Written(t) ==
    {IF t \in fresh THEN "current" ELSE "stale"}
        \cup (IF t \in fresh THEN {} ELSE {"current"})
        \cup (IF t \in mixed THEN {"torn"} ELSE {})

SaverWrites(t) ==
    /\ saver[t] = "write"
    /\ saver' = [saver EXCEPT ![t] = "idle"]
    /\ fresh' = fresh \ {t}
    /\ mixed' = mixed \ {t}
    /\ file' \in Written(t)
    /\ UNCHANGED <<config, traffic, spoilt>>

\* A list that has been emptied is loaded as the default one.
Loaded(f) == IF \A x \in DOMAIN f : f[x] = "gone" THEN [x \in DOMAIN f |-> "on"] ELSE f

\* The process ends, with the threads, and a new one loads the file: what was
\* saved, some earlier configuration, or the defaults if it cannot be read.
Restart ==
    /\ \/ /\ file = "current"
          /\ on' = on
          /\ zone' = Loaded(zone)
          /\ rule' = Loaded(rule)
          /\ file' = "current"
       \/ /\ file = "stale"
          /\ on' \in BOOLEAN
          /\ \E z \in [Zone -> Presence], r \in [Rule -> Presence] :
                 zone' = Loaded(z) /\ rule' = Loaded(r)
          /\ file' = "current"
       \/ /\ file = "torn"
          /\ on' = TRUE
          /\ zone' = AllOn(Zone)
          /\ rule' = AllOn(Rule)
          /\ file' = "torn"
    /\ blocked' = {}
    /\ stats' = NoStats
    /\ log' = 0
    /\ saver' = [t \in Saver |-> "idle"]
    /\ fresh' = {}
    /\ mixed' = {}
    /\ spoilt' = (spoilt \/ Writing # {})

Next ==
    \/ \E a, b \in Ip, k \in Service : CheckConnection(a, b, k)
    \/ \E a \in Ip : BlockIp(a) \/ UnblockIp(a)
    \/ ClearLog
    \/ SetEnabled
    \/ \E z \in Zone : ToggleZone(z) \/ DeleteZone(z)
    \/ ToggleMissingZone
    \/ \E r \in Rule : ToggleRule(r) \/ DeleteRule(r)
    \/ Add
    \/ \E t \in Saver : SaverReads(t) \/ SaverOpens(t) \/ SaverWrites(t)
    \/ Restart

Spec == Init /\ [][Next]_vars

-----------------------------------------------------------------------------
(* Properties.                                                             *)

Least(a, b) == IF a < b THEN a ELSE b

\* The counters of one decision, spread over the branches, and the log agree:
\* every logged event was allowed, blocked or within a zone, connections are
\* among them, and refusals between two zones are among the refusals.
CountersAgree ==
    LET decided == stats.allowed + stats.blocked + stats.intra
    IN  /\ log = Least(MaxLog, decided)
        /\ stats.connections <= decided
        /\ stats.allowed + stats.intra <= stats.connections
        /\ stats.pairs <= stats.blocked

FirewallInvariant == TypeOK /\ CountersAgree

\* While the firewall is on, traffic between two zones passes only from an address
\* that is not blacklisted, and only if the first of the enabled rules that apply
\* (by priority, then by place) allows it, or there is none and the destination
\* is a zone that is open by default.  Whatever is switched off, deleted, blocked
\* and unblocked before.
PassageIsPermitted ==
    \A a, b \in Ip, k \in Service :
        on /\ ZoneOf(a) # ZoneOf(b) /\ Decision(a, b, k) = "allowed" =>
            LET n == Len(RuleList)
                apply == {i \in 1 .. n : /\ Applies(RuleList[i], ZoneOf(a), ZoneOf(b), k)
                                         /\ Priority[RuleList[i]] < Ceiling}
            IN  /\ a \notin blocked
                /\ \A z \in {ZoneOf(a), ZoneOf(b)} \ {Unknown} : zone[z] = "on"
                /\ \/ \E i \in apply :
                          /\ Allows[RuleList[i]]
                          /\ \A j \in apply \ {i} :
                                 \/ Priority[RuleList[i]] < Priority[RuleList[j]]
                                 \/ Priority[RuleList[i]] = Priority[RuleList[j]] /\ i < j
                   \/ apply = {} /\ ZoneOf(b) \in Zone \ Deny

\* Once the threads are done the file holds the configuration in force, unless two
\* saves have overlapped or a thread was killed while writing.  (A restart loads
\* it, but for a list that has been emptied: see Loaded.)
SettingsSurvive ==
    ~spoilt /\ (\A t \in Saver : saver[t] = "idle") => file = "current"
=============================================================================
