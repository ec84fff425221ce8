---------------------------- MODULE AccessProofs ----------------------------
(* Proofs about the two gates: Firewall, for every set of zones, rules,    *)
(* addresses and threads that save, and LoginGuard, for every set of names *)
(* and threads, every limit and window, and every bound.                   *)
EXTENDS Firewall, LoginGuard, SequenceTheorems, FiniteSetTheorems, WellFoundedInduction,
        NaturalsInduction, TLAPS

-----------------------------------------------------------------------------
(* Firewall: the inductive invariant.                                      *)

Busy(t) == saver[t] # "idle"

\* Until two saves overlap, one thread at most is saving; its copy is up to date
\* once it is made; only its writing makes the file unreadable; and when it is done
\* the file is current.
SavesInTurn ==
    ~spoilt =>
        /\ \A t, u \in Saver : Busy(t) /\ Busy(u) => t = u
        /\ \A t \in Saver : saver[t] \in {"open", "write"} => t \in fresh
        /\ mixed = {}
        /\ file = "torn" => Writing # {}
        /\ (\A t \in Saver : ~Busy(t)) => file = "current"

IInv == FirewallInvariant /\ SavesInTurn

LEMMA InitIInv == Init => IInv
<1> SUFFICES ASSUME Init PROVE IInv
  OBVIOUS
<1>1. TypeOK
  <2>1. on \in BOOLEAN /\ spoilt \in BOOLEAN
    BY DEF Init
  <2>2. NoStats \in [connections : Nat, allowed : Nat, blocked : Nat, intra : Nat, pairs : Nat]
    BY DEF NoStats
  <2>3. QED
    BY <2>1, <2>2, FirewallAssumption DEF FirewallAssumption, Init, TypeOK, AllOn, Presence
<1>2. CountersAgree
  BY FirewallAssumption DEF FirewallAssumption, Init, CountersAgree, NoStats, Least
<1>3. SavesInTurn
  BY DEF Init, SavesInTurn, Busy
<1>4. QED
  BY <1>1, <1>2, <1>3 DEF IInv, FirewallInvariant

-----------------------------------------------------------------------------
(* The statistics.                                                         *)

\* The answer of a check names the counter it bumps.
LEMMA DecisionIsCounted ==
    ASSUME NEW a, NEW b, NEW k
    PROVE  Decision(a, b, k) \in {"allowed", "blocked", "intra"}
<1> DEFINE s == ZoneOf(a)
           d == ZoneOf(b)
           best == FindRule(s, d, k)
           word == IF best # <<>>
                   THEN IF Allows[best[1]] THEN "allowed" ELSE "blocked"
                   ELSE IF d = Unknown \/ d \in Deny THEN "blocked" ELSE "allowed"
<1>1. Decision(a, b, k) =
          CASE ~on                               -> "allowed"
            [] on /\ a \in blocked               -> "blocked"
            [] on /\ a \notin blocked /\ s = d   -> "intra"
            [] OTHER                             -> word
  BY DEF Decision
<1>2. word \in {"allowed", "blocked"}
  OBVIOUS
<1> HIDE DEF word, s, d
<1>3. QED
  BY <1>1, <1>2

Counters == [connections : Nat, allowed : Nat, blocked : Nat, intra : Nat, pairs : Nat]

LEMMA CountersType ==
    ASSUME NEW s \in Counters, NEW n \in Nat, NEW m \in Nat, NEW q \in Nat,
           NEW v \in {"allowed", "blocked", "intra"}
    PROVE  /\ [s EXCEPT !.connections = n, ![v] = m, !.pairs = q] \in Counters
           /\ [s EXCEPT !.blocked = n, !.pairs = m] \in Counters
  BY DEF Counters

LEMMA CountersAreNaturals ==
    ASSUME NEW s \in Counters
    PROVE  /\ s.connections \in Nat /\ s.allowed \in Nat /\ s.blocked \in Nat
           /\ s.intra \in Nat /\ s.pairs \in Nat
           /\ s["allowed"] = s.allowed /\ s["blocked"] = s.blocked /\ s["intra"] = s.intra
  BY DEF Counters

\* The log and the counters agree after an event too: something is decided, and a
\* connection is among what is decided, a refusal between zones among the refusals.
LEMMA AgreeStep ==
    ASSUME CountersAgree, stats \in Counters, stats' \in Counters, log \in Nat, Logged,
           stats'.allowed + stats'.blocked + stats'.intra
               = stats.allowed + stats.blocked + stats.intra + 1,
           \/ /\ stats'.connections = stats.connections + 1
              /\ stats'.allowed + stats'.intra <= stats.allowed + stats.intra + 1
           \/ /\ stats'.connections = stats.connections
              /\ stats'.allowed + stats'.intra <= stats.allowed + stats.intra,
           stats'.pairs - stats.pairs <= stats'.blocked - stats.blocked
    PROVE  log' \in 0 .. MaxLog /\ CountersAgree'
<1>1. /\ stats.connections \in Nat /\ stats.allowed \in Nat /\ stats.blocked \in Nat
      /\ stats.intra \in Nat /\ stats.pairs \in Nat
      /\ stats'.connections \in Nat /\ stats'.allowed \in Nat /\ stats'.blocked \in Nat
      /\ stats'.intra \in Nat /\ stats'.pairs \in Nat
  BY CountersAreNaturals
<1>2. MaxLog \in Nat
  BY FirewallAssumption DEF FirewallAssumption
<1>3. log' = IF log < MaxLog THEN log + 1 ELSE log
  BY DEF Logged
<1> DEFINE d == stats.allowed + stats.blocked + stats.intra
           e == stats'.allowed + stats'.blocked + stats'.intra
<1>4. d \in Nat /\ e = d + 1 /\ log = Least(MaxLog, d)
  BY <1>1 DEF CountersAgree
<1>5. log' \in 0 .. MaxLog /\ log' = Least(MaxLog, e)
  <2> HIDE DEF d, e
  <2>1. QED
    BY <1>2, <1>3, <1>4 DEF Least
<1>6. stats'.connections <= e
  BY <1>1, <1>4 DEF CountersAgree
<1>7. stats'.allowed + stats'.intra <= stats'.connections /\ stats'.pairs <= stats'.blocked
  BY <1>1 DEF CountersAgree
<1>8. QED
  BY <1>5, <1>6, <1>7 DEF CountersAgree

\* A connection that is checked keeps the log and the counters in agreement.
LEMMA CheckStep ==
    ASSUME TypeOK, CountersAgree,
           NEW a \in Ip, NEW b \in Ip, NEW k \in Service, CheckConnection(a, b, k)
    PROVE  stats' \in Counters /\ log' \in 0 .. MaxLog /\ CountersAgree'
<1>0. stats \in Counters /\ log \in Nat
  BY DEF TypeOK, Counters
<1>1. PICK v \in {"allowed", "blocked", "intra"} : Count(a, b, v)
  BY DecisionIsCounted DEF CheckConnection
<1> DEFINE c == v = "blocked" /\ <<ZoneOf(a), ZoneOf(b)>> \in Pairs
           n == stats.connections + 1
           m == stats[v] + 1
           q == IF c THEN stats.pairs + 1 ELSE stats.pairs
<1>2. stats' = [stats EXCEPT !.connections = n, ![v] = m, !.pairs = q]
  BY <1>0, <1>1 DEF Count, Counters
<1>3. c => v = "blocked"
  OBVIOUS
<1> HIDE DEF c
<1>4. n \in Nat /\ m \in Nat /\ q \in Nat
  BY <1>0, CountersAreNaturals
<1>5. /\ stats' \in Counters
      /\ stats'.connections = n
      /\ stats'.pairs = q
      /\ stats'.allowed = IF v = "allowed" THEN m ELSE stats.allowed
      /\ stats'.blocked = IF v = "blocked" THEN m ELSE stats.blocked
      /\ stats'.intra = IF v = "intra" THEN m ELSE stats.intra
  <2> HIDE DEF n, m, q
  <2>1. stats' \in Counters
    BY <1>0, <1>2, <1>4, CountersType
  <2>2. QED
    BY <1>0, <1>2, <2>1 DEF Counters
<1>6. /\ stats'.allowed + stats'.blocked + stats'.intra
             = stats.allowed + stats.blocked + stats.intra + 1
      /\ stats'.connections = stats.connections + 1
      /\ stats'.allowed + stats'.intra <= stats.allowed + stats.intra + 1
      /\ stats'.pairs - stats.pairs <= stats'.blocked - stats.blocked
  <2>1. CASE v = "allowed"
    BY <1>0, <1>3, <1>5, <2>1, CountersAreNaturals
  <2>2. CASE v = "blocked"
    BY <1>0, <1>5, <2>2, CountersAreNaturals
  <2>3. CASE v = "intra"
    BY <1>0, <1>3, <1>5, <2>3, CountersAreNaturals
  <2>4. QED
    BY <2>1, <2>2, <2>3
<1>7. Logged
  BY DEF CheckConnection
<1>8. QED
  BY <1>0, <1>5, <1>6, <1>7, AgreeStep

\* So does an address that is blocked.
LEMMA BlockStep ==
    ASSUME TypeOK, CountersAgree, NEW a \in Ip, BlockIp(a)
    PROVE  stats' \in Counters /\ log' \in 0 .. MaxLog /\ CountersAgree'
<1>0. stats \in Counters /\ log \in Nat
  BY DEF TypeOK, Counters
<1> DEFINE n == stats.blocked + 1
           m == stats.pairs + 1
<1>1. stats' = [stats EXCEPT !.blocked = n, !.pairs = m]
  BY <1>0 DEF BlockIp, Counters
<1>2. n \in Nat /\ m \in Nat
  BY <1>0, CountersAreNaturals
<1>3. /\ stats' \in Counters
      /\ stats'.connections = stats.connections /\ stats'.allowed = stats.allowed
      /\ stats'.intra = stats.intra /\ stats'.blocked = n /\ stats'.pairs = m
  <2> HIDE DEF n, m
  <2>1. stats' \in Counters
    BY <1>0, <1>1, <1>2, CountersType
  <2>2. QED
    BY <1>0, <1>1, <2>1 DEF Counters
<1>4. /\ stats'.allowed + stats'.blocked + stats'.intra
             = stats.allowed + stats.blocked + stats.intra + 1
      /\ stats'.allowed + stats'.intra <= stats.allowed + stats.intra
      /\ stats'.pairs - stats.pairs <= stats'.blocked - stats.blocked
  BY <1>0, <1>3, CountersAreNaturals
<1>5. Logged
  BY DEF BlockIp
<1>6. QED
  BY <1>0, <1>3, <1>4, <1>5, AgreeStep

-----------------------------------------------------------------------------
(* The configuration and its file.                                         *)

\* Starting a thread keeps saves in turn, or notes that they are not.
LEMMA SaveStep ==
    ASSUME TypeOK, SavesInTurn, Save
    PROVE  /\ saver' \in [Saver -> {"idle", "read", "open", "write"}]
           /\ fresh' = {} /\ mixed' = mixed /\ file' \in {"current", "stale", "torn"}
           /\ spoilt' \in BOOLEAN
           /\ SavesInTurn'
<1>1. PICK t \in Saver : saver[t] = "idle" /\ saver' = [saver EXCEPT ![t] = "read"]
  BY DEF Save
<1>2. spoilt' = (spoilt \/ \E u \in Saver : saver[u] # "idle")
  BY DEF Save
<1>3. spoilt' \in BOOLEAN
  BY <1>2, Zenon
<1>4. fresh' = {} /\ mixed' = mixed /\ file' = IF file = "current" THEN "stale" ELSE file
  BY DEF Save
<1>5. saver' \in [Saver -> {"idle", "read", "open", "write"}]
  BY <1>1 DEF TypeOK
<1>6. SavesInTurn'
  <2> SUFFICES ASSUME ~spoilt' PROVE SavesInTurn'
    BY DEF SavesInTurn
  <2>1. ~spoilt /\ \A u \in Saver : saver[u] = "idle"
    BY <1>2
  <2>2. file = "current" /\ mixed = {}
    BY <2>1 DEF SavesInTurn, Busy
  <2>3. \A u \in Saver : saver'[u] = IF u = t THEN "read" ELSE "idle"
    BY <1>1, <2>1 DEF TypeOK
  <2>4. QED
    BY <1>4, <2>2, <2>3 DEF SavesInTurn, Busy
<1>7. QED
  BY <1>3, <1>4, <1>5, <1>6 DEF TypeOK

LEMMA LoadedType ==
    ASSUME NEW S, NEW f \in [S -> Presence]
    PROVE  Loaded(f) \in [S -> Presence]
  BY DEF Loaded, Presence

\* A restart loads a configuration and starts without any thread.
LEMMA RestartStep ==
    ASSUME IInv, Restart
    PROVE  TypeOK' /\ CountersAgree' /\ SavesInTurn'
<1> USE FirewallAssumption DEF FirewallAssumption
<1>0. TypeOK /\ SavesInTurn
  BY DEF IInv, FirewallInvariant
<1>1. on' \in BOOLEAN
  BY <1>0, Zenon DEF Restart, TypeOK
<1>2. zone' \in [Zone -> Presence] /\ rule' \in [Rule -> Presence]
  <2>1. AllOn(Zone) \in [Zone -> Presence] /\ AllOn(Rule) \in [Rule -> Presence]
    BY DEF AllOn, Presence
  <2>2. PICK z \in [Zone -> Presence], r \in [Rule -> Presence] :
            \/ zone' = Loaded(z) /\ rule' = Loaded(r)
            \/ zone' = AllOn(Zone) /\ rule' = AllOn(Rule)
    <3>1. zone \in [Zone -> Presence] /\ rule \in [Rule -> Presence]
      BY <1>0 DEF TypeOK
    <3>2. \/ zone' = Loaded(zone) /\ rule' = Loaded(rule)
          \/ \E z \in [Zone -> Presence], r \in [Rule -> Presence] :
                 zone' = Loaded(z) /\ rule' = Loaded(r)
          \/ zone' = AllOn(Zone) /\ rule' = AllOn(Rule)
      BY DEF Restart
    <3>3. QED
      BY <3>1, <3>2, Zenon
  <2>3. Loaded(z) \in [Zone -> Presence] /\ Loaded(r) \in [Rule -> Presence]
    BY LoadedType
  <2>4. QED
    BY <2>1, <2>2, <2>3
<1>3. spoilt' = (spoilt \/ Writing # {})
  BY DEF Restart
<1>4. spoilt' \in BOOLEAN
  BY <1>3, Zenon
<1>5. blocked' = {} /\ stats' = NoStats /\ log' = 0 /\ fresh' = {} /\ mixed' = {}
      /\ saver' = [t \in Saver |-> "idle"]
  BY DEF Restart
<1>6. file' = IF file = "torn" THEN "torn" ELSE "current"
  BY <1>0 DEF Restart, TypeOK
<1>7. TypeOK'
  BY <1>1, <1>2, <1>4, <1>5, <1>6 DEF TypeOK, NoStats
<1>8. CountersAgree'
  BY <1>5 DEF CountersAgree, NoStats, Least
<1>9. SavesInTurn'
  BY <1>0, <1>3, <1>5, <1>6 DEF SavesInTurn, Busy
<1>10. QED
  BY <1>7, <1>8, <1>9

\* Every step keeps the invariant.
LEMMA IInvStep == IInv /\ [Next]_vars => IInv'
<1> SUFFICES ASSUME IInv, [Next]_vars PROVE TypeOK' /\ CountersAgree' /\ SavesInTurn'
  BY DEF IInv, FirewallInvariant
<1>0. TypeOK /\ CountersAgree /\ SavesInTurn
  BY DEF IInv, FirewallInvariant
<1> USE FirewallAssumption DEF FirewallAssumption, config, traffic, saving
<1>1. ASSUME \/ \E a, b \in Ip, k \in Service : CheckConnection(a, b, k)
             \/ \E a \in Ip : BlockIp(a)
      PROVE TypeOK' /\ CountersAgree' /\ SavesInTurn'
  <2>1. UNCHANGED <<config, saving>> /\ blocked' \subseteq Ip
    BY <1>0, <1>1 DEF CheckConnection, BlockIp, TypeOK
  <2>2. stats' \in Counters /\ log' \in 0 .. MaxLog /\ CountersAgree'
    BY <1>0, <1>1, CheckStep, BlockStep
  <2>3. QED
    BY <1>0, <2>1, <2>2 DEF TypeOK, Counters, SavesInTurn, Busy, Writing
<1>2. ASSUME NEW a \in Ip, UnblockIp(a) PROVE TypeOK' /\ CountersAgree' /\ SavesInTurn'
  BY <1>0, <1>2 DEF UnblockIp, TypeOK, CountersAgree, SavesInTurn, Busy, Writing
<1>3. CASE ClearLog
  BY <1>0, <1>3
  DEF ClearLog, TypeOK, NoStats, CountersAgree, Least, SavesInTurn, Busy, Writing
<1>4. ASSUME Save, UNCHANGED traffic,
             on' \in BOOLEAN, zone' \in [Zone -> Presence], rule' \in [Rule -> Presence]
      PROVE TypeOK' /\ CountersAgree' /\ SavesInTurn'
  BY <1>0, <1>4, SaveStep DEF TypeOK, CountersAgree
<1>5. CASE SetEnabled \/ ToggleMissingZone \/ Add
  <2>1. on' \in BOOLEAN
    BY <1>0, <1>5, Zenon DEF SetEnabled, ToggleMissingZone, Add, TypeOK
  <2>2. Save /\ UNCHANGED traffic
    BY <1>5 DEF SetEnabled, ToggleMissingZone, Add, Save
  <2>3. zone' \in [Zone -> Presence] /\ rule' \in [Rule -> Presence]
    <3>1. CASE SetEnabled \/ ToggleMissingZone
      BY <1>0, <3>1 DEF SetEnabled, ToggleMissingZone, TypeOK
    <3>2. CASE Add
      <4>1. zone \in [Zone -> Presence] /\ rule \in [Rule -> Presence]
        BY <1>0 DEF TypeOK
      <4>2. CASE \E z \in Zone : zone' = [zone EXCEPT ![z] = "on"] /\ UNCHANGED rule
        BY <4>1, <4>2 DEF Presence
      <4>3. CASE \E r \in Rule : rule' = [rule EXCEPT ![r] = "on"] /\ UNCHANGED zone
        BY <4>1, <4>3 DEF Presence
      <4>4. QED
        BY <3>2, <4>2, <4>3 DEF Add
    <3>3. QED
      BY <1>5, <3>1, <3>2
  <2>4. QED
    BY <1>4, <2>1, <2>2, <2>3
<1>6. ASSUME NEW z \in Zone, ToggleZone(z) \/ DeleteZone(z)
      PROVE TypeOK' /\ CountersAgree' /\ SavesInTurn'
  <2>1. Save /\ UNCHANGED <<traffic, on, rule>>
    BY <1>6 DEF ToggleZone, DeleteZone, Save
  <2>2. zone' \in [Zone -> Presence]
    BY <1>0, <1>6 DEF ToggleZone, DeleteZone, Toggled, TypeOK, Presence
  <2>3. QED
    BY <1>0, <1>4, <2>1, <2>2 DEF TypeOK
<1>7. ASSUME NEW r \in Rule, ToggleRule(r) \/ DeleteRule(r)
      PROVE TypeOK' /\ CountersAgree' /\ SavesInTurn'
  <2>1. Save /\ UNCHANGED <<traffic, on, zone>>
    BY <1>7 DEF ToggleRule, DeleteRule, Save
  <2>2. rule' \in [Rule -> Presence]
    BY <1>0, <1>7 DEF ToggleRule, DeleteRule, Toggled, TypeOK, Presence
  <2>3. QED
    BY <1>0, <1>4, <2>1, <2>2 DEF TypeOK
<1>8. ASSUME NEW t \in Saver, SaverReads(t) PROVE TypeOK' /\ CountersAgree' /\ SavesInTurn'
  <2>1. TypeOK' /\ CountersAgree'
    BY <1>0, <1>8 DEF SaverReads, TypeOK, CountersAgree
  <2>2. ~spoilt => file # "torn"
    BY <1>0, <1>8 DEF SaverReads, SavesInTurn, Busy, Writing
  <2>3. SavesInTurn'
    BY <1>0, <1>8, <2>2 DEF SaverReads, SavesInTurn, Busy, Writing, TypeOK
  <2>4. QED
    BY <2>1, <2>3
<1>9. ASSUME NEW t \in Saver, SaverOpens(t) PROVE TypeOK' /\ CountersAgree' /\ SavesInTurn'
  <2>1. TypeOK' /\ CountersAgree'
    BY <1>0, <1>9 DEF SaverOpens, TypeOK, CountersAgree, Writing
  <2>2. ~spoilt => Writing = {}
    BY <1>0, <1>9 DEF SaverOpens, SavesInTurn, Busy, Writing
  <2>3. t \in Writing'
    BY <1>0, <1>9 DEF SaverOpens, Writing, TypeOK
  <2>4. SavesInTurn'
    BY <1>0, <1>9, <2>2, <2>3 DEF SaverOpens, SavesInTurn, Busy, TypeOK
  <2>5. QED
    BY <2>1, <2>4
<1>10. ASSUME NEW t \in Saver, SaverWrites(t) PROVE TypeOK' /\ CountersAgree' /\ SavesInTurn'
  <2>1. TypeOK' /\ CountersAgree'
    BY <1>0, <1>10 DEF SaverWrites, Written, TypeOK, CountersAgree
  <2>2. ~spoilt => file' = "current"
    BY <1>0, <1>10 DEF SaverWrites, Written, SavesInTurn, Busy
  <2>3. SavesInTurn'
    BY <1>0, <1>10, <2>2 DEF SaverWrites, SavesInTurn, Busy, TypeOK
  <2>4. QED
    BY <2>1, <2>3
<1>11. CASE Restart
  BY <1>11, RestartStep
<1>12. CASE UNCHANGED vars
  BY <1>0, <1>12 DEF vars, TypeOK, CountersAgree, SavesInTurn, Busy, Writing
<1>13. QED
  BY <1>1, <1>2, <1>3, <1>5, <1>6, <1>7, <1>8, <1>9, <1>10, <1>11, <1>12 DEF Next

LEMMA IInvAlways == Spec => []IInv
<1>1. QED
  BY InitIInv, IInvStep, PTL DEF Spec

\* Whatever is checked, blocked, reset and reconfigured: the counters that the
\* branches of one decision bump agree with each other and with the log.
THEOREM CountersAlwaysAgree == Spec => []FirewallInvariant
<1>1. IInv => FirewallInvariant
  BY DEF IInv
<1>2. QED
  BY <1>1, IInvAlways, PTL

\* For every number of saving threads: once they are done the file holds the
\* configuration in force, unless two saves have overlapped or a thread was killed
\* while writing.
THEOREM SettingsAreSaved == Spec => []SettingsSurvive
<1>1. IInv => SettingsSurvive
  BY DEF IInv, SavesInTurn, SettingsSurvive, Busy
<1>2. QED
  BY <1>1, IInvAlways, PTL

-----------------------------------------------------------------------------
(* The rule that is found.                                                 *)

\* The least of some numbers is one of them, and no other is less.
LEMMA LeastOf == ASSUME NEW S \in SUBSET Nat, S # {} PROVE Min(S) \in S /\ \A y \in S : Min(S) <= y
<1>1. PICK x \in S : \A y \in S : <<y, x>> \notin OpToRel(<, Nat)
  BY NatLessThanWellFounded, WFMin
<1>2. \A y \in S : ~(y < x)
  BY <1>1 DEF OpToRel
<1>3. \A y \in S : x =< y
  BY <1>2
<1>4. QED
  BY <1>3 DEF Min

\* An enabled zone is found for an address, or none.
LEMMA ZoneIsOn ==
    ASSUME NEW a \in Ip
    PROVE  ZoneOf(a) = Unknown \/ (ZoneOf(a) \in Zone /\ zone[ZoneOf(a)] = "on")
<1> DEFINE known == {i \in DOMAIN Covers[a] : zone[Covers[a][i]] = "on"}
<1>1. Covers[a] \in Seq(Zone)
  BY FirewallAssumption DEF FirewallAssumption
<1>2. known \in SUBSET Nat
  BY <1>1
<1>3. CASE known = {}
  BY <1>3 DEF ZoneOf
<1>4. CASE known # {}
  <2>1. Min(known) \in known
    <3> HIDE DEF known
    <3>1. QED
      BY <1>2, <1>4, LeastOf
  <2>2. PICK i \in known : i = Min(known)
    BY <2>1
  <2>3. ZoneOf(a) = Covers[a][i]
    BY <1>4, <2>2 DEF ZoneOf
  <2>4. zone[Covers[a][i]] = "on" /\ i \in DOMAIN Covers[a]
    BY <2>2
  <2>5. Covers[a][i] \in Zone
    <3> DEFINE c == Covers[a]
    <3>1. c \in Seq(Zone) /\ i \in DOMAIN c
      BY <1>1, <2>4
    <3> HIDE DEF c
    <3>2. c[i] \in Zone
      BY <3>1, ElementOfSeq
    <3>3. QED
      BY <3>2 DEF c
  <2>6. QED
    BY <2>3, <2>4, <2>5
<1>5. QED
  BY <1>3, <1>4

Turn(s, d, k, i, best) ==
    IF Applies(RuleList[i], s, d, k) /\ Better(RuleList[i], best) THEN <<RuleList[i]>> ELSE best

\* The turns of the loop, up to the last rule: f[i] is the best of the first i rules.
IsSearch(f, s, d, k, n) ==
    /\ f = [i \in 0 .. n |-> f[i]]
    /\ \A i \in 0 .. n : f[i] = IF i = 0 THEN <<>> ELSE Turn(s, d, k, i, f[i - 1])

LEMMA SearchExists ==
    ASSUME NEW s, NEW d, NEW k, NEW n \in Nat
    PROVE  \E f : IsSearch(f, s, d, k, n)
<1> DEFINE without == {m \in Nat : ~\E f : IsSearch(f, s, d, k, m)}
<1> SUFFICES ASSUME without # {} PROVE FALSE
  OBVIOUS
<1>1. PICK m \in without : \A y \in without : m <= y
  BY LeastOf
<1>2. CASE m = 0
  <2>1. IsSearch([i \in 0 .. 0 |-> <<>>], s, d, k, 0)
    BY DEF IsSearch
  <2>2. QED
    BY <1>1, <1>2, <2>1
<1>3. CASE m # 0
  <2>1. m - 1 \in Nat /\ m - 1 \notin without
    BY <1>1, <1>3
  <2>2. PICK f : IsSearch(f, s, d, k, m - 1)
    BY <2>1
  <2> DEFINE g == [i \in 0 .. m |-> IF i = m THEN Turn(s, d, k, m, f[m - 1]) ELSE f[i]]
  <2>3. ASSUME NEW i \in 0 .. m
        PROVE  g[i] = IF i = 0 THEN <<>> ELSE Turn(s, d, k, i, g[i - 1])
    <3>1. i = m \/ i \in 0 .. m - 1
      BY <1>1
    <3>2. i # 0 => i - 1 \in 0 .. m - 1 /\ g[i - 1] = f[i - 1]
      BY <1>1, <1>3
    <3>3. CASE i = m
      BY <1>3, <3>2, <3>3
    <3>4. CASE i # m
      BY <2>2, <3>1, <3>2, <3>4 DEF IsSearch
    <3>5. QED
      BY <3>3, <3>4
  <2>4. g = [i \in 0 .. m |-> g[i]]
    OBVIOUS
  <2>5. IsSearch(g, s, d, k, m)
    <3> HIDE DEF g
    <3>1. QED
      BY <2>3, <2>4 DEF IsSearch
  <2>6. QED
    BY <1>1, <2>5
<1>4. QED
  BY <1>2, <1>3

\* FindRule is the result of such a search.
LEMMA FindRuleSearches ==
    ASSUME NEW s, NEW d, NEW k
    PROVE  \E f : IsSearch(f, s, d, k, Len(RuleList)) /\ FindRule(s, d, k) = f[Len(RuleList)]
<1>1. Len(RuleList) \in Nat
  BY FirewallAssumption DEF FirewallAssumption
<1> DEFINE body(f) == [i \in 0 .. Len(RuleList) |->
                         IF i = 0 THEN <<>>
                         ELSE IF Applies(RuleList[i], s, d, k) /\ Better(RuleList[i], f[i - 1])
                              THEN <<RuleList[i]>> ELSE f[i - 1]]
           best == CHOOSE f : f = body(f)
<1>2. PICK f : IsSearch(f, s, d, k, Len(RuleList))
  BY <1>1, SearchExists
<1>3. f = body(f)
  BY <1>2 DEF IsSearch, Turn
<1>4. best = body(best)
  BY <1>3
<1>5. FindRule(s, d, k) = best[Len(RuleList)]
  BY DEF FindRule
<1>6. IsSearch(best, s, d, k, Len(RuleList))
  <2> HIDE DEF best
  <2>1. QED
    BY <1>4 DEF IsSearch, Turn
<1>7. QED
  BY <1>5, <1>6

\* The places of the rules that apply to traffic k from zone s to zone d.
Places(s, d, k) ==
    {j \in 1 .. Len(RuleList) :
        Applies(RuleList[j], s, d, k) /\ Priority[RuleList[j]] < Ceiling}

Precedes(i, j) ==
    \/ Priority[RuleList[i]] < Priority[RuleList[j]]
    \/ Priority[RuleList[i]] = Priority[RuleList[j]] /\ i < j

\* What the search has kept after i turns: the first of the rules that apply so far.
KeptAfter(best, S, i) ==
    \/ best = <<>> /\ \A j \in S : ~(j <= i)
    \/ \E j \in S :
           /\ j <= i
           /\ best = <<RuleList[j]>>
           /\ \A l \in S \ {j} : l <= i => Precedes(j, l)

LEMMA PriorityIsNatural ==
    ASSUME NEW i \in 1 .. Len(RuleList)
    PROVE  RuleList[i] \in Rule /\ Priority[RuleList[i]] \in Nat
<1>1. RuleList \in Seq(Rule) /\ Priority \in [Rule -> Nat]
  BY FirewallAssumption DEF FirewallAssumption
<1> DEFINE r == RuleList[i]
<1>2. r \in Rule
  <2> HIDE DEF Rule
  <2>1. QED
    BY <1>1, ElementOfSeq
<1>3. Priority[r] \in Nat
  <2> HIDE DEF r, Rule
  <2>1. QED
    BY <1>1, <1>2
<1>4. QED
  BY <1>2, <1>3

\* A turn of the loop keeps the first of the rules that apply.
LEMMA TurnKeepsFirst ==
    ASSUME NEW s, NEW d, NEW k, NEW i \in 1 .. Len(RuleList), NEW best,
           KeptAfter(best, Places(s, d, k), i - 1)
    PROVE  KeptAfter(Turn(s, d, k, i, best), Places(s, d, k), i)
<1> DEFINE S == Places(s, d, k)
<1>0. /\ i \in Nat /\ Ceiling \in Nat
      /\ S \subseteq 1 .. Len(RuleList) /\ S \subseteq Nat
      /\ \A j \in 1 .. Len(RuleList) : Priority[RuleList[j]] \in Nat
  BY FirewallAssumption, PriorityIsNatural DEF FirewallAssumption, Places
<1>1. i \in S <=> Applies(RuleList[i], s, d, k) /\ Priority[RuleList[i]] < Ceiling
  BY DEF Places
<1>2. \A j \in S : Priority[RuleList[j]] < Ceiling
  BY DEF Places
<1>3. \A j \in S : j <= i <=> j <= i - 1 \/ j = i
  BY <1>0
<1> HIDE DEF S
<1>4. CASE best = <<>> /\ \A j \in S : ~(j <= i - 1)
  <2>1. Turn(s, d, k, i, best) = IF i \in S THEN <<RuleList[i]>> ELSE <<>>
    BY <1>1, <1>4 DEF Turn, Better, Bar
  <2>2. CASE i \in S
    BY <1>3, <1>4, <2>1, <2>2 DEF KeptAfter, S
  <2>3. CASE i \notin S
    BY <1>3, <1>4, <2>1, <2>3 DEF KeptAfter, S
  <2>4. QED
    BY <2>2, <2>3
<1>5. ASSUME NEW j \in S, j <= i - 1, best = <<RuleList[j]>>,
             \A l \in S \ {j} : l <= i - 1 => Precedes(j, l)
      PROVE  KeptAfter(Turn(s, d, k, i, best), S, i)
  <2>1. best # <<>> /\ best[1] = RuleList[j]
    BY <1>5
  <2>2. /\ Priority[RuleList[i]] \in Nat /\ Priority[RuleList[j]] \in Nat
        /\ Priority[RuleList[j]] < Ceiling /\ j \in Nat /\ j < i
    BY <1>0, <1>2, <1>5
  <2>3. CASE i \in S /\ Priority[RuleList[i]] < Priority[RuleList[j]]
    <3>1. Turn(s, d, k, i, best) = <<RuleList[i]>>
      BY <1>1, <2>1, <2>3 DEF Turn, Better, Bar
    <3>2. ASSUME NEW l \in S \ {i}, l <= i PROVE Precedes(i, l)
      <4>1. Priority[RuleList[l]] \in Nat /\ Priority[RuleList[j]] <= Priority[RuleList[l]]
        BY <1>0, <1>3, <1>5, <2>2, <3>2 DEF Precedes
      <4>2. QED
        BY <2>2, <2>3, <4>1 DEF Precedes
    <3>3. QED
      BY <1>0, <2>3, <3>1, <3>2 DEF KeptAfter
  <2>4. CASE ~(i \in S /\ Priority[RuleList[i]] < Priority[RuleList[j]])
    <3>1. Turn(s, d, k, i, best) = best
      BY <1>0, <1>1, <2>1, <2>2, <2>4 DEF Turn, Better, Bar
    <3>2. ASSUME NEW l \in S \ {j}, l <= i PROVE Precedes(j, l)
      BY <1>3, <1>5, <2>2, <2>4, <3>2 DEF Precedes
    <3>3. QED
      BY <1>3, <1>5, <3>1, <3>2 DEF KeptAfter
  <2>5. QED
    BY <2>3, <2>4
<1>6. QED
  BY <1>4, <1>5 DEF KeptAfter, S

\* So the search ends with the first of all rules that apply, if there is one.
LEMMA FindRuleIsFirst ==
    ASSUME NEW s, NEW d, NEW k
    PROVE  KeptAfter(FindRule(s, d, k), Places(s, d, k), Len(RuleList))
<1> DEFINE n == Len(RuleList)
           S == Places(s, d, k)
<1>1. n \in Nat /\ S \subseteq 1 .. n
  BY FirewallAssumption DEF FirewallAssumption, Places
<1>2. PICK f : IsSearch(f, s, d, k, n) /\ FindRule(s, d, k) = f[n]
  BY FindRuleSearches
<1> DEFINE wrong == {i \in 0 .. n : ~KeptAfter(f[i], S, i)}
<1>3. wrong = {}
  <2> SUFFICES ASSUME wrong # {} PROVE FALSE
    OBVIOUS
  <2>1. wrong \in SUBSET Nat
    BY <1>1
  <2>2. PICK m \in wrong : \A y \in wrong : m <= y
    <3> HIDE DEF wrong
    <3>1. QED
      BY <2>1, LeastOf
  <2>3. m \in 0 .. n /\ ~KeptAfter(f[m], S, m)
    BY <2>2
  <2>4. m # 0
    <3>1. f[0] = <<>> /\ \A j \in S : ~(j <= 0)
      BY <1>1, <1>2 DEF IsSearch
    <3>2. QED
      BY <2>3, <3>1 DEF KeptAfter
  <2>5. m \in 1 .. n /\ m - 1 \in 0 .. n /\ ~(m <= m - 1)
    BY <1>1, <2>3, <2>4
  <2>6. KeptAfter(f[m - 1], S, m - 1)
    BY <2>2, <2>5
  <2>7. f[m] = Turn(s, d, k, m, f[m - 1])
    <3>1. \A i \in 0 .. n : f[i] = IF i = 0 THEN <<>> ELSE Turn(s, d, k, i, f[i - 1])
      BY <1>2 DEF IsSearch
    <3> HIDE DEF wrong, n
    <3>2. QED
      BY <2>3, <2>4, <3>1
  <2>8. QED
    BY <2>3, <2>5, <2>6, <2>7, TurnKeepsFirst
<1>4. QED
  BY <1>1, <1>2, <1>3

\* Traffic between two zones that a check allows while the firewall is on comes from
\* no blocked address; the rule found allows it, or none is found and the
\* destination is open.
LEMMA AllowedMeans ==
    ASSUME NEW a, NEW b, NEW k,
           on, ZoneOf(a) # ZoneOf(b), Decision(a, b, k) = "allowed"
    PROVE  LET best == FindRule(ZoneOf(a), ZoneOf(b), k)
           IN  /\ a \notin blocked
               /\ best # <<>> => Allows[best[1]]
               /\ best = <<>> => ZoneOf(b) # Unknown /\ ZoneOf(b) \notin Deny
<1> DEFINE s == ZoneOf(a)
           d == ZoneOf(b)
           best == FindRule(s, d, k)
           word == IF best # <<>>
                   THEN IF Allows[best[1]] THEN "allowed" ELSE "blocked"
                   ELSE IF d = Unknown \/ d \in Deny THEN "blocked" ELSE "allowed"
<1>1. Decision(a, b, k) =
          CASE ~on                               -> "allowed"
            [] on /\ a \in blocked               -> "blocked"
            [] on /\ a \notin blocked /\ s = d   -> "intra"
            [] OTHER                             -> word
  BY DEF Decision
<1>2. s # d
  OBVIOUS
<1>3. a \notin blocked /\ word = "allowed"
  <2> HIDE DEF word, s, d
  <2>1. QED
    BY <1>1, <1>2
<1>4. QED
  <2> HIDE DEF best, d
  <2>1. /\ best # <<>> => Allows[best[1]]
        /\ best = <<>> => d # Unknown /\ d \notin Deny
    BY <1>3
  <2>2. QED
    BY <1>3, <2>1 DEF best, d

\* For every list of rules, and every way zones may lie within each other: while the
\* firewall is on, traffic between two zones passes only if the first of the rules
\* that apply allows it, or none applies and the destination is open by default,
\* and never from a blacklisted address.
THEOREM PassageIsAlwaysPermitted == Spec => []PassageIsPermitted
<1>1. PassageIsPermitted
  <2> SUFFICES ASSUME NEW a \in Ip, NEW b \in Ip, NEW k \in Service,
                      on, ZoneOf(a) # ZoneOf(b), Decision(a, b, k) = "allowed"
               PROVE  LET apply == Places(ZoneOf(a), ZoneOf(b), k)
                      IN  /\ a \notin blocked
                          /\ \A z \in {ZoneOf(a), ZoneOf(b)} \ {Unknown} : zone[z] = "on"
                          /\ \/ \E i \in apply :
                                    /\ Allows[RuleList[i]]
                                    /\ \A j \in apply \ {i} : Precedes(i, j)
                             \/ apply = {} /\ ZoneOf(b) \in Zone \ Deny
    BY DEF PassageIsPermitted, Places, Precedes
  <2> DEFINE apply == Places(ZoneOf(a), ZoneOf(b), k)
             best == FindRule(ZoneOf(a), ZoneOf(b), k)
  <2>1. /\ a \notin blocked
        /\ best # <<>> => Allows[best[1]]
        /\ best = <<>> => ZoneOf(b) # Unknown /\ ZoneOf(b) \notin Deny
    BY AllowedMeans
  <2>2. \A z \in {ZoneOf(a), ZoneOf(b)} \ {Unknown} : z \in Zone /\ zone[z] = "on"
    BY ZoneIsOn
  <2>3. KeptAfter(best, apply, Len(RuleList))
    BY FindRuleIsFirst
  <2>4. \A j \in apply : j <= Len(RuleList)
    BY FirewallAssumption DEF FirewallAssumption, Places
  <2> HIDE DEF apply, best
  <2>5. CASE best = <<>> /\ \A j \in apply : ~(j <= Len(RuleList))
    <3>1. apply = {} /\ ZoneOf(b) \in Zone \ Deny
      BY <2>1, <2>2, <2>4, <2>5
    <3>2. QED
      BY <2>1, <2>2, <3>1 DEF apply
  <2>6. ASSUME NEW i \in apply, best = <<RuleList[i]>>,
               \A j \in apply \ {i} : j <= Len(RuleList) => Precedes(i, j)
        PROVE  Allows[RuleList[i]] /\ \A j \in apply \ {i} : Precedes(i, j)
    BY <2>1, <2>4, <2>6
  <2>7. QED
    BY <2>1, <2>2, <2>3, <2>5, <2>6 DEF KeptAfter, apply
<1>2. QED
  BY <1>1, PTL

-----------------------------------------------------------------------------
(* LoginGuard: the inductive invariant.                                    *)

Working(t) == pc[t] # "idle"

\* Every attempt of a list is a failure of its minute that has been counted, or as
\* many as count have been counted.
Accounted(list) ==
    \A k \in Time : list[k] <= failures[k] \/ failures[k] = MaxAttempts

\* All attempts of a list lie in the window that ends now.
InWindow(list) ==
    \A k \in Time : list[k] > 0 => now - Window < k /\ k <= now

\* Lists hold failures that happened, those a thread is about to put in place or to
\* judge recent ones.
ListsAreHonest ==
    /\ Accounted(attempts)
    /\ \A k \in Time : k > now => attempts[k] = 0 /\ failures[k] = 0
    /\ \A t \in Thread :
           /\ Accounted(seen[t]) /\ InWindow(seen[t])
           /\ pc[t] \notin {"store", "recount"} => seen[t] = NoAttempts
           /\ pc[t] \in {"fetch", "append", "judge"} => InWindow(attempts)

\* Every recent failure is in a list.
Complete(list) == \A k \in Time : Recent(k) => failures[k] <= list[k]

\* Until two requests overlap, one is served at most, and no recent failure is lost,
\* but on the way to be forgotten.
OneByOne ==
    ~overlapped =>
        /\ \A t, u \in Thread : Working(t) /\ Working(u) => t = u
        /\ (\A t \in Thread : pc[t] # "unlock") => Complete(attempts)
        /\ \A t \in Thread :
               /\ pc[t] \in {"store", "recount"} => Complete(seen[t])
               /\ pc[t] = "append" => t \in holding
               /\ pc[t] = "unlist" => lockedAt = Never
               /\ pc[t] = "unlock" => attempts = NoAttempts

\* ... and an address without a lockout has not reached the limit in any window, but
\* for the failure being judged or locked out for, and the lockout that is being ended.
BelowLimit ==
    ~overlapped /\ lockedAt = Never /\ (\A t \in Thread : pc[t] # "unlist") =>
        \A m \in Time :
            m < now \/ (m = now /\ \A t \in Thread : pc[t] \notin {"judge", "lock"})
                => Within(failures, m) < MaxAttempts

\* The name a registration will insert is free, until requests overlap.
NamesAreFree ==
    /\ \A t \in Thread : pc[t] # "hash" => row[t] = {}
    /\ \A t \in Thread : \A m, n \in row[t] : m = n
    /\ ~overlapped => \A t \in Thread : \A n \in row[t] : ~Taken(n)

\* A thread that has found too many attempts has them behind it, and goes on at once.
LockIsDue == \A t \in Thread : pc[t] = "lock" => Within(failures, now) >= MaxAttempts

GuardIInv ==
    /\ GuardInvariant /\ AccountsAreDistinct /\ (lockedAt # Never => lockedAt <= now)
    /\ ListsAreHonest /\ LockIsDue /\ OneByOne /\ BelowLimit /\ NamesAreFree

-----------------------------------------------------------------------------
(* Sums over finite sets: there is no library theorem about them.          *)

LEMMA LeastNumber ==
    ASSUME NEW S \in SUBSET Nat, S # {}
    PROVE  \E x \in S : \A y \in S : x <= y
<1>1. PICK x \in S : \A y \in S : <<y, x>> \notin OpToRel(<, Nat)
  BY NatLessThanWellFounded, WFMin
<1>2. \A y \in S : ~(y < x)
  BY <1>1 DEF OpToRel
<1>3. QED
  BY <1>2

Chosen(s) == CHOOSE x \in s : TRUE

SumTurn(f, s, g) == IF s = {} THEN 0 ELSE f[Chosen(s)] + g[s \ {Chosen(s)}]

\* g holds the sums of the subsets of S with at most n members.
TurnsUpTo(g, f, S, n) ==
    /\ g = [s \in SUBSET S |-> g[s]]
    /\ \A s \in SUBSET S : Cardinality(s) <= n => g[s] = SumTurn(f, s, g)

LEMMA Smaller ==
    ASSUME NEW S, IsFiniteSet(S), NEW s \in SUBSET S, s # {}
    PROVE  /\ Chosen(s) \in s
           /\ s \ {Chosen(s)} \in SUBSET S
           /\ Cardinality(s) \in Nat /\ Cardinality(s) > 0
           /\ Cardinality(s \ {Chosen(s)}) = Cardinality(s) - 1
<1>1. Chosen(s) \in s
  BY DEF Chosen
<1>2. IsFiniteSet(s)
  BY FS_Subset
<1>3. Cardinality(s) \in Nat /\ Cardinality(s) # 0
  BY <1>2, FS_CardinalityType, FS_EmptySet
<1>4. Cardinality(s \ {Chosen(s)}) = Cardinality(s) - 1
  BY <1>1, <1>2, FS_RemoveElement
<1>5. QED
  BY <1>1, <1>3, <1>4

LEMMA TurnsExist ==
    ASSUME NEW f, NEW S, IsFiniteSet(S)
    PROVE  \E g : g = [s \in SUBSET S |-> SumTurn(f, s, g)]
<1> DEFINE Good(n) == \E g : TurnsUpTo(g, f, S, n)
           without == {n \in Nat : ~Good(n)}
<1>1. without = {}
  <2> SUFFICES ASSUME without # {} PROVE FALSE
    OBVIOUS
  <2>1. PICK n \in without : \A y \in without : n <= y
    <3> HIDE DEF without
    <3>1. without \in SUBSET Nat
      BY DEF without
    <3>2. QED
      BY <3>1, LeastNumber
  <2>2. CASE n = 0
    <3> DEFINE g == [s \in SUBSET S |-> 0]
    <3>1. ASSUME NEW s \in SUBSET S, Cardinality(s) <= 0 PROVE s = {}
      <4>1. IsFiniteSet(s)
        BY FS_Subset
      <4>2. Cardinality(s) \in Nat /\ (Cardinality(s) = 0 <=> s = {})
        BY <4>1, FS_CardinalityType, FS_EmptySet
      <4>3. QED
        BY <3>1, <4>2
    <3>2. g = [s \in SUBSET S |-> g[s]]
      OBVIOUS
    <3>3. \A s \in SUBSET S : Cardinality(s) <= n => g[s] = SumTurn(f, s, g)
      BY <2>2, <3>1 DEF SumTurn
    <3>4. TurnsUpTo(g, f, S, n)
      <4> HIDE DEF g
      <4>1. QED
        BY <3>2, <3>3 DEF TurnsUpTo
    <3>5. QED
      BY <2>1, <3>4
  <2>3. CASE n # 0
    <3>1. n - 1 \in Nat /\ n - 1 \notin without
      <4>1. n \in Nat
        BY <2>1
      <4> HIDE DEF without
      <4>2. QED
        BY <2>1, <2>3, <4>1
    <3>2. PICK h : TurnsUpTo(h, f, S, n - 1)
      BY <3>1
    <3> DEFINE g == [s \in SUBSET S |-> IF Cardinality(s) = n THEN SumTurn(f, s, h) ELSE h[s]]
    <3>3. ASSUME NEW s \in SUBSET S, Cardinality(s) <= n
          PROVE  g[s] = SumTurn(f, s, g)
      <4>1. Cardinality(s) \in Nat
        <5>1. IsFiniteSet(s)
          BY FS_Subset
        <5>2. QED
          BY <5>1, FS_CardinalityType
      <4>2. SumTurn(f, s, g) = SumTurn(f, s, h)
        <5>1. CASE s = {}
          BY <5>1 DEF SumTurn
        <5>2. CASE s # {}
          <6> DEFINE r == s \ {Chosen(s)}
          <6>1. r \in SUBSET S /\ Cardinality(r) # n
            BY <3>3, <5>2, Smaller
          <6> HIDE DEF r
          <6>2. g[r] = h[r]
            BY <6>1
          <6> HIDE DEF g
          <6>3. QED
            BY <5>2, <6>2 DEF SumTurn, r
        <5>3. QED
          BY <5>1, <5>2
      <4>3. Cardinality(s) # n => h[s] = SumTurn(f, s, h)
        <5>1. Cardinality(s) # n => Cardinality(s) <= n - 1
          BY <3>1, <3>3, <4>1
        <5>2. QED
          BY <3>2, <5>1 DEF TurnsUpTo
      <4>4. g[s] = IF Cardinality(s) = n THEN SumTurn(f, s, h) ELSE h[s]
        OBVIOUS
      <4>5. QED
        <5> HIDE DEF g
        <5>1. QED
          BY <4>2, <4>3, <4>4
    <3>4. g = [s \in SUBSET S |-> g[s]]
      OBVIOUS
    <3>5. TurnsUpTo(g, f, S, n)
      <4> HIDE DEF g
      <4>1. QED
        BY <3>3, <3>4 DEF TurnsUpTo
    <3>6. QED
      BY <2>1, <3>5
  <2>4. QED
    BY <2>2, <2>3
<1>2. Cardinality(S) \in Nat
  BY FS_CardinalityType
<1>3. PICK g : TurnsUpTo(g, f, S, Cardinality(S))
  BY <1>1, <1>2
<1>4. \A s \in SUBSET S : Cardinality(s) <= Cardinality(S)
  BY FS_Subset
<1>5. g = [s \in SUBSET S |-> SumTurn(f, s, g)]
  BY <1>3, <1>4 DEF TurnsUpTo
<1>6. QED
  BY <1>5

\* A sum of naturals is a natural; no summand is greater; greater summands have no
\* smaller sum; and zeros sum up to zero.
LEMMA SumsCompare ==
    ASSUME NEW S, IsFiniteSet(S), NEW f, NEW h,
           \A x \in S : f[x] \in Nat /\ h[x] \in Nat
    PROVE  /\ SumFunctionOnSet(f, S) \in Nat
           /\ \A x \in S : f[x] <= SumFunctionOnSet(f, S)
           /\ (\A x \in S : f[x] <= h[x]) => SumFunctionOnSet(f, S) <= SumFunctionOnSet(h, S)
           /\ (\A x \in S : f[x] = 0) => SumFunctionOnSet(f, S) = 0
<1> DEFINE G(e) == CHOOSE g : g = [s \in SUBSET S |-> SumTurn(e, s, g)]
<1>1. ASSUME NEW e PROVE SumFunctionOnSet(e, S) = G(e)[S]
  BY DEF SumFunctionOnSet, FoldFunctionOnSet, MapThenFoldSet, SumTurn, Chosen
<1>2. ASSUME NEW e PROVE G(e) = [s \in SUBSET S |-> SumTurn(e, s, G(e))]
  BY TurnsExist
<1> DEFINE a == G(f)
           b == G(h)
<1>3. SumFunctionOnSet(f, S) = a[S] /\ SumFunctionOnSet(h, S) = b[S]
  BY <1>1
<1>4. a = [s \in SUBSET S |-> SumTurn(f, s, a)] /\ b = [s \in SUBSET S |-> SumTurn(h, s, b)]
  BY <1>2
<1> HIDE DEF a, b, G
<1>5. \A s \in SUBSET S : a[s] = SumTurn(f, s, a) /\ b[s] = SumTurn(h, s, b)
  BY <1>4
<1> DEFINE Fine(s) == /\ a[s] \in Nat /\ b[s] \in Nat
                      /\ \A x \in s : f[x] <= a[s]
                      /\ (\A x \in s : f[x] <= h[x]) => a[s] <= b[s]
                      /\ (\A x \in s : f[x] = 0) => a[s] = 0
           wrong == {n \in Nat : \E s \in SUBSET S : Cardinality(s) = n /\ ~Fine(s)}
<1>6. wrong = {}
  <2> SUFFICES ASSUME wrong # {} PROVE FALSE
    OBVIOUS
  <2>1. PICK n \in wrong : \A y \in wrong : n <= y
    BY LeastNumber
  <2>2. PICK s \in SUBSET S : Cardinality(s) = n /\ ~Fine(s)
    BY <2>1
  <2>3. CASE s = {}
    <3>1. a[s] = 0 /\ b[s] = 0
      BY <1>5, <2>3 DEF SumTurn
    <3>2. Fine(s)
      BY <2>3, <3>1
    <3>3. QED
      BY <2>2, <3>2
  <2>4. CASE s # {}
    <3> DEFINE c == Chosen(s)
               r == s \ {c}
    <3>1. c \in s /\ r \in SUBSET S /\ n \in Nat /\ n > 0 /\ Cardinality(r) = n - 1
      BY <2>2, <2>4, Smaller
    <3>2. a[s] = f[c] + a[r] /\ b[s] = h[c] + b[r]
      BY <1>5, <2>4 DEF SumTurn
    <3>3. n - 1 \in Nat /\ n - 1 \notin wrong
      BY <2>1, <3>1
    <3>4. Fine(r)
      BY <3>1, <3>3
    <3>5. f[c] \in Nat /\ h[c] \in Nat
      BY <3>1
    <3>6. \A x : x \in s <=> x = c \/ x \in r
      BY <3>1
    <3> HIDE DEF c, r
    <3>7. Fine(s)
      <4>1. a[s] \in Nat /\ b[s] \in Nat
        BY <3>2, <3>4, <3>5
      <4>2. ASSUME NEW x \in s PROVE f[x] <= a[s]
        <5>1. CASE x = c
          BY <3>2, <3>4, <3>5, <5>1
        <5>2. CASE x \in r
          <6>1. f[x] \in Nat
            OBVIOUS
          <6>2. QED
            BY <3>2, <3>4, <3>5, <5>2, <6>1
        <5>3. QED
          BY <3>6, <5>1, <5>2
      <4>3. (\A x \in s : f[x] <= h[x]) => a[s] <= b[s]
        BY <3>2, <3>4, <3>5, <3>6
      <4>4. (\A x \in s : f[x] = 0) => a[s] = 0
        BY <3>2, <3>4, <3>6
      <4>5. QED
        BY <4>1, <4>2, <4>3, <4>4
    <3>8. QED
      BY <2>2, <3>7
  <2>5. QED
    BY <2>3, <2>4
<1>7. Fine(S)
  <2>1. Cardinality(S) \in Nat
    BY FS_CardinalityType
  <2>2. QED
    BY <1>6, <2>1
<1>8. QED
  BY <1>3, <1>7

\* f, but for the minutes outside of the window that ends with minute m.
Framed(f, m) == [k \in Time |-> IF m - Window < k /\ k <= m THEN f[k] ELSE 0]

\* Counts over a window, and over all minutes, compare as their summands do.
LEMMA CountsCompare ==
    ASSUME NEW f \in [Time -> Nat], NEW h \in [Time -> Nat], NEW m \in Time, NEW n \in Time
    PROVE  /\ SumFunction(f) \in Nat /\ Within(f, m) \in Nat
           /\ \A k \in Time : m - Window < k /\ k <= m => f[k] <= Within(f, m)
           /\ (\A k \in Time : f[k] <= Framed(h, n)[k]) => SumFunction(f) <= Within(h, n)
           /\ (\A k \in Time : Framed(f, m)[k] <= h[k]) => Within(f, m) <= SumFunction(h)
           /\ (\A k \in Time : Framed(f, m)[k] <= Framed(h, n)[k]) => Within(f, m) <= Within(h, n)
           /\ f = NoAttempts => Within(f, m) = 0
<1>1. IsFiniteSet(Time)
  BY FS_Interval, GuardAssumption DEF GuardAssumption, Time
<1>2. ASSUME NEW g \in [Time -> Nat] PROVE SumFunction(g) = SumFunctionOnSet(g, Time)
  BY DEF SumFunction
<1>3. Framed(f, m) \in [Time -> Nat] /\ Framed(h, n) \in [Time -> Nat]
  BY DEF Framed
<1>4. Within(f, m) = SumFunction(Framed(f, m)) /\ Within(h, n) = SumFunction(Framed(h, n))
  BY DEF Within, Framed
<1> DEFINE d == Framed(f, m)
           e == Framed(h, n)
<1>5. \A k \in Time : m - Window < k /\ k <= m => d[k] = f[k]
  BY DEF Framed
<1>6. f = NoAttempts => \A k \in Time : d[k] = 0
  BY DEF Framed, NoAttempts
<1> HIDE DEF d, e
<1>7. SumFunction(f) = SumFunctionOnSet(f, Time) /\ SumFunction(h) = SumFunctionOnSet(h, Time)
  BY <1>2
<1>8. Within(f, m) = SumFunctionOnSet(d, Time) /\ Within(h, n) = SumFunctionOnSet(e, Time)
  BY <1>2, <1>3, <1>4 DEF d, e
<1>9. \A k \in Time : d[k] \in Nat /\ e[k] \in Nat /\ f[k] \in Nat /\ h[k] \in Nat
  BY <1>3 DEF d, e
<1>10. /\ SumFunctionOnSet(f, Time) \in Nat
       /\ (\A k \in Time : f[k] <= e[k]) => SumFunctionOnSet(f, Time) <= SumFunctionOnSet(e, Time)
  BY <1>1, <1>9, SumsCompare
<1>11. /\ SumFunctionOnSet(d, Time) \in Nat
       /\ \A k \in Time : d[k] <= SumFunctionOnSet(d, Time)
       /\ (\A k \in Time : d[k] = 0) => SumFunctionOnSet(d, Time) = 0
       /\ (\A k \in Time : d[k] <= h[k]) => SumFunctionOnSet(d, Time) <= SumFunctionOnSet(h, Time)
  BY <1>1, <1>9, SumsCompare
<1>12. (\A k \in Time : d[k] <= e[k]) => SumFunctionOnSet(d, Time) <= SumFunctionOnSet(e, Time)
  BY <1>1, <1>9, SumsCompare
<1>13. \A k \in Time : m - Window < k /\ k <= m => f[k] <= Within(f, m)
  BY <1>5, <1>8, <1>11
<1>14. QED
  BY <1>6, <1>7, <1>8, <1>10, <1>11, <1>12, <1>13 DEF d, e

LEMMA GuardConstants ==
    /\ MaxAttempts \in Nat \ {0} /\ Window \in Nat \ {0} /\ MaxTime \in Nat /\ Never \notin Time
    /\ Time \subseteq Nat
    /\ Tally \subseteq [Time -> Nat]
  BY GuardAssumption DEF GuardAssumption, Time, Tally

\* Too many attempts in a list of recent ones are enough failures in the window.
LEMMA TooManyHaveFailed ==
    ASSUME GuardTypeOK, Accounted(attempts), InWindow(attempts), TooMany
    PROVE  Within(failures, now) >= MaxAttempts
<1>1. /\ attempts \in [Time -> Nat] /\ failures \in [Time -> Nat] /\ now \in Time
      /\ MaxAttempts \in Nat /\ Time \subseteq Nat /\ Window \in Nat
  BY GuardConstants DEF GuardTypeOK
<1>2. CASE \A k \in Time : attempts[k] <= failures[k]
  <2>1. \A k \in Time : attempts[k] <= Framed(failures, now)[k]
    BY <1>1, <1>2 DEF InWindow, Framed
  <2>2. SumFunction(attempts) <= Within(failures, now)
    BY <1>1, <2>1, CountsCompare
  <2>3. SumFunction(attempts) \in Nat /\ Within(failures, now) \in Nat
    BY <1>1, CountsCompare
  <2>4. QED
    BY <1>1, <2>2, <2>3 DEF TooMany, Listed
<1>3. CASE \E k \in Time : ~(attempts[k] <= failures[k])
  <2>1. PICK k \in Time : ~(attempts[k] <= failures[k])
    BY <1>3
  <2>2. attempts[k] \in Nat /\ failures[k] \in Nat
    BY <1>1
  <2>3. attempts[k] > 0 /\ failures[k] = MaxAttempts
    BY <2>1, <2>2 DEF Accounted
  <2>4. failures[k] <= Within(failures, now)
    BY <1>1, <2>3, CountsCompare DEF InWindow
  <2>5. QED
    BY <1>1, <2>3, <2>4, CountsCompare
<1>4. QED
  BY <1>2, <1>3

\* Failures only grow, or are forgotten: what was reached stays reached.
LEMMA WithinGrows ==
    ASSUME NEW f \in [Time -> Nat], NEW h \in [Time -> Nat], NEW m \in Time,
           \A k \in Time : f[k] <= h[k]
    PROVE  Within(f, m) <= Within(h, m)
<1>1. \A k \in Time : Framed(f, m)[k] <= Framed(h, m)[k]
  BY DEF Framed
<1>2. QED
  BY <1>1, CountsCompare
-----------------------------------------------------------------------------
(* Types, and what the steps do to the lists.                              *)

LEMMA NoAttemptsType ==
    /\ NoAttempts \in [Time -> Nat] /\ NoAttempts \in Tally
    /\ \A k \in Time : NoAttempts[k] = 0
  BY GuardConstants DEF NoAttempts, Tally

LEMMA OneMoreType ==
    ASSUME NEW f \in Tally, now \in Time
    PROVE  /\ OneMore(f) \in Tally
           /\ \A k \in Time : k # now => OneMore(f)[k] = f[k]
           /\ OneMore(f)[now] = IF f[now] < MaxAttempts THEN f[now] + 1 ELSE f[now]
           /\ \A k \in Time : f[k] <= OneMore(f)[k]
  BY GuardConstants DEF OneMore, Tally

LEMMA SelectionType ==
    ASSUME attempts \in [Time -> Nat]
    PROVE  [m \in Time |-> IF Recent(m) THEN attempts[m] ELSE 0] \in [Time -> Nat]
  OBVIOUS

LEMMA GotoType ==
    ASSUME NEW t \in Thread, NEW stage \in Stage, pc \in [Thread -> Stage], Goto(t, stage)
    PROVE  /\ pc' \in [Thread -> Stage] /\ pc'[t] = stage
           /\ \A u \in Thread : u # t => pc'[u] = pc[u]
  BY DEF Goto

LEMMA GuardTypeStep == GuardTypeOK /\ [GuardNext]_guardVars => GuardTypeOK'
<1> SUFFICES ASSUME GuardTypeOK, [GuardNext]_guardVars PROVE GuardTypeOK'
  OBVIOUS
<1>1. CASE UNCHANGED guardVars
  BY <1>1 DEF GuardTypeOK, guardVars
<1>2. CASE Tick
  BY <1>2, GuardConstants DEF GuardTypeOK, Tick, Time
<1>3. ASSUME NEW t \in Thread, Login(t) PROVE GuardTypeOK'
  <2>1. overlapped' \in BOOLEAN
    BY <1>3 DEF Login, Accept
  <2>2. QED
    BY <1>3, <2>1, GotoType DEF GuardTypeOK, Login, Stage
<1>4. ASSUME NEW t \in Thread, ReadLockout(t) PROVE GuardTypeOK'
  BY <1>4, GotoType DEF GuardTypeOK, ReadLockout, Stage
<1>5. ASSUME NEW t \in Thread, Unlock(t) PROVE GuardTypeOK'
  BY <1>5, GotoType DEF GuardTypeOK, Unlock, Stage
<1>6. ASSUME NEW t \in Thread, Unlist(t) PROVE GuardTypeOK'
  BY <1>6, GotoType, NoAttemptsType DEF GuardTypeOK, Unlist, Stage, Forgiven
<1>7. ASSUME NEW t \in Thread, Verify(t) PROVE GuardTypeOK'
  BY <1>7, GotoType DEF GuardTypeOK, Verify, Stage
<1>8. ASSUME NEW t \in Thread, Select(t) PROVE GuardTypeOK'
  BY <1>8, GotoType, SelectionType DEF GuardTypeOK, Select, Stage
<1>9. ASSUME NEW t \in Thread, Replace(t) PROVE GuardTypeOK'
  BY <1>9, GotoType, NoAttemptsType DEF GuardTypeOK, Replace, Stage
<1>10. ASSUME NEW t \in Thread, Fetch(t) PROVE GuardTypeOK'
  BY <1>10, GotoType DEF GuardTypeOK, Fetch, Stage
<1>11. ASSUME NEW t \in Thread, RecordFailure(t) PROVE GuardTypeOK'
  <2>1. attempts' \in [Time -> Nat]
    BY <1>11 DEF GuardTypeOK, RecordFailure
  <2>2. QED
    BY <1>11, <2>1, GotoType, OneMoreType DEF GuardTypeOK, RecordFailure, Stage
<1>12. ASSUME NEW t \in Thread, Judge(t) \/ LockOut(t) PROVE GuardTypeOK'
  BY <1>12, GotoType DEF GuardTypeOK, Judge, LockOut, Stage
<1>13. ASSUME NEW t \in Thread, Clear(t) PROVE GuardTypeOK'
  BY <1>13, GotoType, NoAttemptsType DEF GuardTypeOK, Clear, Stage
<1>14. ASSUME NEW t \in Thread, ClearLockout(t) PROVE GuardTypeOK'
  BY <1>14, GotoType, NoAttemptsType DEF GuardTypeOK, ClearLockout, Stage, Forgiven
<1>15. ASSUME NEW t \in Thread, ResetPassword(t) PROVE GuardTypeOK'
  <2>1. overlapped' \in BOOLEAN
    BY <1>15 DEF ResetPassword, Accept
  <2>2. QED
    BY <1>15, <2>1, GotoType DEF GuardTypeOK, ResetPassword, Stage
<1>16. ASSUME NEW t \in Thread, Register(t) PROVE GuardTypeOK'
  <2>1. overlapped' \in BOOLEAN
    BY <1>16 DEF Register, Accept
  <2>2. QED
    BY <1>16, <2>1, GotoType DEF GuardTypeOK, Register, Stage
<1>17. ASSUME NEW t \in Thread, Insert(t) PROVE GuardTypeOK'
  BY <1>17, GotoType DEF GuardTypeOK, Insert, Stage
<1>18. QED
  BY <1>1, <1>2, <1>3, <1>4, <1>5, <1>6, <1>7, <1>8, <1>9, <1>10, <1>11, <1>12, <1>13,
     <1>14, <1>15, <1>16, <1>17 DEF GuardNext
\* A step of a request that touches no list and does not go on to use one.
LEMMA HonestElsewhere ==
    ASSUME GuardTypeOK, ListsAreHonest, NEW t \in Thread,
           NEW stage \in Stage \ {"fetch", "append", "judge", "store", "recount"}, Goto(t, stage),
           pc[t] \notin {"store", "recount"}, UNCHANGED <<now, attempts, seen, failures>>
    PROVE  ListsAreHonest'
<1>1. pc'[t] = stage /\ \A u \in Thread : u # t => pc'[u] = pc[u]
  BY GotoType DEF GuardTypeOK
<1>2. QED
  BY <1>1 DEF ListsAreHonest, Accounted, InWindow

\* A list that is emptied is honest.
LEMMA HonestEmpty ==
    ASSUME now \in Time, failures \in Tally
    PROVE  Accounted(NoAttempts) /\ InWindow(NoAttempts)
  BY NoAttemptsType, GuardConstants DEF Accounted, InWindow, Tally

\* The history forgets nothing that a list remembers.
LEMMA HonestForgiven ==
    ASSUME GuardTypeOK, ListsAreHonest, OneByOne, NEW t \in Thread, failures' = Forgiven,
           pc[t] \in {"unlist", "unlock"}, now' = now, seen' = seen,
           attempts' = NoAttempts \/ (attempts' = attempts /\ pc[t] = "unlock"),
           NEW stage \in Stage \ {"fetch", "append", "judge", "store", "recount"}, Goto(t, stage)
    PROVE  ListsAreHonest'
<1>1. pc'[t] = stage /\ \A u \in Thread : u # t => pc'[u] = pc[u]
  BY GotoType DEF GuardTypeOK
<1>2. CASE overlapped
  <2>1. failures' = failures /\ (attempts' = NoAttempts \/ attempts' = attempts)
    BY <1>2 DEF Forgiven
  <2>2. Accounted(NoAttempts) /\ InWindow(NoAttempts)
    BY HonestEmpty DEF GuardTypeOK
  <2>3. \A k \in Time : NoAttempts[k] = 0
    BY NoAttemptsType
  <2>4. CASE attempts' = NoAttempts
    BY <1>1, <2>1, <2>2, <2>3, <2>4 DEF ListsAreHonest, Accounted, InWindow
  <2>5. CASE attempts' = attempts
    BY <1>1, <2>1, <2>5 DEF ListsAreHonest, Accounted, InWindow
  <2>6. QED
    BY <2>1, <2>4, <2>5
<1>3. CASE ~overlapped
  <2>1. attempts' = NoAttempts /\ failures' = NoAttempts
    BY <1>3 DEF Forgiven, OneByOne
  <2>2. \A u \in Thread : seen[u] = NoAttempts
    <3>1. ASSUME NEW u \in Thread PROVE pc[u] \notin {"store", "recount"}
      BY <1>3 DEF OneByOne, Working
    <3>2. QED
      BY <3>1 DEF ListsAreHonest
  <2>3. \A k \in Time : NoAttempts[k] = 0
    BY NoAttemptsType
  <2>4. Accounted(NoAttempts)' /\ InWindow(NoAttempts)'
    BY <2>1, <2>3, GuardConstants DEF Accounted, InWindow
  <2>5. QED
    <3>1. Accounted(attempts)' /\ InWindow(attempts)' /\ \A u \in Thread : Accounted(seen[u])' /\ InWindow(seen[u])'
      BY <2>1, <2>2, <2>4 DEF Accounted, InWindow
    <3>2. QED
      BY <2>1, <2>2, <2>3, <3>1 DEF ListsAreHonest
<1>4. QED
  BY <1>2, <1>3
LEMMA HonestTick ==
    ASSUME GuardTypeOK, ListsAreHonest, Tick
    PROVE  ListsAreHonest'
<1>1. /\ now \in Nat /\ now' = now + 1 /\ Time \subseteq Nat
      /\ UNCHANGED <<attempts, pc, seen, failures>>
      /\ \A t \in Thread : pc[t] \in {"idle", "verify", "hash"}
  BY GuardConstants DEF Tick, GuardTypeOK
<1>2. \A t \in Thread : seen[t] = NoAttempts
  BY <1>1 DEF ListsAreHonest
<1>3. \A k \in Time : k > now' => k > now
  BY <1>1
<1>4. InWindow(NoAttempts)'
  BY NoAttemptsType DEF InWindow
<1>5. \A t \in Thread : InWindow(seen[t])'
  BY <1>1, <1>2, <1>4 DEF InWindow
<1>6. QED
  BY <1>1, <1>3, <1>5 DEF ListsAreHonest, Accounted

LEMMA HonestSelect ==
    ASSUME GuardTypeOK, ListsAreHonest, NEW t \in Thread, Select(t)
    PROVE  ListsAreHonest'
<1> DEFINE kept == [m \in Time |-> IF Recent(m) THEN attempts[m] ELSE 0]
<1>1. /\ UNCHANGED <<now, attempts, failures>> /\ pc[t] \in {"clean", "count"}
      /\ seen' = [seen EXCEPT ![t] = kept] /\ seen \in [Thread -> [Time -> Nat]]
      /\ pc'[t] \in {"store", "recount"} /\ \A u \in Thread : u # t => pc'[u] = pc[u]
  BY GotoType DEF Select, GuardTypeOK, Stage
<1>2. Accounted(kept) /\ InWindow(kept)
  <2>1. /\ attempts \in [Time -> Nat] /\ failures \in [Time -> Nat] /\ now \in Nat
        /\ Window \in Nat /\ Time \subseteq Nat
    BY GuardConstants DEF GuardTypeOK
  <2>2. \A k \in Time : kept[k] = IF k > now - Window THEN attempts[k] ELSE 0
    BY DEF Recent
  <2>3. Accounted(attempts) /\ \A k \in Time : k > now => attempts[k] = 0
    BY DEF ListsAreHonest
  <2> HIDE DEF kept
  <2>4. Accounted(kept)
    BY <2>1, <2>2, <2>3 DEF Accounted
  <2>5. InWindow(kept)
    BY <2>1, <2>2, <2>3 DEF InWindow
  <2>6. QED
    BY <2>4, <2>5
<1>3. seen'[t] = kept /\ \A u \in Thread : u # t => seen'[u] = seen[u]
  BY <1>1
<1> HIDE DEF kept
<1>4. QED
  BY <1>1, <1>2, <1>3 DEF ListsAreHonest, Accounted, InWindow

LEMMA HonestReplace ==
    ASSUME GuardTypeOK, ListsAreHonest, NEW t \in Thread, Replace(t)
    PROVE  ListsAreHonest'
<1>1. /\ UNCHANGED <<now, failures>> /\ attempts' = seen[t]
      /\ seen' = [seen EXCEPT ![t] = NoAttempts] /\ seen \in [Thread -> [Time -> Nat]]
      /\ pc'[t] \in {"fetch", "idle"} /\ \A u \in Thread : u # t => pc'[u] = pc[u]
  BY GotoType DEF Replace, GuardTypeOK, Stage
<1>2. Accounted(NoAttempts) /\ InWindow(NoAttempts)
  BY HonestEmpty DEF GuardTypeOK
<1>3. Accounted(attempts') /\ InWindow(attempts')
  BY <1>1 DEF ListsAreHonest
<1>4. \A k \in Time : k > now => attempts'[k] = 0
  <2>1. \A k \in Time : attempts'[k] \in Nat /\ k \in Nat
    BY <1>1, GuardConstants
  <2>2. QED
    BY <1>3, <2>1, GuardConstants DEF InWindow, GuardTypeOK
<1>5. seen'[t] = NoAttempts /\ \A u \in Thread : u # t => seen'[u] = seen[u]
  BY <1>1
<1>6. QED
  BY <1>1, <1>2, <1>3, <1>4, <1>5 DEF ListsAreHonest, Accounted, InWindow

LEMMA HonestFetch ==
    ASSUME GuardTypeOK, ListsAreHonest, NEW t \in Thread, Fetch(t)
    PROVE  ListsAreHonest'
<1>1. /\ UNCHANGED <<now, attempts, seen, failures>> /\ pc[t] = "fetch" /\ pc'[t] = "append"
      /\ \A u \in Thread : u # t => pc'[u] = pc[u]
  BY GotoType DEF Fetch, GuardTypeOK, Stage
<1>2. QED
  BY <1>1 DEF ListsAreHonest, Accounted, InWindow

LEMMA HonestRecord ==
    ASSUME GuardTypeOK, ListsAreHonest, NEW t \in Thread, RecordFailure(t)
    PROVE  ListsAreHonest'
<1>1. /\ UNCHANGED <<now, seen>> /\ pc[t] = "append" /\ pc'[t] = "judge"
      /\ \A u \in Thread : u # t => pc'[u] = pc[u]
      /\ failures' = OneMore(failures)
      /\ attempts' = attempts \/ attempts' = [attempts EXCEPT ![now] = @ + 1]
  BY GotoType DEF RecordFailure, GuardTypeOK, Stage
<1>2. /\ attempts \in [Time -> Nat] /\ failures \in [Time -> 0 .. MaxAttempts] /\ now \in Time
      /\ Time \subseteq Nat /\ Window \in Nat \ {0} /\ MaxAttempts \in Nat
      /\ seen \in [Thread -> [Time -> Nat]]
  BY GuardConstants DEF GuardTypeOK, Tally
<1>3. /\ \A k \in Time : k # now => failures'[k] = failures[k]
      /\ failures'[now] = IF failures[now] < MaxAttempts THEN failures[now] + 1 ELSE failures[now]
      /\ \A k \in Time : failures'[k] \in 0 .. MaxAttempts
  BY <1>1, <1>2, OneMoreType DEF GuardTypeOK, Tally
<1>4. ASSUME NEW list \in [Time -> Nat], Accounted(list)
      PROVE  \A k \in Time : list[k] <= failures'[k] \/ failures'[k] = MaxAttempts
  BY <1>2, <1>3, <1>4 DEF Accounted
<1>5. Accounted(attempts)'
  <2>1. ASSUME NEW k \in Time PROVE attempts'[k] <= failures'[k] \/ failures'[k] = MaxAttempts
    <3>1. CASE attempts' = attempts
      BY <1>2, <1>4, <3>1 DEF ListsAreHonest
    <3>2. CASE attempts' = [attempts EXCEPT ![now] = @ + 1]
      <4>1. attempts[k] <= failures[k] \/ failures[k] = MaxAttempts
        BY DEF ListsAreHonest, Accounted
      <4>2. attempts'[k] = IF k = now THEN attempts[k] + 1 ELSE attempts[k]
        BY <1>2, <3>2
      <4>3. attempts[k] \in Nat /\ failures[k] \in 0 .. MaxAttempts
        BY <1>2
      <4>4. QED
        BY <1>2, <1>3, <4>1, <4>2, <4>3
    <3>3. QED
      BY <1>1, <3>1, <3>2
  <2>2. QED
    BY <2>1 DEF Accounted
<1>6. \A k \in Time : k > now => attempts'[k] = 0 /\ failures'[k] = 0
  <2>1. ASSUME NEW k \in Time, k > now PROVE attempts'[k] = attempts[k] /\ failures'[k] = failures[k]
    BY <1>1, <1>2, <1>3, <2>1
  <2>2. QED
    BY <2>1 DEF ListsAreHonest
<1>7. InWindow(attempts) /\ InWindow(attempts')
  <2>1. InWindow(attempts)
    BY <1>1 DEF ListsAreHonest
  <2>2. \A k \in Time : attempts'[k] = attempts[k] \/ k = now
    BY <1>1, <1>2
  <2>3. now - Window < now /\ now <= now
    BY <1>2
  <2>4. QED
    BY <2>1, <2>2, <2>3 DEF InWindow
<1>8. \A u \in Thread : Accounted(seen[u])'
  BY <1>1, <1>2, <1>4 DEF ListsAreHonest, Accounted
<1>9. QED
  BY <1>1, <1>5, <1>6, <1>7, <1>8 DEF ListsAreHonest, Accounted, InWindow

LEMMA HonestClear ==
    ASSUME GuardTypeOK, ListsAreHonest, NEW t \in Thread, Clear(t)
    PROVE  ListsAreHonest'
<1>1. /\ UNCHANGED <<now, seen, failures>> /\ pc[t] = "clear" /\ pc'[t] = "unlock"
      /\ attempts' = NoAttempts /\ \A u \in Thread : u # t => pc'[u] = pc[u]
  BY GotoType DEF Clear, GuardTypeOK, Stage
<1>2. Accounted(NoAttempts) /\ InWindow(NoAttempts) /\ \A k \in Time : NoAttempts[k] = 0
  BY HonestEmpty, NoAttemptsType DEF GuardTypeOK
<1>3. QED
  BY <1>1, <1>2 DEF ListsAreHonest, Accounted, InWindow

LEMMA HonestStep ==
    GuardTypeOK /\ ListsAreHonest /\ OneByOne /\ [GuardNext]_guardVars => ListsAreHonest'
<1> SUFFICES ASSUME GuardTypeOK, ListsAreHonest, OneByOne, [GuardNext]_guardVars
             PROVE  ListsAreHonest'
  OBVIOUS
<1>1. CASE UNCHANGED guardVars
  BY <1>1 DEF guardVars, ListsAreHonest, Accounted, InWindow
<1>2. CASE Tick
  BY <1>2, HonestTick
<1>3. ASSUME NEW t \in Thread, Login(t) PROVE ListsAreHonest'
  BY <1>3, HonestElsewhere DEF Login, Accept, Stage
<1>4. ASSUME NEW t \in Thread, ReadLockout(t) PROVE ListsAreHonest'
  BY <1>4, HonestElsewhere DEF ReadLockout, Stage
<1>5. ASSUME NEW t \in Thread, Unlock(t) PROVE ListsAreHonest'
  BY <1>5, HonestElsewhere DEF Unlock, Stage
<1>6. ASSUME NEW t \in Thread, Unlist(t) PROVE ListsAreHonest'
  BY <1>6, HonestForgiven DEF Unlist, Stage
<1>7. ASSUME NEW t \in Thread, Verify(t) PROVE ListsAreHonest'
  BY <1>7, HonestElsewhere DEF Verify, Stage
<1>8. ASSUME NEW t \in Thread, Judge(t) \/ LockOut(t) PROVE ListsAreHonest'
  BY <1>8, HonestElsewhere DEF Judge, LockOut, Stage
<1>9. ASSUME NEW t \in Thread, ClearLockout(t) PROVE ListsAreHonest'
  BY <1>9, HonestForgiven DEF ClearLockout, Stage
<1>10. ASSUME NEW t \in Thread, ResetPassword(t) PROVE ListsAreHonest'
  BY <1>10, HonestElsewhere DEF ResetPassword, Accept, Stage
<1>11. ASSUME NEW t \in Thread, Register(t) PROVE ListsAreHonest'
  BY <1>11, HonestElsewhere DEF Register, Accept, Stage
<1>12. ASSUME NEW t \in Thread, Insert(t) PROVE ListsAreHonest'
  BY <1>12, HonestElsewhere DEF Insert, Stage
<1>13. QED
  BY <1>1, <1>2, <1>3, <1>4, <1>5, <1>6, <1>7, <1>8, <1>9, <1>10, <1>11, <1>12, HonestSelect,
     HonestReplace, HonestFetch, HonestRecord, HonestClear DEF GuardNext
-----------------------------------------------------------------------------
(* A lockout has its cause, and is not of the future.                      *)

\* Until requests overlap, one at work is the only one.
LEMMA WorksAlone ==
    ASSUME GuardTypeOK, OneByOne, ~overlapped, NEW t \in Thread, Working(t)
    PROVE  \A u \in Thread : u # t => ~Working(u)
  BY DEF OneByOne

LockoutIsPast == lockedAt # Never => lockedAt <= now

\* A lock stays due while it is delayed: failures are not forgotten under a thread
\* that is about to lock the address out, and the minute is the same.
LEMMA DueStep ==
    GuardTypeOK /\ ListsAreHonest /\ LockIsDue /\ OneByOne /\ [GuardNext]_guardVars => LockIsDue'
<1> SUFFICES ASSUME GuardTypeOK, ListsAreHonest, LockIsDue, OneByOne, [GuardNext]_guardVars
             PROVE  LockIsDue'
  OBVIOUS
<1>1. ASSUME UNCHANGED <<now, failures>>, \A t \in Thread : pc'[t] = "lock" => pc[t] = "lock"
      PROVE  LockIsDue'
  BY <1>1 DEF LockIsDue, Within
<1>2. CASE UNCHANGED guardVars
  BY <1>1, <1>2 DEF guardVars
<1>3. CASE Tick
  BY <1>3 DEF Tick, LockIsDue
<1>4. ASSUME NEW t \in Thread, NEW stage \in Stage \ {"lock"}, Goto(t, stage),
             UNCHANGED <<now, failures>>
      PROVE  LockIsDue'
  <2>1. \A u \in Thread : pc'[u] = "lock" => pc[u] = "lock"
    BY <1>4, GotoType DEF GuardTypeOK
  <2>2. QED
    BY <1>1, <1>4, <2>1
<1>5. ASSUME NEW t \in Thread, Login(t) \/ ResetPassword(t) \/ Register(t) PROVE LockIsDue'
  BY <1>4, <1>5 DEF Login, ResetPassword, Register, Accept, Stage
<1>6. ASSUME NEW t \in Thread, ReadLockout(t) \/ Unlock(t) \/ Verify(t) \/ Select(t) PROVE LockIsDue'
  BY <1>4, <1>6 DEF ReadLockout, Unlock, Verify, Select, Stage
<1>7. ASSUME NEW t \in Thread, Replace(t) \/ Fetch(t) \/ LockOut(t) \/ Clear(t) \/ Insert(t)
      PROVE  LockIsDue'
  BY <1>4, <1>7 DEF Replace, Fetch, LockOut, Clear, Insert, Stage
<1>8. ASSUME NEW t \in Thread, Unlist(t) \/ ClearLockout(t) PROVE LockIsDue'
  <2>1. now' = now /\ failures' = Forgiven /\ pc[t] \in {"unlist", "unlock"}
    BY <1>8 DEF Unlist, ClearLockout
  <2>2. \E stage \in Stage \ {"lock"} : Goto(t, stage)
    BY <1>8 DEF Unlist, ClearLockout, Stage
  <2>3. CASE overlapped
    BY <1>4, <2>1, <2>2, <2>3 DEF Forgiven
  <2>4. CASE ~overlapped
    <3>1. \A u \in Thread : u # t => pc[u] = "idle"
      BY <2>1, <2>4, WorksAlone DEF Working
    <3>2. \A u \in Thread : pc'[u] # "lock"
      BY <2>2, <3>1, GotoType DEF GuardTypeOK
    <3>3. QED
      BY <3>2 DEF LockIsDue
  <2>5. QED
    BY <2>3, <2>4
<1>9. ASSUME NEW t \in Thread, RecordFailure(t) PROVE LockIsDue'
  <2>1. now' = now /\ failures' = OneMore(failures) /\ Goto(t, "judge")
    BY <1>9 DEF RecordFailure
  <2>2. /\ failures \in [Time -> Nat] /\ failures' \in [Time -> Nat] /\ now \in Time
        /\ \A k \in Time : failures[k] <= failures'[k]
    BY <2>1, OneMoreType, GuardConstants DEF GuardTypeOK
  <2>3. Within(failures, now) <= Within(failures', now)
    BY <2>2, WithinGrows
  <2>4. Within(failures, now) \in Nat /\ Within(failures', now) \in Nat /\ MaxAttempts \in Nat
    BY <2>2, CountsCompare, GuardConstants
  <2>5. ASSUME NEW u \in Thread, pc'[u] = "lock" PROVE Within(failures', now) >= MaxAttempts
    <3>1. pc[u] = "lock"
      BY <2>1, <2>5, GotoType DEF GuardTypeOK, Stage
    <3>2. Within(failures, now) >= MaxAttempts
      BY <3>1 DEF LockIsDue
    <3>3. QED
      BY <2>3, <2>4, <3>2
  <2>6. QED
    BY <2>1, <2>5 DEF LockIsDue, Within
<1>10. ASSUME NEW t \in Thread, Judge(t) PROVE LockIsDue'
  <2>1. UNCHANGED <<now, failures>> /\ pc[t] = "judge"
    BY <1>10 DEF Judge
  <2>2. CASE TooMany
    <3>1. Within(failures, now) >= MaxAttempts
      BY <2>1, <2>2, TooManyHaveFailed DEF ListsAreHonest
    <3>2. QED
      BY <2>1, <3>1 DEF LockIsDue, Within
  <2>3. CASE ~TooMany
    BY <1>4, <1>10, <2>1, <2>3 DEF Judge, Stage
  <2>4. QED
    BY <2>2, <2>3
<1>11. QED
  BY <1>2, <1>3, <1>5, <1>6, <1>7, <1>8, <1>9, <1>10 DEF GuardNext

LEMMA CauseStep ==
    /\ GuardTypeOK /\ LockIsDue /\ LockedForCause /\ LockoutIsPast /\ OneByOne
    /\ [GuardNext]_guardVars
    => LockedForCause' /\ LockoutIsPast'
<1> SUFFICES ASSUME GuardTypeOK, LockIsDue, LockedForCause, LockoutIsPast, OneByOne,
                    [GuardNext]_guardVars
             PROVE  LockedForCause' /\ LockoutIsPast'
  OBVIOUS
<1>1. ASSUME UNCHANGED <<lockedAt, failures>>, now' = now PROVE LockedForCause' /\ LockoutIsPast'
  BY <1>1 DEF LockedForCause, LockoutIsPast, Within
<1>2. ASSUME lockedAt' = Never PROVE LockedForCause' /\ LockoutIsPast'
  BY <1>2 DEF LockedForCause, LockoutIsPast
<1>3. CASE UNCHANGED guardVars
  BY <1>1, <1>3 DEF guardVars
<1>4. CASE Tick
  <2>1. UNCHANGED <<lockedAt, failures>> /\ now' = now + 1
    BY <1>4 DEF Tick
  <2>2. now \in Nat /\ (lockedAt # Never => lockedAt \in Nat)
    BY GuardConstants DEF GuardTypeOK
  <2>3. QED
    BY <2>1, <2>2 DEF LockedForCause, LockoutIsPast, Within
<1>5. ASSUME NEW t \in Thread, Unlist(t) PROVE LockedForCause' /\ LockoutIsPast'
  <2>1. lockedAt' = lockedAt /\ now' = now /\ (overlapped => failures' = failures)
    BY <1>5 DEF Unlist, Forgiven
  <2>2. CASE overlapped
    BY <1>1, <2>1, <2>2
  <2>3. CASE ~overlapped
    BY <1>2, <1>5, <2>1, <2>3 DEF OneByOne, Unlist
  <2>4. QED
    BY <2>2, <2>3
<1>6. ASSUME NEW t \in Thread, RecordFailure(t) PROVE LockedForCause' /\ LockoutIsPast'
  <2>1. UNCHANGED <<now, lockedAt>> /\ failures' = OneMore(failures)
    BY <1>6 DEF RecordFailure
  <2>2. failures' \in Tally /\ failures \in Tally /\ \A k \in Time : failures[k] <= failures'[k]
    BY <2>1, OneMoreType DEF GuardTypeOK
  <2>3. ASSUME lockedAt # Never PROVE Within(failures', lockedAt) >= MaxAttempts
    <3>1. lockedAt \in Time
      BY <2>3 DEF GuardTypeOK
    <3>2. failures \in [Time -> Nat] /\ failures' \in [Time -> Nat]
      BY <2>2, GuardConstants
    <3>3. Within(failures, lockedAt) <= Within(failures', lockedAt)
      BY <2>2, <3>1, <3>2, WithinGrows
    <3>4. Within(failures, lockedAt) \in Nat /\ Within(failures', lockedAt) \in Nat
      BY <3>1, <3>2, CountsCompare
    <3>5. Within(failures, lockedAt) >= MaxAttempts
      BY <2>3 DEF LockedForCause
    <3>6. QED
      BY <3>3, <3>4, <3>5, GuardConstants
  <2>4. LockedForCause'
    BY <2>1, <2>3 DEF LockedForCause, Within
  <2>5. QED
    BY <2>1, <2>4 DEF LockoutIsPast
<1>7. ASSUME NEW t \in Thread, LockOut(t) PROVE LockedForCause' /\ LockoutIsPast'
  <2>1. UNCHANGED <<now, failures>> /\ lockedAt' = now /\ Within(failures, now) >= MaxAttempts
    BY <1>7 DEF LockOut, LockIsDue
  <2>2. now <= now
    BY GuardConstants DEF GuardTypeOK
  <2>3. QED
    BY <2>1, <2>2 DEF LockedForCause, LockoutIsPast, Within
<1>8. ASSUME NEW t \in Thread, Login(t) \/ ReadLockout(t) \/ Verify(t) \/ Select(t) \/ Replace(t)
                  \/ Fetch(t) \/ Judge(t) \/ Clear(t) \/ ResetPassword(t) \/ Register(t) \/ Insert(t)
      PROVE  LockedForCause' /\ LockoutIsPast'
  <2>1. UNCHANGED <<lockedAt, failures>> /\ now' = now
    BY <1>8 DEF Login, ReadLockout, Verify, Select, Replace, Fetch, Judge, Clear, ResetPassword,
                Register, Insert
  <2>2. QED
    BY <1>1, <2>1
<1>9. ASSUME NEW t \in Thread, Unlock(t) \/ ClearLockout(t) PROVE LockedForCause' /\ LockoutIsPast'
  BY <1>2, <1>9 DEF Unlock, ClearLockout
<1>10. QED
  BY <1>3, <1>4, <1>5, <1>6, <1>7, <1>8, <1>9 DEF GuardNext

-----------------------------------------------------------------------------
(* One request at a time.                                                  *)

\* A request that is taken up while another is in progress overlaps it.
LEMMA AcceptedAlone ==
    ASSUME GuardTypeOK, NEW t \in Thread, Accept(t), ~overlapped'
    PROVE  ~overlapped /\ \A u \in Thread : u # t => ~Working(u)
  BY DEF Accept, Working, GuardTypeOK

\* A step of the only request in progress leaves it the only one.
LEMMA StillAlone ==
    ASSUME GuardTypeOK, NEW t \in Thread, NEW stage \in Stage, Goto(t, stage),
           \A u \in Thread : u # t => ~Working(u)
    PROVE  /\ \A u, v \in Thread : Working(u)' /\ Working(v)' => u = v
           /\ \A u \in Thread : u # t => pc'[u] = "idle"
           /\ pc'[t] = stage
  BY GotoType DEF Working, GuardTypeOK

\* The step of a request that works alone.
LEMMA AloneStep ==
    ASSUME GuardTypeOK, NEW t \in Thread, NEW stage \in Stage, Goto(t, stage),
           \A u \in Thread : u # t => ~Working(u),
           stage # "unlock" => Complete(attempts)',
           stage \in {"store", "recount"} => Complete(seen[t])',
           stage = "append" => t \in holding',
           stage = "unlist" => lockedAt' = Never,
           stage = "unlock" => attempts' = NoAttempts
    PROVE  OneByOne'
<1>1. /\ \A u, v \in Thread : Working(u)' /\ Working(v)' => u = v
      /\ \A u \in Thread : u # t => pc'[u] = "idle"
      /\ pc'[t] = stage
  BY StillAlone
<1>2. (\A u \in Thread : pc[u] # "unlock")' => Complete(attempts)'
  BY <1>1
<1>3. ASSUME NEW u \in Thread
      PROVE /\ pc'[u] \in {"store", "recount"} => Complete(seen[u])'
            /\ pc'[u] = "append" => u \in holding'
            /\ pc'[u] = "unlist" => lockedAt' = Never
            /\ pc'[u] = "unlock" => attempts' = NoAttempts
  <2>1. CASE u = t
    BY <1>1, <2>1 DEF Complete, Recent
  <2>2. CASE u # t
    BY <1>1, <2>2
  <2>3. QED
    BY <2>1, <2>2
<1>4. QED
  BY <1>1, <1>2, <1>3 DEF OneByOne

LEMMA WasComplete ==
    ASSUME OneByOne, ~overlapped, NEW t \in Thread, pc[t] # "unlock",
           \A u \in Thread : u # t => ~Working(u)
    PROVE  Complete(attempts)
  BY DEF OneByOne, Working

LEMMA OneByOneTick ==
    ASSUME GuardTypeOK, ListsAreHonest, OneByOne, Tick
    PROVE  OneByOne'
<1>1. /\ now \in Nat /\ now' = now + 1 /\ Time \subseteq Nat /\ Window \in Nat
      /\ UNCHANGED <<attempts, holding, lockedAt, pc, seen, failures, overlapped>>
      /\ \A t \in Thread : pc[t] \in {"idle", "verify", "hash"}
  BY GuardConstants DEF Tick, GuardTypeOK
<1>2. \A k \in Time : Recent(k)' => Recent(k)
  BY <1>1 DEF Recent
<1>3. Complete(attempts) => Complete(attempts)'
  BY <1>1, <1>2 DEF Complete
<1>4. QED
  BY <1>1, <1>3 DEF OneByOne, Working

\* A request that is taken up goes on to one of these.
LEMMA OneByOneAccept ==
    ASSUME GuardTypeOK, OneByOne, NEW t \in Thread, Accept(t),
           NEW stage \in {"verify", "present", "clear", "hash"}, Goto(t, stage),
           UNCHANGED <<now, attempts, failures>>
    PROVE  OneByOne'
<1> SUFFICES ASSUME ~overlapped' PROVE OneByOne'
  BY DEF OneByOne
<1>1. ~overlapped /\ \A u \in Thread : u # t => ~Working(u)
  BY AcceptedAlone
<1>2. Complete(attempts)
  BY <1>1, WasComplete DEF Accept
<1>3. Complete(attempts)'
  BY <1>2 DEF Complete, Recent
<1>4. QED
  BY <1>1, <1>3, AloneStep DEF Stage

\* A step of a request that is in progress, and that keeps the lists.
LEMMA OneByOneGoOn ==
    ASSUME GuardTypeOK, OneByOne, NEW t \in Thread, Working(t), pc[t] # "unlock",
           NEW stage \in Stage \ {"store", "recount", "append", "unlist", "unlock"}, Goto(t, stage),
           UNCHANGED <<now, attempts, failures, overlapped>>
    PROVE  OneByOne'
<1> SUFFICES ASSUME ~overlapped' PROVE OneByOne'
  BY DEF OneByOne
<1>1. \A u \in Thread : u # t => ~Working(u)
  BY WorksAlone
<1>2. Complete(attempts)'
  BY <1>1, WasComplete DEF Complete, Recent
<1>3. QED
  BY <1>1, <1>2, AloneStep

LEMMA OneByOneSelect ==
    ASSUME GuardTypeOK, OneByOne, NEW t \in Thread, Select(t)
    PROVE  OneByOne'
<1> SUFFICES ASSUME ~overlapped' PROVE OneByOne'
  BY DEF OneByOne
<1>1. ~overlapped /\ Working(t) /\ pc[t] # "unlock" /\ UNCHANGED <<now, attempts, failures>>
  BY DEF Select, Working
<1>2. \A u \in Thread : u # t => ~Working(u)
  BY <1>1, WorksAlone
<1>3. Complete(attempts)
  BY <1>1, <1>2, WasComplete
<1>4. seen'[t] = [m \in Time |-> IF Recent(m) THEN attempts[m] ELSE 0]
  BY DEF Select, GuardTypeOK
<1>5. Complete(attempts)' /\ Complete(seen[t])'
  BY <1>1, <1>3, <1>4 DEF Complete, Recent
<1>6. PICK stage \in {"store", "recount"} : Goto(t, stage)
  BY DEF Select
<1>7. QED
  BY <1>2, <1>5, <1>6, AloneStep DEF Stage

LEMMA OneByOneReplace ==
    ASSUME GuardTypeOK, OneByOne, NEW t \in Thread, Replace(t)
    PROVE  OneByOne'
<1> SUFFICES ASSUME ~overlapped' PROVE OneByOne'
  BY DEF OneByOne
<1>1. /\ ~overlapped /\ Working(t) /\ UNCHANGED <<now, failures>> /\ attempts' = seen[t]
      /\ pc[t] \in {"store", "recount"}
  BY DEF Replace, Working
<1>2. \A u \in Thread : u # t => ~Working(u)
  BY <1>1, WorksAlone
<1>3. Complete(attempts)'
  BY <1>1 DEF OneByOne, Complete, Recent
<1>4. PICK stage \in {"fetch", "idle"} : Goto(t, stage)
  BY DEF Replace
<1>5. QED
  BY <1>2, <1>3, <1>4, AloneStep DEF Stage

LEMMA OneByOneFetch ==
    ASSUME GuardTypeOK, OneByOne, NEW t \in Thread, Fetch(t)
    PROVE  OneByOne'
<1> SUFFICES ASSUME ~overlapped' PROVE OneByOne'
  BY DEF OneByOne
<1>1. /\ ~overlapped /\ Working(t) /\ pc[t] # "unlock" /\ UNCHANGED <<now, attempts, failures>>
      /\ t \in holding' /\ Goto(t, "append")
  BY DEF Fetch, Working
<1>2. \A u \in Thread : u # t => ~Working(u)
  BY <1>1, WorksAlone
<1>3. Complete(attempts)'
  BY <1>1, <1>2, WasComplete DEF Complete, Recent
<1>4. QED
  BY <1>1, <1>2, <1>3, AloneStep DEF Stage

LEMMA OneByOneRecord ==
    ASSUME GuardTypeOK, OneByOne, NEW t \in Thread, RecordFailure(t)
    PROVE  OneByOne'
<1> SUFFICES ASSUME ~overlapped' PROVE OneByOne'
  BY DEF OneByOne
<1>1. /\ ~overlapped /\ Working(t) /\ pc[t] = "append" /\ now' = now
      /\ failures' = OneMore(failures) /\ Goto(t, "judge")
  BY DEF RecordFailure, Working
<1>2. \A u \in Thread : u # t => ~Working(u)
  BY <1>1, WorksAlone
<1>3. attempts' = [attempts EXCEPT ![now] = @ + 1]
  BY <1>1 DEF RecordFailure, OneByOne
<1>4. Complete(attempts)
  BY <1>1, <1>2, WasComplete
<1>5. /\ attempts \in [Time -> Nat] /\ failures \in [Time -> Nat] /\ now \in Time
      /\ MaxAttempts \in Nat
  BY GuardConstants DEF GuardTypeOK
<1>6. /\ \A k \in Time : k # now => failures'[k] = failures[k]
      /\ failures'[now] = IF failures[now] < MaxAttempts THEN failures[now] + 1 ELSE failures[now]
  BY <1>1, OneMoreType DEF GuardTypeOK
<1>7. ASSUME NEW k \in Time, Recent(k) PROVE failures'[k] <= attempts'[k]
  <2>1. failures[k] <= attempts[k]
    BY <1>4, <1>7 DEF Complete
  <2>2. failures[k] \in Nat /\ attempts[k] \in Nat
    BY <1>5
  <2>3. attempts'[k] = IF k = now THEN attempts[k] + 1 ELSE attempts[k]
    BY <1>3, <1>5
  <2>4. QED
    BY <1>5, <1>6, <2>1, <2>2, <2>3
<1>8. Complete(attempts)'
  BY <1>1, <1>7 DEF Complete, Recent
<1>9. QED
  BY <1>1, <1>2, <1>8, AloneStep DEF Stage

\* What is forgotten together leaves nothing to be complete about.
LEMMA OneByOneForget ==
    ASSUME GuardTypeOK, OneByOne, NEW t \in Thread, Unlist(t) \/ ClearLockout(t)
    PROVE  OneByOne'
<1> SUFFICES ASSUME ~overlapped' PROVE OneByOne'
  BY DEF OneByOne
<1>1. ~overlapped /\ Working(t) /\ now' = now /\ failures' = NoAttempts
  BY DEF Unlist, ClearLockout, Working, Forgiven
<1>2. \A u \in Thread : u # t => ~Working(u)
  BY <1>1, WorksAlone
<1>3. attempts' \in [Time -> Nat]
  BY NoAttemptsType DEF Unlist, ClearLockout, GuardTypeOK
<1>4. Complete(attempts)'
  BY <1>1, <1>3, NoAttemptsType DEF Complete
<1>5. PICK stage \in {"verify", "idle"} : Goto(t, stage)
  BY DEF Unlist, ClearLockout
<1>6. QED
  BY <1>2, <1>4, <1>5, AloneStep DEF Stage

LEMMA OneByOneClear ==
    ASSUME GuardTypeOK, OneByOne, NEW t \in Thread, Clear(t)
    PROVE  OneByOne'
<1> SUFFICES ASSUME ~overlapped' PROVE OneByOne'
  BY DEF OneByOne
<1>1. ~overlapped /\ Working(t) /\ Goto(t, "unlock") /\ attempts' = NoAttempts
  BY DEF Clear, Working
<1>2. \A u \in Thread : u # t => ~Working(u)
  BY <1>1, WorksAlone
<1>3. QED
  BY <1>1, <1>2, AloneStep DEF Stage

LEMMA OneByOneUnlock ==
    ASSUME GuardTypeOK, OneByOne, NEW t \in Thread, Unlock(t)
    PROVE  OneByOne'
<1> SUFFICES ASSUME ~overlapped' PROVE OneByOne'
  BY DEF OneByOne
<1>1. /\ ~overlapped /\ Working(t) /\ pc[t] # "unlock" /\ UNCHANGED <<now, attempts, failures>>
      /\ lockedAt' = Never
  BY DEF Unlock, Working
<1>2. \A u \in Thread : u # t => ~Working(u)
  BY <1>1, WorksAlone
<1>3. Complete(attempts)'
  BY <1>1, <1>2, WasComplete DEF Complete, Recent
<1>4. PICK stage \in {"idle", "unlist"} : Goto(t, stage)
  BY DEF Unlock
<1>5. QED
  BY <1>1, <1>2, <1>3, <1>4, AloneStep DEF Stage

LEMMA OneByOneStep ==
    GuardTypeOK /\ ListsAreHonest /\ OneByOne /\ [GuardNext]_guardVars => OneByOne'
<1> SUFFICES ASSUME GuardTypeOK, ListsAreHonest, OneByOne, [GuardNext]_guardVars
             PROVE  OneByOne'
  OBVIOUS
<1>1. CASE UNCHANGED guardVars
  BY <1>1 DEF guardVars, OneByOne, Working, Complete, Recent
<1>2. ASSUME NEW t \in Thread, Login(t) PROVE OneByOne'
  BY <1>2, OneByOneAccept DEF Login
<1>3. ASSUME NEW t \in Thread, ReadLockout(t) PROVE OneByOne'
  BY <1>3, OneByOneGoOn DEF ReadLockout, Working, Stage
<1>4. ASSUME NEW t \in Thread, Verify(t) PROVE OneByOne'
  BY <1>4, OneByOneGoOn DEF Verify, Working, Stage
<1>5. ASSUME NEW t \in Thread, Judge(t) \/ LockOut(t) PROVE OneByOne'
  BY <1>5, OneByOneGoOn DEF Judge, LockOut, Working, Stage
<1>6. ASSUME NEW t \in Thread, ResetPassword(t) PROVE OneByOne'
  BY <1>6, OneByOneAccept DEF ResetPassword
<1>7. ASSUME NEW t \in Thread, Register(t) PROVE OneByOne'
  BY <1>7, OneByOneAccept DEF Register
<1>8. ASSUME NEW t \in Thread, Insert(t) PROVE OneByOne'
  BY <1>8, OneByOneGoOn DEF Insert, Working, Stage
<1>9. QED
  BY <1>1, <1>2, <1>3, <1>4, <1>5, <1>6, <1>7, <1>8, OneByOneTick, OneByOneSelect, OneByOneReplace,
     OneByOneFetch, OneByOneRecord, OneByOneForget, OneByOneClear, OneByOneUnlock DEF GuardNext
-----------------------------------------------------------------------------
(* Below the limit.                                                        *)

\* A step that neither fails nor forgets, and that ends no lockout.
LEMMA BelowElsewhere ==
    ASSUME GuardTypeOK, BelowLimit, UNCHANGED <<now, lockedAt, failures>>,
           overlapped => overlapped',
           \A t \in Thread : pc[t] \in {"unlist", "judge", "lock"} => pc'[t] = pc[t]
    PROVE  BelowLimit'
<1> SUFFICES ASSUME ~overlapped', lockedAt' = Never, \A t \in Thread : pc'[t] # "unlist",
                    NEW m \in Time, m < now' \/ (m = now' /\ \A t \in Thread : pc'[t] \notin {"judge", "lock"})
             PROVE  Within(failures', m) < MaxAttempts
  BY DEF BelowLimit, Within
<1>1. ~overlapped /\ lockedAt = Never /\ \A t \in Thread : pc[t] # "unlist"
  OBVIOUS
<1>2. m < now \/ (m = now /\ \A t \in Thread : pc[t] \notin {"judge", "lock"})
  OBVIOUS
<1>3. Within(failures, m) < MaxAttempts
  BY <1>1, <1>2 DEF BelowLimit
<1>4. QED
  BY <1>3

LEMMA BelowTick ==
    ASSUME GuardTypeOK, ListsAreHonest, BelowLimit, Tick
    PROVE  BelowLimit'
<1> SUFFICES ASSUME ~overlapped', lockedAt' = Never, \A t \in Thread : pc'[t] # "unlist",
                    NEW m \in Time, m < now' \/ (m = now' /\ \A t \in Thread : pc'[t] \notin {"judge", "lock"})
             PROVE  Within(failures', m) < MaxAttempts
  BY DEF BelowLimit, Within
<1>1. /\ now \in Time /\ now' = now + 1 /\ Time \subseteq Nat /\ Window \in Nat /\ MaxAttempts \in Nat
      /\ UNCHANGED <<lockedAt, pc, failures, overlapped>> /\ failures \in [Time -> Nat]
      /\ \A t \in Thread : pc[t] \in {"idle", "verify", "hash"}
  BY GuardConstants DEF Tick, GuardTypeOK
<1>2. \A n \in Time : n <= now => Within(failures, n) < MaxAttempts
  <2>1. ASSUME NEW n \in Time, n <= now PROVE n < now \/ n = now
    BY <1>1, <2>1
  <2>2. QED
    BY <1>1, <2>1 DEF BelowLimit
<1>3. m <= now \/ m = now + 1
  BY <1>1
<1>4. CASE m <= now
  BY <1>1, <1>2, <1>4
<1>5. CASE m = now + 1
  <2>1. \A k \in Time : Framed(failures, m)[k] <= Framed(failures, now)[k]
    <3>1. ASSUME NEW k \in Time PROVE k > now => failures[k] = 0
      BY DEF ListsAreHonest
    <3>2. QED
      BY <1>1, <1>5, <3>1 DEF Framed
  <2>2. Within(failures, m) <= Within(failures, now)
    BY <1>1, <2>1, CountsCompare
  <2>3. Within(failures, now) < MaxAttempts /\ Within(failures, m) \in Nat /\ Within(failures, now) \in Nat
    BY <1>1, <1>2, CountsCompare
  <2>4. QED
    BY <1>1, <2>2, <2>3
<1>6. QED
  BY <1>3, <1>4, <1>5

LEMMA BelowForget ==
    ASSUME GuardTypeOK, NEW t \in Thread, Unlist(t) \/ ClearLockout(t)
    PROVE  BelowLimit'
<1> SUFFICES ASSUME ~overlapped', NEW m \in Time
             PROVE  Within(failures', m) < MaxAttempts
  BY DEF BelowLimit, Within
<1>1. failures' = NoAttempts
  BY DEF Unlist, ClearLockout, Forgiven
<1>2. Within(NoAttempts, m) = 0
  BY NoAttemptsType, CountsCompare
<1>3. QED
  BY <1>1, <1>2, GuardConstants

LEMMA BelowRecord ==
    ASSUME GuardTypeOK, BelowLimit, NEW t \in Thread, RecordFailure(t)
    PROVE  BelowLimit'
<1>1. /\ UNCHANGED <<now, lockedAt, overlapped>> /\ failures' = OneMore(failures)
      /\ pc'[t] = "judge" /\ pc[t] = "append" /\ \A u \in Thread : u # t => pc'[u] = pc[u]
  BY GotoType DEF RecordFailure, GuardTypeOK, Stage
<1> SUFFICES ASSUME ~overlapped', lockedAt' = Never, \A u \in Thread : pc'[u] # "unlist",
                    NEW m \in Time, m < now
             PROVE  Within(failures', m) < MaxAttempts
  BY <1>1 DEF BelowLimit, Within
<1>2. Within(failures, m) < MaxAttempts
  BY <1>1 DEF BelowLimit
<1>3. /\ failures \in [Time -> Nat] /\ failures' \in [Time -> Nat] /\ now \in Nat
      /\ Time \subseteq Nat /\ MaxAttempts \in Nat
      /\ \A k \in Time : k # now => failures'[k] = failures[k]
  BY <1>1, OneMoreType, GuardConstants DEF GuardTypeOK
<1>4. \A k \in Time : Framed(failures', m)[k] <= Framed(failures, m)[k]
  BY <1>3 DEF Framed
<1>5. Within(failures', m) <= Within(failures, m)
  BY <1>3, <1>4, CountsCompare
<1>6. Within(failures', m) \in Nat /\ Within(failures, m) \in Nat
  BY <1>3, CountsCompare
<1>7. QED
  BY <1>2, <1>3, <1>5, <1>6

LEMMA BelowJudge ==
    ASSUME GuardTypeOK, OneByOne, BelowLimit, NEW t \in Thread, Judge(t)
    PROVE  BelowLimit'
<1>1. /\ UNCHANGED <<now, lockedAt, failures, overlapped>>
      /\ pc'[t] = (IF TooMany THEN "lock" ELSE "count") /\ pc[t] = "judge" /\ \A u \in Thread : u # t => pc'[u] = pc[u]
      /\ now \in Time /\ Never \notin Time
  BY GotoType, GuardConstants DEF Judge, GuardTypeOK, Stage
<1> SUFFICES ASSUME ~overlapped, lockedAt = Never, \A u \in Thread : pc'[u] # "unlist",
                    NEW m \in Time, m < now \/ (m = now /\ ~TooMany)
             PROVE  Within(failures, m) < MaxAttempts
  BY <1>1 DEF BelowLimit, Within
<1>2. CASE m < now
  BY <1>1, <1>2 DEF BelowLimit
<1>3. CASE m = now /\ ~TooMany
  <2>1. Complete(attempts)
    BY <1>1, WorksAlone, WasComplete DEF Working
  <2>2. /\ failures \in [Time -> Nat] /\ attempts \in [Time -> Nat]
        /\ Time \subseteq Nat /\ MaxAttempts \in Nat /\ Window \in Nat
    BY GuardConstants DEF GuardTypeOK
  <2>3. \A k \in Time : Framed(failures, now)[k] <= attempts[k]
    BY <1>1, <2>1, <2>2 DEF Framed, Complete, Recent
  <2>4. Within(failures, now) <= SumFunction(attempts)
    BY <1>1, <2>2, <2>3, CountsCompare
  <2>5. SumFunction(attempts) \in Nat /\ Within(failures, now) \in Nat
    BY <1>1, <2>2, CountsCompare
  <2>6. SumFunction(attempts) < MaxAttempts
    BY <1>3, <2>2, <2>5 DEF TooMany, Listed
  <2>7. QED
    BY <1>3, <2>2, <2>4, <2>5, <2>6
<1>4. QED
  BY <1>2, <1>3

LEMMA BelowLock ==
    ASSUME GuardTypeOK, NEW t \in Thread, LockOut(t)
    PROVE  BelowLimit'
  BY GuardConstants DEF LockOut, BelowLimit, GuardTypeOK

LEMMA BelowUnlock ==
    ASSUME GuardTypeOK, BelowLimit, NEW t \in Thread, Unlock(t)
    PROVE  BelowLimit'
<1>1. /\ UNCHANGED <<now, failures, overlapped>> /\ lockedAt' = Never /\ pc[t] = "expired"
      /\ pc'[t] = IF lockedAt = Never THEN "idle" ELSE "unlist"
      /\ \A u \in Thread : u # t => pc'[u] = pc[u]
  BY GotoType DEF Unlock, GuardTypeOK, Stage
<1>2. CASE lockedAt = Never
  BY <1>1, <1>2, BelowElsewhere
<1>3. CASE lockedAt # Never
  BY <1>1, <1>3 DEF BelowLimit
<1>4. QED
  BY <1>2, <1>3

LEMMA BelowStep ==
    GuardTypeOK /\ ListsAreHonest /\ OneByOne /\ BelowLimit /\ [GuardNext]_guardVars => BelowLimit'
<1> SUFFICES ASSUME GuardTypeOK, ListsAreHonest, OneByOne, BelowLimit, [GuardNext]_guardVars
             PROVE  BelowLimit'
  OBVIOUS
<1>1. CASE UNCHANGED guardVars
  BY <1>1, BelowElsewhere DEF guardVars
<1>2. ASSUME NEW t \in Thread, pc[t] \notin {"unlist", "judge", "lock"}, NEW stage \in Stage, Goto(t, stage),
             UNCHANGED <<now, lockedAt, failures>>, overlapped => overlapped'
      PROVE  BelowLimit'
  <2>1. \A u \in Thread : u # t => pc'[u] = pc[u]
    BY <1>2, GotoType DEF GuardTypeOK
  <2>2. QED
    BY <1>2, <2>1, BelowElsewhere
<1>3. ASSUME NEW t \in Thread, Login(t) \/ ResetPassword(t) \/ Register(t) PROVE BelowLimit'
  BY <1>2, <1>3 DEF Login, ResetPassword, Register, Accept, Stage
<1>4. ASSUME NEW t \in Thread, ReadLockout(t) \/ Verify(t) \/ Select(t) PROVE BelowLimit'
  BY <1>2, <1>4 DEF ReadLockout, Verify, Select, Stage
<1>5. ASSUME NEW t \in Thread, Replace(t) \/ Fetch(t) \/ Clear(t) \/ Insert(t) PROVE BelowLimit'
  BY <1>2, <1>5 DEF Replace, Fetch, Clear, Insert, Stage
<1>6. QED
  BY <1>1, <1>3, <1>4, <1>5, BelowTick, BelowForget, BelowRecord, BelowJudge, BelowLock, BelowUnlock
     DEF GuardNext

-----------------------------------------------------------------------------
(* Names.                                                                  *)

LEMMA NamesStep ==
    /\ GuardTypeOK /\ OneByOne /\ NamesAreFree /\ AccountsAreDistinct /\ [GuardNext]_guardVars
    => NamesAreFree' /\ AccountsAreDistinct'
<1> SUFFICES ASSUME GuardTypeOK, OneByOne, NamesAreFree, AccountsAreDistinct, [GuardNext]_guardVars
             PROVE  NamesAreFree' /\ AccountsAreDistinct'
  OBVIOUS
<1>1. ASSUME UNCHANGED <<users, row>>, overlapped => overlapped',
             \A t \in Thread : pc[t] = "hash" => pc'[t] = "hash"
      PROVE  NamesAreFree' /\ AccountsAreDistinct'
  BY <1>1 DEF NamesAreFree, AccountsAreDistinct, Taken
<1>2. CASE UNCHANGED guardVars
  BY <1>1, <1>2 DEF guardVars
<1>3. CASE Tick
  BY <1>1, <1>3 DEF Tick
<1>4. ASSUME NEW t \in Thread, pc[t] # "hash", NEW stage \in Stage, Goto(t, stage),
             UNCHANGED <<users, row>>, overlapped => overlapped'
      PROVE  NamesAreFree' /\ AccountsAreDistinct'
  <2>1. \A u \in Thread : u # t => pc'[u] = pc[u]
    BY <1>4, GotoType DEF GuardTypeOK
  <2>2. QED
    BY <1>1, <1>4, <2>1
<1>5. ASSUME NEW t \in Thread, Login(t) \/ ReadLockout(t) \/ Unlock(t) \/ Unlist(t) \/ Verify(t)
      PROVE  NamesAreFree' /\ AccountsAreDistinct'
  <2>1. CASE Login(t)
    BY <1>4, <2>1 DEF Login, Accept, Stage
  <2>2. CASE ReadLockout(t) \/ Unlock(t)
    BY <1>4, <2>2 DEF ReadLockout, Unlock, Stage
  <2>3. CASE Unlist(t) \/ Verify(t)
    BY <1>4, <2>3 DEF Unlist, Verify, Stage
  <2>4. QED
    BY <1>5, <2>1, <2>2, <2>3
<1>6. ASSUME NEW t \in Thread, Select(t) \/ Replace(t) \/ Fetch(t) \/ RecordFailure(t) \/ Judge(t)
                  \/ LockOut(t)
      PROVE  NamesAreFree' /\ AccountsAreDistinct'
  BY <1>4, <1>6 DEF Select, Replace, Fetch, RecordFailure, Judge, LockOut, Stage
<1>7. ASSUME NEW t \in Thread, Clear(t) \/ ClearLockout(t) \/ ResetPassword(t)
      PROVE  NamesAreFree' /\ AccountsAreDistinct'
  <2>1. CASE Clear(t) \/ ClearLockout(t)
    BY <1>4, <2>1 DEF Clear, ClearLockout, Stage
  <2>2. CASE ResetPassword(t)
    BY <1>4, <2>2 DEF ResetPassword, Accept, Stage
  <2>3. QED
    BY <1>7, <2>1, <2>2
<1>8. ASSUME NEW t \in Thread, Register(t) PROVE NamesAreFree' /\ AccountsAreDistinct'
  <2>1. PICK n \in Name : ~Taken(n) /\ row' = [row EXCEPT ![t] = {n}]
    BY <1>8 DEF Register
  <2>2. /\ users' = users /\ (overlapped => overlapped') /\ pc'[t] = "hash"
        /\ \A u \in Thread : u # t => pc'[u] = pc[u]
        /\ row'[t] = {n} /\ \A u \in Thread : u # t => row'[u] = row[u]
    BY <1>8, <2>1, GotoType DEF Register, Accept, GuardTypeOK, Stage
  <2>3. QED
    BY <2>1, <2>2 DEF NamesAreFree, AccountsAreDistinct, Taken
<1>9. ASSUME NEW t \in Thread, Insert(t) PROVE NamesAreFree' /\ AccountsAreDistinct'
  <2>1. /\ users' = users \cup row[t] /\ overlapped' = overlapped /\ Working(t)
        /\ \A u \in Thread : u # t => pc'[u] = pc[u]
        /\ row'[t] = {} /\ \A u \in Thread : u # t => row'[u] = row[u]
    BY <1>9, GotoType DEF Insert, GuardTypeOK, Stage, Working
  <2>2. (\A u \in Thread : pc[u] # "hash" => row[u] = {})'
    BY <2>1 DEF NamesAreFree
  <2>3. (\A u \in Thread : \A m, n \in row[u] : m = n)'
    BY <2>1 DEF NamesAreFree
  <2>4. ~overlapped => \A u \in Thread : row'[u] = {}
    <3>1. ASSUME ~overlapped, NEW u \in Thread, u # t PROVE row[u] = {}
      BY <2>1, <3>1, WorksAlone DEF Working, NamesAreFree
    <3>2. QED
      BY <2>1, <3>1
  <2>5. AccountsAreDistinct'
    <3> SUFFICES ASSUME ~overlapped, NEW m \in users \cup row[t], NEW n \in users \cup row[t],
                        m \in FoldedAlike, n \in FoldedAlike, Fold[m] = Fold[n]
                 PROVE  m = n
      BY <2>1 DEF AccountsAreDistinct
    <3>1. CASE m \in users /\ n \in users
      BY <3>1 DEF AccountsAreDistinct
    <3>2. CASE m \in row[t] /\ n \in row[t]
      BY <3>2 DEF NamesAreFree
    <3>3. ~(m \in users /\ n \in row[t]) /\ ~(m \in row[t] /\ n \in users)
      BY DEF NamesAreFree, Taken, FoldedAlike
    <3>4. QED
      BY <3>1, <3>2, <3>3
  <2>6. QED
    BY <2>1, <2>2, <2>3, <2>4, <2>5 DEF NamesAreFree
<1>10. QED
  BY <1>2, <1>3, <1>5, <1>6, <1>7, <1>8, <1>9 DEF GuardNext

-----------------------------------------------------------------------------
(* The theorems.                                                           *)

LEMMA GuardInitIInv == GuardInit => GuardIInv
<1> SUFFICES ASSUME GuardInit PROVE GuardIInv
  OBVIOUS
<1>1. GuardTypeOK
  <2>1. now \in Time
    BY GuardConstants DEF GuardInit, Time
  <2>2. pc \in [Thread -> Stage] /\ seen \in [Thread -> [Time -> Nat]] /\ row \in [Thread -> SUBSET Name]
    BY NoAttemptsType DEF GuardInit, Stage
  <2>3. QED
    BY <2>1, <2>2, NoAttemptsType DEF GuardInit, GuardTypeOK
<1>2. LockedForCause /\ LockoutIsPast /\ LockIsDue
  BY DEF GuardInit, LockedForCause, LockoutIsPast, LockIsDue
<1>3. AccountsAreDistinct /\ NamesAreFree
  BY DEF GuardInit, AccountsAreDistinct, NamesAreFree
<1>4. ListsAreHonest
  BY <1>1, NoAttemptsType, HonestEmpty DEF GuardInit, ListsAreHonest, GuardTypeOK
<1>5. OneByOne
  BY NoAttemptsType DEF GuardInit, OneByOne, Working, Complete
<1>6. BelowLimit
  <2>1. ASSUME NEW m \in Time PROVE Within(NoAttempts, m) < MaxAttempts
    BY NoAttemptsType, CountsCompare, GuardConstants
  <2>2. QED
    BY <2>1 DEF GuardInit, BelowLimit
<1>7. QED
  BY <1>1, <1>2, <1>3, <1>4, <1>5, <1>6 DEF GuardIInv, GuardInvariant, LockoutIsPast

LEMMA GuardIInvStep == GuardIInv /\ [GuardNext]_guardVars => GuardIInv'
  BY GuardTypeStep, HonestStep, DueStep, CauseStep, OneByOneStep, BelowStep, NamesStep
     DEF GuardIInv, GuardInvariant, LockoutIsPast

LEMMA GuardIInvHolds == GuardSpec => []GuardIInv
  BY GuardInitIInv, GuardIInvStep, PTL DEF GuardSpec

\* However the requests of an address overlap, and however often the list of its
\* failed logins is replaced by an older copy, cleared or appended to in vain, a
\* lockout has as many failures behind it as the limit says, within one window.
THEOREM LockoutsHaveCause == GuardSpec => []GuardInvariant
<1>1. GuardIInv => GuardInvariant
  BY DEF GuardIInv
<1>2. QED
  BY <1>1, GuardIInvHolds, PTL

LEMMA ExactAtRest == GuardIInv => LockoutIsExact
<1> SUFFICES ASSUME GuardIInv, ~overlapped, Resting
             PROVE  lockedAt # Never <=> \E m \in Time : m <= now /\ Within(failures, m) >= MaxAttempts
  BY DEF LockoutIsExact
<1>1. GuardTypeOK /\ LockedForCause /\ BelowLimit /\ (lockedAt # Never => lockedAt <= now)
  BY DEF GuardIInv, GuardInvariant
<1>2. ASSUME lockedAt # Never
      PROVE  \E m \in Time : m <= now /\ Within(failures, m) >= MaxAttempts
  BY <1>1, <1>2 DEF GuardTypeOK, LockedForCause
<1>3. ASSUME NEW m \in Time, m <= now, Within(failures, m) >= MaxAttempts, lockedAt = Never
      PROVE  FALSE
  <2>1. now \in Nat /\ m \in Nat
    BY <1>1, GuardConstants DEF GuardTypeOK
  <2>2. m < now \/ m = now
    BY <1>3, <2>1
  <2>3. Within(failures, m) < MaxAttempts
    BY <1>1, <1>3, <2>2 DEF BelowLimit, Resting
  <2>4. Within(failures, m) \in Nat /\ MaxAttempts \in Nat
    BY <1>1, CountsCompare, GuardConstants DEF GuardTypeOK
  <2>5. QED
    BY <1>3, <2>3, <2>4
<1>4. QED
  BY <1>2, <1>3

\* Requests that come one at a time are judged exactly: the address is locked out if
\* and only if it reached the limit within a window since it was last cleared.
THEOREM LockoutsAreExact == GuardSpec => []LockoutIsExact
  BY ExactAtRest, GuardIInvHolds, PTL

\* Registrations that come one at a time make no two accounts that differ in the
\* spelling of their names alone, as long as the database folds these names as the
\* program does: names without a capital letter beyond ASCII.
THEOREM NamesAreDistinct == GuardSpec => []AccountsAreDistinct
<1>1. GuardIInv => AccountsAreDistinct
  BY DEF GuardIInv
<1>2. QED
  BY <1>1, GuardIInvHolds, PTL
=============================================================================
