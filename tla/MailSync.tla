------------------------------ MODULE MailSync ------------------------------
(***************************************************************************)
(* Synchronisation of the dashboard with INBOX: #syncNew, #fetchRange and  *)
(* #processMessage of Email/server/monitor.js over the store of store.js.  *)
(*                                                                         *)
(* The program is single-threaded; a step runs from one await to the next. *)
(* At most one fetch is in progress (_fetching), but it may outlive the    *)
(* connection it reads from, and a stop and start around it.  The store is *)
(* written to a file after every addition; a failed write is only logged,  *)
(* and what the file holds is all that a new process knows.                *)
(*                                                                         *)
(* INBOX only grows, by mails of ascending UID, and a fetch delivers them  *)
(* in that order.  The connection is up, being set up or down; the calls   *)
(* behind its changes are the subject of MailWatch.                        *)
(***************************************************************************)
EXTENDS Integers, Sequences

CONSTANTS
    MaxUid,      \* bound: mails 1 .. MaxUid arrive
    MsgId,       \* Message-ID of each mail
    NoSource,    \* mails the server delivers without content
    Poison,      \* mails the parser throws on
    SyncLimit,   \* SYNC_LIMIT
    MaxStored,   \* MAX_STORED
    MaxFaults    \* bound: lost connections, stops and crashes

Mail == 1 .. MaxUid

ASSUME SyncAssumption ==
    /\ MaxUid \in Nat
    /\ DOMAIN MsgId = Mail
    /\ NoSource \subseteq Mail
    /\ Poison \subseteq Mail
    /\ SyncLimit \in Nat \ {0}
    /\ MaxStored \in Nat \ {0}
    /\ MaxFaults \in Nat

VARIABLES
    arrived,     \* mails 1 .. arrived are in INBOX
    store,       \* the EmailStore
    file,        \* what emails.json holds of it
    fetch,       \* the fetch in progress: "none", at its "next" message, or in "parse"
    next, upto,  \* UIDs it has still to deliver
    orphan,      \* its connection is gone
    awaited,     \* #connectOnce waits for it
    queued,      \* _fetchQueued
    due,         \* the queued synchronisation is scheduled (setImmediate)
    link,        \* this.client: "down", "open" (INBOX is open) or "active" (polled)
    stopFlag,    \* _stop
    faults       \* faults so far

vars == <<arrived, store, file, fetch, next, upto, orphan, awaited, queued, due,
          link, stopFlag, faults>>

fetchVars == <<fetch, next, upto, orphan>>
diskVars  == <<store, file>>

\* lastUid is null, here 0, until a mail has been added.
Empty == [emails |-> <<>>, total |-> 0, lastUid |-> 0]

Store == [emails : Seq(Mail), total : Nat, lastUid : 0 .. MaxUid]

TypeOK ==
    /\ arrived \in 0 .. MaxUid
    /\ store \in Store
    /\ file \in Store
    /\ fetch \in {"none", "next", "parse"}
    /\ next \in 0 .. MaxUid + 1
    /\ upto \in 0 .. MaxUid
    /\ orphan \in BOOLEAN
    /\ awaited \in BOOLEAN
    /\ queued \in BOOLEAN
    /\ due \in BOOLEAN
    /\ link \in {"down", "open", "active"}
    /\ stopFlag \in BOOLEAN
    /\ faults \in 0 .. MaxFaults

Init ==
    /\ arrived = 0
    /\ store = Empty
    /\ file = Empty
    /\ fetch = "none"
    /\ next = 0
    /\ upto = 0
    /\ orphan = FALSE
    /\ awaited = FALSE
    /\ queued = FALSE
    /\ due = FALSE
    /\ link = "down"
    /\ stopFlag = FALSE
    /\ faults = 0

-----------------------------------------------------------------------------
(* EmailStore.                                                             *)

Held(s) == {s.emails[i] : i \in DOMAIN s.emails}

HasUid(s, u) == u \in Held(s)

\* Mutant: only the UID is compared.
Has_UidOnly(s, u) == HasUid(s, u)

Has(s, u) == \E v \in Held(s) : v = u \/ MsgId[v] = MsgId[u]

\* The oldest mails make room.
Evicted(q) == IF Len(q) > MaxStored THEN SubSeq(q, Len(q) - MaxStored + 1, Len(q)) ELSE q

Added(s, u) ==
    [emails  |-> Evicted(Append(s.emails, u)),
     total   |-> s.total + 1,
     lastUid |-> IF u > s.lastUid THEN u ELSE s.lastUid]

\* add(): nothing for a mail the store has, otherwise the mail is added and the
\* store written to its file, if the write succeeds.
Add(u) ==
    IF Has(store, u)
    THEN UNCHANGED diskVars
    ELSE /\ store' = Added(store, u)
         /\ file' \in {store', file}

-----------------------------------------------------------------------------
(* EmailMonitor.                                                           *)

Arrive ==
    /\ arrived < MaxUid
    /\ arrived' = arrived + 1
    /\ UNCHANGED <<diskVars, fetchVars, awaited, queued, due, link, stopFlag, faults>>

\* Mutant: every fetch is limited to the last SYNC_LIMIT mails.
FirstUid_Limited ==
    LET oldest == IF arrived > SyncLimit THEN arrived - SyncLimit + 1 ELSE 1
    IN  IF store.lastUid < oldest THEN oldest
        ELSE IF store.lastUid < arrived THEN store.lastUid + 1 ELSE arrived

\* Where a fetch begins: with the last SYNC_LIMIT mails of a mailbox not seen
\* before, else with the mail after the newest.  The server answers a range that
\* begins beyond the last mail with the last mail.
FirstUid ==
    IF store.lastUid = 0
    THEN IF arrived > SyncLimit THEN arrived - SyncLimit + 1 ELSE 1
    ELSE IF store.lastUid < arrived THEN store.lastUid + 1 ELSE arrived

\* #syncNew while a fetch is in progress: only a forced one is remembered.
Defer(force) ==
    /\ fetch # "none"
    /\ queued' = (queued \/ force)
    /\ UNCHANGED fetchVars

\* #syncNew, up to its first message, over a connection that is there.
Begin ==
    /\ fetch = "none"
    /\ arrived > 0
    /\ fetch' = "next"
    /\ next' = FirstUid
    /\ upto' = arrived
    /\ orphan' = FALSE
    /\ UNCHANGED queued

\* The 'exists' event of an IDLE session; the session may be that of a connection
\* that an attempt left open behind it.
Exists ==
    /\ link # "down"
    /\ Begin
    /\ UNCHANGED <<arrived, diskVars, awaited, due, link, stopFlag, faults>>

\* The poll timer.
Poll ==
    /\ link = "active"
    /\ Begin
    /\ UNCHANGED <<arrived, diskVars, awaited, due, link, stopFlag, faults>>

\* refresh(): it has waited 15 s at most for a fetch in progress to end.
Refresh ==
    /\ link # "down"
    /\ Begin \/ Defer(TRUE)
    /\ UNCHANGED <<arrived, diskVars, awaited, due, link, stopFlag, faults>>

\* #connectOnce has opened INBOX and synchronises for the first time.  If an
\* older fetch is still there, or INBOX is empty, it need not wait.
Connect ==
    /\ ~stopFlag
    /\ link = "down" \/ (link = "open" /\ ~awaited)
    /\ \/ /\ Begin
          /\ awaited' = TRUE
          /\ link' = "open"
       \/ /\ Defer(TRUE)
          /\ awaited' = FALSE
          /\ link' = "active"
       \/ /\ fetch = "none"
          /\ arrived = 0
          /\ link' = "active"
          /\ UNCHANGED <<fetchVars, awaited, queued>>
    /\ UNCHANGED <<arrived, diskVars, due, stopFlag, faults>>

\* The queued synchronisation.
RunQueued ==
    /\ due
    /\ due' = FALSE
    /\ \/ link # "down" /\ Begin
       \/ Defer(TRUE)
       \/ link = "down" /\ fetch = "none" /\ UNCHANGED <<fetchVars, queued>>
    /\ UNCHANGED <<arrived, diskVars, awaited, link, stopFlag, faults>>

\* #syncNew is over; "active" is set up if the first one went well.  A
\* synchronisation that was asked for meanwhile is scheduled.
EndFetch(ok) ==
    /\ fetch' = "none"
    /\ next' = 0
    /\ upto' = 0
    /\ orphan' = FALSE
    /\ awaited' = FALSE
    /\ link' = IF awaited /\ ~orphan /\ ok THEN "active" ELSE link
    /\ due' = (due \/ queued)
    /\ queued' = FALSE
    /\ UNCHANGED <<arrived, diskVars, stopFlag, faults>>

NextMessage ==
    /\ next' = next + 1
    /\ fetch' = "next"
    /\ UNCHANGED <<arrived, upto, orphan, awaited, queued, due, link, stopFlag, faults>>

\* Mutant: a message without content goes to the parser.
Skipped_KnownOnly(u) == HasUid(store, u)

\* #processMessage passes over a message without content and one whose UID it has.
Skipped(u) == u \in NoSource \/ HasUid(store, u)

Skip ==
    /\ fetch = "next"
    /\ next <= upto
    /\ ~stopFlag
    /\ Skipped(next)
    /\ NextMessage
    /\ UNCHANGED diskVars

\* Any other message goes to the parser, which is awaited.
Parse ==
    /\ fetch = "next"
    /\ next <= upto
    /\ ~stopFlag
    /\ ~Skipped(next)
    /\ fetch' = "parse"
    /\ UNCHANGED <<arrived, diskVars, next, upto, orphan, awaited, queued, due, link,
                   stopFlag, faults>>

\* The parser throws on a damaged message, and would on one without content.
Throws(u) == u \in Poison \cup NoSource

Parsed ==
    /\ fetch = "parse"
    /\ ~Throws(next)
    /\ Add(next)
    /\ NextMessage

\* The exception of the parser ends the fetch.
ParserThrows ==
    /\ fetch = "parse"
    /\ Throws(next)
    /\ EndFetch(FALSE)

\* All messages are delivered, or the flag is seen before one of them.
FetchDone ==
    /\ fetch = "next"
    /\ next > upto \/ stopFlag
    /\ EndFetch(TRUE)

\* The connection is gone; messages that were received may still be delivered.
FetchBreaks ==
    /\ fetch = "next"
    /\ orphan
    /\ EndFetch(FALSE)

-----------------------------------------------------------------------------
(* Faults and commands.                                                    *)

\* The server closes the connection.
Lose ==
    /\ faults < MaxFaults
    /\ faults' = faults + 1
    /\ link # "down"
    /\ link' = "down"
    /\ orphan' = (fetch # "none")
    /\ UNCHANGED <<arrived, diskVars, fetch, next, upto, awaited, queued, due, stopFlag>>

Stop ==
    /\ faults < MaxFaults
    /\ faults' = faults + 1
    /\ ~stopFlag
    /\ stopFlag' = TRUE
    /\ link' = "down"
    /\ orphan' = (fetch # "none")
    /\ UNCHANGED <<arrived, diskVars, fetch, next, upto, awaited, queued, due>>

Start ==
    /\ stopFlag
    /\ stopFlag' = FALSE
    /\ UNCHANGED <<arrived, diskVars, fetchVars, awaited, queued, due, link, faults>>

\* The process ends and a new one loads the file; one that it cannot read counts
\* as empty.
Crash ==
    /\ faults < MaxFaults
    /\ faults' = faults + 1
    /\ store' \in {file, Empty}
    /\ fetch' = "none"
    /\ next' = 0
    /\ upto' = 0
    /\ orphan' = FALSE
    /\ awaited' = FALSE
    /\ queued' = FALSE
    /\ due' = FALSE
    /\ link' = "down"
    /\ stopFlag' = FALSE
    /\ UNCHANGED <<arrived, file>>

Work == Skip \/ Parse \/ Parsed \/ ParserThrows \/ FetchDone \/ FetchBreaks

Next ==
    \/ Arrive
    \/ Poll \/ Exists \/ Refresh \/ Connect \/ RunQueued
    \/ Work
    \/ Lose \/ Stop \/ Start \/ Crash

Spec == Init /\ [][Next]_vars

\* Fetches make progress (socketTimeout ends one that does not), connection
\* attempts follow each other, setImmediate runs and the timer ticks.  Neither
\* 'exists' events nor refresh requests are relied on.
FairSpec ==
    /\ Spec
    /\ WF_vars(Work)
    /\ WF_vars(Connect)
    /\ WF_vars(RunQueued)
    /\ WF_vars(Poll)

-----------------------------------------------------------------------------
(* Properties.                                                             *)

Least(a, b) == IF a < b THEN a ELSE b

\* Mails are kept in the order of their UIDs, the newest being lastUid; no two
\* carry the same Message-ID; and total counts them, evicted ones included.
Sound(s) ==
    /\ \A i, j \in DOMAIN s.emails : i < j => s.emails[i] < s.emails[j]
    /\ \A u, v \in Held(s) : MsgId[u] = MsgId[v] => u = v
    /\ s.lastUid = IF s.emails = <<>> THEN 0 ELSE s.emails[Len(s.emails)]
    /\ Len(s.emails) = Least(s.total, MaxStored)

\* What the dashboard shows and what a restart would show are sound at every
\* moment, whatever writes fail, and a forced synchronisation is remembered only
\* while there is a fetch to remember it.
SyncInvariant ==
    /\ TypeOK
    /\ Sound(store)
    /\ Sound(file)
    /\ queued => fetch # "none"

\* Mails that may be missing: those without content and later copies.
Passable(u) == u \in NoSource \/ \E v \in 1 .. u - 1 : MsgId[v] = MsgId[u]

\* Between the oldest mail shown and the newest none is missing, before and after
\* a restart: an aborted fetch or a failed write is made up for.
NoGap ==
    \A s \in {store, file} : s.emails # <<>> =>
        \A u \in s.emails[1] .. s.lastUid : u \in Held(s) \/ Passable(u)

\* Mails before which no damaged mail has arrived.
Unblocked(u) == \A v \in 1 .. u : v \notin Poison

\* Time and again all mails that have arrived are imported or passed over for
\* cause, unless monitoring stands stopped.
ArrivedAreImported ==
    []<>(\/ stopFlag
         \/ \A u \in 1 .. arrived :
                Unblocked(u) => u <= store.lastUid \/ Passable(u))
=============================================================================
