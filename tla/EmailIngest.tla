---------------------------- MODULE EmailIngest ----------------------------
(***************************************************************************)
(* Ingestion of monitored mailboxes by the monitor loops of                *)
(* email_monitor_service.py: list the mailbox, claim each new UID, analyse *)
(* the mail, persist it in one transaction, bump the counters, notify.     *)
(* Several loops run at once: the thread of the API process, the separate  *)
(* email_worker.py process, and a loop whose stop() gave up waiting.       *)
(*                                                                         *)
(* The database is SQLite in WAL mode (database.py runs the WAL pragma on  *)
(* every connection): readers never wait, there is one writer at a time,   *)
(* and a writer that waits longer than busy_timeout (5 s) gets an error.   *)
(* A session that commits at once is a single step; only the transaction   *)
(* of _process_new_email stays open across other work, and writeLock names *)
(* the loop that holds it.  Other writers outwait it, except while it      *)
(* stalls for the whole busy_timeout in the quarantine of an attachment:   *)
(* then their write may fail.                                              *)
(*                                                                         *)
(* A mail is named by the configuration, folder and UID it is listed       *)
(* under.  A fetch names the UID alone, in whatever folder the listing     *)
(* left selected, so a loop may have another mail in its hands (got) than  *)
(* the one it claims, stores and counts (cur).  Mails in Faulty are those  *)
(* whose analysis, flush or commit may raise an exception.                 *)
(***************************************************************************)
EXTENDS Naturals, FiniteSets

CONSTANTS
    Monitor,     \* monitor loops
    Config,      \* active rows of email_monitoring_config
    Mail,        \* mails: one per (configuration, folder, UID)
    Folder,      \* IMAP folder names
    ConfigOf,    \* the mailbox a mail arrives in
    FolderOf,    \* the folder it is listed in
    UidOf,       \* its UID, which counts within its folder
    Rank,        \* the place of a folder in folders_to_monitor
    MsgIdOf,     \* its Message-ID, shared by copies of one message, or NoId
    Dangerous,   \* mails with an attachment that must be quarantined
    Faulty,      \* mails whose processing may raise an exception
    NoMonitor,   \* writeLock when no transaction is open
    NoMail,      \* cur when no mail is being handled
    NoFolder,    \* selected when no folder is
    NoId,        \* MsgIdOf of a mail without the header
    MayCrash     \* whether a process may be killed

ASSUME IngestAssumption ==
    /\ ConfigOf \in [Mail -> Config]
    /\ FolderOf \in [Mail -> Folder]
    /\ DOMAIN UidOf = Mail
    /\ \A m, n \in Mail : /\ ConfigOf[m] = ConfigOf[n]
                          /\ FolderOf[m] = FolderOf[n]
                          /\ UidOf[m] = UidOf[n]
                          => m = n
    /\ Rank \in [Folder -> Nat]
    /\ DOMAIN MsgIdOf = Mail
    /\ Dangerous \subseteq Mail
    /\ Faulty \subseteq Mail
    /\ Config # {}
    /\ NoMonitor \notin Monitor
    /\ NoMail \notin Mail
    /\ NoFolder \notin Folder
    /\ MayCrash \in BOOLEAN
    /\ IsFiniteSet(Mail)
    /\ IsFiniteSet(Monitor)

VARIABLES
    arrived,     \* mails the IMAP server holds
    running,     \* _running of each loop's EmailMonitor
    pc,          \* where each loop stands
    sweep,       \* configurations left to check in this pass
    cfg,         \* the configuration it is checking
    todo,        \* new_messages not fetched yet
    selected,    \* the folder the listing left selected on its connection
    cur,         \* the mail in _process_new_email, by folder and UID
    got,         \* the mail whose content the fetch delivered
    base,        \* emails_checked as update_counters read it
    claimed,     \* rows of email_processed_uids
    records,     \* mails with a committed EmailRecord
    body,        \* the mail whose content that record holds
    hollow,      \* mails counted though their record was rolled back
    writeLock,   \* the loop whose transaction holds the write lock
    vault,       \* mails whose attachment was moved into quarantine
    stray,       \* mails that left a temporary copy of an attachment behind
    checked,     \* emails_checked column of each configuration
    conn,        \* connection_status column of each configuration
    announced    \* mails announced over the event socket

vars == <<arrived, running, pc, sweep, cfg, todo, selected, cur, got, base,
          claimed, records, body, hollow, writeLock, vault, stray, checked,
          conn, announced>>

handVars  == <<cur, got>>
loopVars  == <<running, pc, sweep, cfg, todo, selected, handVars, base>>
mailVars  == <<records, body, hollow>>
tableVars == <<claimed, mailVars, checked, conn>>
fileVars  == <<vault, stray>>

\* Stages of a loop.  A claimed mail is in flight from "analyse" to "commit",
\* or to "hollow" when its record is rolled back on the way.
Stage == {"off", "idle", "sweep", "next", "claim", "analyse", "attach",
          "commit", "hollow", "count", "add", "notify"}
InFlightStage == {"analyse", "attach", "commit", "hollow"}
TxnStage      == {"attach", "commit"}
MailStage     == Stage \ {"off", "idle", "sweep", "next"}

TypeOK ==
    /\ arrived \subseteq Mail
    /\ running \in [Monitor -> BOOLEAN]
    /\ pc \in [Monitor -> Stage]
    /\ sweep \in [Monitor -> SUBSET Config]
    /\ cfg \in [Monitor -> Config]
    /\ todo \in [Monitor -> SUBSET Mail]
    /\ selected \in [Monitor -> Folder \cup {NoFolder}]
    /\ cur \in [Monitor -> Mail \cup {NoMail}]
    /\ got \in [Monitor -> Mail \cup {NoMail}]
    /\ base \in [Monitor -> Nat]
    /\ claimed \subseteq Mail
    /\ records \subseteq Mail
    /\ body \in [Mail -> Mail]
    /\ hollow \subseteq Mail
    /\ writeLock \in Monitor \cup {NoMonitor}
    /\ vault \subseteq Mail
    /\ stray \subseteq Mail
    /\ checked \in [Config -> Nat]
    /\ conn \in [Config -> {"unknown", "connected", "error"}]
    /\ announced \subseteq Mail

\* What persisted_id is set for: the mails that are counted and announced.
Persisted == records \cup hollow
PersistedOf(c) == {m \in Persisted : ConfigOf[m] = c}
RecordsOf(c) == {m \in records : ConfigOf[m] = c}

\* message_id of the record made of mail m's content when it is listed as k:
\* the header, or one made up of the configuration, folder and UID.
MessageId(k, m) == IF MsgIdOf[m] = NoId THEN k ELSE MsgIdOf[m]
StoredId(k) == MessageId(k, body[k])
InFlight(m) == \E p \in Monitor : pc[p] \in InFlightStage /\ cur[p] = m
Counting(c) == {p \in Monitor : pc[p] \in {"count", "add"} /\ ConfigOf[cur[p]] = c}

\* A writer proceeds when the lock is free, and gives up when its own
\* busy_timeout runs out under a transaction that is stalled.
LockFree == writeLock = NoMonitor
LockTimesOut == writeLock # NoMonitor /\ pc[writeLock] = "attach"

-----------------------------------------------------------------------------
Init ==
    /\ arrived = {}
    /\ running = [p \in Monitor |-> FALSE]
    /\ pc = [p \in Monitor |-> "off"]
    /\ sweep = [p \in Monitor |-> {}]
    /\ cfg = [p \in Monitor |-> CHOOSE c \in Config : TRUE]
    /\ todo = [p \in Monitor |-> {}]
    /\ selected = [p \in Monitor |-> NoFolder]
    /\ got = [p \in Monitor |-> NoMail]
    /\ cur = [p \in Monitor |-> NoMail]
    /\ base = [p \in Monitor |-> 0]
    /\ claimed = {}
    /\ records = {}
    /\ body = [m \in Mail |-> m]
    /\ hollow = {}
    /\ writeLock = NoMonitor
    /\ vault = {}
    /\ stray = {}
    /\ checked = [c \in Config |-> 0]
    /\ conn = [c \in Config |-> "unknown"]
    /\ announced = {}

\* The loop is done with its mail and turns to the next of new_messages.
ToNext(p) ==
    /\ pc' = [pc EXCEPT ![p] = "next"]
    /\ cur' = [cur EXCEPT ![p] = NoMail]
    /\ got' = [got EXCEPT ![p] = NoMail]

\* A message is delivered to a folder of a monitored mailbox.
Arrive(m) ==
    /\ m \notin arrived
    /\ arrived' = arrived \cup {m}
    /\ UNCHANGED <<loopVars, tableVars, writeLock, fileVars, announced>>

\* start(), or the worker's main(): a new loop.
Start(p) ==
    /\ pc[p] = "off"
    /\ running' = [running EXCEPT ![p] = TRUE]
    /\ pc' = [pc EXCEPT ![p] = "idle"]
    /\ UNCHANGED <<arrived, sweep, cfg, todo, selected, handVars, base,
                   tableVars, writeLock, fileVars, announced>>

\* stop() only lowers the flag the loop reads between mails.
Stop(p) ==
    /\ running[p]
    /\ running' = [running EXCEPT ![p] = FALSE]
    /\ UNCHANGED <<arrived, pc, sweep, cfg, todo, selected, handVars, base,
                   tableVars, writeLock, fileVars, announced>>

\* The while condition of _monitor_loop.
LeaveLoop(p) ==
    /\ pc[p] = "idle"
    /\ ~running[p]
    /\ pc' = [pc EXCEPT ![p] = "off"]
    /\ UNCHANGED <<arrived, running, sweep, cfg, todo, selected, handVars,
                   base, tableVars, writeLock, fileVars, announced>>

\* One turn of _monitor_loop: reload the configurations and check those whose
\* polling interval has elapsed.  The flag is not read between mailboxes.
BeginPass(p) ==
    /\ pc[p] = "idle"
    /\ running[p]
    /\ \E due \in SUBSET Config \ {{}} : sweep' = [sweep EXCEPT ![p] = due]
    /\ pc' = [pc EXCEPT ![p] = "sweep"]
    /\ UNCHANGED <<arrived, running, cfg, todo, selected, handVars, base,
                   tableVars, writeLock, fileVars, announced>>

\* Configuration c is dealt with: on to the next one, or sleep until the next
\* pass.
LeaveMailbox(p, c) ==
    /\ sweep' = [sweep EXCEPT ![p] = @ \ {c}]
    /\ pc' = [pc EXCEPT ![p] = IF sweep[p] \subseteq {c} THEN "idle" ELSE "sweep"]

\* _update_db_state, whose write is dropped when the database stays locked.
SetConnection(c, status) ==
    \/ LockFree /\ conn' = [conn EXCEPT ![c] = status]
    \/ LockTimesOut /\ conn' = conn

\* Connection or login is refused: _set_connection_error.
ConnectFails(p, c) ==
    /\ pc[p] = "sweep"
    /\ c \in sweep[p]
    /\ LeaveMailbox(p, c)
    /\ SetConnection(c, "error")
    /\ UNCHANGED <<arrived, running, cfg, todo, selected, handVars, base,
                   claimed, mailVars, checked, writeLock, fileVars,
                   announced>>

\* Mutant: only an empty table of processed UIDs lets a listing through.
Backlog_FirstRunOnly(c, known, listed) ==
    {m \in arrived : known = {} /\ claimed = {} /\ ConfigOf[m] = c /\ FolderOf[m] \in listed}

\* new_messages: what the listed folders of c hold, less the processed UIDs.
Backlog(c, known, listed) ==
    {m \in arrived \ known : ConfigOf[m] = c /\ FolderOf[m] \in listed}

\* The folder that stays selected after the loop over the folders that lists
\* those in listed: that of the last EXAMINE the server granted, or none when a
\* later one was refused.  One that ends in an exception leaves the folder before
\* it selected, and a folder whose search fails is selected without being listed.
LeftSelected(listed) ==
    {f \in Folder : \A g \in listed : Rank[g] <= Rank[f]}
    \cup {f \in {NoFolder} : \E h \in Folder : \A g \in listed : Rank[g] < Rank[h]}

\* Login succeeded.  The processed UIDs are read (a failed read counts as
\* none), then each folder is listed; a folder that cannot be is skipped.
ListMailbox(p, c) ==
    /\ pc[p] = "sweep"
    /\ c \in sweep[p]
    /\ \E known \in {claimed, {}}, listed \in SUBSET Folder :
          /\ todo' = [todo EXCEPT ![p] = Backlog(c, known, listed)]
          /\ \E f \in LeftSelected(listed) : selected' = [selected EXCEPT ![p] = f]
    /\ cfg' = [cfg EXCEPT ![p] = c]
    /\ pc' = [pc EXCEPT ![p] = "next"]
    /\ UNCHANGED <<arrived, running, sweep, handVars, base,
                   tableVars, writeLock, fileVars, announced>>

\* The list is exhausted, or stop() was called: the check ends as a success, and
\* the connection is closed.
FinishCheck(p) ==
    /\ pc[p] = "next"
    /\ todo[p] = {} \/ ~running[p]
    /\ todo' = [todo EXCEPT ![p] = {}]
    /\ selected' = [selected EXCEPT ![p] = NoFolder]
    /\ LeaveMailbox(p, cfg[p])
    /\ SetConnection(cfg[p], "connected")
    /\ UNCHANGED <<arrived, running, cfg, handVars, base, claimed,
                   mailVars, checked, writeLock, fileVars, announced>>

\* The fetch or the parse of one mail fails, or the UID is not found: it is left
\* for the next pass.
FetchFails(p, k) ==
    /\ pc[p] = "next"
    /\ running[p]
    /\ k \in todo[p]
    /\ todo' = [todo EXCEPT ![p] = @ \ {k}]
    /\ UNCHANGED <<arrived, running, pc, sweep, cfg, selected, handVars, base,
                   tableVars, writeLock, fileVars, announced>>

\* The mail the server holds under the UID of k in folder f.
Found(k, f) ==
    {m \in arrived : ConfigOf[m] = ConfigOf[k] /\ FolderOf[m] = f /\ UidOf[m] = UidOf[k]}

\* The fetch asks for the UID, and gets the mail that has it in the folder the
\* listing left selected; it is processed under the folder it was listed in.
Fetch(p, k) ==
    /\ pc[p] = "next"
    /\ running[p]
    /\ k \in todo[p]
    /\ todo' = [todo EXCEPT ![p] = @ \ {k}]
    /\ cur' = [cur EXCEPT ![p] = k]
    /\ \E m \in Found(k, selected[p]) : got' = [got EXCEPT ![p] = m]
    /\ pc' = [pc EXCEPT ![p] = "claim"]
    /\ UNCHANGED <<arrived, running, sweep, cfg, selected, base, tableVars,
                   writeLock, fileVars, announced>>

\* Mutant: deduplicate against the stored mails instead of the claims.
Unclaimed_ByRecord(m) == m \notin records

\* The unique constraint on (config_id, folder, uid).
Unclaimed(m) == m \notin claimed

\* _claim_uid commits a row of email_processed_uids.
Claim(p) ==
    /\ pc[p] = "claim"
    /\ LockFree
    /\ Unclaimed(cur[p])
    /\ claimed' = claimed \cup {cur[p]}
    /\ pc' = [pc EXCEPT ![p] = "analyse"]
    /\ UNCHANGED <<arrived, running, sweep, cfg, todo, selected, handVars,
                   base, mailVars, checked, conn, writeLock, fileVars,
                   announced>>

\* _claim_uid returns False: the unique constraint refuses the row, or the
\* database stayed locked.
ClaimRefused(p) ==
    /\ pc[p] = "claim"
    /\ LockTimesOut \/ (LockFree /\ ~Unclaimed(cur[p]))
    /\ ToNext(p)
    /\ UNCHANGED <<arrived, running, sweep, cfg, todo, selected, base,
                   tableVars, writeLock, fileVars, announced>>

\* Mutant: the unique constraint on message_id is missing.
SameMessage_Ignored(k, m) == {n \in records : n = k}

\* Mutant: one mail per mailbox instead of one per Message-ID.
SameMessage_PerMailbox(k, m) == RecordsOf(ConfigOf[k])

\* Stored mails that collide with m, listed as k, on the unique message_id column.
SameMessage(k, m) == {n \in records : StoredId(n) = MessageId(k, m)}

\* Analysis is over.  The flush of the EmailRecord opens the transaction and
\* takes the write lock until the commit.
OpenTransaction(p) ==
    /\ pc[p] = "analyse"
    /\ LockFree
    /\ SameMessage(cur[p], got[p]) = {}
    /\ writeLock' = p
    /\ pc' = [pc EXCEPT ![p] = IF got[p] \in Dangerous THEN "attach" ELSE "commit"]
    /\ UNCHANGED <<arrived, running, sweep, cfg, todo, selected, handVars, base,
                   tableVars, fileVars, announced>>

\* Mutant: a failed mail is counted and announced like a stored one.
AfterPersistFailure_Counted(p) ==
    /\ pc' = [pc EXCEPT ![p] = "count"]
    /\ UNCHANGED handVars

\* persisted_id is None, or an exception left _process_new_email: no counters,
\* no notification, and the claim stays.
AfterPersistFailure(p) == ToNext(p)

\* That flush fails: message_id is unique over the whole table, or the
\* database stayed locked.
PersistFails(p) ==
    /\ pc[p] = "analyse"
    /\ LockTimesOut \/ (LockFree /\ SameMessage(cur[p], got[p]) # {})
    /\ AfterPersistFailure(p)
    /\ UNCHANGED <<arrived, running, sweep, cfg, todo, selected, base, tableVars,
                   writeLock, fileVars, announced>>

\* The analysis of the mail raises, which _check_mailbox logs, or a later flush
\* or the commit does, which rolls back the transaction.
ProcessingFails(p) ==
    /\ pc[p] \in InFlightStage
    /\ got[p] \in Faulty
    /\ writeLock' = IF writeLock = p THEN NoMonitor ELSE writeLock
    /\ AfterPersistFailure(p)
    /\ UNCHANGED <<arrived, running, sweep, cfg, todo, selected, base, tableVars,
                   fileVars, announced>>

\* _quarantine_attachment, inside the open transaction: the attachment is
\* written to a temporary file, and another session inserts its File row
\* before the file is moved.  That insert needs the write lock.  When it
\* fails the error is swallowed and the temporary file is forgotten.
QuarantineAttachment(p) ==
    /\ pc[p] = "attach"
    /\ vault' = IF LockFree THEN vault \cup {cur[p]} ELSE vault
    /\ stray' = IF LockFree THEN stray ELSE stray \cup {cur[p]}
    /\ pc' = [pc EXCEPT ![p] = "commit"]
    /\ UNCHANGED <<arrived, running, sweep, cfg, todo, selected, handVars, base,
                   tableVars, writeLock, announced>>

\* The temporary file cannot be written.  The handler rolls back the transaction
\* it was called in, the record with it, and _process_new_email goes on.
QuarantineBreaks(p) ==
    /\ pc[p] = "attach"
    /\ got[p] \in Faulty
    /\ writeLock' = NoMonitor
    /\ pc' = [pc EXCEPT ![p] = "hollow"]
    /\ UNCHANGED <<arrived, running, sweep, cfg, todo, selected, handVars, base,
                   tableVars, fileVars, announced>>

\* The rows added after that rollback are committed.  They name a record that is
\* not there, but persisted_id is set and the mail counts as stored.
CommitHollow(p) ==
    /\ pc[p] = "hollow"
    /\ \/ /\ LockFree
          /\ hollow' = hollow \cup {cur[p]}
          /\ pc' = [pc EXCEPT ![p] = "count"]
          /\ UNCHANGED handVars
       \/ /\ LockTimesOut
          /\ AfterPersistFailure(p)
          /\ UNCHANGED hollow
    /\ UNCHANGED <<arrived, running, sweep, cfg, todo, selected, base, claimed,
                   records, body, checked, conn, writeLock, fileVars, announced>>

\* The commit of the record with its attachments, alert and events.
CommitRecord(p) ==
    /\ pc[p] = "commit"
    /\ records' = records \cup {cur[p]}
    /\ body' = [body EXCEPT ![cur[p]] = got[p]]
    /\ writeLock' = NoMonitor
    /\ pc' = [pc EXCEPT ![p] = "count"]
    /\ UNCHANGED <<arrived, running, sweep, cfg, todo, selected, handVars, base,
                   claimed, hollow, checked, conn, fileVars, announced>>

\* update_counters reads the row with no transaction open ...
ReadCounter(p) ==
    /\ pc[p] = "count"
    /\ base' = [base EXCEPT ![p] = checked[ConfigOf[cur[p]]]]
    /\ pc' = [pc EXCEPT ![p] = "add"]
    /\ UNCHANGED <<arrived, running, sweep, cfg, todo, selected, handVars,
                   tableVars, writeLock, fileVars, announced>>

\* Mutant: the row is written back as it was read.
CounterSum_Forgetful(p) == base[p]

CounterSum(p) == base[p] + 1

\* ... and writes back the sum computed in Python; a locked database drops it.
WriteCounter(p) ==
    /\ pc[p] = "add"
    /\ \/ /\ LockFree
          /\ checked' = [checked EXCEPT ![ConfigOf[cur[p]]] = CounterSum(p)]
       \/ LockTimesOut /\ UNCHANGED checked
    /\ base' = [base EXCEPT ![p] = 0]
    /\ pc' = [pc EXCEPT ![p] = "notify"]
    /\ UNCHANGED <<arrived, running, sweep, cfg, todo, selected, handVars,
                   claimed, mailVars, conn, writeLock, fileVars, announced>>

Notify(p) ==
    /\ pc[p] = "notify"
    /\ announced' = announced \cup {cur[p]}
    /\ ToNext(p)
    /\ UNCHANGED <<arrived, running, sweep, cfg, todo, selected, base,
                   tableVars, writeLock, fileVars>>

\* The process is killed: an open transaction rolls back, files stay.
Crash(p) ==
    /\ MayCrash
    /\ pc[p] # "off"
    /\ running' = [running EXCEPT ![p] = FALSE]
    /\ pc' = [pc EXCEPT ![p] = "off"]
    /\ sweep' = [sweep EXCEPT ![p] = {}]
    /\ todo' = [todo EXCEPT ![p] = {}]
    /\ selected' = [selected EXCEPT ![p] = NoFolder]
    /\ cur' = [cur EXCEPT ![p] = NoMail]
    /\ got' = [got EXCEPT ![p] = NoMail]
    /\ base' = [base EXCEPT ![p] = 0]
    /\ writeLock' = IF writeLock = p THEN NoMonitor ELSE writeLock
    /\ UNCHANGED <<arrived, cfg, tableVars, fileVars, announced>>

Step(p) ==
    \/ LeaveLoop(p)
    \/ BeginPass(p)
    \/ \E c \in Config : ConnectFails(p, c) \/ ListMailbox(p, c)
    \/ FinishCheck(p)
    \/ \E m \in Mail : FetchFails(p, m) \/ Fetch(p, m)
    \/ Claim(p)
    \/ ClaimRefused(p)
    \/ OpenTransaction(p)
    \/ PersistFails(p)
    \/ ProcessingFails(p)
    \/ QuarantineAttachment(p)
    \/ QuarantineBreaks(p)
    \/ CommitHollow(p)
    \/ CommitRecord(p)
    \/ ReadCounter(p)
    \/ WriteCounter(p)
    \/ Notify(p)

Next ==
    \/ \E m \in Mail : Arrive(m)
    \/ \E p \in Monitor : Start(p) \/ Stop(p) \/ Crash(p) \/ Step(p)

Spec == Init /\ [][Next]_vars

-----------------------------------------------------------------------------
(* Invariants.                                                             *)

\* Two loops never work on the same mail, and none works on a mail that has
\* been stored or counted already: the claim committed by _claim_uid keeps the
\* API thread, the worker process and restarted loops apart.
NoDoubleScan ==
    \A p \in Monitor : pc[p] \in InFlightStage =>
        /\ cur[p] \notin Persisted
        /\ \A q \in Monitor \ {p} :
              pc[q] \in InFlightStage => cur[q] # cur[p]

\* A mail that was stored or counted has its claim row, so no later listing brings
\* it back, and none of those counted without a record has one after all.
RecordsAreClaimed == Persisted \subseteq claimed /\ records \cap hollow = {}

\* No two records have the same Message-ID, in whatever folders, mailboxes and
\* loops the copies of a message are met.
OneRecordPerMessage ==
    \A m, n \in records : StoredId(m) = StoredId(n) => m = n

\* The write lock is held exactly by the loop inside its transaction, whose
\* Message-ID nobody has stored meanwhile.
LockDiscipline ==
    /\ \A p \in Monitor : pc[p] \in TxnStage <=> writeLock = p
    /\ \A p \in Monitor : pc[p] \in TxnStage => SameMessage(cur[p], got[p]) = {}

\* A loop handles a mail exactly in the stages of _process_new_email.
MailInHand ==
    \A p \in Monitor :
        /\ pc[p] \in MailStage <=> cur[p] # NoMail
        /\ pc[p] \in MailStage <=> got[p] # NoMail
        /\ pc[p] \in InFlightStage => cur[p] \in claimed
        /\ pc[p] \in {"count", "add", "notify"} => cur[p] \in Persisted

IngestInvariant ==
    /\ TypeOK
    /\ MailInHand
    /\ NoDoubleScan
    /\ RecordsAreClaimed
    /\ LockDiscipline
    /\ OneRecordPerMessage

\* emails_checked never exceeds the number of mails that were stored, or counted
\* over a broken quarantine, with the loops that are still to count theirs: lost
\* updates only make it too small.
CountersNeverOverstate ==
    \A c \in Config :
        checked[c] + Cardinality(Counting(c)) <= Cardinality(PersistedOf(c))

\* The dashboards are told of stored mails only, except of those whose record a
\* broken quarantine of an attachment rolled back.
AnnouncedAreRecorded == announced \subseteq Persisted

\* The message of a claimed mail is stored, or on its way to be, unless its own
\* processing raised an exception: no claim is left behind by another mail that no
\* loop will ever look at again.
NoClaimedMailIsLost ==
    \A m \in claimed \ Faulty :
        InFlight(m) \/ \E n \in records : StoredId(n) = MessageId(m, m)

\* Between passes the counters agree with the mails stored, or counted as stored.
CountersExactAtRest ==
    (\A p \in Monitor : pc[p] \in {"off", "idle"}) =>
        \A c \in Config : checked[c] = Cardinality(PersistedOf(c))

\* A stored mail whose attachment is dangerous has it in quarantine.
DangerousIsQuarantined == \A k \in records : body[k] \in Dangerous => k \in vault

-----------------------------------------------------------------------------
(* Refinement of the ledger.                                               *)

fate == [m \in Mail |->
           IF m \in records THEN "recorded"
           ELSE IF m \notin claimed THEN "pending"
           ELSE IF InFlight(m) THEN "taken" ELSE "lost"]
ids == {StoredId(k) : k \in records}

Ledger == INSTANCE ScanLedger
             WITH Mail <- Mail, MsgId <- {MessageId(k, m) : k, m \in Mail},
                  fate <- fate, ids <- ids

\* Ingestion implements the ledger: at most one scan per mail over all loops
\* and restarts, one record per Message-ID, and the outcome of a scan is final.
LedgerRefined == Ledger!LedgerSpec

-----------------------------------------------------------------------------
(* Liveness, for loops that are started and never stopped or killed, over  *)
(* mailboxes whose polling intervals elapse and an IMAP server whose       *)
(* listings and fetches succeed again and again.                           *)

NeverStopped == \A p \in Monitor : running[p] => running'[p]

Due(p, c) == BeginPass(p) /\ c \in sweep'[p]

FullListing(p, c) ==
    ListMailbox(p, c) /\ todo'[p] = Backlog(c, claimed, Folder)
                      /\ selected'[p] \in LeftSelected(Folder)

SteadySpec ==
    /\ Init /\ [][Next /\ NeverStopped]_vars
    /\ \A p \in Monitor :
          /\ WF_vars(Start(p))
          /\ WF_vars(Step(p))
          /\ \A c \in Config : SF_vars(Due(p, c)) /\ SF_vars(FullListing(p, c))
          /\ \A m \in Mail : SF_vars(Fetch(p, m))

\* Where one folder is monitored, every message that arrives is stored in the
\* end, at least one of its copies, unless its processing may raise an exception.
EveryMessageIsRecorded ==
    \A m \in Mail \ Faulty :
        m \in arrived ~> \E n \in records : StoredId(n) = MessageId(m, m)
=============================================================================
