----------------------------- MODULE MailBridge -----------------------------
(***************************************************************************)
(* Three ways of one mail into the database of the backend: the dashboard  *)
(* posts each mail it adds to /sync-raw (monitor.js, email_security.py),   *)
(* import_email_folder.py copies the dashboard's file at every start of    *)
(* the backend and on request, and the backend's own monitor loop polls    *)
(* the mailbox (EmailIngest).                                              *)
(*                                                                         *)
(* The two handlers run on the event loop without an await, the import in  *)
(* one transaction: each is one step.  The loop is a thread beside them    *)
(* and claims a mail before it stores it.  A post is sent once and its     *)
(* answer ignored: while the backend is down it is lost.  (A post that     *)
(* fails while the backend is up is left out.)                             *)
(*                                                                         *)
(* Every mail carries a Message-ID, copies have one content, and every     *)
(* account has a monitoring configuration (the first import makes one).    *)
(* The sample mails that an import takes when there is no file are left    *)
(* out.                                                                    *)
(***************************************************************************)
EXTENDS FiniteSets, MailSync, MailSafety

CONSTANTS
    Account,     \* users of the backend
    Owner,       \* the one with id 1, whose mails the dashboard shows
    Polled,      \* the mails each account's mailbox receives, as <<account, mail>>
    UidIn,       \* their UIDs there, which name one mail each: the dashboard's in
                 \* the owner's mailbox
    InMail,      \* content of each mail
    Nothing

ASSUME BridgeAssumption ==
    /\ Owner \in Account
    /\ Polled \subseteq Account \X Mail
    /\ InMail \in [Mail -> Content]
    /\ \A u, v \in Mail : MsgId[u] = MsgId[v] => InMail[u] = InMail[v]
    /\ UidIn \in [Polled -> Mail]
    /\ \A m, n \in Polled : m[1] = n[1] /\ UidIn[m] = UidIn[n] => m = n
    /\ \A m \in Polled : m[1] = Owner => UidIn[m] = m[2]
    /\ Nothing \notin Polled

VARIABLES
    records,     \* rows of email_records
    claimed,     \* rows of email_processed_uids, as <<account, UID>>
    inHand,      \* what the loop has claimed and not stored yet
    up,          \* the backend is running
    dropped      \* history: mails in hand when the process was killed or their
                 \* processing failed

backendVars == <<records, claimed, inHand, up, dropped>>
bridgeVars  == <<vars, backendVars>>

Ids == {MsgId[u] : u \in Mail}

\* Keys of email_records: a Message-ID, here under the owner's name, or, for the
\* imports of another account, one with that account's prefix.
Key == Account \X Ids
PlainKey(u) == <<Owner, MsgId[u]>>

\* Mutant: the prefix is put before the owner's Message-IDs as well.
ImportKey_Prefixed(w, u) == <<"u", MsgId[u]>>

ImportKey(w, u) == <<w, MsgId[u]>>

Class == {"safe", "suspicious", "malicious", "scanned"}

BridgeTypeOK ==
    /\ TypeOK
    /\ records \subseteq [key : Key, user : Account, class : Class]
    /\ claimed \subseteq Account \X Mail
    /\ inHand \in Polled \cup {Nothing}
    /\ up \in BOOLEAN
    /\ dropped \subseteq Polled

BridgeInit ==
    /\ Init
    /\ records = {}
    /\ claimed = {}
    /\ inHand = Nothing
    /\ up = TRUE
    /\ dropped = {}

\* message_id is unique over all accounts.
Taken(key) == \E r \in records : r.key = key

HasAny(w, keys) == \E r \in records : r.user = w /\ r.key \in keys

-----------------------------------------------------------------------------
(* The backend.                                                            *)

\* What both routes make of a label.
ClassOf == [dangerous |-> "malicious", unknown |-> "suspicious", safe |-> "safe"]

Row(key, w, class) == [key |-> key, user |-> w, class |-> class]

\* sync_raw_email: nothing for a Message-ID that some account has.
SyncRaw(u) ==
    IF Taken(PlainKey(u)) THEN records
    ELSE records \cup {Row(PlainKey(u), Owner, ClassOf[Label(InMail[u])])}

\* A step of the dashboard.  A mail that is added is posted.  (A post that arrives
\* late finds what an import or the loop has left it, as if they had been earlier.)
Dashboard ==
    /\ Next
    /\ records' = IF up /\ fetch' = "next" /\ store' # store THEN SyncRaw(next) ELSE records
    /\ UNCHANGED <<claimed, inHand, up, dropped>>

\* The mails of the file that the account has no record of.
ToImport(w) ==
    {u \in Held(file) : ~HasAny(w, {PlainKey(u), ImportKey(w, u)})}

\* Mutant: the UIDs are claimed in a transaction of their own.
Import_ClaimsApart(w) ==
    /\ records' = IF \E u \in ToImport(w) : Taken(ImportKey(w, u))
                  THEN records
                  ELSE records \cup {Row(ImportKey(w, u), w, ClassOf[Label(InMail[u])]) :
                                         u \in ToImport(w)}
    /\ claimed' = claimed \cup {<<w, u>> : u \in ToImport(w)}

\* One transaction: a mail that is in another account's name undoes it.
Import(w) ==
    IF \E u \in ToImport(w) : Taken(ImportKey(w, u))
    THEN UNCHANGED <<records, claimed>>
    ELSE /\ records' = records \cup {Row(ImportKey(w, u), w, ClassOf[Label(InMail[u])]) :
                                         u \in ToImport(w)}
         /\ claimed' = claimed \cup {<<w, u>> : u \in ToImport(w)}

\* import_email_data, on request.
ImportFolder(w) ==
    /\ up
    /\ ToImport(w) # {}
    /\ Import(w)
    /\ UNCHANGED <<vars, inHand, up, dropped>>

\* The backend starts, and imports in the owner's name.
BackendStarts ==
    /\ ~up
    /\ up' = TRUE
    /\ Import(Owner)
    /\ UNCHANGED <<vars, inHand, dropped>>

\* Mutant: only UIDs beyond those claimed before are looked at.
LoopClaims_Newest(m) ==
    /\ up
    /\ inHand = Nothing
    /\ m[2] <= arrived
    /\ \A c \in claimed : c[1] = m[1] => UidIn[m] > c[2]
    /\ claimed' = claimed \cup {<<m[1], UidIn[m]>>}
    /\ inHand' = m
    /\ UNCHANGED <<vars, records, up, dropped>>

\* The loop lists the mailboxes and claims a mail it finds unclaimed.
LoopClaims(m) ==
    /\ up
    /\ inHand = Nothing
    /\ m[2] <= arrived
    /\ <<m[1], UidIn[m]>> \notin claimed
    /\ claimed' = claimed \cup {<<m[1], UidIn[m]>>}
    /\ inHand' = m
    /\ UNCHANGED <<vars, records, up, dropped>>

\* It stores the mail with its own verdict, unless the Message-ID is taken.
LoopStores ==
    /\ inHand # Nothing
    /\ records' =
           LET key == PlainKey(inHand[2])
           IN  IF Taken(key) THEN records
               ELSE records \cup {Row(key, inHand[1], "scanned")}
    /\ inHand' = Nothing
    /\ UNCHANGED <<vars, claimed, up, dropped>>

\* Its analysis raises, or a flush or the commit does (on a database that stays
\* locked, for one): the mail is not stored and the claim stays.
LoopFails ==
    /\ faults < MaxFaults
    /\ faults' = faults + 1
    /\ inHand # Nothing
    /\ dropped' = dropped \cup {inHand}
    /\ inHand' = Nothing
    /\ UNCHANGED <<arrived, diskVars, fetchVars, awaited, queued, due, link,
                   stopFlag, records, claimed, up>>

\* The backend is killed, possibly with a mail in hand.
BackendDies ==
    /\ faults < MaxFaults
    /\ faults' = faults + 1
    /\ up
    /\ up' = FALSE
    /\ dropped' = dropped \cup ({inHand} \ {Nothing})
    /\ inHand' = Nothing
    /\ UNCHANGED <<arrived, diskVars, fetchVars, awaited, queued, due, link,
                   stopFlag, records, claimed>>

Loop == LoopStores \/ \E m \in Polled : LoopClaims(m)

BridgeNext ==
    \/ Dashboard
    \/ \E w \in Account : ImportFolder(w)
    \/ BackendStarts
    \/ Loop
    \/ LoopFails
    \/ BackendDies

\* The loop goes on, and a backend that is down is started again.  Nobody need
\* ask for an import.
BridgeSpec ==
    /\ BridgeInit
    /\ [][BridgeNext]_bridgeVars
    /\ WF_vars(Work)
    /\ WF_vars(Connect)
    /\ WF_vars(RunQueued)
    /\ WF_vars(Poll)
    /\ WF_bridgeVars(Loop)
    /\ WF_bridgeVars(BackendStarts)

-----------------------------------------------------------------------------
(* Properties.                                                             *)

\* A Message-ID names one record, and the owner has one record of a message,
\* whichever of the three ways are taken and in whatever order.  (Another account
\* may have two: an import between the two steps of the loop.)
OneRecordEach ==
    \A r, s \in records :
        \/ r.key = s.key
        \/ r.user = Owner /\ s.user = Owner /\ r.key[2] = s.key[2]
        => r = s

BridgeInvariant == BridgeTypeOK /\ OneRecordEach

\* What is on record as safe on the word of the dashboard alone has been looked at
\* to the end: no finding, no attachment of an unknown kind, no scanner that failed.
SafeIsDetermined ==
    \A r \in records, u \in Mail :
        r.class = "safe" /\ r.key[2] = MsgId[u] =>
            /\ ~Suspect(InMail[u])
            /\ ~InMail[u].throws
            /\ ~IsVerdict(InMail[u].scans, "errored")
            /\ \A i \in DOMAIN InMail[u].attachments :
                   InMail[u].attachments[i] \cap {"goodExtension", "goodType"} # {}

\* Where a mail that the loop need not look at again may be: on record in its
\* account's name or under its Message-ID, or given up by a fault of its own.
\* There is one exception: the import claims the UIDs that mails have in the
\* dashboard's mailbox, and in a mailbox of its own the account may have another
\* mail under such a UID.
Settled(m) ==
    \/ Taken(PlainKey(m[2]))
    \/ Taken(ImportKey(m[1], m[2]))
    \/ m \in dropped
    \/ UidIn[m] # m[2] /\ HasAny(m[1], {ImportKey(m[1], UidIn[m])})

\* No import keeps the loop from a mail that is not on record: what it finds
\* claimed is settled, or in its own hand; and each kill of the process and each
\* failure after a claim costs the one mail in hand, no other.
ClaimedAreRecorded ==
    /\ \A m \in Polled : <<m[1], UidIn[m]>> \in claimed => m = inHand \/ Settled(m)
    /\ Cardinality(dropped) <= faults

\* When INBOX has stopped growing, what arrived in a polled mailbox is settled in
\* the end, whatever posts were lost and imports undone: all of it is on record but
\* for at most one mail per kill of the process and failure after a claim.
PolledAreRecorded == <>[](\A m \in Polled : m[2] <= arrived => Settled(m))
=============================================================================
