----------------------------- MODULE MailReview -----------------------------
(***************************************************************************)
(* The review of scanned mails, routes/email_security.py: a mail arrives   *)
(* assessed (by an upload, from the mailbox monitor or from the mailbox    *)
(* dashboard), and its owner holds it, releases it and decides on its      *)
(* quarantine rows.                                                        *)
(*                                                                         *)
(* A mail's hold is kept twice, as a flag of its record and as the status  *)
(* of rows in another table.  The requests that change them run in the     *)
(* server's thread pool, read both in one session and write at commit only *)
(* the columns whose value differs from the one read.                      *)
(***************************************************************************)
EXTENDS MailRisk

CONSTANTS
    Mail,        \* message ids
    User,
    First,       \* the user who is given the dashboard's mails
    Worker,      \* threads of the server's pool
    Contents,    \* what the mails that arrive may contain
    OtherAction, \* actions on a row that are neither "release" nor "delete": any
                 \* word is accepted
    None

\* What /sync-raw makes of the dashboard's label.
Labelled(score) ==
    [score |-> score,
     class |-> CASE score = 7500 -> "malicious"
                 [] score = 2500 -> "suspicious"
                 [] score = 0 -> "safe",
     urls |-> <<>>, attachments |-> <<>>]

\* What may be found in a mail.
Finding ==
    {Assessed(mail, via) : mail \in Contents, via \in {"upload", "monitor"}}
        \cup {Labelled(score) : score \in {7500, 2500, 0}}

Record ==
    [owner : User, via : {"upload", "monitor", "dashboard"}, found : Finding,
     held : BOOLEAN]

ASSUME ReviewAssumption ==
    /\ First \in User
    /\ None \notin User \cup Mail \cup Record
    /\ Contents \subseteq MailFacts
    /\ OtherAction \cap {"hold", "release", "release_row", "delete_row"} = {}

VARIABLES
    rec,         \* email_records
    rows,        \* the statuses of a mail's email_quarantine rows, by id
    alert,       \* a mail's alert
    req,         \* the request that each thread serves
    overlapped,  \* history: mails that two requests were about at once
    told,        \* history: the last decision on a mail that was confirmed
    apart        \* history: an action that leaves the flag alone has changed the
                 \* mail's row since

vars == <<rec, rows, alert, req, overlapped, told, apart>>

Idle == [pc |-> "idle", op |-> None, mail |-> None, user |-> None, row |-> 0,
         held |-> FALSE, status |-> None]

\* The requests: hold and release on a mail's page, and on the quarantine
\* page the release and the deletion of a row, or another action.
Op == {"hold", "release", "release_row", "delete_row"} \cup OtherAction
Status == {"quarantined", "released", "release"} \cup OtherAction

TypeOK ==
    /\ rec \in [Mail -> Record \cup {None}]
    /\ rows \in [Mail -> Seq(Status)]
    /\ alert \in [Mail -> {"none", "unread", "read"}]
    /\ req \in [Worker -> [pc : {"idle", "find", "look", "save", "mark"}, op : Op \cup {None},
                           mail : Mail \cup {None}, user : User \cup {None}, row : Nat,
                           held : BOOLEAN, status : Status \cup {None}]]
    /\ overlapped \in [Mail -> BOOLEAN]
    /\ told \in [Mail -> {"nothing", "held", "free"}]
    /\ apart \in [Mail -> BOOLEAN]

Init ==
    /\ rec = [m \in Mail |-> None]
    /\ rows = [m \in Mail |-> <<>>]
    /\ alert = [m \in Mail |-> "none"]
    /\ req = [w \in Worker |-> Idle]
    /\ overlapped = [m \in Mail |-> FALSE]
    /\ told = [m \in Mail |-> "nothing"]
    /\ apart = [m \in Mail |-> FALSE]

-----------------------------------------------------------------------------
(* Arrivals: one commit each.  A message id that is known is refused.      *)

Arrive(m, record, warned) ==
    /\ rec[m] = None
    /\ rec' = [rec EXCEPT ![m] = record]
    /\ rows' = [rows EXCEPT ![m] = IF record.held THEN <<"quarantined">>
                                                  ELSE <<>>]
    /\ alert' = [alert EXCEPT ![m] = IF warned THEN "unread" ELSE "none"]
    /\ UNCHANGED <<req, overlapped, told, apart>>

Dire(class) == class \in {"malicious", "critical"}

\* Mutant: the hold's threshold lies below the alert's.
HeldAtUpload_Fifty(found) == found.score >= 5000

HeldAtUpload(found) == found.score >= 7000

\* POST /scan: an upload is held from 70 points on, its owner warned from 60.
Scan(u, m) ==
    \E mail \in Contents :
        LET found == Assessed(mail, "upload")
        IN  Arrive(m, [owner |-> u, via |-> "upload", found |-> found,
                       held |-> HeldAtUpload(found)],
                   Dire(found.class))

\* The monitor's commit: held and warned of from 60 points on.  (The
\* quarantine of attachments, which never succeeds, is EmailIngest's.)
Monitored(u, m) ==
    \E mail \in Contents :
        LET found == Assessed(mail, "monitor")
            bad == Dire(found.class) \/ found.score >= 6000
        IN  Arrive(m, [owner |-> u, via |-> "monitor", found |-> found,
                       held |-> bad], bad)

\* POST /sync-raw, where the dashboard's label stands for the assessment.
SyncRaw(m) ==
    \E score \in {7500, 2500, 0} :
        LET found == Labelled(score)
        IN  Arrive(m, [owner |-> First, via |-> "dashboard", found |-> found,
                       held |-> Dire(found.class)], Dire(found.class))

-----------------------------------------------------------------------------
(* Requests.                                                               *)

Owns(u, m) == rec[m] # None /\ rec[m].owner = u

Busy(w, m) == req[w].pc # "idle" /\ req[w].mail = m

Ask(w, u, m) ==
    /\ req[w].pc = "idle"
    /\ rec[m] # None
    /\ \E op \in Op, row \in {0} \cup DOMAIN rows[m] :
          /\ row = 0 <=> op \in {"hold", "release"}
          /\ req' = [req EXCEPT ![w] = [Idle EXCEPT !.pc = "find", !.op = op,
                                           !.mail = m, !.user = u, !.row = row]]
    /\ overlapped' = [overlapped EXCEPT
                         ![m] = @ \/ \E other \in Worker : Busy(other, m)]
    /\ UNCHANGED <<rec, rows, alert, told, apart>>

\* Mutant: the lookup forgets whose mail it is.
Refused_Unknown(w) == rec[req[w].mail] = None

\* The first read, which the owner alone gets an answer to: of the mail's
\* record, or of the row.
Refused(w) == ~Owns(req[w].user, req[w].mail)

Find(w) ==
    /\ req[w].pc = "find"
    /\ LET m == req[w].mail
           row == req[w].row
       IN  req' = [req EXCEPT ![w] =
              CASE Refused(w) -> Idle
                [] ~Refused(w) /\ row = 0 ->
                      [@ EXCEPT !.pc = "look", !.held = rec[m].held]
                [] ~Refused(w) /\ row # 0 ->
                      [@ EXCEPT !.pc = IF req[w].op \in OtherAction THEN "mark"
                                                                    ELSE "look",
                                !.status = rows[m][row]]]
    /\ UNCHANGED <<rec, rows, alert, overlapped, told, apart>>

\* Mutant: the row that the mail has is not looked for.
Existing_None(m) == 0

\* The mail's first row, if any.
Existing(m) == IF rows[m] = <<>> THEN 0 ELSE 1

\* The second read: of the mail's first row, or of the row's mail.
Look(w) ==
    /\ req[w].pc = "look"
    /\ LET m == req[w].mail
       IN  req' = [req EXCEPT ![w] =
              IF req[w].row # 0
              THEN [@ EXCEPT !.pc = "save", !.held = rec[m].held]
              ELSE [@ EXCEPT !.pc = "save",
                             !.row = Existing(m),
                             !.status = IF Existing(m) = 0 THEN None
                                        ELSE rows[m][Existing(m)]]]
    /\ UNCHANGED <<rec, rows, alert, overlapped, told, apart>>

\* A column is written only when its value is not the one that was read.
Written(now, read, new) == IF new = read THEN now ELSE new

\* The mail's rows q when this one, which had that status, gets another.
Restated(row, status, new, q) == [q EXCEPT ![row] = Written(@, status, new)]

\* What a request makes of the flag, of the row's status...
Flag(op) == op = "hold"
Mark(op) == CASE op = "hold" -> "quarantined"
              [] op = "release" -> "released"
              [] op = "release_row" -> "release"

\* ... and of the mail's rows q, where its own had this status.
Marked(op, row, status, q) ==
    CASE row # 0 -> Restated(row, status, Mark(op), q)
      [] row = 0 /\ op = "hold" -> Append(q, "quarantined")
      [] row = 0 /\ op = "release" -> q

Save(w) ==
    LET r == req[w]
        m == r.mail
    IN  /\ r.pc = "save"
        /\ r.op # "delete_row"
        /\ rec' = [rec EXCEPT ![m].held = Written(@, r.held, Flag(r.op))]
        /\ rows' = [rows EXCEPT ![m] = Marked(r.op, r.row, r.status, @)]
        /\ told' = [told EXCEPT ![m] = IF Flag(r.op) THEN "held" ELSE "free"]
        /\ apart' = [apart EXCEPT ![m] = FALSE]
        /\ req' = [req EXCEPT ![w] = Idle]
        /\ UNCHANGED <<alert, overlapped>>

\* Any other action is the row's new status, and nothing else: its mail is not read.
MarkRow(w) ==
    LET r == req[w]
        m == r.mail
    IN  /\ r.pc = "mark"
        /\ rows' = [rows EXCEPT ![m] = Restated(r.row, r.status, r.op, @)]
        /\ apart' = [apart EXCEPT ![m] = TRUE]
        /\ req' = [req EXCEPT ![w] = Idle]
        /\ UNCHANGED <<rec, alert, overlapped, told>>

\* The deletion's commit always fails: the mail's quarantine rows would be
\* left without their mail, which their column does not allow.
SaveFails(w) ==
    /\ req[w].pc = "save"
    /\ req[w].op = "delete_row"
    /\ req' = [req EXCEPT ![w] = Idle]
    /\ UNCHANGED <<rec, rows, alert, overlapped, told, apart>>

\* An alert is marked as read, or all alerts of a user are.
ReadAlert(u, m) ==
    /\ Owns(u, m)
    /\ alert[m] # "none"
    /\ alert' = [alert EXCEPT ![m] = "read"]
    /\ UNCHANGED <<rec, rows, req, overlapped, told, apart>>

ReadAll(u) ==
    /\ alert' = [m \in Mail |-> IF Owns(u, m) /\ alert[m] = "unread"
                                THEN "read" ELSE alert[m]]
    /\ UNCHANGED <<rec, rows, req, overlapped, told, apart>>

Next ==
    \/ \E u \in User, m \in Mail : Scan(u, m) \/ Monitored(u, m)
    \/ \E m \in Mail : SyncRaw(m)
    \/ \E w \in Worker, u \in User, m \in Mail : Ask(w, u, m)
    \/ \E w \in Worker : Find(w) \/ Look(w) \/ Save(w) \/ SaveFails(w) \/ MarkRow(w)
    \/ \E u \in User, m \in Mail : ReadAlert(u, m)
    \/ \E u \in User : ReadAll(u)

Spec == Init /\ [][Next]_vars

-----------------------------------------------------------------------------
(* Properties.                                                             *)

\* A held mail has a row on the quarantine page, whatever overlaps.
HeldIsListed == \A m \in Mail : rec[m] # None /\ rec[m].held => rows[m] # <<>>

\* A mail that was held on arrival has its owner warned: the thresholds of the
\* hold (70, in the route) and of the alert (60, in the risk engine) are in
\* this order.
HeldIsWarnedOf ==
    \A m \in Mail : rec[m] # None /\ rec[m].held /\ alert[m] = "none" =>
        told[m] = "held" \/ overlapped[m]

ReviewInvariant == TypeOK /\ HeldIsListed /\ HeldIsWarnedOf

\* The two tables agree, over any sequence of requests from the mail's page
\* and the quarantine page: until two of them overlap, a mail has one row at
\* most, its record is held as the last confirmed decision said, and that row
\* is in quarantine exactly when the record is held.  Only an action that is
\* neither a release nor a deletion sets the two apart, and the next decision
\* puts them together again.
TablesAgree ==
    \A m \in Mail : rec[m] # None /\ ~overlapped[m] =>
        /\ rows[m] \in {<<>>} \cup {<<s>> : s \in Status}
        /\ ~apart[m] => (rec[m].held <=> rows[m] = <<"quarantined">>)
        /\ told[m] # "nothing" => (rec[m].held <=> told[m] = "held")

\* No threat that a detector found is lost in the weighting: a mail with a
\* malicious attachment or a phishing URL is suspicious at least, and with a
\* suspicious one it is not safe.
ThreatsAreSeen ==
    \A m \in Mail : rec[m] # None =>
        LET found == rec[m].found
            Attachment(class) == \E i \in DOMAIN found.attachments :
                                    found.attachments[i].class = class
            phishing == \E i \in DOMAIN found.urls : found.urls[i].phishing
            suspicious == \E i \in DOMAIN found.urls : found.urls[i].suspicious
        IN  /\ Attachment("malicious") \/ phishing =>
                  found.class \in {"suspicious", "malicious", "critical"}
            /\ Attachment("suspicious") \/ suspicious => found.class # "safe"

\* Only a request of the mail's owner changes the hold of a stored mail, and
\* no record, row or alert ever goes away.
OwnersDecide ==
    [][\A m \in Mail : rec[m] # None =>
          /\ rec'[m] # None
          /\ Len(rows'[m]) >= Len(rows[m])
          /\ alert'[m] = "none" <=> alert[m] = "none"
          /\ rec'[m].held # rec[m].held \/ rows'[m] # rows[m] =>
                \E w \in Worker : /\ req[w].pc \in {"save", "mark"}
                                  /\ req[w].mail = m
                                  /\ req[w].user = rec[m].owner]_vars
=============================================================================
