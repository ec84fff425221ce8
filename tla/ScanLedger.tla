----------------------------- MODULE ScanLedger -----------------------------
(***************************************************************************)
(* What email ingestion promises, seen from outside: every mail of a       *)
(* monitored mailbox is taken for scanning at most once, by whatever       *)
(* number of monitor loops, and a taken mail is either recorded or lost;   *)
(* neither outcome is ever revised, and no Message-ID is recorded twice.   *)
(* EmailIngest implements it.                                              *)
(***************************************************************************)
CONSTANTS Mail,      \* mails, i.e. (configuration, folder, UID) triples
          MsgId      \* the Message-IDs a record may have

VARIABLES fate,      \* what has become of each mail
          ids        \* the Message-IDs on record

Fate == {"pending", "taken", "recorded", "lost"}

LedgerTypeOK == fate \in [Mail -> Fate] /\ ids \subseteq MsgId

LedgerInit == fate = [m \in Mail |-> "pending"] /\ ids = {}

Take(m) ==
    /\ fate[m] = "pending"
    /\ fate' = [fate EXCEPT ![m] = "taken"]
    /\ UNCHANGED ids

\* A mail is recorded under a Message-ID that no record has yet.
Record(m) ==
    /\ fate[m] = "taken"
    /\ fate' = [fate EXCEPT ![m] = "recorded"]
    /\ \E id \in MsgId \ ids : ids' = ids \cup {id}

Lose(m) ==
    /\ fate[m] = "taken"
    /\ fate' = [fate EXCEPT ![m] = "lost"]
    /\ UNCHANGED ids

LedgerNext == \E m \in Mail : Take(m) \/ Record(m) \/ Lose(m)

LedgerSpec == LedgerInit /\ [][LedgerNext]_<<fate, ids>>
=============================================================================
