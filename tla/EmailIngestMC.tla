--------------------------- MODULE EmailIngestMC ---------------------------
(* Instances of EmailIngest for TLC.                                       *)
EXTENDS EmailIngest, TLC

CONSTANTS m1, m2, m3, c1, c2, inbox, archive, i1, i2

\* The inbox is listed first.
InboxFirst == [f \in Folder |-> IF f = inbox THEN 1 ELSE 2]

\* One mailbox, whose two folders use the same UID; m1 has no Message-ID.
OneMailbox == [m \in Mail |-> c1]
TwoFolders == [m \in Mail |-> IF m = m2 THEN archive ELSE inbox]
SameUid == [m \in Mail |-> 1]
OneHeader == [m \in Mail |-> IF m = m1 THEN NoId ELSE i2]
LoopsAreAlike == Permutations(Monitor)

\* Two mailboxes of one folder; m1 and m2 are copies of one message, m3 of another.
TwoMailboxes == [m \in Mail |-> IF m = m2 THEN c2 ELSE c1]
AllInbox == [m \in Mail |-> inbox]
OwnUid == [m \in Mail |-> m]
CopiesShareId == [m \in Mail |-> IF m = m3 THEN i2 ELSE i1]
=============================================================================
