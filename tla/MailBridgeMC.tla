---------------------------- MODULE MailBridgeMC ----------------------------
(* An instance of MailBridge, and of MailSync with it, for TLC.            *)
EXTENDS MailBridge

CONSTANTS other

\* Mail 3 is a copy of mail 2.
CopyOfSecond == [u \in Mail |-> IF u = 3 THEN 2 ELSE u]

Plain == [sender |-> {}, attachments |-> <<>>, links |-> <<>>, urgent |-> {},
          scans |-> <<>>, throws |-> FALSE]

\* An archive, whose kind the dashboard does not know, and a mail that asks for a
\* password beside a link to another domain.
Archive == [Plain EXCEPT !.attachments = <<{"goodType"}, {}>>]
Lure == [Plain EXCEPT !.urgent = {"body"}, !.links = <<{"foreign"}>>]

InMailMC == [u \in Mail |-> CASE u \in {2, 3} -> Archive [] u = 5 -> Lure [] OTHER -> Plain]

\* The loop polls the owner's mailbox, and one that receives mail 2 as its first.
PolledMC == {<<other, 2>>, <<Owner, 5>>}
UidInMC == [m \in PolledMC |-> IF m[1] = other THEN 1 ELSE m[2]]
=============================================================================
