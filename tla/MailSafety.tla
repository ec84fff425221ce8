----------------------------- MODULE MailSafety -----------------------------
(***************************************************************************)
(* The dashboard's label of a mail, Email/server/safety.js: "safe",        *)
(* "dangerous" or "unknown".                                               *)
(*                                                                         *)
(* The tests on words, names and hosts are left out.  A mail is given by   *)
(* the facts they find: about its sender, each attachment and each link,   *)
(* where it uses urgent wording, what the candidates for a scanner's       *)
(* result say, and whether the analysis throws.                            *)
(***************************************************************************)
EXTENDS Integers, Sequences

SenderFact == {"missing", "invalid", "ip", "punycode", "otherAddress", "brand"}
AttachmentFact ==
    {"hidden", "badExtension", "badType", "goodExtension", "goodType"}
LinkFact ==
    {"malformed", "scheme", "noHost", "userinfo", "ip", "punycode",
     "shortened", "executable", "foreign"}
ScanVerdict == {"none", "malicious", "suspicious", "clean", "errored"}

Content ==
    [sender      : SUBSET SenderFact,
     attachments : Seq(SUBSET AttachmentFact),
     links       : Seq(SUBSET LinkFact),
     urgent      : SUBSET {"subject", "body"},
     scans       : Seq(ScanVerdict),
     throws      : BOOLEAN]

\* checkSender: every finding about the sender is suspicious.
BadSender(mail) == mail.sender # {}

\* checkAttachment: a double extension is a bad extension behind a decoy.
BadAttachment(facts) == facts \cap {"hidden", "badExtension", "badType"} # {}

\* A known harmless extension or type settles what an attachment is.
Unresolved(facts) == facts \cap {"goodExtension", "goodType"} = {}

\* checkLink: a link elsewhere than the sender's domain is no finding by itself.
BadLink(facts) == facts \ {"foreign"} # {}

\* hasForeignLink: without a sender, or with a link that cannot be read, yes.
HasForeignLink(mail) ==
    \/ mail.sender \cap {"missing"} # {}
    \/ \E i \in DOMAIN mail.links :
           mail.links[i] \cap {"foreign", "malformed"} # {}

\* checkWording: urgent wording counts in a subject beside a link or attachment,
\* beside any attachment, and beside a link that leads elsewhere.
Escalated(mail) ==
    /\ mail.urgent # {}
    /\ mail.links # <<>> \/ mail.attachments # <<>>
    /\ \/ "subject" \in mail.urgent
       \/ mail.attachments # <<>>
       \/ HasForeignLink(mail)

\* readScannerVerdict: the first candidate that says anything.
IsVerdict(scans, v) ==
    \E i \in DOMAIN scans :
        /\ scans[i] = v
        /\ \A j \in 1 .. i - 1 : scans[j] = "none"

Suspect(mail) ==
    \/ \E v \in {"malicious", "suspicious"} : IsVerdict(mail.scans, v)
    \/ BadSender(mail)
    \/ \E i \in DOMAIN mail.attachments : BadAttachment(mail.attachments[i])
    \/ \E i \in DOMAIN mail.links : BadLink(mail.links[i])
    \/ Escalated(mail)

\* Mutant: an attachment of a kind nobody knows is passed over.
Undetermined_Scanner(mail) == mail.throws \/ IsVerdict(mail.scans, "errored")

Undetermined(mail) ==
    \/ mail.throws
    \/ IsVerdict(mail.scans, "errored")
    \/ \E i \in DOMAIN mail.attachments : Unresolved(mail.attachments[i])

\* assessEmailSafety: an analysis that throws says nothing, a finding outweighs
\* what could not be determined, and what is neither is safe.
Label(mail) ==
    CASE mail.throws                       -> "unknown"
      [] ~mail.throws /\ Suspect(mail)     -> "dangerous"
      [] ~mail.throws /\ ~Suspect(mail) /\ Undetermined(mail) -> "unknown"
      [] OTHER                             -> "safe"
=============================================================================
