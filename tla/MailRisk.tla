------------------------------ MODULE MailRisk ------------------------------
(***************************************************************************)
(* What the detectors make of a file (scanner/risk_scorer.py), of an       *)
(* attachment (email_monitor_service.py), of an URL (url_scanner.py) and   *)
(* of a whole mail (email_risk_engine.py).                                 *)
(*                                                                         *)
(* The text and byte scans themselves are left out: a mail is given by the *)
(* facts that they find, each fact by its name, and the tables below say   *)
(* what a fact is worth.  Entropies are in hundredths of a bit, the scores *)
(* of files, attachments and URLs in points; the weights of a mail's parts *)
(* are percentages, so its score is in hundredths of a point and exact     *)
(* where the code rounds binary fractions.                                 *)
(***************************************************************************)
EXTENDS Integers, Sequences, Functions

AtMost(limit, n) == IF n > limit THEN limit ELSE n
Points(table, facts) == SumFunctionOnSet(table, facts)

-----------------------------------------------------------------------------
(* Files.                                                                  *)

MB == 1024 * 1024

EntropyPoints(e) ==
    CASE e >= 700 -> 20
      [] e \in 650 .. 699 -> 15
      [] e \in 500 .. 649 -> 8
      [] e < 100 -> 5
      [] OTHER -> 0

StringPoints(n) ==
    CASE n >= 10 -> 20
      [] n \in 5 .. 9 -> 12
      [] n \in 1 .. 4 -> 5
      [] OTHER -> 0

ExtensionPoints == [dangerous |-> 15, moderate |-> 7, other |-> 0]

SizePoints(n) ==
    CASE n = 0 -> 3
      [] n \in 1 .. 99 -> 2
      [] n > 100 * MB -> 3
      [] OTHER -> 0

\* positives / total >= 0.5, >= 0.2, > 0
EnginePoints(positives, total) ==
    CASE total > 0 /\ 2 * positives >= total -> 5
      [] total > 0 /\ 2 * positives < total /\ 5 * positives >= total -> 3
      [] total > 0 /\ 5 * positives < total /\ positives > 0 -> 1
      [] OTHER -> 0

FileScore(f) ==
    AtMost(100,
        EntropyPoints(f.entropy) + StringPoints(f.strings)
        + ExtensionPoints[f.ext] + (IF f.matches THEN 0 ELSE 10)
        + SizePoints(f.size) + EnginePoints(f.positives, f.total)
        + (IF f.infected THEN 15 ELSE 0))

FileClass(score) ==
    CASE score >= 70 -> "malicious"
      [] score \in 40 .. 69 -> "suspicious"
      [] score \in 15 .. 39 -> "low_risk"
      [] OTHER -> "safe"

\* analyze_file goes on when a stage fails, with the stage's fallback.
Stages == {"mime", "entropy", "strings", "clamav"}

Measured(f, failed) ==
    [f EXCEPT !.matches = @ \/ "mime" \in failed,
              !.exeMime = @ /\ "mime" \notin failed,
              !.entropy = IF "entropy" \in failed THEN 0 ELSE @,
              !.strings = IF "strings" \in failed THEN 0 ELSE @,
              !.infected = @ /\ "clamav" \notin failed]

-----------------------------------------------------------------------------
(* Attachments.                                                            *)

\* What the scanner measures of a file, and what analyze_attachment notices besides:
\* its size, the test signature, an exception, a dangerous, a decoy and a hidden
\* extension.
FileFacts ==
    [entropy : Nat, strings : Nat, ext : DOMAIN ExtensionPoints, matches : BOOLEAN,
     exeMime : BOOLEAN, size : Nat, positives : Nat, total : Nat, infected : BOOLEAN]

AttachmentFacts ==
    [oversize : BOOLEAN, eicar : BOOLEAN, broken : BOOLEAN, risky : BOOLEAN,
     decoy : BOOLEAN, masked : BOOLEAN, file : FileFacts]

\* An oversized attachment is not looked into, the test signature is found
\* before the scanner runs, and a scanner that fails calls the file safe.
\* a.file is what the scanner measures; VirusTotal is not asked.
AttachmentVerdict(a) ==
    LET score == FileScore(a.file)
        class == FileClass(score)
        byScan == CASE class \in {"malicious", "suspicious"} -> class
                    [] class \notin {"malicious", "suspicious"}
                        /\ (a.risky \/ a.file.exeMime) -> "suspicious"
                    [] OTHER -> "safe"
        byName == IF a.risky /\ a.decoy THEN "malicious" ELSE byScan
        hidden == IF a.masked /\ byName = "safe" THEN "suspicious" ELSE byName
    IN  CASE a.oversize -> [score |-> 0, class |-> "safe"]
          [] ~a.oversize /\ a.eicar -> [score |-> 100, class |-> "malicious"]
          [] ~a.oversize /\ ~a.eicar /\ a.broken ->
                [score |-> 0, class |-> "safe"]
          [] OTHER -> [score |-> score, class |-> hidden]

-----------------------------------------------------------------------------
(* URLs: an uploaded mail's are analysed by url_scanner.py, the monitor    *)
(* has a rule of its own.                                                  *)

UrlPoints ==
    [plain |-> 10, ip |-> 25, shortened |-> 15, tld |-> 15, subdomains |-> 10,
     at |-> 20, encoded |-> 10, punycode |-> 20, keyword |-> 10, brand |-> 20,
     executable |-> 25, long |-> 5, redirect |-> 10, credentials |-> 25]

UrlFacts == DOMAIN UrlPoints \cup {"malformed", "lure"}

UploadedUrl(facts) ==
    IF "malformed" \in facts
    THEN [score |-> 50, suspicious |-> TRUE, phishing |-> FALSE]
    ELSE LET score == AtMost(100, Points(UrlPoints,
                                         facts \cap DOMAIN UrlPoints))
         IN  [score |-> score, suspicious |-> score >= 30,
              phishing |-> score >= 60]

MonitoredUrlPoints == [ip |-> 30, shortened |-> 20, lure |-> 20]

\* "lure": the mail speaks of accounts or passwords
MonitoredUrl(facts) ==
    LET odd == facts \cap {"ip", "shortened"}
        found == IF odd = {} THEN {} ELSE odd \cup (facts \cap {"lure"})
    IN  [score |-> AtMost(100, Points(MonitoredUrlPoints, found)),
         suspicious |-> odd # {},
         phishing |-> "lure" \in found]

-----------------------------------------------------------------------------
(* Mails.                                                                  *)

\* The Return-Path and Reply-To headers are compared by the domain of their
\* display name: extract_email_address returns the address first, and
\* analyze_sender keeps the second.
NoDomain == "none"
Differs(header, domain) == header.named \notin {NoDomain, domain}

SenderPoints ==
    [spoofing |-> 25, spf |-> 20, dkim |-> 15, dmarc |-> 20, office |-> 10]

SenderScore(s) ==
    AtMost(100, Points(SenderPoints, s.facts)
                + (IF Differs(s.returnPath, s.domain) THEN 15 ELSE 0)
                + (IF Differs(s.replyTo, s.domain) THEN 10 ELSE 0))

SubjectPoints == [wording |-> 15, prize |-> 12, shouting |-> 8, reply |-> 10]
SubjectScore(s) == AtMost(100, 8 * s.keywords + Points(SubjectPoints, s.facts))

BodyPoints ==
    [wording |-> 10, manyUrls |-> 10, ipUrl |-> 20, shortUrl |-> 15,
     form |-> 15, embedded |-> 20, script |-> 25]

\* Mutant: analyze_body does not look at the links.
LinkFacts_None(links) == {}

\* What analyze_body makes of the links it finds, beside what it makes of the text.
\* (Links of other schemes than http and https are left out.)
LinkFacts(links) ==
    (IF Len(links) > 5 THEN {"manyUrls"} ELSE {})
        \cup (IF \E i \in DOMAIN links : "ip" \in links[i] THEN {"ipUrl"} ELSE {})
        \cup (IF \E i \in DOMAIN links : "shortened" \in links[i] THEN {"shortUrl"} ELSE {})

BodyScore(b, links) ==
    AtMost(100, 5 * b.keywords + Points(BodyPoints, b.facts \cup LinkFacts(links)))

\* In hundredths of a point.  A phishing URL, or else a suspicious one, counts
\* once; every attachment counts.
AttachmentWeight(v) ==
    25 * v.score + (CASE v.class = "malicious" -> 3500
                      [] v.class = "suspicious" -> 2000
                      [] OTHER -> 0)

UrlBonus(urls) ==
    CASE \E i \in DOMAIN urls : urls[i].phishing -> 2500
      [] /\ \A i \in DOMAIN urls : ~urls[i].phishing
         /\ \E i \in DOMAIN urls : urls[i].suspicious -> 1500
      [] OTHER -> 0

MailScore(mail, urls, attachments) ==
    AtMost(10000,
        30 * SenderScore(mail.sender) + 15 * SubjectScore(mail.subject)
        + 15 * BodyScore(mail.body, mail.links)
        + SumFunction([i \in DOMAIN urls |-> 10 * urls[i].score])
        + UrlBonus(urls)
        + SumFunction([i \in DOMAIN attachments |->
                          AttachmentWeight(attachments[i])]))

\* What the detectors find in a mail.
MailFacts ==
    LET Header == [named : STRING]
    IN  [sender : [domain : STRING, facts : SUBSET DOMAIN SenderPoints,
                   returnPath : Header, replyTo : Header],
         subject : [keywords : Nat, facts : SUBSET DOMAIN SubjectPoints],
         body : [keywords : Nat, facts : SUBSET {"wording", "form", "embedded", "script"}],
         links : Seq(SUBSET UrlFacts), images : Seq(SUBSET UrlFacts),
         attachments : Seq(AttachmentFacts)]

MailClass(score) ==
    CASE score >= 8000 -> "critical"
      [] score \in 6000 .. 7999 -> "malicious"
      [] score \in 3000 .. 5999 -> "suspicious"
      [] score \in 1500 .. 2999 -> "low_risk"
      [] OTHER -> "safe"

\* The whole assessment of a mail, by the way it came: "upload" or "monitor".  The
\* monitor's URLs are the links that analyze_body has found; an upload's are collected
\* apart, the addresses of images among them.
Assessed(mail, via) ==
    LET from == IF via = "upload" THEN mail.links \o mail.images ELSE mail.links
        urls == [i \in DOMAIN from |->
                    IF via = "upload" THEN UploadedUrl(from[i]) ELSE MonitoredUrl(from[i])]
        attachments == [i \in DOMAIN mail.attachments |->
                           AttachmentVerdict(mail.attachments[i])]
        score == MailScore(mail, urls, attachments)
    IN  [score |-> score, class |-> MailClass(score),
         urls |-> urls, attachments |-> attachments]
=============================================================================
