---------------------------- MODULE MailReviewMC ----------------------------
(* An instance of MailReview for TLC: mails that lie on both sides of the   *)
(* thresholds.                                                              *)
EXTENDS MailReview, TLC

PlainFile == [entropy |-> 400, strings |-> 0, ext |-> "other",
              matches |-> TRUE, exeMime |-> FALSE, size |-> 4096,
              positives |-> 0, total |-> 0, infected |-> FALSE]
PackedFile == [PlainFile EXCEPT !.entropy = 720, !.strings = 5,
                                !.ext = "dangerous"]
Attached == [oversize |-> FALSE, eicar |-> FALSE, broken |-> FALSE,
             risky |-> FALSE, decoy |-> FALSE, masked |-> FALSE,
             file |-> PlainFile]

Header(named) == [named |-> named]
Plain == [sender |-> [domain |-> "here", facts |-> {},
                      returnPath |-> Header(NoDomain),
                      replyTo |-> Header(NoDomain)],
          subject |-> [keywords |-> 0, facts |-> {}],
          body |-> [keywords |-> 0, facts |-> {}],
          links |-> <<>>, images |-> <<>>, attachments |-> <<>>]

\* A packed executable: suspicious, with a link that both URL rules notice.
Packed == [Plain EXCEPT !.attachments =
              <<[Attached EXCEPT !.risky = TRUE,
                                 !.file = Measured(PackedFile, {"clamav"})]>>,
                        !.links = <<{"ip", "plain"}>>]
\* An infected file that scores 15 points only.
Infected == [Plain EXCEPT !.attachments =
                <<[Attached EXCEPT !.file = [PlainFile EXCEPT
                                                !.infected = TRUE]]>>]
\* A lure behind a shortener, and nothing else: as little as a phishing URL can weigh.
Lure == [Plain EXCEPT !.links = <<{"shortened", "lure"}>>]
\* A lure at an IP address, in a spoofed sender's name: 62.05 points when
\* uploaded, so its owner is warned and the mail is not held.
Phishing == [Plain EXCEPT
    !.sender = [domain |-> "here", facts |-> {"spoofing", "spf"},
                returnPath |-> Header("elsewhere"), replyTo |-> Header("here")],
    !.subject = [keywords |-> 4, facts |-> {"wording"}],
    !.body = [keywords |-> 2, facts |-> {"wording"}],
    !.links = <<{"plain", "ip", "encoded", "long", "redirect", "lure"}>>]
\* The test signature, in a mail with everything else as well.
Test == [Phishing EXCEPT !.attachments = <<[Attached EXCEPT !.eicar = TRUE]>>]

Threads == Permutations(Worker)

MCContents == {Packed, Infected, Lure, Phishing, Test}
=============================================================================
