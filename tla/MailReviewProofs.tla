-------------------------- MODULE MailReviewProofs --------------------------
(* Proofs about MailReview and the weighting of MailRisk, for every set of *)
(* mails, users, threads and contents.                                     *)
EXTENDS MailReview, SequenceTheorems, FiniteSetTheorems, NaturalsInduction, TLAPS

-----------------------------------------------------------------------------
(* The inductive invariant.                                                *)

RowOp == {"release_row", "delete_row"} \cup OtherAction

\* A request is about a stored mail, and about a row of it if it names one; past its
\* first read it is the owner's.
Grounded ==
    \A w \in Worker : req[w].pc # "idle" =>
        /\ req[w].mail \in Mail /\ req[w].user \in User /\ req[w].op \in Op
        /\ rec[req[w].mail] # None
        /\ req[w].row \in {0} \cup DOMAIN rows[req[w].mail]
        /\ req[w].op \in RowOp => req[w].row # 0
        /\ req[w].pc \in {"find", "look"} /\ req[w].op \notin RowOp => req[w].row = 0
        /\ req[w].pc \in {"look", "save", "mark"} => req[w].user = rec[req[w].mail].owner
        /\ req[w].pc \in {"look", "save"} => req[w].op \notin OtherAction
        /\ req[w].pc = "mark" => req[w].op \in OtherAction

\* Nothing is known of a mail before it is stored.
NewIsBlank == \A m \in Mail : rec[m] = None => told[m] = "nothing"

\* What request w has read is still so.
Current(w) ==
    LET r == req[w]
        m == r.mail
    IN  /\ r.pc = "save" \/ (r.pc = "look" /\ r.row = 0) => r.held = rec[m].held
        /\ r.pc \in {"look", "save", "mark"} /\ r.row # 0 => r.status = rows[m][r.row]
        /\ r.pc = "save" /\ r.row = 0 => rows[m] = <<>>

\* Until two requests about a mail overlap, there is one at most, and it has read
\* what is still so.
InTurn ==
    \A m \in Mail : ~overlapped[m] =>
        /\ \A v, w \in Worker : Busy(v, m) /\ Busy(w, m) => v = w
        /\ \A w \in Worker : Busy(w, m) => Current(w)

IInv == ReviewInvariant /\ TablesAgree /\ Grounded /\ NewIsBlank /\ InTurn

-----------------------------------------------------------------------------
(* Records, requests and verdicts.                                         *)

ReqType ==
    [pc : {"idle", "find", "look", "save", "mark"}, op : Op \cup {None}, mail : Mail \cup {None},
     user : User \cup {None}, row : Nat, held : BOOLEAN, status : Status \cup {None}]

LEMMA Types ==
    ASSUME TypeOK
    PROVE  /\ rec \in [Mail -> Record \cup {None}] /\ rows \in [Mail -> Seq(Status)]
           /\ alert \in [Mail -> {"none", "unread", "read"}] /\ req \in [Worker -> ReqType]
           /\ overlapped \in [Mail -> BOOLEAN] /\ told \in [Mail -> {"nothing", "held", "free"}]
           /\ apart \in [Mail -> BOOLEAN]
           /\ None \notin Record
           /\ \A m \in Mail : rec[m] # None => rec[m] \in Record
           /\ \A m \in Mail : DOMAIN rows[m] = 1 .. Len(rows[m]) /\ Len(rows[m]) \in Nat
<1>1. /\ rec \in [Mail -> Record \cup {None}] /\ rows \in [Mail -> Seq(Status)]
      /\ alert \in [Mail -> {"none", "unread", "read"}] /\ req \in [Worker -> ReqType]
      /\ overlapped \in [Mail -> BOOLEAN] /\ told \in [Mail -> {"nothing", "held", "free"}]
      /\ apart \in [Mail -> BOOLEAN]
  BY DEF TypeOK, ReqType
<1>2. None \notin Record
  BY ReviewAssumption DEF ReviewAssumption
<1>3. \A m \in Mail : rec[m] # None => rec[m] \in Record
  BY <1>1
<1>4. \A m \in Mail : DOMAIN rows[m] = 1 .. Len(rows[m]) /\ Len(rows[m]) \in Nat
  BY <1>1, LenProperties
<1>5. QED
  BY <1>1, <1>2, <1>3, <1>4

LEMMA TypesNext ==
    ASSUME rec' \in [Mail -> Record \cup {None}], rows' \in [Mail -> Seq(Status)],
           alert' \in [Mail -> {"none", "unread", "read"}], req' \in [Worker -> ReqType],
           overlapped' \in [Mail -> BOOLEAN], told' \in [Mail -> {"nothing", "held", "free"}],
           apart' \in [Mail -> BOOLEAN]
    PROVE  TypeOK'
  BY DEF TypeOK, ReqType

LEMMA RecordFields ==
    ASSUME NEW x \in Record
    PROVE  /\ x.held \in BOOLEAN /\ x.owner \in User
           /\ \A h \in BOOLEAN : /\ [x EXCEPT !.held = h] \in Record
                                 /\ [x EXCEPT !.held = h].held = h
                                 /\ [x EXCEPT !.held = h].owner = x.owner
  BY DEF Record

LEMMA IdleType == Idle \in ReqType /\ Idle.pc = "idle"
  BY DEF Idle, ReqType

-----------------------------------------------------------------------------
(* Sums over finite sets: there is no library theorem about them.          *)

LEMMA LeastNumber ==
    ASSUME NEW S \in SUBSET Nat, S # {}
    PROVE  \E x \in S : \A y \in S : x <= y
<1>1. PICK x \in S : \A y \in S : <<y, x>> \notin OpToRel(<, Nat)
  BY NatLessThanWellFounded, WFMin
<1>2. \A y \in S : ~(y < x)
  BY <1>1 DEF OpToRel
<1>3. QED
  BY <1>2

Chosen(s) == CHOOSE x \in s : TRUE

SumTurn(f, s, g) == IF s = {} THEN 0 ELSE f[Chosen(s)] + g[s \ {Chosen(s)}]

\* g holds the sums of the subsets of S with at most n members.
TurnsUpTo(g, f, S, n) ==
    /\ g = [s \in SUBSET S |-> g[s]]
    /\ \A s \in SUBSET S : Cardinality(s) <= n => g[s] = SumTurn(f, s, g)

LEMMA Smaller ==
    ASSUME NEW S, IsFiniteSet(S), NEW s \in SUBSET S, s # {}
    PROVE  /\ Chosen(s) \in s
           /\ s \ {Chosen(s)} \in SUBSET S
           /\ Cardinality(s) \in Nat /\ Cardinality(s) > 0
           /\ Cardinality(s \ {Chosen(s)}) = Cardinality(s) - 1
<1>1. Chosen(s) \in s
  BY DEF Chosen
<1>2. IsFiniteSet(s)
  BY FS_Subset
<1>3. Cardinality(s) \in Nat /\ Cardinality(s) # 0
  BY <1>2, FS_CardinalityType, FS_EmptySet
<1>4. Cardinality(s \ {Chosen(s)}) = Cardinality(s) - 1
  BY <1>1, <1>2, FS_RemoveElement
<1>5. QED
  BY <1>1, <1>3, <1>4

LEMMA TurnsExist ==
    ASSUME NEW f, NEW S, IsFiniteSet(S)
    PROVE  \E g : g = [s \in SUBSET S |-> SumTurn(f, s, g)]
<1> DEFINE Good(n) == \E g : TurnsUpTo(g, f, S, n)
           without == {n \in Nat : ~Good(n)}
<1>1. without = {}
  <2> SUFFICES ASSUME without # {} PROVE FALSE
    OBVIOUS
  <2>1. PICK n \in without : \A y \in without : n <= y
    <3> HIDE DEF without
    <3>1. without \in SUBSET Nat
      BY DEF without
    <3>2. QED
      BY <3>1, LeastNumber
  <2>2. CASE n = 0
    <3> DEFINE g == [s \in SUBSET S |-> 0]
    <3>1. ASSUME NEW s \in SUBSET S, Cardinality(s) <= 0 PROVE s = {}
      <4>1. IsFiniteSet(s)
        BY FS_Subset
      <4>2. Cardinality(s) \in Nat /\ (Cardinality(s) = 0 <=> s = {})
        BY <4>1, FS_CardinalityType, FS_EmptySet
      <4>3. QED
        BY <3>1, <4>2
    <3>2. g = [s \in SUBSET S |-> g[s]]
      OBVIOUS
    <3>3. \A s \in SUBSET S : Cardinality(s) <= n => g[s] = SumTurn(f, s, g)
      BY <2>2, <3>1 DEF SumTurn
    <3>4. TurnsUpTo(g, f, S, n)
      <4> HIDE DEF g
      <4>1. QED
        BY <3>2, <3>3 DEF TurnsUpTo
    <3>5. QED
      BY <2>1, <3>4
  <2>3. CASE n # 0
    <3>1. n - 1 \in Nat /\ n - 1 \notin without
      <4>1. n \in Nat
        BY <2>1
      <4> HIDE DEF without
      <4>2. QED
        BY <2>1, <2>3, <4>1
    <3>2. PICK h : TurnsUpTo(h, f, S, n - 1)
      BY <3>1
    <3> DEFINE g == [s \in SUBSET S |-> IF Cardinality(s) = n THEN SumTurn(f, s, h) ELSE h[s]]
    <3>3. ASSUME NEW s \in SUBSET S, Cardinality(s) <= n
          PROVE  g[s] = SumTurn(f, s, g)
      <4>1. Cardinality(s) \in Nat
        <5>1. IsFiniteSet(s)
          BY FS_Subset
        <5>2. QED
          BY <5>1, FS_CardinalityType
      <4>2. SumTurn(f, s, g) = SumTurn(f, s, h)
        <5>1. CASE s = {}
          BY <5>1 DEF SumTurn
        <5>2. CASE s # {}
          <6> DEFINE r == s \ {Chosen(s)}
          <6>1. r \in SUBSET S /\ Cardinality(r) # n
            BY <3>3, <5>2, Smaller
          <6> HIDE DEF r
          <6>2. g[r] = h[r]
            BY <6>1
          <6> HIDE DEF g
          <6>3. QED
            BY <5>2, <6>2 DEF SumTurn, r
        <5>3. QED
          BY <5>1, <5>2
      <4>3. Cardinality(s) # n => h[s] = SumTurn(f, s, h)
        <5>1. Cardinality(s) # n => Cardinality(s) <= n - 1
          BY <3>1, <3>3, <4>1
        <5>2. QED
          BY <3>2, <5>1 DEF TurnsUpTo
      <4>4. g[s] = IF Cardinality(s) = n THEN SumTurn(f, s, h) ELSE h[s]
        OBVIOUS
      <4>5. QED
        <5> HIDE DEF g
        <5>1. QED
          BY <4>2, <4>3, <4>4
    <3>4. g = [s \in SUBSET S |-> g[s]]
      OBVIOUS
    <3>5. TurnsUpTo(g, f, S, n)
      <4> HIDE DEF g
      <4>1. QED
        BY <3>3, <3>4 DEF TurnsUpTo
    <3>6. QED
      BY <2>1, <3>5
  <2>4. QED
    BY <2>2, <2>3
<1>2. Cardinality(S) \in Nat
  BY FS_CardinalityType
<1>3. PICK g : TurnsUpTo(g, f, S, Cardinality(S))
  BY <1>1, <1>2
<1>4. \A s \in SUBSET S : Cardinality(s) <= Cardinality(S)
  BY FS_Subset
<1>5. g = [s \in SUBSET S |-> SumTurn(f, s, g)]
  BY <1>3, <1>4 DEF TurnsUpTo
<1>6. QED
  BY <1>5

\* A sum of naturals is a natural, and no summand is greater.
LEMMA SumBounds ==
    ASSUME NEW S, IsFiniteSet(S), NEW f, \A x \in S : f[x] \in Nat
    PROVE  /\ SumFunctionOnSet(f, S) \in Nat
           /\ \A x \in S : f[x] <= SumFunctionOnSet(f, S)
           /\ \A x, y \in S : x # y => f[x] + f[y] <= SumFunctionOnSet(f, S)
<1> DEFINE g == CHOOSE g : g = [s \in SUBSET S |-> SumTurn(f, s, g)]
<1>1. SumFunctionOnSet(f, S) = g[S]
  BY DEF SumFunctionOnSet, FoldFunctionOnSet, MapThenFoldSet, SumTurn, Chosen
<1>2. g = [s \in SUBSET S |-> SumTurn(f, s, g)]
  BY TurnsExist
<1> HIDE DEF g
<1>3. \A s \in SUBSET S : g[s] = SumTurn(f, s, g)
  BY <1>2
<1> DEFINE Fine(s) == /\ g[s] \in Nat
                      /\ \A x \in s : f[x] <= g[s]
                      /\ \A x, y \in s : x # y => f[x] + f[y] <= g[s]
           wrong == {n \in Nat : \E s \in SUBSET S : Cardinality(s) = n /\ ~Fine(s)}
<1>4. wrong = {}
  <2> SUFFICES ASSUME wrong # {} PROVE FALSE
    OBVIOUS
  <2>1. PICK n \in wrong : \A y \in wrong : n <= y
    BY LeastNumber
  <2>2. PICK s \in SUBSET S : Cardinality(s) = n /\ ~Fine(s)
    BY <2>1
  <2>3. CASE s = {}
    <3>1. g[s] = 0
      BY <1>3, <2>3 DEF SumTurn
    <3>2. Fine(s)
      BY <2>3, <3>1
    <3>3. QED
      BY <2>2, <3>2
  <2>4. CASE s # {}
    <3> DEFINE c == Chosen(s)
               r == s \ {c}
    <3>1. c \in s /\ r \in SUBSET S /\ n \in Nat /\ n > 0 /\ Cardinality(r) = n - 1
      BY <2>2, <2>4, Smaller
    <3>2. g[s] = f[c] + g[r]
      BY <1>3, <2>4 DEF SumTurn
    <3>3. n - 1 \in Nat /\ n - 1 \notin wrong
      BY <2>1, <3>1
    <3>4. Fine(r)
      BY <3>1, <3>3
    <3>5. f[c] \in Nat
      BY <3>1
    <3>6. \A x \in s : x = c \/ x \in r
      OBVIOUS
    <3> HIDE DEF c, r
    <3>7. \A x \in r : f[x] \in Nat
      BY DEF r
    <3>8. g[s] \in Nat /\ \A x \in s : f[x] <= g[s]
      BY <3>2, <3>4, <3>5, <3>6
    <3>9. ASSUME NEW x \in s, NEW y \in s, x # y PROVE f[x] + f[y] <= g[s]
      BY <3>2, <3>4, <3>5, <3>6, <3>7, <3>9
    <3>10. QED
      BY <2>2, <3>8, <3>9
  <2>5. QED
    BY <2>3, <2>4
<1>5. Fine(S)
  <2>1. Cardinality(S) \in Nat
    BY FS_CardinalityType
  <2>2. QED
    BY <1>4, <2>1
<1>6. QED
  BY <1>1, <1>5

-----------------------------------------------------------------------------
(* The weighting.                                                          *)

LEMMA TablesAreFinite ==
    /\ IsFiniteSet(DOMAIN UrlPoints)
    /\ IsFiniteSet(DOMAIN MonitoredUrlPoints)
    /\ IsFiniteSet(DOMAIN SenderPoints)
    /\ IsFiniteSet(DOMAIN SubjectPoints)
    /\ IsFiniteSet(DOMAIN BodyPoints)
<1>1. ASSUME NEW a, NEW b, NEW c, NEW d
      PROVE  IsFiniteSet({a, b, c, d})
  <2>1. IsFiniteSet({a} \cup {b}) /\ IsFiniteSet({c} \cup {d})
    <3>1. IsFiniteSet({a}) /\ IsFiniteSet({b}) /\ IsFiniteSet({c}) /\ IsFiniteSet({d})
      BY FS_Singleton
    <3>2. QED
      BY <3>1, FS_Union
  <2>2. {a, b, c, d} = ({a} \cup {b}) \cup ({c} \cup {d})
    OBVIOUS
  <2>3. IsFiniteSet(({a} \cup {b}) \cup ({c} \cup {d}))
    BY <2>1, FS_Union
  <2>4. QED
    BY <2>2, <2>3
<1>2. ASSUME NEW S, NEW T, IsFiniteSet(S), IsFiniteSet(T), NEW U, U = S \cup T
      PROVE  IsFiniteSet(U)
  BY <1>2, FS_Union
<1> DEFINE A == {"plain", "ip", "shortened", "tld"}
           B == {"subdomains", "at", "encoded", "punycode"}
           C == {"keyword", "brand", "executable", "long"}
           D == {"redirect", "credentials", "lure", "ip"}
<1>3. IsFiniteSet(A) /\ IsFiniteSet(B) /\ IsFiniteSet(C) /\ IsFiniteSet(D)
  BY <1>1
<1>4. IsFiniteSet(A \cup B) /\ IsFiniteSet(C \cup D)
  BY <1>2, <1>3
<1>5. IsFiniteSet((A \cup B) \cup (C \cup D))
  BY <1>2, <1>4
<1>6. DOMAIN UrlPoints \subseteq (A \cup B) \cup (C \cup D)
  BY DEF UrlPoints
<1>7. DOMAIN MonitoredUrlPoints = {"ip", "shortened", "lure", "ip"}
  BY DEF MonitoredUrlPoints
<1>8. DOMAIN SenderPoints = {"spoofing", "spf", "dkim", "dmarc"} \cup {"office", "spf", "dkim", "dmarc"}
  BY DEF SenderPoints
<1>9. DOMAIN SubjectPoints = {"wording", "prize", "shouting", "reply"}
  BY DEF SubjectPoints
<1>10. DOMAIN BodyPoints = {"wording", "manyUrls", "ipUrl", "shortUrl"}
                              \cup {"form", "embedded", "script", "wording"}
  BY DEF BodyPoints
<1>11. IsFiniteSet(DOMAIN UrlPoints)
  BY <1>5, <1>6, FS_Subset
<1>12. IsFiniteSet(DOMAIN MonitoredUrlPoints) /\ IsFiniteSet(DOMAIN SubjectPoints)
  <2>1. IsFiniteSet({"ip", "shortened", "lure", "ip"})
    BY <1>1
  <2>2. IsFiniteSet({"wording", "prize", "shouting", "reply"})
    BY <1>1
  <2>3. QED
    BY <1>7, <1>9, <2>1, <2>2
<1>13. IsFiniteSet(DOMAIN SenderPoints) /\ IsFiniteSet(DOMAIN BodyPoints)
  <2>1. /\ IsFiniteSet({"spoofing", "spf", "dkim", "dmarc"})
        /\ IsFiniteSet({"office", "spf", "dkim", "dmarc"})
        /\ IsFiniteSet({"wording", "manyUrls", "ipUrl", "shortUrl"})
        /\ IsFiniteSet({"form", "embedded", "script", "wording"})
    BY <1>1
  <2>2. QED
    BY <1>2, <1>8, <1>10, <2>1
<1>14. QED
  BY <1>11, <1>12, <1>13

\* What a table makes of some of its facts is no less than what it makes of one, or
\* of two.
LEMMA PointsBounds ==
    ASSUME NEW table, IsFiniteSet(DOMAIN table), NEW facts \in SUBSET DOMAIN table,
           \A x \in DOMAIN table : table[x] \in Nat
    PROVE  /\ Points(table, facts) \in Nat
           /\ \A x \in facts : table[x] <= Points(table, facts)
           /\ \A x, y \in facts : x # y => table[x] + table[y] <= Points(table, facts)
<1>1. IsFiniteSet(facts)
  BY FS_Subset
<1>2. \A x \in facts : table[x] \in Nat
  OBVIOUS
<1>3. QED
  BY <1>1, <1>2, SumBounds DEF Points

LEMMA FileScores == ASSUME NEW f \in FileFacts PROVE FileScore(f) \in Nat
<1>1. /\ f.entropy \in Nat /\ f.strings \in Nat /\ f.size \in Nat
      /\ f.positives \in Nat /\ f.total \in Nat /\ f.ext \in DOMAIN ExtensionPoints
  BY DEF FileFacts
<1>2. EntropyPoints(f.entropy) \in Nat
  BY DEF EntropyPoints
<1>3. StringPoints(f.strings) \in Nat
  BY DEF StringPoints
<1>4. ExtensionPoints[f.ext] \in Nat
  BY <1>1 DEF ExtensionPoints
<1>5. SizePoints(f.size) \in Nat
  BY DEF SizePoints
<1>6. EnginePoints(f.positives, f.total) \in Nat
  BY DEF EnginePoints
<1>7. QED
  BY <1>2, <1>3, <1>4, <1>5, <1>6 DEF FileScore, AtMost

\* A bad attachment weighs enough to be seen.
LEMMA AttachmentsWeigh ==
    ASSUME NEW a \in AttachmentFacts, NEW v, v = AttachmentVerdict(a)
    PROVE  /\ AttachmentWeight(v) \in Nat
           /\ v.class = "malicious" => AttachmentWeight(v) >= 3000
           /\ v.class = "suspicious" => AttachmentWeight(v) >= 1500
<1>1. v.score \in Nat
  <2>1. FileScore(a.file) \in Nat
    BY FileScores DEF AttachmentFacts
  <2>2. v.score \in {0, 100, FileScore(a.file)}
    BY DEF AttachmentVerdict
  <2>3. QED
    BY <2>1, <2>2
<1>2. PICK n \in Nat : n = 25 * v.score
  BY <1>1
<1>3. QED
  BY <1>2 DEF AttachmentWeight

LEMMA UploadedUrls ==
    ASSUME NEW facts \in SUBSET UrlFacts, NEW v, v = UploadedUrl(facts)
    PROVE  /\ v.score \in Nat
           /\ v.phishing => v.score >= 60
<1> DEFINE known == facts \cap DOMAIN UrlPoints
           p == Points(UrlPoints, known)
<1>1. p \in Nat
  <2>1. \A x \in DOMAIN UrlPoints : UrlPoints[x] \in Nat
    BY DEF UrlPoints
  <2>2. known \in SUBSET DOMAIN UrlPoints
    OBVIOUS
  <2> HIDE DEF known
  <2>3. QED
    BY <2>1, <2>2, TablesAreFinite, PointsBounds
<1>2. AtMost(100, p) \in Nat
  BY <1>1 DEF AtMost
<1>3. v = IF "malformed" \in facts
          THEN [score |-> 50, suspicious |-> TRUE, phishing |-> FALSE]
          ELSE [score |-> AtMost(100, p), suspicious |-> AtMost(100, p) >= 30,
                phishing |-> AtMost(100, p) >= 60]
  BY DEF UploadedUrl
<1> DEFINE n == AtMost(100, p)
<1>4. CASE "malformed" \in facts
  BY <1>3, <1>4
<1>5. CASE "malformed" \notin facts
  <2>1. v.score = n /\ v.phishing = (n >= 60)
    BY <1>3, <1>5
  <2> HIDE DEF n
  <2>2. QED
    BY <1>2, <2>1 DEF n
<1>6. QED
  BY <1>4, <1>5

LEMMA MonitoredUrls ==
    ASSUME NEW facts \in SUBSET UrlFacts, NEW v, v = MonitoredUrl(facts)
    PROVE  /\ v.score \in Nat
           /\ v.phishing => v.score >= 40 /\ facts \cap {"ip", "shortened"} # {}
<1> DEFINE odd == facts \cap {"ip", "shortened"}
           found == IF odd = {} THEN {} ELSE odd \cup (facts \cap {"lure"})
           p == Points(MonitoredUrlPoints, found)
<1>1. /\ p \in Nat
      /\ \A x, y \in found : x # y => MonitoredUrlPoints[x] + MonitoredUrlPoints[y] <= p
  <2>1. \A x \in DOMAIN MonitoredUrlPoints : MonitoredUrlPoints[x] \in Nat
    BY DEF MonitoredUrlPoints
  <2>2. found \in SUBSET DOMAIN MonitoredUrlPoints
    BY DEF MonitoredUrlPoints
  <2> HIDE DEF found
  <2>3. QED
    BY <2>1, <2>2, TablesAreFinite, PointsBounds
<1>2. "lure" \in found => p >= 40
  <2> SUFFICES ASSUME "lure" \in found PROVE p >= 40
    OBVIOUS
  <2>1. PICK x \in found : x \in {"ip", "shortened"}
    OBVIOUS
  <2> HIDE DEF found, p
  <2>2. MonitoredUrlPoints[x] + MonitoredUrlPoints["lure"] <= p
    BY <1>1, <2>1
  <2>3. MonitoredUrlPoints[x] + MonitoredUrlPoints["lure"] >= 40
    BY <2>1 DEF MonitoredUrlPoints
  <2>4. MonitoredUrlPoints[x] + MonitoredUrlPoints["lure"] \in Nat
    BY <2>1 DEF MonitoredUrlPoints
  <2>5. QED
    BY <1>1, <2>2, <2>3, <2>4
<1>3. /\ v.score = AtMost(100, p)
      /\ v.phishing = ("lure" \in found)
  BY DEF MonitoredUrl
<1>4. "lure" \in found => odd # {}
  OBVIOUS
<1>5. AtMost(100, p) \in Nat /\ (p >= 40 => AtMost(100, p) >= 40)
  BY <1>1 DEF AtMost
<1> HIDE DEF found, p
<1>6. QED
  BY <1>2, <1>3, <1>4, <1>5

LEMMA Limited == ASSUME NEW n \in Nat PROVE AtMost(100, n) \in Nat /\ (n >= 15 => AtMost(100, n) >= 15)
  BY DEF AtMost

\* What the detectors make of sender, subject and body are numbers; a link to an IP
\* address or a shortener counts for 15 points in the body.
LEMMA PartsWeigh ==
    ASSUME NEW mail \in MailFacts
    PROVE  /\ SenderScore(mail.sender) \in Nat
           /\ SubjectScore(mail.subject) \in Nat
           /\ BodyScore(mail.body, mail.links) \in Nat
           /\ (\E i \in DOMAIN mail.links : mail.links[i] \cap {"ip", "shortened"} # {})
                  => BodyScore(mail.body, mail.links) >= 15
<1>1. /\ mail.sender.facts \in SUBSET DOMAIN SenderPoints
      /\ mail.subject.facts \in SUBSET DOMAIN SubjectPoints
      /\ mail.body.facts \in SUBSET {"wording", "form", "embedded", "script"}
      /\ mail.subject.keywords \in Nat /\ mail.body.keywords \in Nat
  BY DEF MailFacts
<1>2. /\ \A x \in DOMAIN SenderPoints : SenderPoints[x] \in Nat
      /\ \A x \in DOMAIN SubjectPoints : SubjectPoints[x] \in Nat
      /\ \A x \in DOMAIN BodyPoints : BodyPoints[x] \in Nat
  BY DEF SenderPoints, SubjectPoints, BodyPoints
<1>3. SenderScore(mail.sender) \in Nat
  <2> DEFINE p == Points(SenderPoints, mail.sender.facts)
             x == IF Differs(mail.sender.returnPath, mail.sender.domain) THEN 15 ELSE 0
             y == IF Differs(mail.sender.replyTo, mail.sender.domain) THEN 10 ELSE 0
  <2>1. p \in Nat
    BY <1>1, <1>2, TablesAreFinite, PointsBounds
  <2>2. x \in Nat /\ y \in Nat
    OBVIOUS
  <2>3. SenderScore(mail.sender) = AtMost(100, p + x + y)
    BY DEF SenderScore
  <2> HIDE DEF p, x, y
  <2>4. QED
    BY <2>1, <2>2, <2>3, Limited
<1>4. SubjectScore(mail.subject) \in Nat
  <2> DEFINE p == Points(SubjectPoints, mail.subject.facts)
             k == mail.subject.keywords
  <2>1. p \in Nat /\ k \in Nat
    BY <1>1, <1>2, TablesAreFinite, PointsBounds
  <2>2. SubjectScore(mail.subject) = AtMost(100, 8 * k + p)
    BY DEF SubjectScore
  <2> HIDE DEF p, k
  <2>3. QED
    BY <2>1, <2>2, Limited
<1> DEFINE facts == mail.body.facts \cup LinkFacts(mail.links)
           p == Points(BodyPoints, facts)
           k == mail.body.keywords
<1>5. facts \in SUBSET DOMAIN BodyPoints
  <2>1. LinkFacts(mail.links) \subseteq {"manyUrls", "ipUrl", "shortUrl"}
    BY DEF LinkFacts
  <2>2. {"wording", "form", "embedded", "script", "manyUrls", "ipUrl", "shortUrl"}
            \subseteq DOMAIN BodyPoints
    BY DEF BodyPoints
  <2>3. QED
    BY <1>1, <2>1, <2>2
<1>6. p \in Nat /\ \A x \in facts : BodyPoints[x] <= p
  <2> HIDE DEF facts
  <2>1. QED
    BY <1>2, <1>5, TablesAreFinite, PointsBounds
<1>7. BodyScore(mail.body, mail.links) = AtMost(100, 5 * k + p)
  BY DEF BodyScore
<1>8. ASSUME NEW i \in DOMAIN mail.links, mail.links[i] \cap {"ip", "shortened"} # {}
      PROVE  p >= 15
  <2>1. "ipUrl" \in facts \/ "shortUrl" \in facts
    BY <1>8 DEF LinkFacts
  <2>2. BodyPoints["ipUrl"] = 20 /\ BodyPoints["shortUrl"] = 15
    BY DEF BodyPoints
  <2> HIDE DEF facts, p
  <2>3. QED
    BY <1>6, <2>1, <2>2
<1>9. k \in Nat
  BY <1>1
<1>10. 5 * k + p \in Nat /\ (p >= 15 => 5 * k + p >= 15)
  <2> HIDE DEF k, p
  <2>1. QED
    BY <1>6, <1>9
<1>11. QED
  <2> DEFINE n == 5 * k + p
  <2>1. AtMost(100, n) \in Nat /\ (n >= 15 => AtMost(100, n) >= 15)
    <3> HIDE DEF n
    <3>1. QED
      BY <1>10, Limited DEF n
  <2> HIDE DEF n, p
  <2>2. QED
    BY <1>3, <1>4, <1>7, <1>8, <1>10, <2>1 DEF n

\* A sum over the URLs or attachments of a mail is no less than one of its summands.
LEMMA PartsAddUp ==
    ASSUME NEW n \in Nat, NEW f, DOMAIN f = 1 .. n, \A i \in 1 .. n : f[i] \in Nat
    PROVE  SumFunction(f) \in Nat /\ \A i \in 1 .. n : f[i] <= SumFunction(f)
<1>1. IsFiniteSet(1 .. n)
  BY FS_Interval
<1>2. QED
  BY <1>1, SumBounds DEF SumFunction

LEMMA ClassSees ==
    ASSUME NEW s \in Nat
    PROVE  /\ s >= 3000 => MailClass(s) \in {"suspicious", "malicious", "critical"}
           /\ s >= 1500 => MailClass(s) # "safe"
<1>1. s >= 3000 => s \notin 1500 .. 2999 /\ (s >= 8000 \/ s \in 6000 .. 7999 \/ s \in 3000 .. 5999)
  <2>1. ASSUME s \in 1500 .. 2999 PROVE ~(s >= 3000)
    BY <2>1
  <2>2. ASSUME s >= 3000, s < 6000 PROVE s \in 3000 .. 5999
    BY <2>2
  <2>3. ASSUME s >= 6000, s < 8000 PROVE s \in 6000 .. 7999
    BY <2>3
  <2>4. s < 6000 \/ (s >= 6000 /\ s < 8000) \/ s >= 8000
    OBVIOUS
  <2>5. QED
    BY <2>1, <2>2, <2>3, <2>4
<1>2. s >= 1500 =>
          s >= 8000 \/ s \in 6000 .. 7999 \/ s \in 3000 .. 5999 \/ s \in 1500 .. 2999
  <2>1. ASSUME s >= 1500, s < 3000 PROVE s \in 1500 .. 2999
    BY <2>1
  <2>2. s >= 3000 \/ s < 3000
    OBVIOUS
  <2>3. QED
    BY <1>1, <2>1, <2>2
<1> DEFINE a == s >= 8000
           b == s \in 6000 .. 7999
           c == s \in 3000 .. 5999
           d == s \in 1500 .. 2999
<1>3. MailClass(s) = CASE a -> "critical" [] b -> "malicious" [] c -> "suspicious"
                       [] d -> "low_risk" [] OTHER -> "safe"
  BY DEF MailClass
<1>4. s >= 3000 => ~d /\ (a \/ b \/ c)
  BY <1>1
<1>5. s >= 1500 => a \/ b \/ c \/ d
  BY <1>2
<1> HIDE DEF a, b, c, d
<1>6. QED
  BY <1>3, <1>4, <1>5

\* The thresholds that are asked about: a score is over them if x is.
Reaches(score, x) == (x >= 3000 => score >= 3000) /\ (x >= 1500 => score >= 1500)

LEMMA LessThanParts ==
    ASSUME NEW x \in Nat, NEW y \in Nat, NEW p \in Nat, NEW q \in Nat, NEW s \in Nat,
           x <= y, s >= y + p + q
    PROVE  p + x + q \in Nat /\ s >= p + x + q
  OBVIOUS

\* The score of a mail is a number, and at least what one URL or attachment of it
\* and the bonus for its URLs come to.
LEMMA ScoreCovers ==
    ASSUME NEW mail \in MailFacts, NEW urls, NEW attachments, NEW n \in Nat, NEW m \in Nat,
           DOMAIN urls = 1 .. n, \A i \in 1 .. n : urls[i].score \in Nat,
           DOMAIN attachments = 1 .. m,
           \A i \in 1 .. m : AttachmentWeight(attachments[i]) \in Nat
    PROVE  LET score == MailScore(mail, urls, attachments)
               body == 15 * BodyScore(mail.body, mail.links)
           IN  /\ score \in Nat
               /\ \A i \in 1 .. n :
                      Reaches(score, UrlBonus(urls) + 10 * urls[i].score + body)
               /\ \A i \in 1 .. m : Reaches(score, AttachmentWeight(attachments[i]))
<1> DEFINE f == [i \in DOMAIN urls |-> 10 * urls[i].score]
           g == [i \in DOMAIN attachments |-> AttachmentWeight(attachments[i])]
           sender == SenderScore(mail.sender)
           subject == SubjectScore(mail.subject)
           body == BodyScore(mail.body, mail.links)
           bonus == UrlBonus(urls)
           F == SumFunction(f)
           G == SumFunction(g)
           total == 30 * sender + 15 * subject + 15 * body + F + bonus + G
<1>1. F \in Nat /\ \A i \in 1 .. n : f[i] <= F /\ f[i] = 10 * urls[i].score /\ f[i] \in Nat
  <2>1. DOMAIN f = 1 .. n /\ \A i \in 1 .. n : f[i] = 10 * urls[i].score /\ f[i] \in Nat
    OBVIOUS
  <2> HIDE DEF f
  <2>2. QED
    BY <2>1, PartsAddUp
<1>2. G \in Nat /\ \A i \in 1 .. m : g[i] <= G /\ g[i] = AttachmentWeight(attachments[i])
                                    /\ g[i] \in Nat
  <2>1. DOMAIN g = 1 .. m
        /\ \A i \in 1 .. m : g[i] = AttachmentWeight(attachments[i]) /\ g[i] \in Nat
    OBVIOUS
  <2> HIDE DEF g
  <2>2. QED
    BY <2>1, PartsAddUp
<1>3. sender \in Nat /\ subject \in Nat /\ body \in Nat
  BY PartsWeigh
<1>4. bonus \in Nat
  BY DEF UrlBonus
<1>5. MailScore(mail, urls, attachments) = AtMost(10000, total)
  BY DEF MailScore
<1> HIDE DEF f, g, sender, subject, body, bonus, F, G
<1>6. total \in Nat /\ total >= F + bonus + 15 * body /\ total >= G
  BY <1>1, <1>2, <1>3, <1>4
<1>7. AtMost(10000, total) \in Nat /\ \A x \in Nat : total >= x => Reaches(AtMost(10000, total), x)
  <2> HIDE DEF total
  <2>1. QED
    BY <1>6 DEF AtMost, Reaches
<1>8. ASSUME NEW i \in 1 .. n
      PROVE  Reaches(AtMost(10000, total), bonus + 10 * urls[i].score + 15 * body)
  <2> DEFINE x == f[i]
             y == bonus + x + 15 * body
  <2>1. x \in Nat /\ x <= F /\ x = 10 * urls[i].score
    BY <1>1
  <2>2. y \in Nat /\ total >= y
    <3> DEFINE b == 15 * body
    <3>1. b \in Nat /\ F \in Nat
      BY <1>1, <1>3
    <3>2. total \in Nat /\ total >= F + bonus + b
      BY <1>6
    <3>3. x \in Nat /\ x <= F
      BY <2>1
    <3> HIDE DEF b, x, total
    <3>4. QED
      BY <1>4, <3>1, <3>2, <3>3, LessThanParts DEF b
  <2> HIDE DEF x, total
  <2>3. Reaches(AtMost(10000, total), y)
    <3> HIDE DEF y
    <3>1. QED
      BY <1>7, <2>2
  <2>4. QED
    BY <2>1, <2>3
<1>9. ASSUME NEW i \in 1 .. m
      PROVE  Reaches(AtMost(10000, total), AttachmentWeight(attachments[i]))
  <2> DEFINE x == g[i]
  <2>1. x \in Nat /\ x <= G /\ x = AttachmentWeight(attachments[i])
    BY <1>2
  <2>2. total >= x
    <3> HIDE DEF x, total
    <3>1. QED
      BY <1>2, <1>6, <2>1
  <2> HIDE DEF x, total
  <2>3. QED
    BY <1>7, <2>1, <2>2
<1> HIDE DEF total
<1>10. QED
  BY <1>5, <1>7, <1>8, <1>9 DEF body, bonus

Shown(found) ==
    LET Attachment(class) == \E i \in DOMAIN found.attachments :
                                found.attachments[i].class = class
        phishing == \E i \in DOMAIN found.urls : found.urls[i].phishing
        suspicious == \E i \in DOMAIN found.urls : found.urls[i].suspicious
    IN  /\ Attachment("malicious") \/ phishing =>
              found.class \in {"suspicious", "malicious", "critical"}
        /\ Attachment("suspicious") \/ suspicious => found.class # "safe"

\* Whatever is found in a mail of whatever size, the weighting shows it.
LEMMA AssessedShows ==
    ASSUME NEW mail \in MailFacts, NEW via \in {"upload", "monitor"},
           NEW found, found = Assessed(mail, via)
    PROVE  found.score \in Nat /\ Shown(found)
<1> DEFINE from == IF via = "upload" THEN mail.links \o mail.images ELSE mail.links
           Url(facts) == IF via = "upload" THEN UploadedUrl(facts) ELSE MonitoredUrl(facts)
           urls == [i \in DOMAIN from |-> Url(from[i])]
           attachments == [i \in DOMAIN mail.attachments |->
                              AttachmentVerdict(mail.attachments[i])]
           n == Len(from)
           m == Len(mail.attachments)
           score == MailScore(mail, urls, attachments)
           bonus == UrlBonus(urls)
           body == BodyScore(mail.body, mail.links)
<1>1. found = [score |-> score, class |-> MailClass(score),
               urls |-> urls, attachments |-> attachments]
  BY DEF Assessed
<1>2. /\ mail.links \in Seq(SUBSET UrlFacts) /\ mail.images \in Seq(SUBSET UrlFacts)
      /\ mail.attachments \in Seq(AttachmentFacts)
  BY DEF MailFacts
<1>3. from \in Seq(SUBSET UrlFacts) /\ n \in Nat /\ DOMAIN from = 1 .. n
  <2>1. from \in Seq(SUBSET UrlFacts)
    BY <1>2, ConcatProperties
  <2> HIDE DEF from
  <2>2. QED
    BY <2>1, LenProperties
<1>4. m \in Nat /\ DOMAIN mail.attachments = 1 .. m
  BY <1>2, LenProperties
<1>5. ASSUME NEW i \in 1 .. n
      PROVE  /\ urls[i] = Url(from[i])
             /\ from[i] \in SUBSET UrlFacts
             /\ urls[i].score \in Nat
             /\ urls[i].phishing =>
                    \/ urls[i].score >= 60
                    \/ urls[i].score >= 40 /\ body >= 15
  <2> DEFINE facts == from[i]
  <2>1. facts \in SUBSET UrlFacts
    <3> HIDE DEF from
    <3>1. QED
      BY <1>3, ElementOfSeq
  <2>2. urls[i] = Url(facts)
    BY <1>3
  <2>3. CASE via = "upload"
    <3>1. urls[i] = UploadedUrl(facts)
      BY <2>2, <2>3
    <3> HIDE DEF facts, urls
    <3>2. QED
      BY <2>1, <2>2, <3>1, UploadedUrls DEF facts
  <2>4. CASE via = "monitor"
    <3>1. urls[i] = MonitoredUrl(facts) /\ from = mail.links
      BY <2>2, <2>4
    <3>2. facts \cap {"ip", "shortened"} # {} => body >= 15
      <4>1. i \in DOMAIN mail.links /\ mail.links[i] = facts
        BY <1>3, <3>1
      <4> HIDE DEF facts
      <4>2. QED
        BY <4>1, PartsWeigh
    <3> HIDE DEF facts, urls, body
    <3>3. QED
      BY <2>1, <2>2, <3>1, <3>2, MonitoredUrls DEF facts
  <2>5. QED
    BY <2>3, <2>4
<1>6. ASSUME NEW i \in 1 .. m
      PROVE  /\ AttachmentWeight(attachments[i]) \in Nat
             /\ attachments[i].class = "malicious" => AttachmentWeight(attachments[i]) >= 3000
             /\ attachments[i].class = "suspicious" => AttachmentWeight(attachments[i]) >= 1500
  <2> DEFINE a == mail.attachments[i]
  <2>1. a \in AttachmentFacts
    BY <1>2, <1>4, ElementOfSeq
  <2>2. attachments[i] = AttachmentVerdict(a)
    BY <1>4
  <2> HIDE DEF a, attachments
  <2>3. QED
    BY <2>1, <2>2, AttachmentsWeigh
<1>7. DOMAIN urls = 1 .. n /\ DOMAIN attachments = 1 .. m
  BY <1>3, <1>4
<1> HIDE DEF urls, attachments, n, m, from
<1>8. /\ bonus \in Nat
      /\ (\E i \in 1 .. n : urls[i].phishing) => bonus >= 2500
      /\ (\E i \in 1 .. n : urls[i].suspicious) => bonus >= 1500
  <2> DEFINE P == \E i \in DOMAIN urls : urls[i].phishing
             S == /\ \A i \in DOMAIN urls : ~urls[i].phishing
                  /\ \E i \in DOMAIN urls : urls[i].suspicious
  <2>1. bonus = CASE P -> 2500 [] S -> 1500 [] OTHER -> 0
    BY DEF UrlBonus
  <2>2. /\ (\E i \in 1 .. n : urls[i].phishing) => P
        /\ (\E i \in 1 .. n : urls[i].suspicious) => P \/ S
        /\ P => ~S
    BY <1>7
  <2> HIDE DEF P, S, bonus
  <2>3. bonus \in Nat /\ (P => bonus >= 2500) /\ (S => bonus >= 1500)
    BY <2>1, <2>2
  <2>4. P \/ S => bonus >= 1500
    BY <2>3
  <2>5. QED
    BY <2>2, <2>3, <2>4
<1>9. body \in Nat
  BY PartsWeigh
<1>10. /\ score \in Nat
       /\ \A i \in 1 .. n : Reaches(score, bonus + 10 * urls[i].score + 15 * body)
       /\ \A i \in 1 .. m : Reaches(score, AttachmentWeight(attachments[i]))
  <2>1. n \in Nat /\ m \in Nat /\ DOMAIN urls = 1 .. n /\ DOMAIN attachments = 1 .. m
    BY <1>3, <1>4, <1>7
  <2>2. \A i \in 1 .. n : urls[i].score \in Nat
    BY <1>5
  <2>3. \A i \in 1 .. m : AttachmentWeight(attachments[i]) \in Nat
    BY <1>6
  <2>4. QED
    BY <2>1, <2>2, <2>3, ScoreCovers
<1> HIDE DEF score, bonus, body
<1>11. ASSUME NEW i \in 1 .. m
       PROVE  /\ attachments[i].class = "malicious" => score >= 3000
              /\ attachments[i].class = "suspicious" => score >= 1500
  BY <1>6, <1>10 DEF Reaches
<1>12. ASSUME NEW i \in 1 .. n, urls[i].phishing PROVE score >= 3000
  <2> DEFINE x == urls[i].score
  <2>1. x \in Nat /\ bonus >= 2500 /\ (x >= 60 \/ (x >= 40 /\ body >= 15))
    BY <1>5, <1>8, <1>12
  <2>2. Reaches(score, bonus + 10 * x + 15 * body)
    BY <1>10
  <2> HIDE DEF x
  <2>3. bonus + 10 * x + 15 * body >= 3000
    BY <1>8, <1>9, <2>1
  <2>4. QED
    BY <2>2, <2>3 DEF Reaches
<1>13. ASSUME NEW i \in 1 .. n, urls[i].suspicious PROVE score >= 1500
  <2> DEFINE x == urls[i].score
  <2>1. x \in Nat /\ bonus >= 1500
    BY <1>5, <1>8, <1>13
  <2>2. Reaches(score, bonus + 10 * x + 15 * body)
    BY <1>10
  <2> HIDE DEF x
  <2>3. bonus + 10 * x + 15 * body >= 1500
    BY <1>8, <1>9, <2>1
  <2>4. QED
    BY <2>2, <2>3 DEF Reaches
<1>14. /\ score >= 3000 => MailClass(score) \in {"suspicious", "malicious", "critical"}
       /\ score >= 1500 => MailClass(score) # "safe"
  BY <1>10, ClassSees
<1>15. /\ found.score = score /\ found.class = MailClass(score)
       /\ found.urls = urls /\ found.attachments = attachments
  BY <1>1
<1>16. Shown(found)
  <2>1. (\/ \E i \in DOMAIN attachments : attachments[i].class = "malicious"
         \/ \E i \in DOMAIN urls : urls[i].phishing)
            => MailClass(score) \in {"suspicious", "malicious", "critical"}
    BY <1>7, <1>11, <1>12, <1>14
  <2>2. (\/ \E i \in DOMAIN attachments : attachments[i].class = "suspicious"
         \/ \E i \in DOMAIN urls : urls[i].suspicious)
            => MailClass(score) # "safe"
    BY <1>7, <1>11, <1>13, <1>14
  <2>3. QED
    BY <1>15, <2>1, <2>2 DEF Shown
<1>17. QED
  BY <1>10, <1>15, <1>16

LEMMA HighIsDire == ASSUME NEW s \in Nat, s >= 6000 PROVE Dire(MailClass(s))
<1>1. ASSUME s \in 3000 .. 5999 PROVE FALSE
  <2>1. s < 6000
    BY <1>1
  <2>2. QED
    BY <2>1
<1>2. ASSUME s \in 1500 .. 2999 PROVE FALSE
  <2>1. s < 6000
    BY <1>2
  <2>2. QED
    BY <2>1
<1>3. s \notin 3000 .. 5999 /\ s \notin 1500 .. 2999
  BY <1>1, <1>2
<1>4. CASE s >= 8000
  <2>1. ASSUME s \in 6000 .. 7999 PROVE FALSE
    <3>1. s < 8000
      BY <2>1
    <3>2. QED
      BY <1>4, <3>1
  <2>2. QED
    BY <1>3, <1>4, <2>1 DEF MailClass, Dire
<1>5. CASE s < 8000
  <2>1. s \in 6000 .. 7999
    BY <1>5
  <2>2. ~(s >= 8000)
    BY <1>5
  <2>3. QED
    BY <1>3, <2>1, <2>2 DEF MailClass, Dire
<1>6. QED
  BY <1>4, <1>5

\* What an assessment finds can be stored, and its owner is warned of a mail that is
\* held.
LEMMA VerdictsAgree ==
    ASSUME NEW mail \in Contents, NEW via \in {"upload", "monitor"},
           NEW found, found = Assessed(mail, via)
    PROVE  /\ found \in Finding
           /\ HeldAtUpload(found) => Dire(found.class)
<1>1. found \in Finding
  BY DEF Finding
<1>2. PICK s \in Nat : s = found.score
  BY ReviewAssumption, AssessedShows DEF ReviewAssumption
<1>3. found.class = MailClass(s)
  BY <1>2 DEF Assessed
<1>4. HeldAtUpload(found) => s >= 7000
  BY <1>2 DEF HeldAtUpload
<1>5. s >= 7000 => s >= 6000
  OBVIOUS
<1>6. QED
  BY <1>1, <1>3, <1>4, <1>5, HighIsDire

-----------------------------------------------------------------------------
(* The steps.                                                              *)

LEMMA InitIInv == Init => IInv
<1> SUFFICES ASSUME Init PROVE IInv
  OBVIOUS
<1>1. <<>> \in Seq(Status)
  BY EmptySeq
<1>2. TypeOK
  BY <1>1, IdleType DEF Init, TypeOK, ReqType
<1>3. HeldIsListed /\ HeldIsWarnedOf /\ TablesAgree /\ NewIsBlank
  BY DEF Init, HeldIsListed, HeldIsWarnedOf, TablesAgree, NewIsBlank
<1>4. \A w \in Worker : req[w].pc = "idle"
  BY IdleType DEF Init
<1>5. Grounded /\ InTurn
  BY <1>4 DEF Grounded, InTurn, Busy
<1>6. QED
  BY <1>2, <1>3, <1>5 DEF IInv, ReviewInvariant

\* A mail arrives.  It is held only if its owner is warned.
LEMMA ArriveStep ==
    ASSUME IInv, NEW m \in Mail, NEW x \in Record, NEW warned \in BOOLEAN, x.held => warned,
           Arrive(m, x, warned)
    PROVE  IInv'
<1>0. TypeOK /\ HeldIsListed /\ HeldIsWarnedOf /\ TablesAgree /\ Grounded /\ NewIsBlank /\ InTurn
  BY DEF IInv, ReviewInvariant
<1>1. /\ rec[m] = None /\ rec' = [rec EXCEPT ![m] = x]
      /\ rows' = [rows EXCEPT ![m] = IF x.held THEN <<"quarantined">> ELSE <<>>]
      /\ alert' = [alert EXCEPT ![m] = IF warned THEN "unread" ELSE "none"]
      /\ req' = req /\ overlapped' = overlapped /\ told' = told /\ apart' = apart
  BY DEF Arrive
<1>2. <<"quarantined">> \in Seq(Status) /\ <<>> \in Seq(Status)
  BY DEF Status
<1>3. TypeOK'
  BY <1>0, <1>1, <1>2, Types, TypesNext
<1>4. /\ rec'[m] = x /\ \A k \in Mail : k # m => rec'[k] = rec[k] /\ rows'[k] = rows[k]
      /\ rows'[m] = IF x.held THEN <<"quarantined">> ELSE <<>>
      /\ alert'[m] = IF warned THEN "unread" ELSE "none"
      /\ \A k \in Mail : k # m => alert'[k] = alert[k]
      /\ x # None /\ x.held \in BOOLEAN
  BY <1>0, <1>1, Types, RecordFields
<1>5. HeldIsListed'
  BY <1>0, <1>4 DEF HeldIsListed
<1>6. HeldIsWarnedOf'
  BY <1>0, <1>1, <1>4 DEF HeldIsWarnedOf
<1>7. TablesAgree'
  <2>1. "quarantined" \in Status
    BY DEF Status
  <2>2. QED
    BY <1>0, <1>1, <1>4, <2>1 DEF TablesAgree, NewIsBlank
<1>8. \A w \in Worker : req[w].pc # "idle" => req[w].mail \in Mail /\ req[w].mail # m
  BY <1>0, <1>1 DEF Grounded
<1>9. Grounded'
  BY <1>0, <1>1, <1>4, <1>8 DEF Grounded
<1>10. NewIsBlank'
  BY <1>0, <1>1, <1>4 DEF NewIsBlank
<1>11. InTurn'
  <2>1. \A w \in Worker, k \in Mail : Busy(w, k)' <=> Busy(w, k)
    BY <1>1 DEF Busy
  <2>2. \A w \in Worker, k \in Mail : Busy(w, k) /\ Current(w) => Current(w)'
    BY <1>1, <1>4, <1>8 DEF Busy, Current
  <2>3. QED
    BY <1>0, <1>1, <2>1, <2>2 DEF InTurn
<1>12. QED
  BY <1>3, <1>5, <1>6, <1>7, <1>9, <1>10, <1>11 DEF IInv, ReviewInvariant

LEMMA ArrivalStep ==
    ASSUME IInv, \/ \E u \in User, m \in Mail : Scan(u, m) \/ Monitored(u, m)
                 \/ \E m \in Mail : SyncRaw(m)
    PROVE  IInv'
<1>1. ASSUME NEW u \in User, NEW m \in Mail, Scan(u, m) PROVE IInv'
  <2>1. PICK mail \in Contents :
            LET found == Assessed(mail, "upload")
            IN  Arrive(m, [owner |-> u, via |-> "upload", found |-> found,
                           held |-> HeldAtUpload(found)], Dire(found.class))
    BY <1>1 DEF Scan
  <2> DEFINE found == Assessed(mail, "upload")
             x == [owner |-> u, via |-> "upload", found |-> found,
                   held |-> HeldAtUpload(found)]
  <2>2. found \in Finding /\ (HeldAtUpload(found) => Dire(found.class))
    BY VerdictsAgree
  <2>3. HeldAtUpload(found) \in BOOLEAN /\ Dire(found.class) \in BOOLEAN
    BY DEF HeldAtUpload, Dire
  <2> HIDE DEF found
  <2>4. x \in Record /\ x.held = HeldAtUpload(found)
    BY <2>2, <2>3 DEF Record
  <2>5. Arrive(m, x, Dire(found.class))
    BY <2>1 DEF found
  <2> HIDE DEF x
  <2>6. QED
    BY <2>2, <2>3, <2>4, <2>5, ArriveStep
<1>2. ASSUME NEW u \in User, NEW m \in Mail, Monitored(u, m) PROVE IInv'
  <2>1. PICK mail \in Contents :
            LET found == Assessed(mail, "monitor")
                bad == Dire(found.class) \/ found.score >= 6000
            IN  Arrive(m, [owner |-> u, via |-> "monitor", found |-> found, held |-> bad], bad)
    BY <1>2 DEF Monitored
  <2> DEFINE found == Assessed(mail, "monitor")
             bad == Dire(found.class) \/ found.score >= 6000
             x == [owner |-> u, via |-> "monitor", found |-> found, held |-> bad]
  <2>2. found \in Finding
    BY VerdictsAgree
  <2>3. bad \in BOOLEAN
    BY DEF Dire
  <2>4. Arrive(m, x, bad)
    BY <2>1
  <2> HIDE DEF found, bad
  <2>5. x \in Record /\ x.held = bad
    BY <2>2, <2>3 DEF Record
  <2> HIDE DEF x
  <2>6. QED
    BY <2>3, <2>4, <2>5, ArriveStep
<1>3. ASSUME NEW m \in Mail, SyncRaw(m) PROVE IInv'
  <2>1. PICK score \in {7500, 2500, 0} :
            LET found == Labelled(score)
            IN  Arrive(m, [owner |-> First, via |-> "dashboard", found |-> found,
                           held |-> Dire(found.class)], Dire(found.class))
    BY <1>3 DEF SyncRaw
  <2> DEFINE found == Labelled(score)
             x == [owner |-> First, via |-> "dashboard", found |-> found,
                   held |-> Dire(found.class)]
  <2>2. found \in Finding /\ First \in User
    <3>1. score = 7500 \/ score = 2500 \/ score = 0
      BY <2>1
    <3>2. QED
      BY <3>1, ReviewAssumption DEF Finding, ReviewAssumption
  <2>3. Dire(found.class) \in BOOLEAN
    BY DEF Dire
  <2>4. Arrive(m, x, Dire(found.class))
    BY <2>1
  <2> HIDE DEF found
  <2>5. x \in Record /\ x.held = Dire(found.class)
    BY <2>2, <2>3 DEF Record
  <2> HIDE DEF x
  <2>6. QED
    BY <2>3, <2>4, <2>5, ArriveStep
<1>4. QED
  BY <1>1, <1>2, <1>3

\* A step that changes requests only, each keeping what it is about; a mail about
\* which requests overlap is noted.
LEMMA RequestStep ==
    ASSUME IInv, UNCHANGED <<rec, rows, alert, told, apart>>, req' \in [Worker -> ReqType],
           overlapped' \in [Mail -> BOOLEAN], \A m \in Mail : overlapped[m] => overlapped'[m],
           Grounded', InTurn'
    PROVE  IInv'
<1>0. TypeOK /\ HeldIsListed /\ HeldIsWarnedOf /\ TablesAgree /\ NewIsBlank
  BY DEF IInv, ReviewInvariant
<1>1. TypeOK'
  BY <1>0, Types, TypesNext
<1>2. HeldIsListed' /\ HeldIsWarnedOf' /\ NewIsBlank'
  BY <1>0 DEF HeldIsListed, HeldIsWarnedOf, NewIsBlank
<1>3. TablesAgree'
  BY <1>0 DEF TablesAgree
<1>4. QED
  BY <1>1, <1>2, <1>3 DEF IInv, ReviewInvariant

\* A request is made.
LEMMA AskStep ==
    ASSUME IInv, NEW w \in Worker, NEW u \in User, NEW m \in Mail, Ask(w, u, m)
    PROVE  IInv'
<1>0. TypeOK /\ Grounded /\ InTurn
  BY DEF IInv, ReviewInvariant
<1>1. PICK op \in Op, row \in {0} \cup DOMAIN rows[m] :
          /\ row = 0 <=> op \in {"hold", "release"}
          /\ req' = [req EXCEPT ![w] = [Idle EXCEPT !.pc = "find", !.op = op,
                                           !.mail = m, !.user = u, !.row = row]]
  BY DEF Ask
<1>2. row \in Nat
  BY <1>0, Types
<1> DEFINE x == [Idle EXCEPT !.pc = "find", !.op = op, !.mail = m, !.user = u, !.row = row]
<1>3. x = [Idle EXCEPT !.pc = "find", !.op = op, !.mail = m, !.user = u, !.row = row]
      /\ req' = [req EXCEPT ![w] = x]
  BY <1>1
<1> HIDE DEF x
<1>4. x \in ReqType /\ x.pc = "find" /\ x.op = op /\ x.mail = m /\ x.user = u /\ x.row = row
  <2>1. x = [Idle EXCEPT !.pc = "find", !.op = op, !.mail = m, !.user = u, !.row = row]
    BY <1>3
  <2>2. /\ op \in Op \cup {None} /\ m \in Mail \cup {None} /\ u \in User \cup {None}
        /\ "find" \in {"idle", "find", "look", "save", "mark"}
    OBVIOUS
  <2>3. x \in ReqType
    BY <1>2, <2>1, <2>2, IdleType DEF ReqType
  <2>4. QED
    BY <2>1, <2>3, IdleType DEF ReqType
<1>5. /\ req' \in [Worker -> ReqType] /\ req'[w] = x
      /\ \A v \in Worker : v # w => req'[v] = req[v]
  BY <1>0, <1>3, <1>4, Types
<1>6. /\ req[w].pc = "idle" /\ rec[m] # None /\ UNCHANGED <<rec, rows, alert, told, apart>>
      /\ overlapped' = [overlapped EXCEPT ![m] = @ \/ \E other \in Worker : Busy(other, m)]
  BY DEF Ask
<1>7. overlapped'[m] = (overlapped[m] \/ \E other \in Worker : Busy(other, m))
  BY <1>0, <1>6, Types, Zenon
<1>8. /\ overlapped' \in [Mail -> BOOLEAN]
      /\ \A k \in Mail : k # m => overlapped'[k] = overlapped[k]
  <2>1. (overlapped[m] \/ \E other \in Worker : Busy(other, m)) \in BOOLEAN
    BY Zenon
  <2>2. QED
    BY <1>0, <1>6, <2>1, Types, Zenon
<1>9. Grounded'
  <2>1. op \notin RowOp <=> row = 0
    BY <1>1, ReviewAssumption DEF Op, RowOp, ReviewAssumption
  <2>2. QED
    BY <1>0, <1>4, <1>5, <1>6, <2>1 DEF Grounded
<1>10. InTurn'
  <2> SUFFICES ASSUME NEW k \in Mail, ~overlapped'[k]
               PROVE  /\ \A v, y \in Worker : Busy(v, k)' /\ Busy(y, k)' => v = y
                      /\ \A v \in Worker : Busy(v, k)' => Current(v)'
    BY DEF InTurn
  <2>1. \A v \in Worker : v # w => /\ Busy(v, k)' <=> Busy(v, k)
                                   /\ Current(v)' <=> Current(v)
    BY <1>5, <1>6 DEF Busy, Current
  <2>2. Busy(w, k)' <=> k = m
    BY <1>4, <1>5 DEF Busy
  <2>3. Current(w)'
    BY <1>4, <1>5 DEF Current
  <2>4. CASE k = m
    <3>1. \A v \in Worker : ~Busy(v, k)
      BY <1>7, <2>4
    <3>2. QED
      BY <2>1, <2>2, <2>3, <2>4, <3>1
  <2>5. CASE k # m
    <3>1. ~overlapped[k]
      BY <1>8, <2>5
    <3>2. QED
      BY <1>0, <2>1, <2>2, <2>5, <3>1 DEF InTurn
  <2>6. QED
    BY <2>4, <2>5
<1>11. \A k \in Mail : overlapped[k] => overlapped'[k]
  BY <1>7, <1>8
<1>12. QED
  BY <1>5, <1>6, <1>8, <1>9, <1>10, <1>11, RequestStep

\* A request goes on to x, which is idle or about the same mail, and has read what
\* is so.
LEMMA GoesOn ==
    ASSUME IInv, NEW w \in Worker, NEW x \in ReqType, req[w].pc # "idle",
           req' = [req EXCEPT ![w] = x], UNCHANGED <<rec, rows, alert, overlapped, told, apart>>,
           x.pc # "idle" =>
               /\ x.mail = req[w].mail
               /\ (~overlapped[x.mail] => Current(w))  => (~overlapped[x.mail] => Current(w)'),
           Grounded'
    PROVE  IInv'
<1>0. TypeOK /\ Grounded /\ InTurn
  BY DEF IInv, ReviewInvariant
<1>1. /\ req' \in [Worker -> ReqType] /\ req'[w] = x
      /\ \A v \in Worker : v # w => req'[v] = req[v]
  BY <1>0, Types
<1>2. \A v \in Worker, k \in Mail : Busy(v, k)' => Busy(v, k)
  BY <1>1 DEF Busy
<1>3. \A v \in Worker : v # w => (Current(v) => Current(v)')
  BY <1>1 DEF Current
<1>4. InTurn'
  <2> SUFFICES ASSUME NEW k \in Mail, ~overlapped[k], NEW v \in Worker, Busy(v, k)'
               PROVE  Current(v)'
    BY <1>0, <1>2 DEF InTurn
  <2>1. Busy(v, k) /\ Current(v)
    BY <1>0, <1>2 DEF InTurn
  <2>2. CASE v = w
    <3>1. x.pc # "idle" /\ x.mail = k
      BY <1>1, <2>2 DEF Busy
    <3>2. QED
      BY <2>1, <2>2, <3>1
  <2>3. CASE v # w
    BY <1>3, <2>1, <2>3
  <2>4. QED
    BY <2>2, <2>3
<1>5. overlapped' \in [Mail -> BOOLEAN] /\ \A k \in Mail : overlapped[k] => overlapped'[k]
  BY <1>0, Types
<1>6. QED
  BY <1>1, <1>4, <1>5, RequestStep

\* The first read.
LEMMA FindStep == ASSUME IInv, NEW w \in Worker, Find(w) PROVE IInv'
<1>0. TypeOK /\ Grounded /\ InTurn
  BY DEF IInv, ReviewInvariant
<1> DEFINE r == req[w]
<1>1. /\ r.pc = "find" /\ UNCHANGED <<rec, rows, alert, overlapped, told, apart>>
      /\ r \in ReqType /\ r.mail \in Mail /\ r.row \in Nat
      /\ r.row \in {0} \cup DOMAIN rows[r.mail]
      /\ rec[r.mail] # None /\ rec[r.mail].held \in BOOLEAN
  BY <1>0, Types, RecordFields DEF Find, Grounded, ReqType
<1>2. CASE Refused(w)
  <2>1. req' = [req EXCEPT ![w] = Idle]
    BY <1>2 DEF Find
  <2>2. Grounded'
    BY <1>0, <1>1, <2>1, IdleType, Types DEF Grounded
  <2>3. QED
    BY <1>1, <2>1, <2>2, IdleType, GoesOn
<1>3. CASE ~Refused(w) /\ r.row = 0
  <2> DEFINE x == [r EXCEPT !.pc = "look", !.held = rec[r.mail].held]
  <2>1. req' = [req EXCEPT ![w] = x]
    BY <1>3 DEF Find
  <2>2. /\ x \in ReqType /\ x.pc = "look" /\ x.mail = r.mail /\ x.row = 0
        /\ x.op = r.op /\ x.user = r.user /\ x.held = rec[r.mail].held
    BY <1>1, <1>3 DEF ReqType
  <2> HIDE DEF x
  <2>3. req'[w] = x /\ \A v \in Worker : v # w => req'[v] = req[v]
    BY <1>0, <2>1, Types
  <2>4. Grounded'
    BY <1>0, <1>1, <1>3, <2>2, <2>3 DEF Grounded, Refused, Owns, RowOp
  <2>5. Current(w)'
    BY <1>1, <2>2, <2>3 DEF Current
  <2>6. QED
    BY <1>1, <2>1, <2>2, <2>4, <2>5, GoesOn
<1>4. CASE ~Refused(w) /\ r.row # 0
  <2> DEFINE stage == IF r.op \in OtherAction THEN "mark" ELSE "look"
             x == [r EXCEPT !.pc = stage, !.status = rows[r.mail][r.row]]
  <2>0. stage = IF r.op \in OtherAction THEN "mark" ELSE "look"
    OBVIOUS
  <2>1. req' = [req EXCEPT ![w] = x]
    BY <1>4 DEF Find
  <2> HIDE DEF stage
  <2>2. rows[r.mail][r.row] \in Status
    BY <1>0, <1>1, <1>4, Types, ElementOfSeq
  <2>3. /\ x \in ReqType /\ x.pc = stage /\ x.mail = r.mail /\ x.row = r.row
        /\ x.op = r.op /\ x.user = r.user /\ x.status = rows[r.mail][r.row]
    BY <1>1, <2>0, <2>2 DEF ReqType
  <2> HIDE DEF x
  <2>4. req'[w] = x /\ \A v \in Worker : v # w => req'[v] = req[v]
    BY <1>0, <2>1, Types
  <2>5. Grounded'
    BY <1>0, <1>1, <1>4, <2>0, <2>3, <2>4 DEF Grounded, Refused, Owns
  <2>6. Current(w)'
    BY <1>1, <1>4, <2>0, <2>3, <2>4 DEF Current
  <2>7. QED
    BY <1>1, <2>1, <2>3, <2>5, <2>6, GoesOn
<1>5. QED
  BY <1>2, <1>3, <1>4

\* The second read.
LEMMA LookStep == ASSUME IInv, NEW w \in Worker, Look(w) PROVE IInv'
<1>0. TypeOK /\ Grounded /\ InTurn
  BY DEF IInv, ReviewInvariant
<1> DEFINE r == req[w]
<1>1. /\ r.pc = "look" /\ UNCHANGED <<rec, rows, alert, overlapped, told, apart>>
      /\ r \in ReqType /\ r.mail \in Mail /\ r.row \in Nat
      /\ r.row \in {0} \cup DOMAIN rows[r.mail]
      /\ rec[r.mail] # None /\ rec[r.mail].held \in BOOLEAN
      /\ r.user = rec[r.mail].owner
  BY <1>0, Types, RecordFields DEF Look, Grounded, ReqType
<1>2. CASE r.row # 0
  <2> DEFINE x == [r EXCEPT !.pc = "save", !.held = rec[r.mail].held]
  <2>1. req' = [req EXCEPT ![w] = x]
    BY <1>2 DEF Look
  <2>2. /\ x \in ReqType /\ x.pc = "save" /\ x.mail = r.mail /\ x.row = r.row
        /\ x.op = r.op /\ x.user = r.user /\ x.held = rec[r.mail].held
        /\ x.status = r.status
    BY <1>1 DEF ReqType
  <2> HIDE DEF x
  <2>3. req'[w] = x /\ \A v \in Worker : v # w => req'[v] = req[v]
    BY <1>0, <2>1, Types
  <2>4. Grounded'
    BY <1>0, <1>1, <1>2, <2>2, <2>3 DEF Grounded
  <2>5. Current(w) => Current(w)'
    BY <1>1, <1>2, <2>2, <2>3 DEF Current
  <2>6. QED
    BY <1>1, <2>1, <2>2, <2>4, <2>5, GoesOn
<1>3. CASE r.row = 0
  <2> DEFINE e == Existing(r.mail)
             s == IF e = 0 THEN None ELSE rows[r.mail][e]
             x == [r EXCEPT !.pc = "save", !.row = e, !.status = s]
  <2>1. req' = [req EXCEPT ![w] = x]
    BY <1>3 DEF Look
  <2>2. rows[r.mail] \in Seq(Status)
    BY <1>0, <1>1, Types
  <2>3. /\ e \in Nat /\ e \in {0} \cup DOMAIN rows[r.mail]
        /\ e = 0 => rows[r.mail] = <<>>
    BY <2>2, EmptySeq, LenProperties DEF Existing
  <2>4. s \in Status \cup {None} /\ (e # 0 => s = rows[r.mail][e])
    BY <2>2, <2>3, ElementOfSeq, LenProperties
  <2> HIDE DEF e, s
  <2>5. /\ x \in ReqType /\ x.pc = "save" /\ x.mail = r.mail /\ x.row = e
        /\ x.op = r.op /\ x.user = r.user /\ x.held = r.held /\ x.status = s
    BY <1>1, <2>3, <2>4 DEF ReqType
  <2> HIDE DEF x
  <2>6. req'[w] = x /\ \A v \in Worker : v # w => req'[v] = req[v]
    BY <1>0, <2>1, Types
  <2>7. r.op \notin RowOp
    BY <1>0, <1>1, <1>3 DEF Grounded
  <2>8. Grounded'
    BY <1>0, <1>1, <2>3, <2>5, <2>6, <2>7 DEF Grounded
  <2>9. Current(w) => Current(w)'
    BY <1>1, <1>3, <2>3, <2>4, <2>5, <2>6 DEF Current
  <2>10. QED
    BY <1>1, <2>1, <2>5, <2>8, <2>9, GoesOn
<1>4. QED
  BY <1>2, <1>3

LEMMA SaveFailsStep == ASSUME IInv, NEW w \in Worker, SaveFails(w) PROVE IInv'
<1>0. TypeOK /\ Grounded
  BY DEF IInv, ReviewInvariant
<1>1. /\ req[w].pc = "save" /\ UNCHANGED <<rec, rows, alert, overlapped, told, apart>>
      /\ req' = [req EXCEPT ![w] = Idle]
  BY DEF SaveFails
<1>2. Grounded'
  BY <1>0, <1>1, IdleType, Types DEF Grounded
<1>3. QED
  BY <1>1, <1>2, IdleType, GoesOn

\* What a request makes of a mail's flag h.
NewHeld(op, read, h) == Written(h, read, Flag(op))

LEMMA HeldChanges ==
    ASSUME NEW op, NEW read, NEW h \in BOOLEAN
    PROVE  /\ NewHeld(op, read, h) \in BOOLEAN
           /\ read = h => (NewHeld(op, read, h) <=> op = "hold")
           /\ NewHeld(op, read, h) /\ op # "hold" => h
<1>1. Flag(op) \in BOOLEAN /\ (Flag(op) <=> op = "hold")
  BY DEF Flag
<1>2. CASE Flag(op) = read
  BY <1>1, <1>2, Zenon DEF NewHeld, Written
<1>3. CASE Flag(op) # read
  BY <1>1, <1>3, Zenon DEF NewHeld, Written
<1>4. QED
  BY <1>2, <1>3

\* The rows grow at most; a hold leaves one.  A request that has read what is
\* so leaves the one row as it decided.
LEMMA RowsChange ==
    ASSUME NEW op \in {"hold", "release", "release_row"}, NEW row, NEW status,
           NEW q \in Seq(Status),
           row \in {0} \cup DOMAIN q, op = "release_row" => row # 0,
           NEW n, n = Marked(op, row, status, q)
    PROVE  /\ n \in Seq(Status) /\ Len(n) >= Len(q) /\ DOMAIN q \subseteq DOMAIN n
           /\ q # <<>> => n # <<>>
           /\ op = "hold" => n # <<>>
           /\ (row # 0 => status = q[row]) /\ (row = 0 => q = <<>>)
              /\ q \in {<<>>} \cup {<<s>> : s \in Status}
              => /\ n \in {<<>>} \cup {<<s>> : s \in Status}
                 /\ n = <<"quarantined">> <=> op = "hold"
<1>2. /\ Mark(op) \in Status
      /\ Mark(op) = "quarantined" <=> op = "hold"
  BY DEF Mark, Status
<1>3. DOMAIN q = 1 .. Len(q) /\ Len(q) \in Nat
  BY LenProperties
<1>4. CASE row # 0
  <2> DEFINE s == Written(q[row], status, Mark(op))
  <2>1. n = [q EXCEPT ![row] = s] /\ row \in 1 .. Len(q)
    BY <1>3, <1>4 DEF Marked, Restated
  <2>2. q[row] \in Status
    BY <2>1, ElementOfSeq
  <2>3. s \in Status /\ (status = q[row] => s = Mark(op))
    BY <1>2, <2>2 DEF Written
  <2> HIDE DEF s
  <2>4. n \in Seq(Status) /\ Len(n) = Len(q) /\ DOMAIN n = DOMAIN q /\ n[row] = s
    BY <2>1, <2>3, ExceptSeq
  <2>5. q # <<>> /\ n # <<>>
    BY <2>1, <2>4, EmptySeq, LenProperties
  <2>6. ASSUME status = q[row], q \in {<<>>} \cup {<<t>> : t \in Status}
        PROVE  n = <<Mark(op)>>
    <3>1. PICK t \in Status : q = <<t>>
      BY <2>5, <2>6
    <3>2. Len(q) = 1 /\ row = 1
      BY <2>1, <3>1
    <3>3. n = <<n[1]>>
      BY <2>4, <3>2
    <3>4. QED
      BY <2>3, <2>4, <2>6, <3>2, <3>3
  <2>7. QED
    BY <1>2, <1>3, <1>4, <2>4, <2>5, <2>6
<1>5. CASE row = 0 /\ op = "hold"
  <2>1. n = Append(q, "quarantined")
    BY <1>5 DEF Marked
  <2>2. n \in Seq(Status) /\ Len(n) = Len(q) + 1 /\ n # <<>>
    BY <2>1, AppendProperties DEF Status
  <2>3. DOMAIN q \subseteq DOMAIN n
    BY <1>3, <2>2, LenProperties
  <2>4. q = <<>> => n = <<"quarantined">>
    BY <2>1
  <2>5. Len(n) >= Len(q)
    BY <1>3, <2>2
  <2>6. QED
    BY <1>5, <2>2, <2>3, <2>4, <2>5 DEF Status
<1>6. CASE row = 0 /\ op # "hold"
  <2>1. n = q
    BY <1>6 DEF Marked
  <2>2. <<>> # <<"quarantined">>
    OBVIOUS
  <2>3. QED
    BY <1>3, <1>6, <2>1, <2>2
<1>7. QED
  BY <1>4, <1>5, <1>6

\* A request commits: its mail's record stays, and its rows grow at most.
LEMMA SaveStep ==
    ASSUME IInv, NEW w \in Worker, Save(w)
    PROVE  /\ IInv' /\ alert' = alert
           /\ \A k \in Mail : k # req[w].mail => rec'[k] = rec[k] /\ rows'[k] = rows[k]
           /\ \A k \in Mail : k = req[w].mail => rec'[k] # None /\ Len(rows'[k]) >= Len(rows[k])
<1>0. TypeOK /\ HeldIsListed /\ HeldIsWarnedOf /\ TablesAgree /\ Grounded /\ NewIsBlank /\ InTurn
  BY DEF IInv, ReviewInvariant
<1>1. PICK m \in Mail, op \in {"hold", "release", "release_row"}, row \in Nat, read \in BOOLEAN,
           status \in Status \cup {None} :
          /\ m = req[w].mail /\ op = req[w].op /\ row = req[w].row /\ read = req[w].held
          /\ status = req[w].status
          /\ req[w].pc = "save" /\ rec[m] # None /\ row \in {0} \cup DOMAIN rows[m]
          /\ op = "release_row" => row # 0
  BY <1>0, Types DEF Save, Grounded, ReqType, Op, RowOp
<1>2. PICK x \in Record : x = rec[m]
  BY <1>0, <1>1, Types
<1>3. PICK q \in Seq(Status) : q = rows[m]
  BY <1>0, <1>1, Types
<1> DEFINE h == NewHeld(op, read, x.held)
           n == Marked(op, row, status, q)
           y == [x EXCEPT !.held = h]
           t == IF Flag(op) THEN "held" ELSE "free"
<1>4. /\ rec' = [rec EXCEPT ![m] = y] /\ rows' = [rows EXCEPT ![m] = n]
      /\ told' = [told EXCEPT ![m] = t] /\ apart' = [apart EXCEPT ![m] = FALSE]
      /\ req' = [req EXCEPT ![w] = Idle]
      /\ alert' = alert /\ overlapped' = overlapped
  <2>1. rec' = [rec EXCEPT ![m] = y]
    <3>1. rec' = [rec EXCEPT ![m].held = Written(@, read, Flag(op))]
      BY <1>1, Zenon DEF Save
    <3>2. QED
      BY <1>2, <3>1, Zenon DEF NewHeld
  <2>2. rows' = [rows EXCEPT ![m] = n]
    <3>1. rows' = [rows EXCEPT ![m] = Marked(op, row, status, rows[m])]
      BY <1>1, Zenon DEF Save
    <3>2. QED
      BY <1>3, <3>1
  <2>3. told' = [told EXCEPT ![m] = t] /\ apart' = [apart EXCEPT ![m] = FALSE]
    BY <1>1, Zenon DEF Save
  <2>4. req' = [req EXCEPT ![w] = Idle] /\ alert' = alert /\ overlapped' = overlapped
    BY DEF Save
  <2>5. QED
    BY <2>1, <2>2, <2>3, <2>4
<1>5. x.held \in BOOLEAN
  BY RecordFields
<1>6. /\ h \in BOOLEAN
      /\ read = x.held => (h <=> op = "hold")
      /\ h /\ op # "hold" => x.held
  BY <1>5, HeldChanges
<1>7. /\ n \in Seq(Status) /\ Len(n) >= Len(q) /\ DOMAIN q \subseteq DOMAIN n
      /\ q # <<>> => n # <<>>
      /\ op = "hold" => n # <<>>
      /\ (row # 0 => status = q[row]) /\ (row = 0 => q = <<>>)
         /\ q \in {<<>>} \cup {<<s>> : s \in Status}
         => /\ n \in {<<>>} \cup {<<s>> : s \in Status}
            /\ n = <<"quarantined">> <=> op = "hold"
  BY <1>1, <1>3, RowsChange
<1>8. /\ t \in {"nothing", "held", "free"} /\ t # "nothing"
      /\ t = "held" <=> op = "hold"
  BY DEF Flag
<1> HIDE DEF h, n, t
<1>9. y \in Record /\ y.held = h /\ y.owner = x.owner /\ y # None
  BY <1>0, <1>6, RecordFields, Types
<1> HIDE DEF y
<1>10. TypeOK'
  BY <1>0, <1>4, <1>7, <1>8, <1>9, IdleType, Types, TypesNext
<1>11. /\ rec'[m] = y /\ rows'[m] = n /\ told'[m] = t /\ req'[w] = Idle
       /\ \A k \in Mail : k # m => rec'[k] = rec[k] /\ rows'[k] = rows[k] /\ told'[k] = told[k]
       /\ \A k \in Mail : k # m => apart'[k] = apart[k]
       /\ \A v \in Worker : v # w => req'[v] = req[v]
  BY <1>0, <1>4, Types
\* Without overlap, the request has read what is so.
<1>12. ASSUME ~overlapped[m] PROVE read = x.held /\ (row # 0 => status = q[row]) /\ (row = 0 => q = <<>>)
  <2>1. Busy(w, m)
    BY <1>1 DEF Busy
  <2>2. Current(w)
    BY <1>0, <1>12, <2>1 DEF InTurn
  <2>3. QED
    BY <1>1, <1>2, <1>3, <2>2 DEF Current
<1>13. HeldIsListed'
  <2>1. h => n # <<>>
    BY <1>0, <1>1, <1>2, <1>3, <1>6, <1>7 DEF HeldIsListed
  <2>2. QED
    BY <1>0, <1>9, <1>11, <2>1 DEF HeldIsListed
<1>14. HeldIsWarnedOf'
  <2>1. h => t = "held" \/ overlapped[m]
    BY <1>6, <1>8, <1>12
  <2>2. QED
    BY <1>0, <1>4, <1>9, <1>11, <2>1 DEF HeldIsWarnedOf
<1>15. TablesAgree'
  <2> SUFFICES ASSUME NEW k \in Mail, rec'[k] # None, ~overlapped[k]
               PROVE  /\ rows'[k] \in {<<>>} \cup {<<s>> : s \in Status}
                      /\ ~apart'[k] => (rec'[k].held <=> rows'[k] = <<"quarantined">>)
                      /\ told'[k] # "nothing" => (rec'[k].held <=> told'[k] = "held")
    BY <1>4 DEF TablesAgree
  <2>1. CASE k = m
    <3>1. q \in {<<>>} \cup {<<s>> : s \in Status}
      BY <1>0, <1>1, <1>3, <2>1 DEF TablesAgree
    <3>2. /\ n \in {<<>>} \cup {<<s>> : s \in Status}
          /\ n = <<"quarantined">> <=> op = "hold"
      BY <1>7, <1>12, <2>1, <3>1
    <3>3. h <=> op = "hold"
      BY <1>6, <1>12, <2>1
    <3>4. QED
      BY <1>8, <1>9, <1>11, <2>1, <3>2, <3>3
  <2>2. CASE k # m
    BY <1>0, <1>11, <2>2 DEF TablesAgree
  <2>3. QED
    BY <2>1, <2>2
<1>16. Grounded'
  <2>1. \A k \in Mail : /\ rec[k] # None => rec'[k] # None /\ rec'[k].owner = rec[k].owner
                        /\ DOMAIN rows[k] \subseteq DOMAIN rows'[k]
    BY <1>2, <1>3, <1>7, <1>9, <1>11
  <2>2. QED
    BY <1>0, <1>11, <2>1, IdleType DEF Grounded
<1>17. NewIsBlank'
  BY <1>0, <1>9, <1>11 DEF NewIsBlank
<1>18. InTurn'
  <2> SUFFICES ASSUME NEW k \in Mail, ~overlapped[k]
               PROVE  /\ \A v, z \in Worker : Busy(v, k)' /\ Busy(z, k)' => v = z
                      /\ \A v \in Worker : Busy(v, k)' => Current(v)'
    BY <1>4 DEF InTurn
  <2>1. \A v \in Worker : Busy(v, k)' => v # w /\ Busy(v, k)
    BY <1>11, IdleType DEF Busy
  <2>2. Busy(w, m)
    BY <1>1 DEF Busy
  <2>3. \A v \in Worker : Busy(v, k)' => v # w /\ Busy(v, k) /\ Current(v) /\ k # m
    BY <1>0, <2>1, <2>2 DEF InTurn
  <2>4. \A v \in Worker : Busy(v, k)' => Current(v)'
    BY <1>11, <2>3 DEF Busy, Current
  <2>5. QED
    BY <1>0, <2>3, <2>4 DEF InTurn
<1>19. /\ \A k \in Mail : k # req[w].mail => rec'[k] = rec[k] /\ rows'[k] = rows[k]
       /\ \A k \in Mail : k = req[w].mail => rec'[k] # None /\ Len(rows'[k]) >= Len(rows[k])
  BY <1>1, <1>3, <1>7, <1>9, <1>11
<1>20. QED
  BY <1>4, <1>10, <1>13, <1>14, <1>15, <1>16, <1>17, <1>18, <1>19 DEF IInv, ReviewInvariant

\* A row is given another status, and its mail's record stays as it is.
LEMMA MarkStep ==
    ASSUME IInv, NEW w \in Worker, MarkRow(w)
    PROVE  /\ IInv' /\ alert' = alert /\ rec' = rec
           /\ \A k \in Mail : k # req[w].mail => rows'[k] = rows[k]
           /\ \A k \in Mail : k = req[w].mail => Len(rows'[k]) >= Len(rows[k])
<1>0. TypeOK /\ HeldIsListed /\ HeldIsWarnedOf /\ TablesAgree /\ Grounded /\ NewIsBlank /\ InTurn
  BY DEF IInv, ReviewInvariant
<1>1. PICK m \in Mail, op \in OtherAction, row \in Nat, status \in Status \cup {None} :
          /\ m = req[w].mail /\ op = req[w].op /\ row = req[w].row /\ status = req[w].status
          /\ req[w].pc = "mark" /\ rec[m] # None /\ row \in DOMAIN rows[m]
  BY <1>0, Types DEF MarkRow, Grounded, ReqType, RowOp
<1>2. PICK q \in Seq(Status) : q = rows[m]
  BY <1>0, <1>1, Types
<1> DEFINE s == Written(q[row], status, op)
           n == [q EXCEPT ![row] = s]
<1>3. /\ rows' = [rows EXCEPT ![m] = n] /\ apart' = [apart EXCEPT ![m] = TRUE]
      /\ req' = [req EXCEPT ![w] = Idle]
      /\ rec' = rec /\ alert' = alert /\ overlapped' = overlapped /\ told' = told
  <2>1. rows' = [rows EXCEPT ![m] = Restated(row, status, op, rows[m])]
    BY <1>1, Zenon DEF MarkRow
  <2>2. apart' = [apart EXCEPT ![m] = TRUE]
    BY <1>1, Zenon DEF MarkRow
  <2>3. /\ req' = [req EXCEPT ![w] = Idle]
        /\ rec' = rec /\ alert' = alert /\ overlapped' = overlapped /\ told' = told
    BY DEF MarkRow
  <2>4. QED
    BY <1>2, <2>1, <2>2, <2>3 DEF Restated
<1>4. DOMAIN q = 1 .. Len(q) /\ Len(q) \in Nat /\ row \in 1 .. Len(q) /\ q[row] \in Status
  BY <1>1, <1>2, LenProperties, ElementOfSeq
<1>5. s \in Status
  BY <1>4 DEF Written, Status
<1>6. n = [q EXCEPT ![row] = s]
  OBVIOUS
<1> HIDE DEF s, n
<1>7. n \in Seq(Status) /\ Len(n) = Len(q) /\ DOMAIN n = DOMAIN q
  BY <1>4, <1>5, <1>6, ExceptSeq
<1>8. q # <<>> /\ n # <<>>
  BY <1>4, <1>7, EmptySeq, LenProperties
<1>9. q \in {<<>>} \cup {<<t>> : t \in Status} => n \in {<<t>> : t \in Status}
  <2> HAVE q \in {<<>>} \cup {<<t>> : t \in Status}
  <2>1. Len(n) = 1 /\ 1 \in 1 .. Len(n)
    BY <1>7, <1>8
  <2>2. n[1] \in Status
    BY <1>7, <2>1, ElementOfSeq
  <2>3. n = <<n[1]>>
    BY <1>7, <2>1
  <2>4. QED
    BY <2>2, <2>3
<1>10. TypeOK'
  BY <1>0, <1>3, <1>7, IdleType, Types, TypesNext
<1>11. /\ rows'[m] = n /\ apart'[m] /\ req'[w] = Idle
       /\ \A k \in Mail : k # m => rows'[k] = rows[k] /\ apart'[k] = apart[k]
       /\ \A v \in Worker : v # w => req'[v] = req[v]
  BY <1>0, <1>3, Types
<1>12. HeldIsListed' /\ HeldIsWarnedOf' /\ NewIsBlank'
  BY <1>0, <1>3, <1>8, <1>11 DEF HeldIsListed, HeldIsWarnedOf, NewIsBlank
<1>13. TablesAgree'
  <2> SUFFICES ASSUME NEW k \in Mail, rec[k] # None, ~overlapped[k]
               PROVE  /\ rows'[k] \in {<<>>} \cup {<<t>> : t \in Status}
                      /\ ~apart'[k] => (rec[k].held <=> rows'[k] = <<"quarantined">>)
                      /\ told[k] # "nothing" => (rec[k].held <=> told[k] = "held")
    BY <1>3 DEF TablesAgree
  <2>1. CASE k = m
    BY <1>0, <1>2, <1>9, <1>11, <2>1 DEF TablesAgree
  <2>2. CASE k # m
    BY <1>0, <1>11, <2>2 DEF TablesAgree
  <2>3. QED
    BY <2>1, <2>2
<1>14. Grounded'
  <2>1. \A k \in Mail : DOMAIN rows[k] \subseteq DOMAIN rows'[k]
    BY <1>2, <1>7, <1>11
  <2>2. QED
    BY <1>0, <1>3, <1>11, <2>1, IdleType DEF Grounded
<1>15. InTurn'
  <2> SUFFICES ASSUME NEW k \in Mail, ~overlapped[k]
               PROVE  /\ \A v, z \in Worker : Busy(v, k)' /\ Busy(z, k)' => v = z
                      /\ \A v \in Worker : Busy(v, k)' => Current(v)'
    BY <1>3 DEF InTurn
  <2>1. \A v \in Worker : Busy(v, k)' => v # w /\ Busy(v, k)
    BY <1>11, IdleType DEF Busy
  <2>2. Busy(w, m)
    BY <1>1 DEF Busy
  <2>3. \A v \in Worker : Busy(v, k)' => v # w /\ Busy(v, k) /\ Current(v) /\ k # m
    BY <1>0, <2>1, <2>2 DEF InTurn
  <2>4. \A v \in Worker : Busy(v, k)' => Current(v)'
    BY <1>3, <1>11, <2>3 DEF Busy, Current
  <2>5. QED
    BY <1>0, <2>3, <2>4 DEF InTurn
<1>16. /\ \A k \in Mail : k # req[w].mail => rows'[k] = rows[k]
       /\ \A k \in Mail : k = req[w].mail => Len(rows'[k]) >= Len(rows[k])
  BY <1>1, <1>2, <1>4, <1>7, <1>11
<1>17. QED
  BY <1>3, <1>10, <1>12, <1>13, <1>14, <1>15, <1>16 DEF IInv, ReviewInvariant

\* Alerts are read.
LEMMA ReadStep ==
    ASSUME IInv, UNCHANGED <<rec, rows, req, overlapped, told, apart>>,
           alert' \in [Mail -> {"none", "unread", "read"}],
           \A m \in Mail : alert'[m] = "none" <=> alert[m] = "none"
    PROVE  IInv'
<1>0. TypeOK /\ HeldIsListed /\ HeldIsWarnedOf /\ TablesAgree /\ Grounded /\ NewIsBlank /\ InTurn
  BY DEF IInv, ReviewInvariant
<1>1. TypeOK'
  BY <1>0, Types, TypesNext
<1>2. HeldIsListed' /\ HeldIsWarnedOf' /\ TablesAgree' /\ NewIsBlank'
  BY <1>0 DEF HeldIsListed, HeldIsWarnedOf, TablesAgree, NewIsBlank
<1>3. Grounded' /\ InTurn'
  BY <1>0 DEF Grounded, InTurn, Busy, Current
<1>4. QED
  BY <1>1, <1>2, <1>3 DEF IInv, ReviewInvariant

\* A user reads one alert, or all of the user's.
LEMMA ReadKeeps ==
    ASSUME TypeOK, NEW u \in User, (\E m \in Mail : ReadAlert(u, m)) \/ ReadAll(u)
    PROVE  /\ UNCHANGED <<rec, rows, req, overlapped, told, apart>>
           /\ alert' \in [Mail -> {"none", "unread", "read"}]
           /\ \A m \in Mail : alert'[m] = "none" <=> alert[m] = "none"
<1>1. CASE \E m \in Mail : ReadAlert(u, m)
  BY <1>1, Types DEF ReadAlert
<1>2. CASE ReadAll(u)
  <2>1. \A m \in Mail : alert'[m] = IF Owns(u, m) /\ alert[m] = "unread" THEN "read" ELSE alert[m]
    BY <1>2 DEF ReadAll
  <2>2. alert' \in [Mail -> {"none", "unread", "read"}]
    BY <1>2, Types DEF ReadAll
  <2>3. QED
    BY <1>2, <2>1, <2>2 DEF ReadAll
<1>3. QED
  BY <1>1, <1>2

LEMMA IInvStep == ASSUME IInv, [Next]_vars PROVE IInv'
<1>1. CASE \/ \E u \in User, m \in Mail : Scan(u, m) \/ Monitored(u, m)
           \/ \E m \in Mail : SyncRaw(m)
  BY <1>1, ArrivalStep
<1>2. CASE \E w \in Worker, u \in User, m \in Mail : Ask(w, u, m)
  BY <1>2, AskStep
<1>3. CASE \E w \in Worker : Find(w) \/ Look(w) \/ Save(w) \/ SaveFails(w) \/ MarkRow(w)
  BY <1>3, FindStep, LookStep, SaveStep, SaveFailsStep, MarkStep
<1>4. CASE \E u \in User : (\E m \in Mail : ReadAlert(u, m)) \/ ReadAll(u)
  BY <1>4, ReadKeeps, ReadStep DEF IInv, ReviewInvariant
<1>5. CASE UNCHANGED vars
  BY <1>5, ReadStep, Types DEF vars, IInv, ReviewInvariant
<1>6. QED
  BY <1>1, <1>2, <1>3, <1>4, <1>5 DEF Next

LEMMA ReviewIInv == Spec => []IInv
  BY InitIInv, IInvStep, PTL DEF Spec

-----------------------------------------------------------------------------
(* The theorems.                                                           *)

\* A held mail is on the quarantine page, whatever requests overlap, and its owner
\* has been warned of it or has held it.
THEOREM HeldMailsAreShown == Spec => []ReviewInvariant
<1>1. IInv => ReviewInvariant
  BY DEF IInv
<1>2. QED
  BY <1>1, ReviewIInv, PTL

\* Until requests about a mail overlap, its record says what the last confirmed
\* decision said, and its quarantine row agrees with the record unless an action
\* that is neither a release nor a deletion was the last to change the row.
THEOREM TablesStayTogether == Spec => []TablesAgree
<1>1. IInv => TablesAgree
  BY DEF IInv
<1>2. QED
  BY <1>1, ReviewIInv, PTL

\* What OwnersDecide says of a step.
Decides ==
    \A m \in Mail : rec[m] # None =>
        /\ rec'[m] # None
        /\ Len(rows'[m]) >= Len(rows[m])
        /\ alert'[m] = "none" <=> alert[m] = "none"
        /\ rec'[m].held # rec[m].held \/ rows'[m] # rows[m] =>
              \E w \in Worker : /\ req[w].pc \in {"save", "mark"}
                                /\ req[w].mail = m
                                /\ req[w].user = rec[m].owner

\* A step that leaves a stored mail's record and rows alone decides nothing.
LEMMA NothingDecided ==
    ASSUME TypeOK,
           \A m \in Mail : rec[m] # None => /\ rec'[m] = rec[m] /\ rows'[m] = rows[m]
                                            /\ alert'[m] = "none" <=> alert[m] = "none"
    PROVE  Decides
<1>1. \A m \in Mail : Len(rows[m]) \in Nat
  BY Types
<1>2. \A m \in Mail : rec[m] # None => Len(rows'[m]) >= Len(rows[m])
  BY <1>1
<1>3. QED
  BY <1>2 DEF Decides

LEMMA StepDecides == ASSUME IInv, [Next]_vars PROVE Decides \/ UNCHANGED vars
<1>0. TypeOK /\ Grounded
  BY DEF IInv, ReviewInvariant
<1>1. CASE \/ \E u \in User, m \in Mail : Scan(u, m) \/ Monitored(u, m)
           \/ \E m \in Mail : SyncRaw(m)
  <2>1. ASSUME NEW u \in User, NEW m \in Mail, Scan(u, m) \/ Monitored(u, m) \/ SyncRaw(m)
        PROVE  \E x, warned : Arrive(m, x, warned)
    <3>1. CASE Scan(u, m)
      BY <3>1, Zenon DEF Scan
    <3>2. CASE Monitored(u, m)
      <4>1. \E mail \in Contents : \E x, warned : Arrive(m, x, warned)
        BY <3>2 DEF Monitored
      <4>2. QED
        BY <4>1
    <3>3. CASE SyncRaw(m)
      <4>1. \E score \in {7500, 2500, 0} : \E x, warned : Arrive(m, x, warned)
        BY <3>3 DEF SyncRaw
      <4>2. QED
        BY <4>1
    <3>4. QED
      BY <2>1, <3>1, <3>2, <3>3
  <2>2. PICK m \in Mail : \E x, warned : Arrive(m, x, warned)
    BY <1>1, <2>1, ReviewAssumption DEF ReviewAssumption
  <2>3. \A k \in Mail : rec[k] # None =>
            rec'[k] = rec[k] /\ rows'[k] = rows[k] /\ alert'[k] = alert[k]
    BY <1>0, <2>2, Types DEF Arrive
  <2>4. QED
    BY <1>0, <2>3, NothingDecided
<1>2. CASE \/ \E w \in Worker, u \in User, m \in Mail : Ask(w, u, m)
           \/ \E w \in Worker : Find(w) \/ Look(w) \/ SaveFails(w)
  <2>1. rec' = rec /\ rows' = rows /\ alert' = alert
    BY <1>2 DEF Ask, Find, Look, SaveFails
  <2>2. QED
    BY <1>0, <2>1, NothingDecided
<1>3. ASSUME NEW w \in Worker, Save(w) PROVE Decides
  <2>1. /\ req[w].pc = "save" /\ req[w].mail \in Mail
        /\ req[w].user = rec[req[w].mail].owner
    BY <1>0, <1>3 DEF Save, Grounded
  <2>2. /\ alert' = alert
        /\ \A k \in Mail : k # req[w].mail => rec'[k] = rec[k] /\ rows'[k] = rows[k]
        /\ \A k \in Mail : k = req[w].mail => rec'[k] # None /\ Len(rows'[k]) >= Len(rows[k])
    BY <1>3, SaveStep
  <2>3. \A k \in Mail : Len(rows[k]) \in Nat
    BY <1>0, Types
  <2>4. \A k \in Mail : rec[k] # None => rec'[k] # None /\ Len(rows'[k]) >= Len(rows[k])
    BY <2>2, <2>3
  <2>5. QED
    BY <2>1, <2>2, <2>4, Zenon DEF Decides
<1>4. ASSUME NEW w \in Worker, MarkRow(w) PROVE Decides
  <2>1. /\ req[w].pc = "mark" /\ req[w].mail \in Mail
        /\ req[w].user = rec[req[w].mail].owner
    BY <1>0, <1>4 DEF MarkRow, Grounded
  <2>2. /\ alert' = alert /\ rec' = rec
        /\ \A k \in Mail : k # req[w].mail => rows'[k] = rows[k]
        /\ \A k \in Mail : k = req[w].mail => Len(rows'[k]) >= Len(rows[k])
    BY <1>4, MarkStep
  <2>3. \A k \in Mail : Len(rows[k]) \in Nat
    BY <1>0, Types
  <2>4. \A k \in Mail : Len(rows'[k]) >= Len(rows[k])
    BY <2>2, <2>3
  <2>5. QED
    BY <2>1, <2>2, <2>4, Zenon DEF Decides
<1>5. CASE \E u \in User : (\E m \in Mail : ReadAlert(u, m)) \/ ReadAll(u)
  <2>1. /\ UNCHANGED <<rec, rows>>
        /\ \A m \in Mail : alert'[m] = "none" <=> alert[m] = "none"
    BY <1>0, <1>5, ReadKeeps
  <2>2. QED
    BY <1>0, <2>1, NothingDecided
<1>6. QED
  BY <1>1, <1>2, <1>3, <1>4, <1>5 DEF Next

\* Only a request of a mail's owner changes its hold, and no record, row or alert
\* goes away.
THEOREM OwnersDecideAlways == Spec => OwnersDecide
<1>1. IInv /\ [Next]_vars => [Decides]_vars
  BY StepDecides
<1>2. QED
  BY <1>1, ReviewIInv, PTL DEF Spec, OwnersDecide, Decides

\* Whatever a mail contains, and in whatever number: the weighting of its parts hides
\* no malicious or suspicious attachment and no phishing or suspicious URL.
THEOREM ThreatsAreAlwaysSeen == Spec => []ThreatsAreSeen
<1>1. TypeOK => ThreatsAreSeen
  <2> SUFFICES ASSUME TypeOK, NEW k \in Mail, rec[k] # None
               PROVE  Shown(rec[k].found)
    BY Zenon DEF ThreatsAreSeen, Shown
  <2>1. rec[k].found \in Finding
    BY Types DEF Record
  <2>2. CASE \E mail \in Contents, via \in {"upload", "monitor"} :
                 rec[k].found = Assessed(mail, via)
    BY <2>2, AssessedShows, ReviewAssumption DEF ReviewAssumption
  <2>3. CASE \E score \in {7500, 2500, 0} : rec[k].found = Labelled(score)
    BY <2>3 DEF Labelled, Shown
  <2>4. QED
    BY <2>1, <2>2, <2>3 DEF Finding
<1>2. IInv => TypeOK
  BY DEF IInv, ReviewInvariant
<1>3. QED
  BY <1>1, <1>2, ReviewIInv, PTL
=============================================================================
