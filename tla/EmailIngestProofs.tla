------------------------- MODULE EmailIngestProofs -------------------------
(* Proofs about EmailIngest, for every set of loops, mailboxes and mails.  *)
EXTENDS EmailIngest, FiniteSetTheorems, TLAPS

\* The invariant holds before any loop is started.
LEMMA InitInvariant == Init => IngestInvariant
<1> SUFFICES ASSUME Init PROVE IngestInvariant
  OBVIOUS
<1>1. TypeOK
  <2>1. (CHOOSE c \in Config : TRUE) \in Config
    BY IngestAssumption DEF IngestAssumption
  <2>2. QED
    BY <2>1 DEF Init, TypeOK, Stage
<1>2. MailInHand
  BY IngestAssumption DEF Init, MailInHand, MailStage, Stage, InFlightStage, Persisted
<1>3. NoDoubleScan /\ RecordsAreClaimed /\ OneRecordPerMessage
  BY DEF Init, NoDoubleScan, InFlightStage, RecordsAreClaimed, OneRecordPerMessage, Persisted
<1>4. LockDiscipline
  BY IngestAssumption
  DEF Init, LockDiscipline, TxnStage, SameMessage, IngestAssumption
<1>5. QED
  BY <1>1, <1>2, <1>3, <1>4 DEF IngestInvariant

\* Every step keeps the variables in their types.
LEMMA TypeStep == IngestInvariant /\ [Next]_vars => TypeOK'
<1> SUFFICES ASSUME IngestInvariant, [Next]_vars PROVE TypeOK'
  OBVIOUS
<1> USE IngestAssumption DEF IngestAssumption, TypeOK, loopVars, handVars, tableVars, mailVars,
        fileVars
<1>0. TypeOK /\ MailInHand
  BY DEF IngestInvariant
<1>1. ASSUME NEW m \in Mail, Arrive(m) PROVE TypeOK'
  BY <1>0, <1>1 DEF Arrive
<1>2. ASSUME NEW p \in Monitor, Start(p) PROVE TypeOK'
  <2>1. running' \in [Monitor -> BOOLEAN]
    BY <1>0, <1>2, Zenon DEF Start
  <2>2. pc' \in [Monitor -> Stage]
    BY <1>0, <1>2 DEF Start, Stage
  <2>3. QED
    BY <1>0, <1>2, <2>1, <2>2 DEF Start
<1>3. ASSUME NEW p \in Monitor, Stop(p) PROVE TypeOK'
  <2>1. running' \in [Monitor -> BOOLEAN]
    BY <1>0, <1>3, Zenon DEF Stop
  <2>2. QED
    BY <1>0, <1>3, <2>1 DEF Stop
<1>4. ASSUME NEW p \in Monitor, Crash(p) PROVE TypeOK'
  <2>1. running' \in [Monitor -> BOOLEAN]
    BY <1>0, <1>4, Zenon DEF Crash
  <2>2. pc' \in [Monitor -> Stage]
    BY <1>0, <1>4 DEF Crash, Stage
  <2>3. QED
    BY <1>0, <1>4, <2>1, <2>2 DEF Crash
<1>5. ASSUME NEW p \in Monitor, LeaveLoop(p) PROVE TypeOK'
  BY <1>0, <1>5 DEF LeaveLoop, Stage
<1>6. ASSUME NEW p \in Monitor, BeginPass(p) PROVE TypeOK'
  BY <1>0, <1>6 DEF BeginPass, Stage
<1>7. ASSUME NEW p \in Monitor, NEW c \in Config, ConnectFails(p, c)
      PROVE TypeOK'
  BY <1>0, <1>7 DEF ConnectFails, LeaveMailbox, SetConnection, Stage
<1>8. ASSUME NEW p \in Monitor, NEW c \in Config, ListMailbox(p, c)
      PROVE TypeOK'
  BY <1>0, <1>8 DEF ListMailbox, Backlog, LeftSelected, Stage
<1>9. ASSUME NEW p \in Monitor, FinishCheck(p) PROVE TypeOK'
  BY <1>0, <1>9 DEF FinishCheck, LeaveMailbox, SetConnection, Stage
<1>10. ASSUME NEW p \in Monitor, NEW m \in Mail, FetchFails(p, m) \/ Fetch(p, m)
       PROVE TypeOK'
  BY <1>0, <1>10 DEF FetchFails, Fetch, Found, Stage
<1>11. ASSUME NEW p \in Monitor, Claim(p) PROVE TypeOK'
  <2>1. cur[p] \in Mail
    BY <1>0, <1>11 DEF Claim, MailInHand, MailStage, Stage
  <2>2. QED
    BY <1>0, <1>11, <2>1 DEF Claim, Stage
<1>12. ASSUME NEW p \in Monitor, ClaimRefused(p) PROVE TypeOK'
  BY <1>0, <1>12 DEF ClaimRefused, ToNext, Stage
<1>13. ASSUME NEW p \in Monitor, OpenTransaction(p) PROVE TypeOK'
  BY <1>0, <1>13 DEF OpenTransaction, Stage
<1>14. ASSUME NEW p \in Monitor, PersistFails(p) \/ ProcessingFails(p) \/ QuarantineBreaks(p)
       PROVE TypeOK'
  BY <1>0, <1>14
  DEF PersistFails, ProcessingFails, QuarantineBreaks, AfterPersistFailure, ToNext, Stage
<1>15. ASSUME NEW p \in Monitor, QuarantineAttachment(p) PROVE TypeOK'
  <2>1. cur[p] \in Mail
    BY <1>0, <1>15 DEF QuarantineAttachment, MailInHand, MailStage, Stage
  <2>2. QED
    BY <1>0, <1>15, <2>1 DEF QuarantineAttachment, Stage
<1>16. ASSUME NEW p \in Monitor, CommitRecord(p) \/ CommitHollow(p) PROVE TypeOK'
  <2>1. cur[p] \in Mail /\ got[p] \in Mail
    BY <1>0, <1>16 DEF CommitRecord, CommitHollow, MailInHand, MailStage, Stage
  <2>2. CASE CommitRecord(p)
    BY <1>0, <2>1, <2>2 DEF CommitRecord, Stage
  <2>3. CASE CommitHollow(p)
    BY <1>0, <2>1, <2>3 DEF CommitHollow, AfterPersistFailure, ToNext, Stage
  <2>4. QED
    BY <1>16, <2>2, <2>3
<1>17. ASSUME NEW p \in Monitor, ReadCounter(p) \/ WriteCounter(p)
       PROVE TypeOK'
  <2>1. cur[p] \in Mail
    BY <1>0, <1>17 DEF ReadCounter, WriteCounter, MailInHand, MailStage, Stage
  <2>2. ConfigOf[cur[p]] \in Config
    BY <2>1
  <2>3. CASE ReadCounter(p)
    BY <1>0, <2>2, <2>3 DEF ReadCounter, Stage
  <2>4. CASE WriteCounter(p)
    BY <1>0, <2>2, <2>4 DEF WriteCounter, CounterSum, Stage
  <2>5. QED
    BY <1>17, <2>3, <2>4
<1>18. ASSUME NEW p \in Monitor, Notify(p) PROVE TypeOK'
  <2>1. cur[p] \in Mail
    BY <1>0, <1>18 DEF Notify, MailInHand, MailStage, Stage
  <2>2. QED
    BY <1>0, <1>18, <2>1 DEF Notify, ToNext, Stage
<1>19. CASE UNCHANGED vars
  BY <1>0, <1>19 DEF vars
<1>20. QED
  BY <1>1, <1>2, <1>3, <1>4, <1>5, <1>6, <1>7, <1>8, <1>9, <1>10, <1>11,
     <1>12, <1>13, <1>14, <1>15, <1>16, <1>17, <1>18, <1>19
  DEF Next, Step

\* A step that keeps the shared tables and the lock, and moves no loop into or
\* out of the stages between claim and commit, keeps the invariant.
LEMMA QuietStep ==
    ASSUME IngestInvariant, TypeOK', claimed' = claimed, records' = records,
           body' = body, hollow' = hollow, writeLock' = writeLock,
           \A p \in Monitor : \/ pc'[p] = pc[p] /\ cur'[p] = cur[p] /\ got'[p] = got[p]
                             \/ /\ pc[p] \notin InFlightStage
                                /\ pc'[p] \notin InFlightStage
                                /\ pc'[p] \in MailStage <=> cur'[p] # NoMail
                                /\ pc'[p] \in MailStage <=> got'[p] # NoMail
                                /\ pc'[p] \in {"count", "add", "notify"} =>
                                      cur'[p] \in Persisted
    PROVE  IngestInvariant'
<1> USE DEF IngestInvariant
<1>0. Persisted' = Persisted
  BY DEF Persisted
<1>1. MailInHand'
  BY <1>0 DEF MailInHand, InFlightStage, MailStage, Stage
<1>2. NoDoubleScan'
  BY <1>0 DEF NoDoubleScan
<1>3. LockDiscipline'
  BY DEF LockDiscipline, TxnStage, InFlightStage, SameMessage, StoredId, MessageId
<1>4. RecordsAreClaimed' /\ OneRecordPerMessage'
  BY <1>0 DEF RecordsAreClaimed, OneRecordPerMessage, StoredId, MessageId
<1>5. QED
  BY <1>1, <1>2, <1>3, <1>4

\* A step in which loop p lets go of its mail, and of the write lock if it has it.
LEMMA AbandonStep ==
    ASSUME IngestInvariant, TypeOK', claimed' = claimed, records' = records,
           body' = body, hollow' = hollow, NEW p \in Monitor,
           pc'[p] \in {"off", "next"}, cur'[p] = NoMail, got'[p] = NoMail,
           \A q \in Monitor \ {p} :
               pc'[q] = pc[q] /\ cur'[q] = cur[q] /\ got'[q] = got[q],
           writeLock' = IF writeLock = p THEN NoMonitor ELSE writeLock
    PROVE  IngestInvariant'
<1> USE DEF IngestInvariant
<1>0. Persisted' = Persisted
  BY DEF Persisted
<1>1. MailInHand'
  BY <1>0 DEF MailInHand, InFlightStage, MailStage, Stage
<1>2. NoDoubleScan'
  BY <1>0 DEF NoDoubleScan, InFlightStage
<1>3. LockDiscipline'
  BY IngestAssumption
  DEF LockDiscipline, TxnStage, SameMessage, StoredId, MessageId, IngestAssumption
<1>4. RecordsAreClaimed' /\ OneRecordPerMessage'
  BY <1>0 DEF RecordsAreClaimed, OneRecordPerMessage, StoredId, MessageId
<1>5. QED
  BY <1>1, <1>2, <1>3, <1>4

\* Every step keeps the invariant.
LEMMA InvariantStep == IngestInvariant /\ [Next]_vars => IngestInvariant'
<1> SUFFICES ASSUME IngestInvariant, [Next]_vars PROVE IngestInvariant'
  OBVIOUS
<1>0. TypeOK' /\ TypeOK /\ MailInHand
  BY TypeStep DEF IngestInvariant
<1> USE IngestAssumption DEF IngestAssumption, loopVars, handVars, tableVars, mailVars, fileVars
<1>1. CASE UNCHANGED vars \/ \E m \in Mail : Arrive(m)
  BY <1>0, <1>1, QuietStep DEF vars, Arrive
<1>2. ASSUME NEW p \in Monitor, Start(p) \/ Stop(p) \/ LeaveLoop(p) \/ BeginPass(p)
      PROVE IngestInvariant'
  BY <1>0, <1>2, QuietStep
  DEF Start, Stop, LeaveLoop, BeginPass, TypeOK, MailInHand, MailStage, Stage,
      InFlightStage
<1>3. ASSUME NEW p \in Monitor, NEW c \in Config,
             ConnectFails(p, c) \/ ListMailbox(p, c)
      PROVE IngestInvariant'
  BY <1>0, <1>3, QuietStep
  DEF ConnectFails, ListMailbox, LeaveMailbox, TypeOK, MailInHand, MailStage,
      Stage, InFlightStage
<1>4. ASSUME NEW p \in Monitor, FinishCheck(p) PROVE IngestInvariant'
  BY <1>0, <1>4, QuietStep
  DEF FinishCheck, LeaveMailbox, TypeOK, MailInHand, MailStage, Stage,
      InFlightStage
<1>5. ASSUME NEW p \in Monitor, NEW m \in Mail, FetchFails(p, m) \/ Fetch(p, m)
      PROVE IngestInvariant'
  <2>1. CASE FetchFails(p, m)
    BY <1>0, <2>1, QuietStep DEF FetchFails
  <2>2. CASE Fetch(p, m)
    <3>1. PICK n \in Mail : got' = [got EXCEPT ![p] = n]
      BY <1>0, <2>2 DEF Fetch, Found, TypeOK
    <3>2. QED
      BY <1>0, <2>2, <3>1, QuietStep
      DEF Fetch, TypeOK, MailInHand, MailStage, Stage, InFlightStage
  <2>3. QED
    BY <1>5, <2>1, <2>2
<1>6. ASSUME NEW p \in Monitor, ClaimRefused(p) PROVE IngestInvariant'
  BY <1>0, <1>6, QuietStep
  DEF ClaimRefused, ToNext, TypeOK, MailInHand, MailStage, Stage, InFlightStage
<1>7. ASSUME NEW p \in Monitor, ReadCounter(p) \/ WriteCounter(p) \/ Notify(p)
      PROVE IngestInvariant'
  <2> USE DEF TypeOK, MailInHand, MailStage, Stage, InFlightStage
  <2>1. CASE ReadCounter(p)
    BY <1>0, <2>1, QuietStep DEF ReadCounter
  <2>2. CASE WriteCounter(p)
    BY <1>0, <2>2, QuietStep DEF WriteCounter
  <2>3. CASE Notify(p)
    BY <1>0, <2>3, QuietStep DEF Notify, ToNext
  <2>4. QED
    BY <1>7, <2>1, <2>2, <2>3
<1>8. ASSUME NEW p \in Monitor, Claim(p) PROVE IngestInvariant'
  <2> USE DEF Claim, TypeOK, Stage, InFlightStage, MailStage, TxnStage, Persisted
  <2>1. MailInHand' /\ RecordsAreClaimed'
    BY <1>0, <1>8 DEF IngestInvariant, MailInHand, RecordsAreClaimed
  <2>2. NoDoubleScan'
    <3>1. cur[p] \notin claimed /\ cur[p] \notin Persisted
      BY <1>0, <1>8 DEF IngestInvariant, RecordsAreClaimed, Unclaimed
    <3>2. \A q \in Monitor \ {p} :
              /\ pc'[q] = pc[q]
              /\ pc[q] \in InFlightStage => cur[q] \in claimed
      BY <1>0, <1>8 DEF IngestInvariant, MailInHand
    <3>3. cur' = cur /\ Persisted' = Persisted
      BY <1>8
    <3>4. QED
      BY <1>0, <3>1, <3>2, <3>3 DEF IngestInvariant, NoDoubleScan
  <2>3. LockDiscipline' /\ OneRecordPerMessage'
    BY <1>0, <1>8
    DEF IngestInvariant, LockDiscipline, OneRecordPerMessage, SameMessage, StoredId,
        MessageId
  <2>4. QED
    BY <1>0, <2>1, <2>2, <2>3 DEF IngestInvariant
<1>9. ASSUME NEW p \in Monitor, OpenTransaction(p) PROVE IngestInvariant'
  <2> USE DEF OpenTransaction, TypeOK, Stage, InFlightStage, MailStage,
              TxnStage, LockFree, Persisted
  <2>1. MailInHand' /\ RecordsAreClaimed' /\ OneRecordPerMessage'
    BY <1>0, <1>9
    DEF IngestInvariant, MailInHand, RecordsAreClaimed, OneRecordPerMessage, StoredId,
        MessageId
  <2>2. NoDoubleScan'
    BY <1>0, <1>9 DEF IngestInvariant, NoDoubleScan
  <2>3. LockDiscipline'
    BY <1>0, <1>9
    DEF IngestInvariant, LockDiscipline, SameMessage, StoredId, MessageId
  <2>4. QED
    BY <1>0, <2>1, <2>2, <2>3 DEF IngestInvariant
<1>10. ASSUME NEW p \in Monitor, PersistFails(p) \/ ProcessingFails(p) \/ Crash(p)
       PROVE IngestInvariant'
  <2>1. /\ claimed' = claimed /\ records' = records /\ body' = body /\ hollow' = hollow
        /\ pc'[p] \in {"off", "next"} /\ cur'[p] = NoMail /\ got'[p] = NoMail
        /\ \A q \in Monitor \ {p} :
               pc'[q] = pc[q] /\ cur'[q] = cur[q] /\ got'[q] = got[q]
    BY <1>0, <1>10
    DEF PersistFails, ProcessingFails, AfterPersistFailure, ToNext, Crash, TypeOK
  <2>2. writeLock' = IF writeLock = p THEN NoMonitor ELSE writeLock
    <3>1. PersistFails(p) => writeLock # p
      BY DEF PersistFails, IngestInvariant, LockDiscipline, TxnStage
    <3>2. QED
      BY <1>10, <3>1 DEF PersistFails, ProcessingFails, Crash
  <2>3. QED
    BY <1>0, <2>1, <2>2, AbandonStep
<1>11. ASSUME NEW p \in Monitor, QuarantineAttachment(p) \/ QuarantineBreaks(p)
       PROVE IngestInvariant'
  <2> USE DEF QuarantineAttachment, QuarantineBreaks, TypeOK, Stage, InFlightStage,
              MailStage, TxnStage, Persisted
  <2>1. MailInHand' /\ RecordsAreClaimed' /\ OneRecordPerMessage'
    BY <1>0, <1>11
    DEF IngestInvariant, MailInHand, RecordsAreClaimed, OneRecordPerMessage, StoredId,
        MessageId
  <2>2. NoDoubleScan'
    BY <1>0, <1>11 DEF IngestInvariant, NoDoubleScan
  <2>3. LockDiscipline'
    BY <1>0, <1>11
    DEF IngestInvariant, LockDiscipline, SameMessage, StoredId, MessageId
  <2>4. QED
    BY <1>0, <2>1, <2>2, <2>3 DEF IngestInvariant
<1>12. ASSUME NEW p \in Monitor, CommitRecord(p) PROVE IngestInvariant'
  <2> USE DEF CommitRecord, TypeOK, Stage, InFlightStage, MailStage, TxnStage, Persisted
  <2>0. /\ cur[p] \in Mail /\ got[p] \in Mail
        /\ cur[p] \in claimed /\ cur[p] \notin Persisted
        /\ writeLock = p
        /\ SameMessage(cur[p], got[p]) = {}
    BY <1>0, <1>12 DEF IngestInvariant, MailInHand, LockDiscipline, NoDoubleScan
  <2>1. MailInHand'
    BY <1>0, <1>12 DEF MailInHand
  <2>2. RecordsAreClaimed'
    BY <1>0, <1>12, <2>0 DEF IngestInvariant, RecordsAreClaimed
  <2>3. OneRecordPerMessage'
    <3>1. /\ StoredId(cur[p])' = MessageId(cur[p], got[p])
          /\ \A n \in records : StoredId(n)' = StoredId(n)
      BY <1>0, <1>12, <2>0 DEF StoredId, MessageId
    <3>2. records' = records \cup {cur[p]}
      BY <1>12
    <3>3. \A n \in records : StoredId(n) # MessageId(cur[p], got[p])
      BY <2>0 DEF SameMessage
    <3>4. OneRecordPerMessage
      BY DEF IngestInvariant
    <3>5. cur' = cur
      BY <1>12
    <3>6. QED
      BY <3>1, <3>2, <3>3, <3>4, <3>5 DEF OneRecordPerMessage
  <2>4. NoDoubleScan'
    BY <1>0, <1>12 DEF IngestInvariant, NoDoubleScan
  <2>5. LockDiscipline'
    BY <1>0, <1>12, <2>0, IngestAssumption
    DEF IngestInvariant, LockDiscipline, IngestAssumption
  <2>6. QED
    BY <1>0, <2>1, <2>2, <2>3, <2>4, <2>5 DEF IngestInvariant
<1>13. ASSUME NEW p \in Monitor, CommitHollow(p) PROVE IngestInvariant'
  <2>1. CASE AfterPersistFailure(p) /\ UNCHANGED hollow
    <3>1. writeLock # p
      BY <1>13 DEF CommitHollow, IngestInvariant, LockDiscipline, TxnStage
    <3>2. /\ claimed' = claimed /\ records' = records /\ body' = body
          /\ writeLock' = writeLock
          /\ pc'[p] = "next" /\ cur'[p] = NoMail /\ got'[p] = NoMail
          /\ \A q \in Monitor \ {p} :
                 pc'[q] = pc[q] /\ cur'[q] = cur[q] /\ got'[q] = got[q]
      BY <1>0, <1>13, <2>1 DEF CommitHollow, AfterPersistFailure, ToNext, TypeOK
    <3>3. QED
      BY <1>0, <2>1, <3>1, <3>2, AbandonStep
  <2>2. CASE hollow' = hollow \cup {cur[p]} /\ pc' = [pc EXCEPT ![p] = "count"] /\ UNCHANGED handVars
    <3> USE DEF CommitHollow, TypeOK, Stage, InFlightStage, MailStage, TxnStage, Persisted
    <3>0. cur[p] \in Mail /\ cur[p] \in claimed /\ cur[p] \notin Persisted
      BY <1>0, <1>13 DEF IngestInvariant, MailInHand, NoDoubleScan
    <3>1. MailInHand'
      BY <1>0, <1>13, <2>2 DEF MailInHand
    <3>2. RecordsAreClaimed' /\ OneRecordPerMessage'
      BY <1>0, <1>13, <2>2, <3>0
      DEF IngestInvariant, RecordsAreClaimed, OneRecordPerMessage, StoredId, MessageId
    <3>3. NoDoubleScan'
      BY <1>0, <1>13, <2>2 DEF IngestInvariant, NoDoubleScan
    <3>4. LockDiscipline'
      BY <1>0, <1>13, <2>2
      DEF IngestInvariant, LockDiscipline, SameMessage, StoredId, MessageId
    <3>5. QED
      BY <1>0, <3>1, <3>2, <3>3, <3>4 DEF IngestInvariant
  <2>3. QED
    BY <1>13, <2>1, <2>2 DEF CommitHollow
<1>14. QED
  BY <1>1, <1>2, <1>3, <1>4, <1>5, <1>6, <1>7, <1>8, <1>9, <1>10, <1>11,
     <1>12, <1>13
  DEF Next, Step

\* Whatever the number of loops and however they are killed and restarted: no
\* mail is handled by two loops or handled again once stored, every stored
\* mail keeps its claim, and a message is stored at most once.
THEOREM IngestSafety == Spec => []IngestInvariant
<1>1. Init => IngestInvariant
  BY InitInvariant
<1>2. IngestInvariant /\ [Next]_vars => IngestInvariant'
  BY InvariantStep
<1>3. QED
  BY <1>1, <1>2, PTL DEF Spec

-----------------------------------------------------------------------------
\* A step that keeps the tables and the set of mails in flight is invisible
\* to the ledger.
LEMMA FateKept ==
    ASSUME claimed' = claimed, records' = records, body' = body,
           \A m \in Mail : InFlight(m)' <=> InFlight(m)
    PROVE  fate' = fate /\ ids' = ids
  BY DEF fate, ids, StoredId, MessageId

\* A step of a loop p that is in flight neither before nor after it.
LEMMA FateKeptOutOfFlight ==
    ASSUME claimed' = claimed, records' = records, body' = body, NEW p \in Monitor,
           TypeOK,
           pc[p] \notin InFlightStage, pc'[p] \notin InFlightStage,
           \A q \in Monitor \ {p} : pc'[q] = pc[q] /\ cur'[q] = cur[q]
    PROVE  fate' = fate /\ ids' = ids
  BY FateKept DEF InFlight

\* A loop p that leaves its in-flight mail behind turns that mail from taken
\* to lost and touches no other.
LEMMA FateLost ==
    ASSUME IngestInvariant, claimed' = claimed, records' = records, body' = body,
           NEW p \in Monitor, pc[p] \in InFlightStage,
           pc'[p] \notin InFlightStage,
           \A q \in Monitor \ {p} : pc'[q] = pc[q] /\ cur'[q] = cur[q]
    PROVE  Ledger!Lose(cur[p])
<1>1. cur[p] \in Mail /\ cur[p] \in claimed /\ cur[p] \notin records
  <2>1. pc[p] \in MailStage
    BY DEF InFlightStage, MailStage, Stage
  <2>2. QED
    BY <2>1 DEF IngestInvariant, MailInHand, NoDoubleScan, TypeOK, Persisted
<1>2. InFlight(cur[p]) /\ \A q \in Monitor : ~(pc'[q] \in InFlightStage /\ cur'[q] = cur[p])
  BY DEF InFlight, IngestInvariant, NoDoubleScan
<1>3. \A n \in Mail \ {cur[p]} : InFlight(n)' <=> InFlight(n)
  BY DEF InFlight
<1>4. fate[cur[p]] = "taken" /\ fate' = [fate EXCEPT ![cur[p]] = "lost"]
  <2>1. fate[cur[p]] = "taken"
    BY <1>1, <1>2 DEF fate
  <2>2. fate'[cur[p]] = "lost"
    BY <1>1, <1>2 DEF fate, InFlight
  <2>3. \A n \in Mail \ {cur[p]} : fate'[n] = fate[n]
    BY <1>3 DEF fate
  <2>4. fate \in [Mail -> Ledger!Fate] /\ fate' \in [Mail -> Ledger!Fate]
    BY DEF fate, Ledger!Fate
  <2>5. QED
    BY <2>1, <2>2, <2>3, <2>4
<1>5. ids' = ids
  BY DEF ids, StoredId, MessageId
<1>6. QED
  BY <1>4, <1>5 DEF Ledger!Lose

\* Every step is a step of the ledger or invisible to it.
LEMMA LedgerStep ==
    IngestInvariant /\ [Next]_vars => [Ledger!LedgerNext]_<<fate, ids>>
<1> SUFFICES ASSUME IngestInvariant, [Next]_vars
             PROVE  [Ledger!LedgerNext]_<<fate, ids>>
  OBVIOUS
<1>0. TypeOK /\ MailInHand /\ NoDoubleScan
  BY DEF IngestInvariant
<1> USE IngestAssumption DEF IngestAssumption, loopVars, handVars, tableVars, mailVars, fileVars
<1>1. CASE UNCHANGED vars \/ \E m \in Mail : Arrive(m)
  BY <1>1, FateKept DEF vars, Arrive, InFlight
<1>2. ASSUME NEW p \in Monitor,
             \/ Start(p) \/ Stop(p) \/ LeaveLoop(p) \/ BeginPass(p)
             \/ FinishCheck(p)
             \/ ClaimRefused(p) \/ ReadCounter(p) \/ WriteCounter(p) \/ Notify(p)
      PROVE fate' = fate /\ ids' = ids
  <2>1. CASE Stop(p)
    BY <2>1, FateKept DEF Stop, InFlight
  <2>2. CASE Start(p) \/ LeaveLoop(p) \/ BeginPass(p)
    BY <1>0, <2>2, FateKeptOutOfFlight
    DEF Start, LeaveLoop, BeginPass, TypeOK, InFlightStage
  <2>3. CASE FinishCheck(p)
    BY <1>0, <2>3, FateKeptOutOfFlight
    DEF FinishCheck, LeaveMailbox, TypeOK, InFlightStage
  <2>4. CASE ClaimRefused(p) \/ ReadCounter(p) \/ WriteCounter(p) \/ Notify(p)
    BY <1>0, <2>4, FateKeptOutOfFlight
    DEF ClaimRefused, ReadCounter, WriteCounter, Notify, ToNext, TypeOK,
        InFlightStage
  <2>5. QED
    BY <1>2, <2>1, <2>2, <2>3, <2>4
<1>3. ASSUME NEW p \in Monitor, NEW c \in Config,
             ConnectFails(p, c) \/ ListMailbox(p, c)
      PROVE fate' = fate /\ ids' = ids
  BY <1>0, <1>3, FateKeptOutOfFlight
  DEF ConnectFails, ListMailbox, LeaveMailbox, TypeOK, InFlightStage
<1>4. ASSUME NEW p \in Monitor, NEW m \in Mail, FetchFails(p, m) \/ Fetch(p, m)
      PROVE fate' = fate /\ ids' = ids
  BY <1>0, <1>4, FateKeptOutOfFlight
  DEF FetchFails, Fetch, TypeOK, InFlightStage
<1>5. ASSUME NEW p \in Monitor,
             OpenTransaction(p) \/ QuarantineAttachment(p) \/ QuarantineBreaks(p)
      PROVE fate' = fate /\ ids' = ids
  BY <1>0, <1>5, FateKept
  DEF OpenTransaction, QuarantineAttachment, QuarantineBreaks, TypeOK, InFlightStage,
      InFlight
<1>6. ASSUME NEW p \in Monitor, Claim(p) PROVE Ledger!Take(cur[p])
  <2>1. cur[p] \in Mail /\ cur[p] \notin claimed /\ cur[p] \notin records
    BY <1>0, <1>6
    DEF Claim, Unclaimed, MailInHand, MailStage, Stage, TypeOK,
        IngestInvariant, RecordsAreClaimed, Persisted
  <2>2. InFlight(cur[p])'
    BY <1>6, <1>0 DEF Claim, InFlight, InFlightStage, TypeOK
  <2>3. \A n \in Mail \ {cur[p]} : InFlight(n)' <=> InFlight(n)
    BY <1>6, <1>0 DEF Claim, InFlight, InFlightStage, TypeOK
  <2>4. fate[cur[p]] = "pending" /\ fate' = [fate EXCEPT ![cur[p]] = "taken"]
    BY <1>6, <2>1, <2>2, <2>3 DEF Claim, fate
  <2>5. ids' = ids
    BY <1>6 DEF Claim, ids, StoredId, MessageId
  <2>6. QED
    BY <2>4, <2>5 DEF Ledger!Take
<1>7. ASSUME NEW p \in Monitor, CommitRecord(p) PROVE Ledger!Record(cur[p])
  <2>1. /\ cur[p] \in Mail /\ cur[p] \in claimed /\ cur[p] \notin records
        /\ got[p] \in Mail
        /\ SameMessage(cur[p], got[p]) = {}
    BY <1>0, <1>7
    DEF CommitRecord, MailInHand, MailStage, Stage, TypeOK, NoDoubleScan,
        InFlightStage, TxnStage, IngestInvariant, LockDiscipline, Persisted
  <2>2. InFlight(cur[p])
    BY <1>7, <1>0 DEF CommitRecord, InFlight, InFlightStage
  <2>3. \A n \in Mail \ {cur[p]} : InFlight(n)' <=> InFlight(n)
    BY <1>7, <1>0 DEF CommitRecord, InFlight, InFlightStage, TypeOK
  <2>4. /\ fate[cur[p]] = "taken"
        /\ fate' = [fate EXCEPT ![cur[p]] = "recorded"]
    BY <1>7, <2>1, <2>2, <2>3 DEF CommitRecord, fate
  <2>5. PICK id \in {MessageId(k, m) : k, m \in Mail} : id = MessageId(cur[p], got[p])
    BY <2>1
  <2>6. id \notin ids
    BY <2>1, <2>5 DEF ids, SameMessage
  <2>7. ids' = ids \cup {id}
    <3>1. /\ StoredId(cur[p])' = id
          /\ \A n \in records : StoredId(n)' = StoredId(n)
      BY <1>0, <1>7, <2>1, <2>5 DEF CommitRecord, StoredId, MessageId, TypeOK
    <3>2. records' = records \cup {cur[p]} /\ cur' = cur
      BY <1>7 DEF CommitRecord
    <3>3. \A x : x \in ids' <=> x \in ids \cup {id}
      BY <3>1, <3>2 DEF ids
    <3>4. QED
      BY <3>3
  <2>8. QED
    BY <2>4, <2>5, <2>6, <2>7 DEF Ledger!Record
<1>8. ASSUME NEW p \in Monitor, PersistFails(p) \/ ProcessingFails(p)
      PROVE Ledger!Lose(cur[p])
  BY <1>0, <1>8, FateLost
  DEF PersistFails, ProcessingFails, AfterPersistFailure, ToNext, TypeOK, InFlightStage
<1>9. ASSUME NEW p \in Monitor, CommitHollow(p) PROVE Ledger!Lose(cur[p])
  <2>1. /\ pc[p] \in InFlightStage /\ pc'[p] \notin InFlightStage
        /\ \A q \in Monitor \ {p} : pc'[q] = pc[q] /\ cur'[q] = cur[q]
        /\ claimed' = claimed /\ records' = records /\ body' = body
    BY <1>0, <1>9
    DEF CommitHollow, AfterPersistFailure, ToNext, TypeOK, InFlightStage
  <2>2. QED
    BY <2>1, FateLost
<1>10. ASSUME NEW p \in Monitor, Crash(p)
       PROVE Ledger!Lose(cur[p]) \/ (fate' = fate /\ ids' = ids)
  <2>1. CASE pc[p] \in InFlightStage
    BY <1>0, <1>10, <2>1, FateLost DEF Crash, TypeOK, InFlightStage
  <2>2. CASE pc[p] \notin InFlightStage
    BY <1>0, <1>10, <2>2, FateKeptOutOfFlight DEF Crash, TypeOK, InFlightStage
  <2>3. QED
    BY <2>1, <2>2
<1>11. \A p \in Monitor : pc[p] \in MailStage => cur[p] \in Mail
  BY <1>0 DEF MailInHand, TypeOK
<1>12. ASSUME NEW p \in Monitor,
              \/ Claim(p) \/ CommitRecord(p) \/ PersistFails(p) \/ ProcessingFails(p)
              \/ CommitHollow(p) \/ Crash(p)
       PROVE [Ledger!LedgerNext]_<<fate, ids>>
  <2>1. CASE pc[p] \in MailStage
    BY <1>6, <1>7, <1>8, <1>9, <1>10, <1>11, <1>12, <2>1 DEF Ledger!LedgerNext
  <2>2. CASE pc[p] \notin MailStage
    <3>1. Crash(p)
      BY <1>12, <2>2
      DEF Claim, CommitRecord, PersistFails, ProcessingFails, CommitHollow, MailStage,
          Stage, InFlightStage
    <3>2. QED
      BY <1>0, <2>2, <3>1, FateKeptOutOfFlight
      DEF Crash, TypeOK, MailStage, Stage, InFlightStage
  <2>3. QED
    BY <2>1, <2>2
<1>13. QED
  BY <1>1, <1>2, <1>3, <1>4, <1>5, <1>12 DEF Next, Step

\* Ingestion implements the ledger: at most one scan per mail and one record per
\* Message-ID, whatever loops run, fail and die and whatever mail a fetch delivers,
\* and an outcome that is never revised.
THEOREM IngestImplementsLedger == Spec => LedgerRefined
<1>1. Init => Ledger!LedgerInit
  BY DEF Init, Ledger!LedgerInit, fate, ids
<1>2. IngestInvariant /\ [Next]_vars => [Ledger!LedgerNext]_<<fate, ids>>
  BY LedgerStep
<1>3. QED
  BY <1>1, <1>2, IngestSafety, PTL DEF Spec, LedgerRefined, Ledger!LedgerSpec

-----------------------------------------------------------------------------
\* No notification ever names a mail that is not stored, unless the quarantine of
\* its attachment rolled its record back.
THEOREM AnnouncementsAreOfRecords == Spec => []AnnouncedAreRecorded
<1>1. Init => AnnouncedAreRecorded
  BY DEF Init, AnnouncedAreRecorded
<1>2. IngestInvariant /\ AnnouncedAreRecorded /\ [Next]_vars
      => AnnouncedAreRecorded'
  <2> SUFFICES ASSUME IngestInvariant, AnnouncedAreRecorded, [Next]_vars
               PROVE  AnnouncedAreRecorded'
    OBVIOUS
  <2> USE DEF AnnouncedAreRecorded, Persisted, loopVars, handVars, tableVars, mailVars,
              fileVars
  <2>1. ASSUME NEW p \in Monitor, Notify(p) PROVE AnnouncedAreRecorded'
    <3>1. cur[p] \in Persisted
      BY <2>1 DEF Notify, IngestInvariant, MailInHand
    <3>2. QED
      BY <2>1, <3>1 DEF Notify
  <2>2. ASSUME NEW p \in Monitor, CommitRecord(p) \/ CommitHollow(p)
        PROVE  AnnouncedAreRecorded'
    BY <2>2 DEF CommitRecord, CommitHollow
  <2>3. CASE records' = records /\ hollow' = hollow /\ announced' = announced
    BY <2>3
  <2>4. QED
    BY <2>1, <2>2, <2>3
    DEF Next, Step, vars, Arrive, Start, Stop, Crash, LeaveLoop, BeginPass,
        ConnectFails, ListMailbox, FinishCheck, FetchFails, Fetch, Claim,
        ClaimRefused, OpenTransaction, PersistFails, ProcessingFails,
        QuarantineAttachment, QuarantineBreaks, ReadCounter, WriteCounter
<1>3. QED
  BY <1>1, <1>2, IngestSafety, PTL DEF Spec

-----------------------------------------------------------------------------
(* The counters.                                                           *)

\* What a loop has read of a counter leaves room for its own mail and for those of
\* the other loops that are still to be counted: it may be out of date, but it
\* belongs to a time when fewer mails were counted.
ReadingsLeaveRoom ==
    \A p \in Monitor : pc[p] = "add" =>
        base[p] + Cardinality(Counting(ConfigOf[cur[p]]))
            <= Cardinality(PersistedOf(ConfigOf[cur[p]]))

CounterIInv == IngestInvariant /\ CountersNeverOverstate /\ ReadingsLeaveRoom

LEMMA CountersAreFinite ==
    ASSUME TypeOK, NEW c \in Config
    PROVE  /\ IsFiniteSet(Counting(c)) /\ Cardinality(Counting(c)) \in Nat
           /\ IsFiniteSet(PersistedOf(c)) /\ Cardinality(PersistedOf(c)) \in Nat
<1>1. IsFiniteSet(Mail) /\ IsFiniteSet(Monitor)
  BY IngestAssumption DEF IngestAssumption
<1>2. Counting(c) \in SUBSET Monitor /\ PersistedOf(c) \in SUBSET Mail
  BY DEF TypeOK, Counting, PersistedOf, Persisted
<1>3. IsFiniteSet(Counting(c)) /\ IsFiniteSet(PersistedOf(c))
  BY <1>1, <1>2, FS_Subset
<1>4. QED
  BY <1>3, FS_CardinalityType

\* A step that stores and counts nothing, and after which no more loops are to count.
LEMMA UncountedStep ==
    ASSUME CounterIInv, TypeOK', Persisted' = Persisted, checked' = checked,
           \A p \in Monitor : pc'[p] \in {"count", "add"} =>
               pc[p] \in {"count", "add"} /\ cur'[p] = cur[p],
           \A p \in Monitor : pc'[p] = "add" =>
               /\ cur[p] \in Mail
               /\ (pc[p] = "add" /\ base'[p] = base[p]) \/ base'[p] = checked[ConfigOf[cur[p]]]
    PROVE  CountersNeverOverstate' /\ ReadingsLeaveRoom'
<1>0. TypeOK /\ CountersNeverOverstate /\ ReadingsLeaveRoom
  BY DEF CounterIInv, IngestInvariant
<1>1. \A c \in Config : Counting(c)' \subseteq Counting(c) /\ PersistedOf(c)' = PersistedOf(c)
  BY DEF Counting, PersistedOf
<1>2. ASSUME NEW c \in Config
      PROVE  /\ Cardinality(Counting(c)') <= Cardinality(Counting(c))
             /\ Cardinality(Counting(c)') \in Nat /\ Cardinality(Counting(c)) \in Nat
             /\ Cardinality(PersistedOf(c)') = Cardinality(PersistedOf(c))
             /\ Cardinality(PersistedOf(c)) \in Nat
  <2>1. IsFiniteSet(Counting(c)) /\ Counting(c)' \in SUBSET Counting(c)
    BY <1>0, <1>1, CountersAreFinite
  <2>2. IsFiniteSet(Counting(c)') /\ Cardinality(Counting(c)') <= Cardinality(Counting(c))
    BY <2>1, FS_Subset
  <2>3. QED
    BY <1>0, <1>1, <2>2, CountersAreFinite, FS_CardinalityType
<1>3. CountersNeverOverstate'
  <2> SUFFICES ASSUME NEW c \in Config
               PROVE  checked[c] + Cardinality(Counting(c)') <= Cardinality(PersistedOf(c)')
    BY DEF CountersNeverOverstate
  <2>1. checked[c] \in Nat /\ checked[c] + Cardinality(Counting(c)) <= Cardinality(PersistedOf(c))
    BY <1>0 DEF TypeOK, CountersNeverOverstate
  <2>2. QED
    BY <1>2, <2>1
<1>4. ReadingsLeaveRoom'
  <2> SUFFICES ASSUME NEW p \in Monitor, pc'[p] = "add"
               PROVE  base'[p] + Cardinality(Counting(ConfigOf[cur[p]])')
                          <= Cardinality(PersistedOf(ConfigOf[cur[p]])')
    BY DEF ReadingsLeaveRoom
  <2>1. PICK c \in Config : c = ConfigOf[cur[p]]
    BY IngestAssumption DEF IngestAssumption
  <2>2. checked[c] \in Nat /\ checked[c] + Cardinality(Counting(c)) <= Cardinality(PersistedOf(c))
    BY <1>0 DEF TypeOK, CountersNeverOverstate
  <2>3. base[p] \in Nat
    BY <1>0 DEF TypeOK
  <2>4. base'[p] + Cardinality(Counting(c)) <= Cardinality(PersistedOf(c)) /\ base'[p] \in Nat
    BY <1>0, <2>1, <2>2, <2>3 DEF ReadingsLeaveRoom
  <2>5. base'[p] + Cardinality(Counting(c)') <= Cardinality(PersistedOf(c)')
    BY <1>2, <2>4
  <2>6. QED
    BY <2>1, <2>5
<1>5. QED
  BY <1>3, <1>4

\* A mail is stored, or taken for stored.
Stores(p) ==
    /\ pc[p] \in {"commit", "hollow"} /\ pc' = [pc EXCEPT ![p] = "count"]
    /\ Persisted' = Persisted \cup {cur[p]}
    /\ cur' = cur /\ checked' = checked /\ base' = base

LEMMA CommitStores ==
    ASSUME IngestInvariant, NEW p \in Monitor,
           CommitRecord(p) \/ (CommitHollow(p) /\ hollow' # hollow)
    PROVE  Stores(p)
BY DEF CommitRecord, CommitHollow, Stores, Persisted, handVars

\* Then there is one more, and one more loop that is to count it.
LEMMA StoredChange ==
    ASSUME IngestInvariant, NEW p \in Monitor, Stores(p), NEW c \in Config
    PROVE  \/ /\ Cardinality(Counting(c)') = Cardinality(Counting(c))
              /\ Cardinality(PersistedOf(c)') = Cardinality(PersistedOf(c))
           \/ /\ Cardinality(Counting(c)') = Cardinality(Counting(c)) + 1
              /\ Cardinality(PersistedOf(c)') = Cardinality(PersistedOf(c)) + 1
<1>0. TypeOK /\ MailInHand /\ NoDoubleScan
  BY DEF IngestInvariant
<1>1. /\ pc[p] \in {"commit", "hollow"} /\ pc'[p] = "count"
      /\ Persisted' = Persisted \cup {cur[p]}
      /\ cur' = cur /\ checked' = checked /\ base' = base
      /\ \A q \in Monitor : q # p => pc'[q] = pc[q]
  BY <1>0 DEF Stores, TypeOK
<1>2. cur[p] \in Mail /\ cur[p] \notin Persisted
  BY <1>0, <1>1 DEF MailInHand, NoDoubleScan, TypeOK, MailStage, Stage, InFlightStage
<1>3. CASE c = ConfigOf[cur[p]]
  <2>1. Counting(c)' = Counting(c) \cup {p} /\ p \notin Counting(c)
    BY <1>1, <1>3 DEF Counting
  <2>2. PersistedOf(c)' = PersistedOf(c) \cup {cur[p]} /\ cur[p] \notin PersistedOf(c)
    BY <1>1, <1>2, <1>3 DEF PersistedOf
  <2>3. IsFiniteSet(Counting(c)) /\ IsFiniteSet(PersistedOf(c))
    BY <1>0, CountersAreFinite
  <2>4. QED
    BY <2>1, <2>2, <2>3, FS_AddElement
<1>4. CASE c # ConfigOf[cur[p]]
  BY <1>1, <1>4 DEF Counting, PersistedOf
<1>5. QED
  BY <1>3, <1>4

LEMMA StoredStep ==
    ASSUME CounterIInv, TypeOK', NEW p \in Monitor, Stores(p)
    PROVE  CountersNeverOverstate' /\ ReadingsLeaveRoom'
<1>0. IngestInvariant /\ TypeOK /\ MailInHand /\ CountersNeverOverstate /\ ReadingsLeaveRoom
  BY DEF CounterIInv, IngestInvariant
<1>1. /\ cur' = cur /\ checked' = checked /\ base' = base
      /\ pc'[p] = "count" /\ \A q \in Monitor : q # p => pc'[q] = pc[q]
  BY <1>0 DEF Stores, TypeOK
<1>3. \A c \in Config :
          \/ /\ Cardinality(Counting(c)') = Cardinality(Counting(c))
             /\ Cardinality(PersistedOf(c)') = Cardinality(PersistedOf(c))
          \/ /\ Cardinality(Counting(c)') = Cardinality(Counting(c)) + 1
             /\ Cardinality(PersistedOf(c)') = Cardinality(PersistedOf(c)) + 1
  BY <1>0, StoredChange
<1>4. CountersNeverOverstate'
  <2> SUFFICES ASSUME NEW c \in Config
               PROVE  checked[c] + Cardinality(Counting(c)') <= Cardinality(PersistedOf(c)')
    BY <1>1 DEF CountersNeverOverstate
  <2>1. checked[c] \in Nat /\ checked[c] + Cardinality(Counting(c)) <= Cardinality(PersistedOf(c))
    BY <1>0 DEF TypeOK, CountersNeverOverstate
  <2>2. QED
    BY <1>0, <1>3, <2>1, CountersAreFinite
<1>5. ReadingsLeaveRoom'
  <2> SUFFICES ASSUME NEW q \in Monitor, pc'[q] = "add"
               PROVE  base[q] + Cardinality(Counting(ConfigOf[cur[q]])')
                          <= Cardinality(PersistedOf(ConfigOf[cur[q]])')
    BY <1>1 DEF ReadingsLeaveRoom
  <2>1. pc[q] = "add" /\ base[q] \in Nat /\ cur[q] \in Mail
    BY <1>0, <1>1 DEF TypeOK, MailInHand, MailStage, Stage
  <2>2. PICK c \in Config : c = ConfigOf[cur[q]]
    BY <2>1, IngestAssumption DEF IngestAssumption
  <2>3. base[q] + Cardinality(Counting(c)) <= Cardinality(PersistedOf(c))
    BY <1>0, <2>1, <2>2 DEF ReadingsLeaveRoom
  <2>4. base[q] + Cardinality(Counting(c)') <= Cardinality(PersistedOf(c)')
    BY <1>0, <1>3, <2>1, <2>3, CountersAreFinite
  <2>5. QED
    BY <1>1, <2>2, <2>4
<1>6. QED
  BY <1>4, <1>5

\* A mail is counted: its loop has no longer to do so.
LEMMA CountedChange ==
    ASSUME TypeOK, NEW p \in Monitor, pc[p] = "add", pc' = [pc EXCEPT ![p] = "notify"],
           cur' = cur, Persisted' = Persisted, NEW c \in Config
    PROVE  /\ Cardinality(Counting(c)') = IF c = ConfigOf[cur[p]] THEN Cardinality(Counting(c)) - 1
                                                                  ELSE Cardinality(Counting(c))
           /\ Cardinality(Counting(c)') \in Nat
           /\ PersistedOf(c)' = PersistedOf(c)
           /\ Cardinality(PersistedOf(c)) \in Nat /\ Cardinality(Counting(c)) \in Nat
<1>1. IsFiniteSet(Counting(c)) /\ IsFiniteSet(PersistedOf(c))
      /\ Cardinality(PersistedOf(c)) \in Nat /\ Cardinality(Counting(c)) \in Nat
  BY CountersAreFinite
<1>2. PersistedOf(c)' = PersistedOf(c)
  BY DEF PersistedOf
<1>3. Counting(c)' = Counting(c) \ {p} /\ (p \in Counting(c) <=> c = ConfigOf[cur[p]])
  BY DEF Counting, TypeOK
<1>4. /\ IsFiniteSet(Counting(c)')
      /\ Cardinality(Counting(c)') = IF c = ConfigOf[cur[p]] THEN Cardinality(Counting(c)) - 1
                                              ELSE Cardinality(Counting(c))
  BY <1>1, <1>3, FS_RemoveElement
<1>5. Cardinality(Counting(c)') \in Nat
  BY <1>4, FS_CardinalityType
<1>6. QED
  BY <1>1, <1>2, <1>4, <1>5

\* The sum is written: it counts the mail on top of what was read.
LEMMA CountedStep ==
    ASSUME CounterIInv, TypeOK', NEW p \in Monitor, pc[p] = "add",
           pc' = [pc EXCEPT ![p] = "notify"], cur' = cur, Persisted' = Persisted,
           checked' = [checked EXCEPT ![ConfigOf[cur[p]]] = CounterSum(p)],
           base' = [base EXCEPT ![p] = 0]
    PROVE  CountersNeverOverstate' /\ ReadingsLeaveRoom'
<1>0. TypeOK /\ MailInHand /\ CountersNeverOverstate /\ ReadingsLeaveRoom
  BY DEF CounterIInv, IngestInvariant
<1>1. PICK d \in Config : d = ConfigOf[cur[p]]
  <2>1. cur[p] \in Mail
    BY <1>0 DEF TypeOK, MailInHand, MailStage, Stage
  <2>2. QED
    BY <2>1, IngestAssumption DEF IngestAssumption
<1>2. /\ pc'[p] = "notify" /\ \A q \in Monitor : q # p => pc'[q] = pc[q] /\ base'[q] = base[q]
      /\ checked'[d] = base[p] + 1 /\ \A c \in Config : c # d => checked'[c] = checked[c]
      /\ base[p] \in Nat
  BY <1>0, <1>1 DEF TypeOK, CounterSum
<1>3. \A c \in Config :
          /\ Cardinality(Counting(c)') = IF c = d THEN Cardinality(Counting(c)) - 1
                                                  ELSE Cardinality(Counting(c))
          /\ Cardinality(Counting(c)') \in Nat
          /\ PersistedOf(c)' = PersistedOf(c)
          /\ Cardinality(PersistedOf(c)) \in Nat /\ Cardinality(Counting(c)) \in Nat
  BY <1>0, <1>1, CountedChange
<1>4. CountersNeverOverstate'
  <2> SUFFICES ASSUME NEW c \in Config
               PROVE  checked'[c] + Cardinality(Counting(c)') <= Cardinality(PersistedOf(c)')
    BY DEF CountersNeverOverstate
  <2>1. CASE c = d
    <3>1. base[p] + Cardinality(Counting(c)) <= Cardinality(PersistedOf(c))
      BY <1>0, <1>1, <2>1 DEF ReadingsLeaveRoom
    <3>2. QED
      BY <1>2, <1>3, <2>1, <3>1
  <2>2. CASE c # d
    <3>1. checked[c] + Cardinality(Counting(c)) <= Cardinality(PersistedOf(c))
      BY <1>0 DEF CountersNeverOverstate
    <3>2. QED
      BY <1>2, <1>3, <2>2, <3>1
  <2>3. QED
    BY <2>1, <2>2
<1>5. ReadingsLeaveRoom'
  <2> SUFFICES ASSUME NEW q \in Monitor, pc'[q] = "add"
               PROVE  base'[q] + Cardinality(Counting(ConfigOf[cur[q]])')
                          <= Cardinality(PersistedOf(ConfigOf[cur[q]])')
    BY DEF ReadingsLeaveRoom
  <2>1. q # p /\ pc[q] = "add" /\ base'[q] = base[q] /\ base[q] \in Nat /\ cur[q] \in Mail
    BY <1>0, <1>2 DEF TypeOK, MailInHand, MailStage, Stage
  <2>2. PICK c \in Config : c = ConfigOf[cur[q]]
    BY <2>1, IngestAssumption DEF IngestAssumption
  <2>3. base[q] + Cardinality(Counting(c)) <= Cardinality(PersistedOf(c))
    BY <1>0, <2>1, <2>2 DEF ReadingsLeaveRoom
  <2>4. base[q] + Cardinality(Counting(c)') <= Cardinality(PersistedOf(c)')
    BY <1>3, <2>1, <2>3
  <2>5. QED
    BY <2>1, <2>2, <2>4
<1>6. QED
  BY <1>4, <1>5

LEMMA CounterStep == ASSUME CounterIInv, [Next]_vars PROVE CounterIInv'
<1>0. TypeOK /\ MailInHand /\ IngestInvariant' /\ TypeOK'
  BY InvariantStep DEF CounterIInv, IngestInvariant
<1> SUFFICES CountersNeverOverstate' /\ ReadingsLeaveRoom'
  BY <1>0 DEF CounterIInv
<1>1. \A p \in Monitor : pc[p] \in {"count", "add"} => cur[p] \in Mail
  BY <1>0 DEF TypeOK, MailInHand, MailStage, Stage
<1> USE DEF loopVars, handVars, tableVars, mailVars, fileVars
<1>2. CASE UNCHANGED vars \/ \E m \in Mail : Arrive(m)
  BY <1>0, <1>1, <1>2, UncountedStep DEF vars, Arrive, Persisted
<1>3. ASSUME NEW p \in Monitor,
             \/ Start(p) \/ Stop(p) \/ LeaveLoop(p) \/ BeginPass(p) \/ Claim(p)
             \/ OpenTransaction(p) \/ QuarantineAttachment(p) \/ QuarantineBreaks(p)
             \/ \E c \in Config : ConnectFails(p, c) \/ ListMailbox(p, c)
             \/ FinishCheck(p)
      PROVE  CountersNeverOverstate' /\ ReadingsLeaveRoom'
  <2>1. Persisted' = Persisted /\ checked' = checked /\ base' = base /\ cur' = cur
    BY <1>3
    DEF Start, Stop, LeaveLoop, BeginPass, Claim, OpenTransaction, QuarantineAttachment,
        QuarantineBreaks, ConnectFails, ListMailbox, FinishCheck, Persisted
  <2>2. \A q \in Monitor : pc'[q] \in {"count", "add"} => pc'[q] = pc[q]
    BY <1>0, <1>3
    DEF Start, Stop, LeaveLoop, BeginPass, Claim, OpenTransaction, QuarantineAttachment,
        QuarantineBreaks, ConnectFails, ListMailbox, FinishCheck, LeaveMailbox, TypeOK
  <2>3. QED
    BY <1>0, <1>1, <2>1, <2>2, UncountedStep
<1>4. ASSUME NEW p \in Monitor,
             \/ \E m \in Mail : FetchFails(p, m) \/ Fetch(p, m)
             \/ ClaimRefused(p) \/ PersistFails(p) \/ ProcessingFails(p)
             \/ (CommitHollow(p) /\ hollow' = hollow) \/ Notify(p) \/ Crash(p)
      PROVE  CountersNeverOverstate' /\ ReadingsLeaveRoom'
  <2>1. Persisted' = Persisted /\ checked' = checked
    BY <1>4
    DEF FetchFails, Fetch, ClaimRefused, PersistFails, ProcessingFails, CommitHollow,
        Notify, Crash, Persisted
  <2>2. CommitHollow(p) => AfterPersistFailure(p) /\ base' = base
    <3>1. CommitHollow(p) => cur[p] \notin hollow
      BY DEF CommitHollow, CounterIInv, IngestInvariant, NoDoubleScan, InFlightStage, Persisted
    <3>2. QED
      BY <1>4, <3>1
      DEF CommitHollow, FetchFails, Fetch, ClaimRefused, PersistFails, ProcessingFails,
          Notify, Crash
  <2>3. \A q \in Monitor : pc'[q] \in {"count", "add"} =>
            pc'[q] = pc[q] /\ cur'[q] = cur[q] /\ base'[q] = base[q]
    BY <1>0, <1>4, <2>2
    DEF FetchFails, Fetch, ClaimRefused, PersistFails, ProcessingFails,
        AfterPersistFailure, Notify, Crash, ToNext, TypeOK
  <2>4. QED
    BY <1>0, <1>1, <2>1, <2>3, UncountedStep
<1>5. ASSUME NEW p \in Monitor, ReadCounter(p)
      PROVE  CountersNeverOverstate' /\ ReadingsLeaveRoom'
  <2>1. Persisted' = Persisted /\ checked' = checked /\ cur' = cur /\ pc[p] = "count"
    BY <1>5 DEF ReadCounter, Persisted
  <2>2. /\ base'[p] = checked[ConfigOf[cur[p]]]
        /\ \A q \in Monitor : q # p => pc'[q] = pc[q] /\ base'[q] = base[q]
    BY <1>0, <1>5 DEF ReadCounter, TypeOK
  <2>3. \A q \in Monitor : pc'[q] \in {"count", "add"} => pc[q] \in {"count", "add"}
    BY <2>1, <2>2
  <2>4. QED
    BY <1>0, <1>1, <2>1, <2>2, <2>3, UncountedStep
<1>6. ASSUME NEW p \in Monitor, WriteCounter(p)
      PROVE  CountersNeverOverstate' /\ ReadingsLeaveRoom'
  <2>1. /\ pc[p] = "add" /\ pc' = [pc EXCEPT ![p] = "notify"] /\ cur' = cur
        /\ Persisted' = Persisted /\ base' = [base EXCEPT ![p] = 0]
    BY <1>6 DEF WriteCounter, Persisted
  <2>2. CASE checked' = [checked EXCEPT ![ConfigOf[cur[p]]] = CounterSum(p)]
    BY <1>0, <2>1, <2>2, CountedStep
  <2>3. CASE checked' = checked
    <3>1. \A q \in Monitor : pc'[q] \in {"count", "add"} => pc'[q] = pc[q] /\ base'[q] = base[q]
      BY <1>0, <2>1 DEF TypeOK
    <3>2. QED
      BY <1>0, <1>1, <2>1, <2>3, <3>1, UncountedStep
  <2>4. QED
    BY <1>6, <2>2, <2>3 DEF WriteCounter
<1>7. ASSUME NEW p \in Monitor,
             CommitRecord(p) \/ (CommitHollow(p) /\ hollow' # hollow)
      PROVE  CountersNeverOverstate' /\ ReadingsLeaveRoom'
  BY <1>0, <1>7, CommitStores, StoredStep DEF CounterIInv
<1>8. QED
  BY <1>2, <1>3, <1>4, <1>5, <1>6, <1>7 DEF Next, Step

\* However many loops count into one row, and however their reads and writes of it
\* interleave: a counter never exceeds the mails that are stored, or taken for stored.
THEOREM CountersStayBehind == Spec => []CountersNeverOverstate
<1>1. Init => CounterIInv
  <2> SUFFICES ASSUME Init PROVE CounterIInv
    OBVIOUS
  <2>1. IngestInvariant
    BY InitInvariant
  <2>2. \A c \in Config : checked[c] = 0 /\ Counting(c) = {} /\ PersistedOf(c) = {}
    BY DEF Init, Counting, PersistedOf, Persisted
  <2>3. Cardinality({}) = 0
    BY FS_EmptySet
  <2>4. CountersNeverOverstate
    BY <2>2, <2>3 DEF CountersNeverOverstate
  <2>5. ReadingsLeaveRoom
    BY DEF Init, ReadingsLeaveRoom
  <2>6. QED
    BY <2>1, <2>4, <2>5 DEF CounterIInv
<1>2. CounterIInv /\ [Next]_vars => CounterIInv'
  BY CounterStep
<1>3. CounterIInv => CountersNeverOverstate
  BY DEF CounterIInv
<1>4. QED
  BY <1>1, <1>2, <1>3, PTL DEF Spec

-----------------------------------------------------------------------------
(* What holds when nothing is killed and no transaction stalls.            *)

OneLoop == \A p, q \in Monitor : p = q
OneFolder == \A f, g \in Folder : f = g

\* A transaction stalls only over a dangerous attachment, and is rolled back under
\* way only for a mail whose processing may raise.
StallsAreDangerous ==
    \A p \in Monitor : /\ pc[p] = "attach" => got[p] \in Dangerous
                       /\ pc[p] = "hollow" => got[p] \in Faulty

\* No writer of another loop times out: there is no other loop, or nothing to
\* quarantine.
LEMMA LockNeverTimesOut ==
    ASSUME TypeOK, StallsAreDangerous, Dangerous = {} \/ OneLoop,
           NEW p \in Monitor, pc[p] # "attach"
    PROVE  ~LockTimesOut
BY DEF LockTimesOut, OneLoop, StallsAreDangerous, TypeOK

LEMMA StallsStep ==
    ASSUME TypeOK, StallsAreDangerous, [Next]_vars
    PROVE  StallsAreDangerous'
<1> DEFINE Kept(q) == /\ pc'[q] \in {"attach", "hollow"} => pc'[q] = pc[q] /\ got'[q] = got[q]
<1> USE DEF StallsAreDangerous, loopVars, handVars
<1>1. CASE UNCHANGED vars \/ \E m \in Mail : Arrive(m)
  BY <1>1 DEF vars, Arrive
<1>2. ASSUME NEW p \in Monitor,
             Start(p) \/ Stop(p) \/ LeaveLoop(p) \/ BeginPass(p) \/ FinishCheck(p) \/ Claim(p)
             \/ (\E c \in Config : ConnectFails(p, c) \/ ListMailbox(p, c))
      PROVE  \A q \in Monitor : Kept(q)
  BY <1>2
  DEF Start, Stop, LeaveLoop, BeginPass, FinishCheck, Claim, ConnectFails, ListMailbox,
      LeaveMailbox, TypeOK
<1>3. ASSUME NEW p \in Monitor,
             Crash(p) \/ ClaimRefused(p) \/ PersistFails(p) \/ ProcessingFails(p) \/ Notify(p)
             \/ (\E m \in Mail : FetchFails(p, m) \/ Fetch(p, m))
      PROVE  \A q \in Monitor : Kept(q)
  BY <1>3
  DEF Crash, ClaimRefused, PersistFails, ProcessingFails, AfterPersistFailure, Notify,
      FetchFails, Fetch, ToNext, TypeOK
<1>4. ASSUME NEW p \in Monitor,
             QuarantineAttachment(p) \/ CommitRecord(p) \/ CommitHollow(p)
             \/ ReadCounter(p) \/ WriteCounter(p)
      PROVE  \A q \in Monitor : Kept(q)
  BY <1>4
  DEF QuarantineAttachment, CommitRecord, CommitHollow, AfterPersistFailure, ToNext,
      ReadCounter, WriteCounter, TypeOK
<1>5. ASSUME NEW p \in Monitor, OpenTransaction(p) \/ QuarantineBreaks(p)
      PROVE  StallsAreDangerous'
  BY <1>5 DEF OpenTransaction, QuarantineBreaks, TypeOK
<1>6. QED
  BY <1>1, <1>2, <1>3, <1>4, <1>5 DEF Next, Step

\* With one folder to fetch from, a loop has the mail in its hands that it claims.
MailsAreTheirOwn ==
    /\ \A p \in Monitor : got[p] = cur[p]
    /\ \A k \in Mail : body[k] = k

LEMMA OwnMailStep ==
    ASSUME OneFolder, TypeOK, MailsAreTheirOwn, [Next]_vars
    PROVE  MailsAreTheirOwn'
<1> USE DEF MailsAreTheirOwn, loopVars, handVars, tableVars, mailVars
<1>1. CASE body' = body /\ cur' = cur /\ got' = got
  BY <1>1
<1>2. ASSUME NEW p \in Monitor, ToNext(p), body' = body PROVE MailsAreTheirOwn'
  BY <1>2 DEF ToNext, TypeOK
<1>3. ASSUME NEW p \in Monitor, Crash(p) PROVE MailsAreTheirOwn'
  BY <1>3 DEF Crash, TypeOK
<1>4. ASSUME NEW p \in Monitor, NEW k \in Mail, Fetch(p, k) PROVE MailsAreTheirOwn'
  <2>1. PICK m \in Found(k, selected[p]) : got' = [got EXCEPT ![p] = m]
    BY <1>4 DEF Fetch
  <2>2. m = k
    BY <2>1, IngestAssumption DEF Found, OneFolder, TypeOK, IngestAssumption
  <2>3. QED
    BY <1>4, <2>1, <2>2 DEF Fetch, TypeOK
<1>5. ASSUME NEW p \in Monitor, CommitRecord(p) PROVE MailsAreTheirOwn'
  BY <1>5 DEF CommitRecord, TypeOK
<1>6. QED
  BY <1>1, <1>2, <1>3, <1>4, <1>5
  DEF Next, Step, vars, Arrive, Start, Stop, LeaveLoop, BeginPass, ConnectFails,
      ListMailbox, FinishCheck, FetchFails, Claim, ClaimRefused, OpenTransaction,
      PersistFails, ProcessingFails, AfterPersistFailure, QuarantineAttachment,
      QuarantineBreaks, CommitHollow, ReadCounter, WriteCounter, Notify

\* A step that claims nothing, forgets no record and takes nothing out of flight but
\* a mail whose processing may raise.
LEMMA NothingLostStep ==
    ASSUME NoClaimedMailIsLost, claimed' = claimed, records' = records, body' = body,
           \A p \in Monitor : pc[p] \in InFlightStage /\ cur[p] \notin Faulty =>
               pc'[p] \in InFlightStage /\ cur'[p] = cur[p]
    PROVE  NoClaimedMailIsLost'
BY DEF NoClaimedMailIsLost, InFlight, StoredId, MessageId

LEMMA ClaimsAreKeptStep ==
    ASSUME ~MayCrash, Dangerous = {} \/ OneLoop, IngestInvariant, StallsAreDangerous,
           MailsAreTheirOwn, NoClaimedMailIsLost, [Next]_vars
    PROVE  NoClaimedMailIsLost'
<1>0. TypeOK /\ MailInHand
  BY DEF IngestInvariant
<1> USE DEF loopVars, handVars, tableVars, mailVars
<1>1. CASE UNCHANGED vars \/ \E m \in Mail : Arrive(m)
  BY <1>1, NothingLostStep DEF vars, Arrive
<1>2. ASSUME NEW p \in Monitor,
             Start(p) \/ Stop(p) \/ LeaveLoop(p) \/ BeginPass(p) \/ FinishCheck(p)
             \/ (\E c \in Config : ConnectFails(p, c) \/ ListMailbox(p, c))
      PROVE  NoClaimedMailIsLost'
  <2>1. claimed' = claimed /\ records' = records /\ body' = body /\ cur' = cur
        /\ \A q \in Monitor : pc[q] \in InFlightStage => pc'[q] = pc[q]
    BY <1>0, <1>2
    DEF Start, Stop, LeaveLoop, BeginPass, FinishCheck, ConnectFails, ListMailbox,
        LeaveMailbox, TypeOK, InFlightStage
  <2>2. QED
    BY <2>1, NothingLostStep
<1>3. ASSUME NEW p \in Monitor,
             ClaimRefused(p) \/ ReadCounter(p) \/ WriteCounter(p) \/ Notify(p)
             \/ (\E m \in Mail : FetchFails(p, m) \/ Fetch(p, m))
      PROVE  NoClaimedMailIsLost'
  <2>1. claimed' = claimed /\ records' = records /\ body' = body
        /\ \A q \in Monitor : pc[q] \in InFlightStage => pc'[q] = pc[q] /\ cur'[q] = cur[q]
    BY <1>0, <1>3
    DEF ClaimRefused, ReadCounter, WriteCounter, Notify, FetchFails, Fetch, ToNext,
        TypeOK, InFlightStage
  <2>2. QED
    BY <2>1, NothingLostStep
<1>4. ASSUME NEW p \in Monitor,
             OpenTransaction(p) \/ QuarantineAttachment(p) \/ QuarantineBreaks(p)
      PROVE  NoClaimedMailIsLost'
  <2>1. claimed' = claimed /\ records' = records /\ body' = body /\ cur' = cur
        /\ pc'[p] \in InFlightStage /\ \A q \in Monitor : q # p => pc'[q] = pc[q]
    BY <1>0, <1>4
    DEF OpenTransaction, QuarantineAttachment, QuarantineBreaks, TypeOK, InFlightStage
  <2>2. QED
    BY <2>1, NothingLostStep
<1>5. ASSUME NEW p \in Monitor, Claim(p) PROVE NoClaimedMailIsLost'
  <2>1. /\ claimed' = claimed \cup {cur[p]} /\ records' = records /\ cur' = cur
        /\ body' = body /\ pc'[p] = "analyse"
        /\ \A q \in Monitor : pc[q] \in InFlightStage => pc'[q] = pc[q]
    BY <1>0, <1>5 DEF Claim, TypeOK, InFlightStage
  <2>2. \A m \in Mail : InFlight(m) => InFlight(m)'
    BY <2>1 DEF InFlight
  <2>3. InFlight(cur[p])'
    BY <2>1 DEF InFlight, InFlightStage
  <2>4. QED
    BY <1>0, <2>1, <2>2, <2>3 DEF NoClaimedMailIsLost, TypeOK, StoredId, MessageId
<1>6. ASSUME NEW p \in Monitor, CommitRecord(p) PROVE NoClaimedMailIsLost'
  <2>1. /\ claimed' = claimed /\ records' = records \cup {cur[p]} /\ cur' = cur
        /\ \A q \in Monitor : q # p => pc'[q] = pc[q]
        /\ cur[p] \in Mail
    BY <1>0, <1>6 DEF CommitRecord, TypeOK, MailInHand, MailStage, Stage
  <2>2. body' = body /\ StoredId(cur[p])' = MessageId(cur[p], cur[p])
    BY <1>0, <1>6, <2>1
    DEF CommitRecord, MailsAreTheirOwn, TypeOK, StoredId, MessageId
  <2>3. ASSUME NEW m \in claimed, InFlight(m)
        PROVE  InFlight(m)' \/ m = cur[p]
    BY <2>1, <2>3 DEF InFlight
  <2>4. \A n \in records : StoredId(n)' = StoredId(n)
    BY <2>2 DEF StoredId, MessageId
  <2>5. QED
    BY <2>1, <2>2, <2>3, <2>4 DEF NoClaimedMailIsLost, MessageId
<1>7. ASSUME NEW p \in Monitor, PersistFails(p) PROVE NoClaimedMailIsLost'
  <2>1. ~LockTimesOut
    BY <1>0, <1>7, LockNeverTimesOut DEF PersistFails
  <2>2. PICK n \in records : StoredId(n) = MessageId(cur[p], cur[p])
    BY <1>7, <2>1 DEF PersistFails, SameMessage, MailsAreTheirOwn
  <2>3. /\ claimed' = claimed /\ records' = records /\ body' = body
        /\ \A q \in Monitor : q # p => pc'[q] = pc[q] /\ cur'[q] = cur[q]
    BY <1>0, <1>7 DEF PersistFails, AfterPersistFailure, ToNext, TypeOK
  <2>4. ASSUME NEW m \in claimed, InFlight(m)
        PROVE  InFlight(m)' \/ m = cur[p]
    BY <2>3, <2>4 DEF InFlight
  <2>5. \A k \in records : StoredId(k)' = StoredId(k)
    BY <2>3 DEF StoredId, MessageId
  <2>6. QED
    BY <2>2, <2>3, <2>4, <2>5 DEF NoClaimedMailIsLost, MessageId
<1>8. ASSUME NEW p \in Monitor, ProcessingFails(p) \/ CommitHollow(p)
      PROVE  NoClaimedMailIsLost'
  <2>1. pc[p] \in InFlightStage => cur[p] \in Faulty
    BY <1>8
    DEF ProcessingFails, CommitHollow, StallsAreDangerous, MailsAreTheirOwn
  <2>2. claimed' = claimed /\ records' = records /\ body' = body
        /\ \A q \in Monitor : q # p => pc'[q] = pc[q] /\ cur'[q] = cur[q]
    BY <1>0, <1>8
    DEF ProcessingFails, CommitHollow, AfterPersistFailure, ToNext, TypeOK
  <2>3. QED
    BY <2>1, <2>2, NothingLostStep
<1>9. QED
  BY <1>1, <1>2, <1>3, <1>4, <1>5, <1>6, <1>7, <1>8 DEF Next, Step, Crash

\* Where one folder is monitored, nothing is killed, and there is nothing to
\* quarantine or no other loop, only a mail whose own analysis or storage raised
\* an exception is lost with its claim: every other claimed mail is in some loop's
\* hands or its message is stored.
THEOREM ClaimsAreNeverLost ==
    ASSUME ~MayCrash, OneFolder, Dangerous = {} \/ OneLoop
    PROVE  Spec => []NoClaimedMailIsLost
<1> DEFINE IInv == IngestInvariant /\ StallsAreDangerous /\ MailsAreTheirOwn
                   /\ NoClaimedMailIsLost
<1>1. Init => IInv
  BY InitInvariant DEF Init, StallsAreDangerous, MailsAreTheirOwn, NoClaimedMailIsLost
<1>2. IInv /\ [Next]_vars => IInv'
  <2> SUFFICES ASSUME IInv, [Next]_vars PROVE IInv'
    OBVIOUS
  <2>1. IngestInvariant'
    BY InvariantStep
  <2>2. StallsAreDangerous' /\ MailsAreTheirOwn'
    BY StallsStep, OwnMailStep DEF IngestInvariant
  <2>3. NoClaimedMailIsLost'
    BY ClaimsAreKeptStep
  <2>4. QED
    BY <2>1, <2>2, <2>3
<1>3. IInv => NoClaimedMailIsLost
  OBVIOUS
<1>4. QED
  BY <1>1, <1>2, <1>3, PTL DEF Spec

\* One loop alone: what is stored and not counted yet is its own mail, and nobody
\* changes the counter between its read and its write.
NothingUncounted ==
    \A c \in Config : checked[c] + Cardinality(Counting(c)) = Cardinality(PersistedOf(c))
ReadingIsCurrent ==
    \A p \in Monitor : pc[p] = "add" => base[p] = checked[ConfigOf[cur[p]]]

SoloIInv == IngestInvariant /\ StallsAreDangerous /\ NothingUncounted /\ ReadingIsCurrent

\* A step that neither stores nor counts, nor has a loop begin or cease to count.
LEMMA SameCountStep ==
    ASSUME SoloIInv, Persisted' = Persisted, checked' = checked,
           \A p \in Monitor : pc[p] \in {"count", "add"} \/ pc'[p] \in {"count", "add"} =>
               pc'[p] = pc[p] /\ cur'[p] = cur[p] /\ base'[p] = base[p]
    PROVE  NothingUncounted' /\ ReadingIsCurrent'
<1>1. \A c \in Config : Counting(c)' = Counting(c) /\ PersistedOf(c)' = PersistedOf(c)
  BY DEF Counting, PersistedOf
<1>2. NothingUncounted'
  BY <1>1 DEF SoloIInv, NothingUncounted
<1>3. ReadingIsCurrent'
  BY DEF SoloIInv, ReadingIsCurrent
<1>4. QED
  BY <1>2, <1>3

LEMMA SoloStep ==
    ASSUME ~MayCrash, OneLoop, SoloIInv, [Next]_vars
    PROVE  NothingUncounted' /\ ReadingIsCurrent'
<1>0. /\ IngestInvariant /\ TypeOK /\ TypeOK' /\ MailInHand /\ StallsAreDangerous
      /\ NothingUncounted /\ ReadingIsCurrent
  BY InvariantStep DEF SoloIInv, IngestInvariant
<1> USE DEF loopVars, handVars, tableVars, mailVars
<1>1. CASE UNCHANGED vars \/ \E m \in Mail : Arrive(m)
  BY <1>1, SameCountStep DEF vars, Arrive, Persisted
<1>2. ASSUME NEW p \in Monitor,
             Start(p) \/ Stop(p) \/ LeaveLoop(p) \/ BeginPass(p) \/ FinishCheck(p)
             \/ Claim(p) \/ OpenTransaction(p) \/ QuarantineAttachment(p)
             \/ QuarantineBreaks(p)
             \/ (\E c \in Config : ConnectFails(p, c) \/ ListMailbox(p, c))
      PROVE  NothingUncounted' /\ ReadingIsCurrent'
  <2>1. Persisted' = Persisted /\ checked' = checked /\ base' = base /\ cur' = cur
    BY <1>2
    DEF Start, Stop, LeaveLoop, BeginPass, FinishCheck, Claim, OpenTransaction,
        QuarantineAttachment, QuarantineBreaks, ConnectFails, ListMailbox, Persisted
  <2>2. \A q \in Monitor : pc[q] \in {"count", "add"} \/ pc'[q] \in {"count", "add"} =>
            pc'[q] = pc[q]
    BY <1>0, <1>2
    DEF Start, Stop, LeaveLoop, BeginPass, FinishCheck, Claim, OpenTransaction,
        QuarantineAttachment, QuarantineBreaks, ConnectFails, ListMailbox, LeaveMailbox,
        TypeOK
  <2>3. QED
    BY <2>1, <2>2, SameCountStep
<1>3. ASSUME NEW p \in Monitor,
             ClaimRefused(p) \/ PersistFails(p) \/ ProcessingFails(p) \/ Notify(p)
             \/ (CommitHollow(p) /\ hollow' = hollow)
             \/ (\E m \in Mail : FetchFails(p, m) \/ Fetch(p, m))
      PROVE  NothingUncounted' /\ ReadingIsCurrent'
  <2>0. CommitHollow(p) => pc[p] = "hollow" /\ AfterPersistFailure(p)
    <3>1. CommitHollow(p) => cur[p] \notin hollow
      BY <1>0 DEF CommitHollow, IngestInvariant, NoDoubleScan, InFlightStage, Persisted
    <3>2. QED
      BY <1>3, <3>1
      DEF CommitHollow, FetchFails, Fetch, ClaimRefused, PersistFails, ProcessingFails, Notify
  <2>1. Persisted' = Persisted /\ checked' = checked /\ base' = base
    BY <1>3
    DEF ClaimRefused, PersistFails, ProcessingFails, CommitHollow, Notify, FetchFails,
        Fetch, Persisted
  <2>2. \A q \in Monitor : pc[q] \in {"count", "add"} \/ pc'[q] \in {"count", "add"} =>
            pc'[q] = pc[q] /\ cur'[q] = cur[q]
    BY <1>0, <1>3, <2>0
    DEF ClaimRefused, PersistFails, ProcessingFails, AfterPersistFailure, Notify,
        FetchFails, Fetch, ToNext, TypeOK, InFlightStage
  <2>3. QED
    BY <2>1, <2>2, SameCountStep
<1>4. ASSUME NEW p \in Monitor, ReadCounter(p)
      PROVE  NothingUncounted' /\ ReadingIsCurrent'
  <2>1. /\ Persisted' = Persisted /\ checked' = checked /\ cur' = cur
        /\ pc[p] = "count" /\ pc'[p] = "add" /\ base'[p] = checked[ConfigOf[cur[p]]]
        /\ \A q \in Monitor : q = p
    BY <1>0, <1>4 DEF ReadCounter, TypeOK, OneLoop, Persisted
  <2>2. \A c \in Config : Counting(c)' = Counting(c) /\ PersistedOf(c)' = PersistedOf(c)
    BY <2>1 DEF Counting, PersistedOf
  <2>3. QED
    BY <1>0, <2>1, <2>2 DEF NothingUncounted, ReadingIsCurrent
<1>5. ASSUME NEW p \in Monitor,
             CommitRecord(p) \/ (CommitHollow(p) /\ hollow' # hollow)
      PROVE  NothingUncounted' /\ ReadingIsCurrent'
  <2>0. Stores(p)
    BY <1>0, <1>5, CommitStores
  <2>1. checked' = checked /\ pc'[p] = "count" /\ \A q \in Monitor : q = p
    BY <1>0, <2>0 DEF Stores, TypeOK, OneLoop
  <2>2. NothingUncounted'
    <3> SUFFICES ASSUME NEW c \in Config
                 PROVE  checked[c] + Cardinality(Counting(c)') = Cardinality(PersistedOf(c)')
      BY <2>1 DEF NothingUncounted
    <3>1. checked[c] \in Nat /\ checked[c] + Cardinality(Counting(c)) = Cardinality(PersistedOf(c))
      BY <1>0 DEF TypeOK, NothingUncounted
    <3>2. Cardinality(Counting(c)) \in Nat /\ Cardinality(PersistedOf(c)) \in Nat
      BY <1>0, CountersAreFinite
    <3>3. QED
      BY <1>0, <2>0, <3>1, <3>2, StoredChange
  <2>3. ReadingIsCurrent'
    BY <2>1 DEF ReadingIsCurrent
  <2>4. QED
    BY <2>2, <2>3
<1>6. ASSUME NEW p \in Monitor, WriteCounter(p)
      PROVE  NothingUncounted' /\ ReadingIsCurrent'
  <2>1. ~LockTimesOut
    BY <1>0, <1>6, LockNeverTimesOut DEF WriteCounter
  <2>2. /\ pc[p] = "add" /\ pc' = [pc EXCEPT ![p] = "notify"] /\ cur' = cur
        /\ Persisted' = Persisted
        /\ checked' = [checked EXCEPT ![ConfigOf[cur[p]]] = CounterSum(p)]
    BY <1>6, <2>1 DEF WriteCounter, Persisted
  <2>3. pc'[p] = "notify" /\ \A q \in Monitor : q = p
    BY <1>0, <2>2 DEF TypeOK, OneLoop
  <2>4. NothingUncounted'
    <3> SUFFICES ASSUME NEW c \in Config
                 PROVE  checked'[c] + Cardinality(Counting(c)') = Cardinality(PersistedOf(c)')
      BY DEF NothingUncounted
    <3>1. checked[c] \in Nat /\ checked[c] + Cardinality(Counting(c)) = Cardinality(PersistedOf(c))
      BY <1>0 DEF TypeOK, NothingUncounted
    <3>2. checked'[c] = IF c = ConfigOf[cur[p]] THEN checked[c] + 1 ELSE checked[c]
      BY <1>0, <2>2 DEF TypeOK, CounterSum, ReadingIsCurrent
    <3>3. /\ Cardinality(Counting(c)') = IF c = ConfigOf[cur[p]] THEN Cardinality(Counting(c)) - 1
                                                                ELSE Cardinality(Counting(c))
          /\ PersistedOf(c)' = PersistedOf(c)
          /\ Cardinality(PersistedOf(c)) \in Nat /\ Cardinality(Counting(c)) \in Nat
      BY <1>0, <2>2, CountedChange
    <3>4. QED
      BY <3>1, <3>2, <3>3
  <2>5. ReadingIsCurrent'
    BY <2>3 DEF ReadingIsCurrent
  <2>6. QED
    BY <2>4, <2>5
<1>7. QED
  BY <1>1, <1>2, <1>3, <1>4, <1>5, <1>6 DEF Next, Step, Crash

\* One loop that is not killed: between passes its counters are the numbers of
\* mails stored, or taken for stored, so only a second loop or a kill can make them
\* too small.
THEOREM SoloCountersAreExact ==
    ASSUME ~MayCrash, OneLoop
    PROVE  Spec => []CountersExactAtRest
<1>1. Init => SoloIInv
  <2> SUFFICES ASSUME Init PROVE SoloIInv
    OBVIOUS
  <2>1. IngestInvariant
    BY InitInvariant
  <2>2. \A c \in Config : checked[c] = 0 /\ Counting(c) = {} /\ PersistedOf(c) = {}
    BY DEF Init, Counting, PersistedOf, Persisted
  <2>3. Cardinality({}) = 0
    BY FS_EmptySet
  <2>4. NothingUncounted
    BY <2>2, <2>3 DEF NothingUncounted
  <2>5. StallsAreDangerous /\ ReadingIsCurrent
    BY DEF Init, StallsAreDangerous, ReadingIsCurrent
  <2>6. QED
    BY <2>1, <2>4, <2>5 DEF SoloIInv
<1>2. SoloIInv /\ [Next]_vars => SoloIInv'
  <2> SUFFICES ASSUME SoloIInv, [Next]_vars PROVE SoloIInv'
    OBVIOUS
  <2>1. IngestInvariant'
    BY InvariantStep DEF SoloIInv
  <2>2. StallsAreDangerous'
    BY StallsStep DEF SoloIInv, IngestInvariant
  <2>3. NothingUncounted' /\ ReadingIsCurrent'
    BY SoloStep
  <2>4. QED
    BY <2>1, <2>2, <2>3 DEF SoloIInv
<1>3. SoloIInv => CountersExactAtRest
  <2> SUFFICES ASSUME SoloIInv, \A p \in Monitor : pc[p] \in {"off", "idle"}, NEW c \in Config
               PROVE  checked[c] = Cardinality(PersistedOf(c))
    BY DEF CountersExactAtRest
  <2>1. Counting(c) = {}
    BY DEF Counting
  <2>2. checked[c] \in Nat /\ checked[c] + Cardinality(Counting(c)) = Cardinality(PersistedOf(c))
    BY DEF SoloIInv, IngestInvariant, TypeOK, NothingUncounted
  <2>3. QED
    BY <2>1, <2>2, FS_EmptySet
<1>4. QED
  BY <1>1, <1>2, <1>3, PTL DEF Spec
=============================================================================
