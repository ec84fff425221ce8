------------------------- MODULE SandboxJobsProofs -------------------------
(* Proofs about SandboxJobs, for every set of jobs and of threads that     *)
(* serve deletions.                                                        *)
EXTENDS SandboxJobs, FiniteSetTheorems, TLAPS

-----------------------------------------------------------------------------
(* The inductive invariant.                                                *)

\* Each kind of actor has stages of its own, and an analysis knows its job only.
Stages ==
    /\ pc[Loop] \in {"idle", "load", "open", "write"}
    /\ \A j \in Job : /\ pc[j] \in {"idle", "sleep", "load", "open", "write", "over"}
                      /\ about[j] = j
    /\ \A q \in Request : pc[q] \in {"idle", "load", "remove", "open", "write"}

\* The loop is busy with a job that is new, and stored, until its listing is
\* saved; the analysis of a job begins then, and deletions are asked for later.
Tasks ==
    /\ \A j \in Job : truth[j] = "new" <=> pc[j] = "idle"
    /\ pc[Loop] # "idle" =>
          about[Loop] \in Job /\ truth[about[Loop]] = "new" /\ about[Loop] \in sample
    /\ \A q \in Request :
          pc[q] # "idle" => about[q] \in Job /\ truth[about[q]] # "new"

\* Until two changes overlap one actor at most changes the list, and the file
\* cannot be read only while that actor writes it.
Alone ==
    ~spoilt =>
        /\ \A a, b \in Changing : a = b
        /\ torn <=> Writing # {}
        /\ mixed = {}

\* What the list says of a job about which truth was told.
Listed(j) == IF truth[j] \in {"new", "deleted"} THEN "absent" ELSE truth[j]

\* Until then the list is what was told, also while it is being written, an actor
\* is going to write this list with its own change, and a listed job has its file
\* unless it is just being deleted.
Faithful ==
    ~spoilt =>
        /\ \A j \in Job : list[j] = Listed(j)
        /\ \A a \in Changing : copy[a] = Edited(a, about[a])
        /\ \A j \in Job : list[j] # "absent" /\ j \notin sample =>
              \E q \in Request : about[q] = j /\ q \in Changing

IInv ==
    /\ TypeOK
    /\ Stages
    /\ Tasks
    /\ OnlyAnalysedComplete
    /\ Alone
    /\ Faithful

LEMMA InitIInv == Init => IInv
<1> SUFFICES ASSUME Init PROVE IInv
  OBVIOUS
<1> USE JobsAssumption DEF JobsAssumption, Init, Actor, Nobody, NoJobs
<1>1. TypeOK
  BY DEF TypeOK, Listing, Status
<1>2. Stages /\ Tasks
  BY DEF Stages, Tasks
<1>3. OnlyAnalysedComplete
  BY DEF OnlyAnalysedComplete
<1>4. Changing = {} /\ Writing = {}
  BY DEF Changing, Writing
<1>5. Alone /\ Faithful
  BY <1>4 DEF Alone, Faithful, Listed
<1>6. QED
  BY <1>1, <1>2, <1>3, <1>5 DEF IInv

\* An edited list is a list, and the edit concerns one job; only the analysis of
\* that job makes it completed.
LEMMA EditedFacts ==
    ASSUME list \in Listing, NEW a \in Actor, NEW j \in Job
    PROVE  /\ Edited(a, j) \in Listing
           /\ \A i \in Job \ {j} : Edited(a, j)[i] = list[i]
           /\ a = Loop => Edited(a, j)[j] = "running"
           /\ a \in Request => Edited(a, j)[j] = "absent"
           /\ a \in Job => Edited(a, j)[j] = IF list[j] = "absent" THEN "absent" ELSE "completed"
<1> USE JobsAssumption DEF JobsAssumption, Actor, Listing, Status
<1>1. CASE a = Loop
  BY <1>1 DEF Edited
<1>2. CASE a \in Job
  BY <1>2 DEF Edited
<1>3. CASE a \in Request
  BY <1>3 DEF Edited
<1>4. QED
  BY <1>1, <1>2, <1>3

\* Every actor that is at work is busy with a job.
LEMMA Busy ==
    ASSUME Stages, Tasks, NEW a \in Actor,
           pc[a] \in {"load", "remove", "open", "write"}
    PROVE  /\ about[a] \in Job
           /\ a \in Job => about[a] = a
           /\ pc[a] = "remove" => a \in Request
  BY JobsAssumption DEF JobsAssumption, Stages, Tasks, Actor

\* Every step keeps the variables in their types.
LEMMA TypeStep == IInv /\ [Next]_vars => TypeOK'
<1> SUFFICES ASSUME IInv, [Next]_vars PROVE TypeOK'
  OBVIOUS
<1>0. TypeOK /\ Stages /\ Tasks
  BY DEF IInv
<1> USE JobsAssumption DEF JobsAssumption, TypeOK, Goto
<1>1. ASSUME NEW j \in Job, Submit(j) PROVE TypeOK'
  BY <1>0, <1>1 DEF Submit, Actor
<1>2. ASSUME NEW j \in Job, Analysed(j) PROVE TypeOK'
  BY <1>0, <1>2 DEF Analysed, Rest, Actor
<1>3. ASSUME NEW q \in Request, NEW j \in Job, AskDelete(q, j) PROVE TypeOK'
  BY <1>0, <1>3 DEF AskDelete, Actor
<1>4. ASSUME NEW a \in Actor, Load(a) PROVE TypeOK'
  <2>1. about[a] \in Job
    BY <1>0, <1>4, Busy DEF Load
  <2>2. Edited(a, about[a]) \in Listing
    BY <1>0, <2>1, EditedFacts
  <2>3. spoilt' \in BOOLEAN
    BY <1>0, <1>4, Zenon DEF Load
  <2>4. QED
    BY <1>0, <1>4, <2>2, <2>3 DEF Load, Rest, Forget
<1>5. ASSUME NEW a \in Actor, RemoveSample(a) PROVE TypeOK'
  BY <1>0, <1>5 DEF RemoveSample
<1>6. ASSUME NEW a \in Actor, OpenFile(a) PROVE TypeOK'
  BY <1>0, <1>6 DEF OpenFile, Writing
<1>7. ASSUME NEW a \in Actor, WriteFile(a) PROVE TypeOK'
  <2>1. about[a] \in Job
    BY <1>0, <1>7, Busy DEF WriteFile
  <2>2. Told(a, about[a]) \in Status \cup {"new", "deleted"}
    BY <1>0, <2>1 DEF Told, Status
  <2>3. NoJobs \in Listing
    BY DEF NoJobs, Listing, Status
  <2>4. pc' \in [Actor -> {"idle", "sleep", "load", "remove", "open", "write", "over"}]
    BY <1>0, <1>7 DEF WriteFile, Started, Rest
  <2>5. list' \in Listing /\ copy' \in [Actor -> Listing]
    BY <1>0, <1>7, <2>3 DEF WriteFile
  <2>6. truth' \in [Job -> Status \cup {"new", "deleted"}]
    BY <1>0, <1>7, <2>1, <2>2 DEF WriteFile
  <2>7. about' \in [Actor -> Job \cup {NoJob}]
    BY <1>0, <1>7 DEF WriteFile, Forget
  <2>8. QED
    BY <1>0, <1>7, <2>4, <2>5, <2>6, <2>7 DEF WriteFile
<1>8. CASE Restart
  <2>1. NoJobs \in Listing
    BY DEF NoJobs, Listing, Status
  <2>2. spoilt' \in BOOLEAN
    BY <1>0, <1>8, Zenon DEF Restart
  <2>3. QED
    BY <1>0, <1>8, <2>1, <2>2 DEF Restart, Nobody
<1>9. CASE UNCHANGED vars
  BY <1>0, <1>9 DEF vars
<1>10. QED
  BY <1>1, <1>2, <1>3, <1>4, <1>5, <1>6, <1>7, <1>8, <1>9
  DEF Next, ActorStep, AskDelete

\* Every step keeps the actors in their stages, with a job to be busy with.
LEMMA TaskStep == IInv /\ [Next]_vars => Stages' /\ Tasks'
<1> SUFFICES ASSUME IInv, [Next]_vars PROVE Stages' /\ Tasks'
  OBVIOUS
<1>0. TypeOK /\ Stages /\ Tasks
  BY DEF IInv
<1> USE JobsAssumption DEF JobsAssumption, TypeOK, Goto, Actor, Stages, Tasks
<1>1. ASSUME NEW j \in Job, Submit(j) PROVE Stages' /\ Tasks'
  BY <1>0, <1>1 DEF Submit
<1>2. ASSUME NEW j \in Job, Analysed(j) PROVE Stages' /\ Tasks'
  BY <1>0, <1>2 DEF Analysed, Rest
<1>3. ASSUME NEW q \in Request, NEW j \in Job, AskDelete(q, j) PROVE Stages' /\ Tasks'
  BY <1>0, <1>3 DEF AskDelete
<1>4. ASSUME NEW a \in Actor, Load(a) PROVE Stages' /\ Tasks'
  <2>1. CASE a = Loop
    BY <1>0, <1>4, <2>1 DEF Load, Rest, Forget
  <2>2. CASE a \in Job
    BY <1>0, <1>4, <2>2 DEF Load, Rest, Forget
  <2>3. CASE a \in Request
    BY <1>0, <1>4, <2>3 DEF Load, Rest, Forget
  <2>4. QED
    BY <2>1, <2>2, <2>3
<1>5. ASSUME NEW a \in Actor, RemoveSample(a) PROVE Stages' /\ Tasks'
  <2>1. a \in Request /\ truth[about[a]] # "new"
    BY <1>0, <1>5 DEF RemoveSample
  <2>2. QED
    BY <1>0, <1>5, <2>1 DEF RemoveSample
<1>6. ASSUME NEW a \in Actor, OpenFile(a) PROVE Stages' /\ Tasks'
  BY <1>0, <1>6 DEF OpenFile
<1>7. ASSUME NEW a \in Actor, WriteFile(a) PROVE Stages' /\ Tasks'
  <2>1. about[a] \in Job
    BY <1>0, <1>7, Busy DEF WriteFile
  <2>2. CASE a = Loop
    <3>1. /\ pc' = [pc EXCEPT ![Loop] = "idle", ![about[Loop]] = "sleep"]
          /\ truth' = [truth EXCEPT ![about[Loop]] = "running"]
          /\ about' = [about EXCEPT ![Loop] = NoJob]
      BY <1>0, <1>7, <2>1, <2>2 DEF WriteFile, Started, Rest, Forget, Told
    <3>2. QED
      BY <1>0, <1>7, <2>1, <2>2, <3>1
  <2>3. CASE a \in Job
    <3>1. /\ pc' = [pc EXCEPT ![a] = "over"]
          /\ \A j \in Job : truth'[j] = "new" <=> truth[j] = "new"
          /\ about' = about
      <4>1. about[a] = a /\ a # Loop /\ a \notin Request
        BY <1>0, <2>3
      <4>2. pc' = [pc EXCEPT ![a] = "over"]
        BY <1>0, <1>7, <2>3, <4>1 DEF WriteFile, Started, Rest
      <4>3. about' = about
        BY <1>0, <1>7, <2>3, <4>1 DEF WriteFile, Forget
      <4>4. truth' = [truth EXCEPT ![a] = IF @ = "running" THEN "completed" ELSE @]
        BY <1>0, <1>7, <2>3, <4>1 DEF WriteFile, Told
      <4>5. QED
        BY <1>0, <2>3, <4>2, <4>3, <4>4
    <3>2. sample' = sample
      BY <1>7 DEF WriteFile
    <3>3. pc[a] = "write"
      BY <1>7 DEF WriteFile
    <3>4. Stages'
      BY <1>0, <2>3, <3>1
    <3>5. Tasks'
      BY <1>0, <2>3, <3>1, <3>2, <3>3
    <3>6. QED
      BY <3>4, <3>5
  <2>4. CASE a \in Request
    <3>1. /\ pc' = [pc EXCEPT ![a] = "idle"]
          /\ truth' = [truth EXCEPT ![about[a]] = "deleted"]
          /\ about' = [about EXCEPT ![a] = NoJob]
          /\ truth[about[a]] # "new"
      BY <1>0, <1>7, <2>1, <2>4 DEF WriteFile, Started, Rest, Forget, Told
    <3>2. sample' = sample
      BY <1>7 DEF WriteFile
    <3>3. QED
      BY <1>0, <2>1, <2>4, <3>1, <3>2
  <2>5. QED
    BY <2>2, <2>3, <2>4
<1>8. CASE Restart
  BY <1>0, <1>8 DEF Restart, Nobody
<1>9. CASE UNCHANGED vars
  BY <1>0, <1>9 DEF vars
<1>10. QED
  BY <1>1, <1>2, <1>3, <1>4, <1>5, <1>6, <1>7, <1>8, <1>9
  DEF Next, ActorStep, AskDelete

\* Every step that leaves the listings alone and takes no analysis back keeps
\* what they say of completed jobs.
LEMMA CompletedStep == IInv /\ [Next]_vars => OnlyAnalysedComplete'
<1> SUFFICES ASSUME IInv, [Next]_vars PROVE OnlyAnalysedComplete'
  OBVIOUS
<1>0. TypeOK /\ Stages /\ Tasks /\ OnlyAnalysedComplete
  BY DEF IInv
<1> USE JobsAssumption DEF JobsAssumption, TypeOK, Goto, Actor, OnlyAnalysedComplete
<1>1. ASSUME NEW j \in Job, Submit(j) \/ Analysed(j) PROVE OnlyAnalysedComplete'
  BY <1>0, <1>1 DEF Submit, Analysed, Rest
<1>2. ASSUME NEW q \in Request, NEW j \in Job, AskDelete(q, j)
      PROVE OnlyAnalysedComplete'
  BY <1>0, <1>2 DEF AskDelete
<1>3. ASSUME NEW a \in Actor, Load(a) PROVE OnlyAnalysedComplete'
  <2>1. CASE Refused(a)
    BY <1>0, <1>3, <2>1 DEF Load, Rest, Stages
  <2>2. CASE ~Refused(a)
    <3>1. about[a] \in Job
      BY <1>0, <1>3, Busy DEF Load
    <3>2. /\ copy' = [copy EXCEPT ![a] = Edited(a, about[a])]
          /\ list' = list
          /\ pc' = [pc EXCEPT ![a] = IF a \in Request THEN "remove" ELSE "open"]
      BY <1>3, <2>2 DEF Load
    <3>3. \A j \in Job : Edited(a, about[a])[j] = "completed" =>
              a = j \/ list[j] = "completed"
      BY <1>0, <3>1, EditedFacts DEF Stages
    <3>4. ASSUME NEW j \in Job,
                 \/ list[j] = "completed"
                 \/ \E b \in Actor : copy'[b][j] = "completed"
          PROVE  pc'[j] \in {"open", "write", "over"}
      <4>1. CASE a = j
        BY <1>0, <3>2, <4>1
      <4>2. CASE a # j
        <5>1. list[j] = "completed" \/ \E b \in Actor : copy[b][j] = "completed"
          BY <1>0, <3>2, <3>3, <3>4, <4>2
        <5>2. QED
          BY <1>0, <3>2, <4>2, <5>1
      <4>3. QED
        BY <4>1, <4>2
    <3>5. QED
      BY <3>2, <3>4
  <2>3. QED
    BY <2>1, <2>2
<1>4. ASSUME NEW a \in Actor, RemoveSample(a) \/ OpenFile(a) PROVE OnlyAnalysedComplete'
  <2>1. a \in Job => pc[a] # "remove"
    BY <1>0 DEF Stages
  <2>2. QED
    BY <1>0, <1>4, <2>1 DEF RemoveSample, OpenFile
<1>5. ASSUME NEW a \in Actor, WriteFile(a) PROVE OnlyAnalysedComplete'
  <2>1. about[a] \in Job
    BY <1>0, <1>5, Busy DEF WriteFile
  <2>2. list' \in {list, copy[a]} /\ copy' = [copy EXCEPT ![a] = NoJobs]
    BY <1>5 DEF WriteFile
  <2>3. \A j \in Job : pc[j] \in {"open", "write", "over"} =>
            pc'[j] \in {"open", "write", "over"}
    BY <1>0, <1>5, <2>1 DEF WriteFile, Started, Rest, Tasks
  <2>4. ASSUME NEW j \in Job,
               \/ list'[j] = "completed"
               \/ \E b \in Actor : copy'[b][j] = "completed"
        PROVE  list[j] = "completed" \/ \E b \in Actor : copy[b][j] = "completed"
    BY <1>0, <2>2, <2>4 DEF NoJobs
  <2>5. QED
    BY <1>0, <2>3, <2>4
<1>6. CASE Restart
  BY <1>0, <1>6 DEF Restart, NoJobs
<1>7. CASE UNCHANGED vars
  BY <1>0, <1>7 DEF vars
<1>8. QED
  BY <1>1, <1>2, <1>3, <1>4, <1>5, <1>6, <1>7 DEF Next, ActorStep, AskDelete

\* A step that leaves the changes in progress and the file as they are, and what
\* was told but of a job that is new, keeps the rest of the invariant.
LEMMA QuietStep ==
    ASSUME Alone, Faithful, Changing' = Changing, Writing' = Writing,
           torn' = torn, mixed' = mixed, list' = list, copy' = copy, truth' = truth,
           sample \subseteq sample',
           \A a \in Changing : about'[a] = about[a],
           spoilt => spoilt'
    PROVE  Alone' /\ Faithful'
<1>1. Alone'
  BY DEF Alone
<1>2. Changing \subseteq Actor
  BY DEF Changing
<1>3. \A a \in Changing : Edited(a, about[a])' = Edited(a, about[a])
  BY DEF Edited
<1>4. Faithful'
  BY <1>2, <1>3 DEF Faithful, Listed
<1>5. QED
  BY <1>1, <1>4

\* Every step keeps changes apart, or notes that they have met, and the list as
\* it was told.
LEMMA FaithfulStep == IInv /\ [Next]_vars => Alone' /\ Faithful'
<1> SUFFICES ASSUME IInv, [Next]_vars PROVE Alone' /\ Faithful'
  OBVIOUS
<1>0. TypeOK /\ Stages /\ Tasks /\ Alone /\ Faithful
  BY DEF IInv
<1> USE JobsAssumption DEF JobsAssumption, TypeOK, Goto
<1>1. ASSUME NEW j \in Job, Submit(j) PROVE Alone' /\ Faithful'
  <2>1. Changing' = Changing /\ Writing' = Writing /\ Loop \notin Changing
    BY <1>0, <1>1 DEF Submit, Changing, Writing, Actor
  <2>2. QED
    BY <1>0, <1>1, <2>1, QuietStep DEF Submit
<1>2. ASSUME NEW j \in Job, Analysed(j) PROVE Alone' /\ Faithful'
  <2>1. Changing' = Changing /\ Writing' = Writing
    BY <1>0, <1>2 DEF Analysed, Rest, Changing, Writing, Actor
  <2>2. QED
    BY <1>0, <1>2, <2>1, QuietStep DEF Analysed
<1>3. ASSUME NEW q \in Request, NEW j \in Job, AskDelete(q, j) PROVE Alone' /\ Faithful'
  <2>1. Changing' = Changing /\ Writing' = Writing /\ q \notin Changing
    BY <1>0, <1>3 DEF AskDelete, Changing, Writing, Actor
  <2>2. QED
    BY <1>0, <1>3, <2>1, QuietStep DEF AskDelete
<1>4. ASSUME NEW a \in Actor, Load(a) PROVE Alone' /\ Faithful'
  <2>1. CASE Refused(a)
    <3>1. Changing' = Changing /\ Writing' = Writing /\ a \notin Changing
      BY <1>0, <1>4, <2>1 DEF Load, Rest, Changing, Writing
    <3>2. \A b \in Changing : about'[b] = about[b]
      BY <1>0, <1>4, <2>1, <3>1 DEF Load, Forget, Changing
    <3>3. UNCHANGED <<list, torn, sample, mixed, truth, copy>> /\ (spoilt => spoilt')
      BY <1>4, <2>1 DEF Load
    <3>4. QED
      BY <1>0, <3>1, <3>2, <3>3, QuietStep
  <2>2. CASE ~Refused(a) /\ ~spoilt'
    <3>1. Changing = {} /\ ~spoilt /\ UNCHANGED <<list, torn, sample, mixed, truth, about>>
      BY <1>0, <1>4, <2>2 DEF Load
    <3>2. Changing' = {a} /\ Writing' = {} /\ Writing = {}
      BY <1>0, <1>4, <2>2, <3>1 DEF Load, Changing, Writing
    <3>3. copy'[a] = Edited(a, about[a]) /\ Edited(a, about[a])' = Edited(a, about[a])
      BY <1>0, <1>4, <2>2, <3>1 DEF Load, Edited
    <3>4. Alone'
      BY <1>0, <3>1, <3>2 DEF Alone
    <3>5. QED
      BY <1>0, <3>1, <3>2, <3>3, <3>4 DEF Faithful, Listed
  <2>3. CASE ~Refused(a) /\ spoilt'
    BY <2>3 DEF Alone, Faithful
  <2>4. QED
    BY <2>1, <2>2, <2>3
<1>5. ASSUME NEW a \in Actor, RemoveSample(a) PROVE Alone' /\ Faithful'
  <2>1. a \in Request
    BY <1>0, <1>5, Busy DEF RemoveSample
  <2>2. Changing' = Changing /\ Writing' = Writing /\ a \in Changing
    BY <1>0, <1>5 DEF RemoveSample, Changing, Writing
  <2>3. Alone'
    BY <1>0, <1>5, <2>2 DEF RemoveSample, Alone
  <2>4. \A b \in Changing : Edited(b, about[b])' = Edited(b, about[b])
    BY <1>5 DEF RemoveSample, Edited
  <2>5. Faithful'
    BY <1>0, <1>5, <2>1, <2>2, <2>4 DEF RemoveSample, Faithful, Listed
  <2>6. QED
    BY <2>3, <2>5
<1>6. ASSUME NEW a \in Actor, OpenFile(a) PROVE Alone' /\ Faithful'
  <2>1. Changing' = Changing /\ Writing' = Writing \cup {a} /\ a \in Changing
    BY <1>0, <1>6 DEF OpenFile, Changing, Writing
  <2>2. ~spoilt => Writing = {}
    BY <1>0, <1>6, <2>1 DEF OpenFile, Changing, Writing, Alone
  <2>3. Alone'
    BY <1>0, <1>6, <2>1, <2>2 DEF OpenFile, Alone
  <2>4. \A b \in Changing : Edited(b, about[b])' = Edited(b, about[b])
    BY <1>6 DEF OpenFile, Edited
  <2>5. Faithful'
    BY <1>0, <1>6, <2>1, <2>4 DEF OpenFile, Faithful, Listed
  <2>6. QED
    BY <2>3, <2>5
<1>7. ASSUME NEW a \in Actor, WriteFile(a) PROVE Alone' /\ Faithful'
  <2>1. CASE spoilt
    BY <1>7, <2>1 DEF WriteFile, Alone, Faithful
  <2>2. CASE ~spoilt
    <3>1. a \in Changing /\ Changing = {a}
      BY <1>0, <1>7, <2>2 DEF WriteFile, Changing, Alone
    <3>2. torn' = FALSE /\ list' = copy[a] /\ mixed' = {} /\ sample' = sample
      BY <1>0, <1>7, <2>2 DEF WriteFile, Alone
    <3>3. Changing' = {} /\ Writing' = {}
      <4>1. \A b \in Actor \ {a} : pc'[b] \in {pc[b], "sleep"}
        BY <1>0, <1>7 DEF WriteFile, Started
      <4>2. pc'[a] \in {"idle", "over"}
        <5>1. pc'[a] = Rest(a)
          BY <1>0, <1>7 DEF WriteFile, Started, Tasks
        <5>2. QED
          BY <5>1 DEF Rest
      <4>3. QED
        BY <3>1, <4>1, <4>2 DEF Changing, Writing
    <3>4. Alone'
      BY <3>2, <3>3 DEF Alone
    <3>5. about[a] \in Job /\ (a \in Job => about[a] = a)
      BY <1>0, <1>7, Busy DEF WriteFile
    <3>6. list' = Edited(a, about[a])
      BY <1>0, <2>2, <3>1, <3>2 DEF Faithful
    <3>7. truth' = [truth EXCEPT ![about[a]] = Told(a, about[a])]
      BY <1>7 DEF WriteFile
    <3>8. truth[a] # "new" \/ a \notin Job
      BY <1>0, <1>7 DEF WriteFile, Tasks
    <3>9. \A j \in Job : list'[j] = Listed(j)'
      <4>1. \A j \in Job \ {about[a]} : list'[j] = Listed(j)'
        BY <1>0, <2>2, <3>5, <3>6, <3>7, EditedFacts DEF Faithful, Listed
      <4>2. CASE a = Loop \/ a \in Request
        BY <1>0, <3>5, <3>6, <3>7, <4>1, <4>2, EditedFacts DEF Listed, Told, Actor
      <4>3. CASE a \in Job
        <5>1. list'[a] = IF list[a] = "absent" THEN "absent" ELSE "completed"
          BY <1>0, <3>5, <3>6, <4>3, EditedFacts
        <5>2. truth'[a] = IF truth[a] = "running" THEN "completed" ELSE truth[a]
          BY <1>0, <3>5, <3>7, <4>3 DEF Told
        <5>3. list[a] = Listed(a) /\ truth[a] \in Status \cup {"deleted"}
          BY <1>0, <2>2, <3>8, <4>3 DEF Faithful
        <5>4. list'[a] = Listed(a)'
          BY <5>1, <5>2, <5>3 DEF Listed, Status
        <5>5. QED
          BY <3>5, <4>1, <4>3, <5>4
      <4>4. QED
        BY <4>2, <4>3 DEF Actor
    <3>10. \A j \in Job : list'[j] # "absent" => j \in sample
      <4>1. CASE a = Loop
        BY <1>0, <1>7, <2>2, <3>1, <3>5, <3>6, <4>1, EditedFacts
        DEF Faithful, Tasks, WriteFile
      <4>2. CASE a \in Request \/ a \in Job
        BY <1>0, <2>2, <3>1, <3>5, <3>6, <4>2, EditedFacts DEF Faithful
      <4>3. QED
        BY <4>1, <4>2 DEF Actor
    <3>11. QED
      BY <3>2, <3>3, <3>4, <3>9, <3>10 DEF Faithful
  <2>3. QED
    BY <2>1, <2>2
<1>8. CASE Restart
  <2>1. CASE spoilt'
    BY <2>1 DEF Alone, Faithful
  <2>2. CASE ~spoilt'
    <3>1. ~spoilt /\ \A a \in Actor : pc[a] \in {"idle", "over"}
      BY <1>0, <1>8, <2>2 DEF Restart
    <3>2. Changing = {} /\ Writing = {} /\ Changing' = {} /\ Writing' = {}
      BY <1>0, <1>8, <3>1 DEF Restart, Changing, Writing
    <3>3. QED
      BY <1>0, <1>8, <2>2, <3>1, <3>2 DEF Restart, Alone, Faithful, Listed
  <2>3. QED
    BY <2>1, <2>2
<1>9. CASE UNCHANGED vars
  <2>1. Changing' = Changing /\ Writing' = Writing
    BY <1>9 DEF vars, Changing, Writing
  <2>2. QED
    BY <1>0, <1>9, <2>1, QuietStep DEF vars
<1>10. QED
  BY <1>1, <1>2, <1>3, <1>4, <1>5, <1>6, <1>7, <1>8, <1>9
  DEF Next, ActorStep, AskDelete

LEMMA IInvAlways == Spec => []IInv
<1>1. Init => IInv
  BY InitIInv
<1>2. IInv /\ [Next]_vars => IInv'
  BY TypeStep, TaskStep, CompletedStep, FaithfulStep DEF IInv
<1>3. QED
  BY <1>1, <1>2, PTL DEF Spec

\* However submissions, analyses, deletions and restarts meet: a job reads
\* "completed" only after its analysis, and jobs.json cannot be read only after
\* changes have overlapped, or while exactly one actor is writing it.
THEOREM JobsSafety == Spec => []JobsInvariant
<1>1. IInv => JobsInvariant
  <2> SUFFICES ASSUME IInv PROVE torn => spoilt \/ Cardinality(Writing) = 1
    BY DEF IInv, JobsInvariant
  <2>1. ASSUME ~spoilt, torn PROVE Cardinality(Writing) = 1
    <3>1. PICK a \in Writing : TRUE
      BY <2>1 DEF IInv, Alone
    <3>2. Writing = {a}
      BY <2>1, <3>1 DEF IInv, Alone, Writing, Changing
    <3>3. QED
      BY <3>2, FS_Singleton
  <2>2. QED
    BY <2>1
<1>2. QED
  BY <1>1, IInvAlways, PTL

\* While no two changes have overlapped and none was cut short, jobs.json lists
\* exactly what was told of each job, and each listed job has its file unless it
\* is just being deleted: no submission, result or deletion is lost.
THEOREM ListIsAlwaysTold == Spec => []ListIsTold
<1>1. IInv => ListIsTold
  BY DEF IInv, Faithful, Listed, ListIsTold
<1>2. QED
  BY <1>1, IInvAlways, PTL
=============================================================================
