-------------------------- MODULE SchedulerProofs ---------------------------
(* Proofs about Scheduler, for every number of jobs, of requests and of     *)
(* scheduler threads.                                                       *)
EXTENDS Scheduler, SequenceTheorems, FiniteSetTheorems, TLAPS

-----------------------------------------------------------------------------
(* The inductive invariant.                                                *)

\* The jobs of the list, and those about to be appended, are numbered and differ.
JobsDiffer ==
    /\ IsInjective(list)
    /\ \A i \in DOMAIN list : id[list[i]] # 0
    /\ \A r \in Request : req[r].pc = "append" =>
          /\ req[r].job \in Job
          /\ id[req[r].job] # 0
          /\ \A i \in DOMAIN list : list[i] # req[r].job
    /\ \A r, s \in Request : /\ req[r].pc = "append" /\ req[s].pc = "append"
                             /\ req[r].job = req[s].job
                             => r = s

\* Until two additions overlap, the numbers count the places.
Numbered ==
    ~adds =>
        /\ \A r, s \in Adding : r = s
        /\ ~shrunk => /\ \A i \in DOMAIN list : id[list[i]] = i
                      /\ \A r \in Request : req[r].pc = "append" =>
                            id[req[r].job] = Len(list) + 1

\* A thread that the module does not refer to yet does not exist; until two
\* additions overlap no other than the one it refers to lives, and an addition that
\* is about to start one is alone with it.
OneThread ==
    /\ \A l \in Loop : l > handle => loop[l] = Unborn
    /\ ~adds => /\ \A l \in Loop : Alive(l) => l = handle
                /\ \A r \in Request : req[r].pc = "create" => Needed
                /\ \A r \in Request : req[r].pc = "start" =>
                      handle # None /\ loop[handle] = Unborn

\* Until an error ends it, the thread that the module refers to lives, or is about to
\* be started; a list that has no thread yet is about to get one.
Served ==
    ~adds /\ deaths = 0 =>
        /\ handle # None => Alive(handle) \/ \E r \in Request : req[r].pc = "start"
        /\ list # <<>> /\ handle = None =>
              \E r \in Request : req[r].pc \in {"check", "create"}

\* Until two removals overlap, a removal knows where a job of its number stands.
Located ==
    ~removals =>
        /\ \A r, s \in Removing : r = s
        /\ \A r \in Removing : /\ req[r].index \in DOMAIN list
                               /\ id[list[req[r].index]] = req[r].id

IInv == TypeOK /\ JobsDiffer /\ Numbered /\ OneThread /\ Served /\ Located

-----------------------------------------------------------------------------
(* Sequences and sets.                                                     *)

\* The least of some numbers is one of them.
LEMMA MinIsIn == ASSUME NEW S \in SUBSET Nat, S # {} PROVE Min(S) \in S
<1>1. PICK x \in S : \A y \in S : <<y, x>> \notin OpToRel(<, Nat)
  BY NatLessThanWellFounded, WFMin
<1>2. \A y \in S : ~(y < x)
  BY <1>1 DEF OpToRel
<1>3. \A y \in S : x =< y
  BY <1>2
<1>4. QED
  BY <1>3 DEF Min

\* A sequence without repetitions is no longer than the set it is drawn from.
LEMMA InjectiveIsShort ==
    ASSUME NEW n \in Nat, NEW T, IsFiniteSet(T), Cardinality(T) \in Nat,
           NEW f \in [1 .. n -> T], \A i, j \in 1 .. n : f[i] = f[j] => i = j
    PROVE  n =< Cardinality(T)
<1>1. IsFiniteSet(1 .. n) /\ Cardinality(1 .. n) = n
  BY FS_Interval
<1>2. ~(Cardinality(T) < n)
  BY <1>1, FS_PigeonHole
<1>3. QED
  BY <1>2

\* What RemoveAt leaves.
LEMMA RemoveAtLeaves ==
    ASSUME NEW S, NEW q \in Seq(S), NEW i \in 1 .. Len(q), NEW n, n = RemoveAt(q, i)
    PROVE  /\ n \in Seq(S) /\ Len(n) = Len(q) - 1
           /\ \A k \in 1 .. Len(q) - 1 : n[k] = IF k < i THEN q[k] ELSE q[k + 1]
<1>1. Len(q) \in Nat /\ \A k \in 1 .. Len(q) : q[k] \in S
  BY LenProperties, ElementOfSeq
<1> DEFINE a == SubSeq(q, 1, i - 1)
           b == SubSeq(q, i + 1, Len(q))
<1>2. /\ a \in Seq(S) /\ Len(a) = i - 1
      /\ \A k \in 1 .. i - 1 : a[k] = q[k]
  <2>1. i - 1 \in Int /\ 1 \in Int /\ \A k \in 1 .. i - 1 : q[k] \in S
    BY <1>1
  <2>2. /\ a \in Seq(S)
        /\ Len(a) = IF 1 <= i - 1 THEN (i - 1) - 1 + 1 ELSE 0
        /\ \A k \in 1 .. (i - 1) - 1 + 1 : a[k] = q[1 + k - 1]
    BY <2>1, SubSeqProperties
  <2> HIDE DEF a
  <2>3. QED
    BY <2>2, <1>1
<1>3. /\ b \in Seq(S) /\ Len(b) = Len(q) - i
      /\ \A k \in 1 .. Len(q) - i : b[k] = q[i + k]
  <2>1. i + 1 \in Int /\ Len(q) \in Int /\ \A k \in i + 1 .. Len(q) : q[k] \in S
    BY <1>1
  <2>2. /\ b \in Seq(S)
        /\ Len(b) = IF i + 1 <= Len(q) THEN Len(q) - (i + 1) + 1 ELSE 0
        /\ \A k \in 1 .. Len(q) - (i + 1) + 1 : b[k] = q[i + 1 + k - 1]
    BY <2>1, SubSeqProperties
  <2> HIDE DEF b
  <2>3. QED
    BY <2>2, <1>1
<1>4. n = a \o b
  BY DEF RemoveAt
<1> HIDE DEF a, b
<1>5. /\ n \in Seq(S) /\ Len(n) = Len(a) + Len(b)
      /\ \A k \in 1 .. Len(a) + Len(b) : n[k] = IF k <= Len(a) THEN a[k] ELSE b[k - Len(a)]
  <2>1. a \in Seq(S) /\ b \in Seq(S)
    BY <1>2, <1>3
  <2>2. /\ a \o b \in Seq(S) /\ Len(a \o b) = Len(a) + Len(b)
        /\ \A k \in 1 .. Len(a) + Len(b) :
              (a \o b)[k] = IF k <= Len(a) THEN a[k] ELSE b[k - Len(a)]
    BY <2>1, ConcatProperties
  <2>3. QED
    BY <1>4, <2>2
<1>6. Len(a) + Len(b) = Len(q) - 1
  BY <1>1, <1>2, <1>3
<1>7. ASSUME NEW k \in 1 .. Len(q) - 1 PROVE n[k] = IF k < i THEN q[k] ELSE q[k + 1]
  <2>1. CASE k < i
    BY <1>2, <1>5, <1>6, <2>1
  <2>2. CASE ~(k < i)
    <3>1. k - (i - 1) \in 1 .. Len(q) - i /\ i + (k - (i - 1)) = k + 1
      BY <1>1, <2>2
    <3>2. b[k - (i - 1)] = q[k + 1]
      BY <1>3, <3>1
    <3>3. n[k] = b[k - (i - 1)]
      BY <1>2, <1>5, <1>6, <2>2
    <3>4. QED
      BY <2>2, <3>2, <3>3
  <2>3. QED
    BY <2>1, <2>2
<1>8. QED
  BY <1>5, <1>6, <1>7

-----------------------------------------------------------------------------
(* Records, and the length of the list.                                    *)

LoopType ==
    [pc : {"unborn", "walk", "scan", "update", "sleep", "dead"},
     at : 0 .. MaxJobs, seen : SUBSET Job, job : Job \cup {None}]
ReqType ==
    [pc : {"free", "append", "check", "create", "start", "pop"},
     job : Job \cup {None}, id : 0 .. MaxJobs, index : 0 .. MaxJobs]

LEMMA Types ==
    ASSUME TypeOK
    PROVE  /\ list \in Seq(Job) /\ Len(list) \in Nat /\ DOMAIN list = 1 .. Len(list)
           /\ \A i \in 1 .. Len(list) : list[i] \in Job
           /\ id \in [Job -> 0 .. MaxJobs] /\ enabled \in [Job -> BOOLEAN] /\ due \subseteq Job
           /\ handle \in Loop \cup {None} /\ loop \in [Loop -> LoopType]
           /\ req \in [Request -> ReqType] /\ deaths \in 0 .. MaxDeaths
           /\ adds \in BOOLEAN /\ removals \in BOOLEAN /\ shrunk \in BOOLEAN
  BY LenProperties, ElementOfSeq DEF TypeOK, LoopType, ReqType

LEMMA TypesNext ==
    ASSUME list' \in Seq(Job), id' \in [Job -> 0 .. MaxJobs], enabled' \in [Job -> BOOLEAN],
           due' \subseteq Job, handle' \in Loop \cup {None}, loop' \in [Loop -> LoopType],
           req' \in [Request -> ReqType], deaths' \in 0 .. MaxDeaths,
           adds' \in BOOLEAN, removals' \in BOOLEAN, shrunk' \in BOOLEAN
    PROVE  TypeOK'
  BY DEF TypeOK, LoopType, ReqType

LEMMA Blank ==
    /\ MaxJobs \in Nat /\ MaxLoops \in Nat /\ MaxDeaths \in Nat
    /\ Unborn \in LoopType /\ Unborn.pc = "unborn" /\ Unborn.seen = {}
    /\ Free \in ReqType /\ Free.pc = "free"
<1>1. MaxJobs \in Nat /\ MaxLoops \in Nat /\ MaxDeaths \in Nat
  BY SchedulerAssumption DEF SchedulerAssumption
<1>2. 0 \in 0 .. MaxJobs
  BY <1>1
<1>3. QED
  BY <1>1, <1>2 DEF Unborn, LoopType, Free, ReqType, None

\* The list is no longer than the jobs are, and shorter while one is not numbered.
LEMMA ListIsShort ==
    ASSUME TypeOK, JobsDiffer
    PROVE  /\ Len(list) =< MaxJobs
           /\ \A j \in Job : id[j] = 0 => Len(list) + 1 =< MaxJobs
<1>0. list \in Seq(Job) /\ Len(list) \in Nat /\ \A i \in 1 .. Len(list) : list[i] \in Job
  BY Types
<1>1. MaxJobs \in Nat /\ IsFiniteSet(Job) /\ Cardinality(Job) = MaxJobs
  <2>1. MaxJobs \in Nat
    BY Blank
  <2>2. IsFiniteSet(1 .. MaxJobs) /\ Cardinality(1 .. MaxJobs) = IF 1 > MaxJobs THEN 0 ELSE MaxJobs - 1 + 1
    BY <2>1, FS_Interval
  <2>3. QED
    BY <2>1, <2>2 DEF Job
<1>2. /\ \A i, j \in 1 .. Len(list) : list[i] = list[j] => i = j
      /\ \A i \in 1 .. Len(list) : id[list[i]] # 0
  BY Types DEF JobsDiffer, IsInjective
<1>3. list \in [1 .. Len(list) -> Job]
  BY <1>0, LenProperties
<1>4. Len(list) =< MaxJobs
  BY <1>0, <1>1, <1>2, <1>3, InjectiveIsShort
<1>5. ASSUME NEW j \in Job, id[j] = 0 PROVE Len(list) + 1 =< MaxJobs
  <2>1. /\ IsFiniteSet(Job \ {j}) /\ Cardinality(Job \ {j}) = MaxJobs - 1
    BY <1>1, FS_RemoveElement
  <2>2. MaxJobs - 1 \in Nat
    BY <1>1, <2>1, FS_CardinalityType
  <2>3. list \in [1 .. Len(list) -> Job \ {j}]
    BY <1>2, <1>3, <1>5
  <2>4. Len(list) =< MaxJobs - 1
    <3>1. Cardinality(Job \ {j}) \in Nat
      BY <2>1, <2>2
    <3>2. Len(list) =< Cardinality(Job \ {j})
      BY <1>0, <1>2, <2>1, <2>3, <3>1, InjectiveIsShort
    <3>3. QED
      BY <2>1, <3>2
  <2>5. QED
    BY <1>0, <1>1, <2>4
<1>6. QED
  BY <1>4, <1>5

\* A number that is found is that of the job at its place.
LEMMA FoundIsThere ==
    ASSUME TypeOK, NEW n, Found(n) # 0
    PROVE  Found(n) \in 1 .. Len(list) /\ id[list[Found(n)]] = n
<1> DEFINE I == {i \in 1 .. Len(list) : id[list[i]] = n}
<1>1. Found(n) = IF I # {} THEN Min(I) ELSE 0
  BY DEF Found, SelectInSeq
<1>2. I # {} /\ Found(n) = Min(I)
  BY <1>1
<1>3. I \in SUBSET Nat
  BY Types
<1>4. Min(I) \in I
  BY <1>2, <1>3, MinIsIn
<1>5. QED
  BY <1>2, <1>4

-----------------------------------------------------------------------------
(* The steps.                                                              *)

LEMMA InitIInv == Init => IInv
<1> SUFFICES ASSUME Init PROVE IInv
  OBVIOUS
<1>1. TypeOK
  <2>1. <<>> \in Seq(Job) /\ 0 \in 0 .. MaxJobs /\ 0 \in 0 .. MaxDeaths
    BY Blank, EmptySeq
  <2>2. QED
    BY <2>1, Blank DEF Init, TypeOK, LoopType, ReqType, None
<1>2. DOMAIN list = {}
  BY DEF Init
<1>3. \A r \in Request : req[r].pc = "free"
  BY Blank DEF Init
<1>4. \A l \in Loop : loop[l] = Unborn
  BY DEF Init
<1>5. Adding = {} /\ Removing = {}
  BY <1>3 DEF Adding, Removing
<1>6. JobsDiffer
  BY <1>2, <1>3 DEF JobsDiffer, IsInjective
<1>7. Numbered /\ Located
  BY <1>2, <1>3, <1>5 DEF Numbered, Located
<1>8. OneThread /\ Served
  BY <1>3, <1>4, Blank DEF Init, OneThread, Served, Alive
<1>9. QED
  BY <1>1, <1>6, <1>7, <1>8 DEF IInv

\* A step of a scheduler thread, of the clock or of a switch: no thread comes to
\* life, and none ends but by an error.
LEMMA LoopStep ==
    ASSUME IInv, UNCHANGED <<list, id, handle, req, adds, removals, shrunk>>,
           enabled' \in [Job -> BOOLEAN], due' \subseteq Job, loop' \in [Loop -> LoopType],
           deaths' \in 0 .. MaxDeaths, deaths' = 0 => deaths = 0,
           \A l \in Loop : loop[l] = Unborn => loop'[l] = Unborn,
           \A l \in Loop : loop'[l].pc \notin {"unborn", "dead"} => Alive(l),
           \A l \in Loop : Alive(l) /\ deaths' = 0 => loop'[l].pc \notin {"unborn", "dead"}
    PROVE  IInv'
<1>0. TypeOK /\ JobsDiffer /\ Numbered /\ OneThread /\ Served /\ Located
  BY DEF IInv
<1>1. TypeOK'
  BY <1>0, Types, TypesNext
<1>2. Adding' = Adding /\ Removing' = Removing
  BY DEF Adding, Removing
<1>3. JobsDiffer' /\ Numbered' /\ Located'
  BY <1>0, <1>2 DEF JobsDiffer, Numbered, Located, IsInjective
<1>4. handle \in Loop \cup {None}
  BY <1>0, Types
<1>5. Needed => Needed'
  BY <1>4 DEF Needed, Alive
<1>6. OneThread'
  BY <1>0, <1>4, <1>5 DEF OneThread, Alive
<1>7. Served'
  BY <1>0, <1>4 DEF Served, Alive
<1>8. QED
  BY <1>1, <1>3, <1>6, <1>7 DEF IInv

\* The other steps of one scheduler thread: loop l goes on to x.
LEMMA ThreadStep ==
    ASSUME IInv, NEW l \in Loop, Alive(l), NEW x \in LoopType, x.pc # "unborn",
           x.pc # "dead" \/ deaths' # 0, loop' = [loop EXCEPT ![l] = x],
           UNCHANGED <<list, id, handle, req, adds, removals, shrunk, enabled, due>>,
           deaths' \in 0 .. MaxDeaths, deaths' = 0 => deaths = 0
    PROVE  IInv'
<1>0. TypeOK
  BY DEF IInv
<1>1. loop' \in [Loop -> LoopType] /\ \A k \in Loop : loop'[k] = IF k = l THEN x ELSE loop[k]
  BY <1>0, Types
<1>2. loop[l] # Unborn
  BY Blank DEF Alive
<1>3. /\ \A k \in Loop : loop[k] = Unborn => loop'[k] = Unborn
      /\ \A k \in Loop : loop'[k].pc \notin {"unborn", "dead"} => Alive(k)
      /\ \A k \in Loop : Alive(k) /\ deaths' = 0 => loop'[k].pc \notin {"unborn", "dead"}
  BY <1>1, <1>2 DEF Alive
<1>4. enabled' \in [Job -> BOOLEAN] /\ due' \subseteq Job
  BY <1>0, Types
<1>5. QED
  BY <1>1, <1>3, <1>4, LoopStep

LEMMA LoopFields == ASSUME NEW x \in LoopType PROVE x.at \in 0 .. MaxJobs /\ x.seen \subseteq Job
  BY DEF LoopType

LEMMA WakeStep == ASSUME IInv, NEW l \in Loop, Wake(l) PROVE IInv'
<1>0. TypeOK
  BY DEF IInv
<1> DEFINE x == [loop[l] EXCEPT !.pc = "walk", !.at = 0, !.seen = due]
<1>1. loop' = [loop EXCEPT ![l] = x] /\ Alive(l)
  BY DEF Wake, Alive
<1>2. 0 \in 0 .. MaxJobs
  BY Blank
<1>3. x \in LoopType /\ x.pc = "walk"
  <2>1. loop[l] \in LoopType /\ due \in SUBSET Job
    BY <1>0, Types
  <2>2. QED
    BY <1>2, <2>1 DEF LoopType
<1> HIDE DEF x
<1>4. UNCHANGED <<list, id, handle, req, adds, removals, shrunk, enabled, due, deaths>>
  BY DEF Wake, requests
<1>5. deaths' \in 0 .. MaxDeaths
  BY <1>0, <1>4, Types
<1>6. QED
  BY <1>1, <1>3, <1>4, <1>5, ThreadStep

\* The index stays within the bound because the list does.
LEMMA VisitStep == ASSUME IInv, NEW l \in Loop, Visit(l) PROVE IInv'
<1>0. TypeOK /\ JobsDiffer
  BY DEF IInv
<1>1. PICK y \in LoopType : y = loop[l]
  BY <1>0, Types
<1>2. PICK at \in 0 .. MaxJobs : at = y.at
  BY LoopFields
<1>3. y.pc = "walk" /\ Alive(l)
  BY <1>1 DEF Visit, Alive
<1>4. UNCHANGED <<list, id, handle, req, adds, removals, shrunk, enabled, due, deaths>>
  BY DEF Visit, requests
<1>5. deaths' \in 0 .. MaxDeaths
  BY <1>0, <1>4, Types
<1>6. CASE at >= Len(list)
  <2> DEFINE x == [Unborn EXCEPT !.pc = "sleep"]
  <2>1. loop' = [loop EXCEPT ![l] = x]
    BY <1>1, <1>2, <1>6 DEF Visit
  <2>2. x \in LoopType /\ x.pc = "sleep"
    BY Blank DEF LoopType
  <2> HIDE DEF x
  <2>3. QED
    BY <1>3, <1>4, <1>5, <2>1, <2>2, ThreadStep
<1>7. CASE ~(at >= Len(list))
  <2>1. at + 1 \in 0 .. MaxJobs /\ at + 1 \in 1 .. Len(list)
    BY <1>0, <1>7, Blank, Types, ListIsShort
  <2>2. PICK j \in Job : j = list[at + 1]
    BY <1>0, <2>1, Types
  <2>3. CASE Runs(l, j)
    <3> DEFINE x == [y EXCEPT !.at = at + 1, !.pc = "scan", !.job = j]
    <3>1. loop' = [loop EXCEPT ![l] = x]
      BY <1>1, <1>2, <1>7, <2>2, <2>3 DEF Visit
    <3>2. x \in LoopType /\ x.pc = "scan"
      BY <2>1 DEF LoopType
    <3> HIDE DEF x
    <3>3. QED
      BY <1>3, <1>4, <1>5, <3>1, <3>2, ThreadStep
  <2>4. CASE ~Runs(l, j)
    <3> DEFINE x == [y EXCEPT !.at = at + 1]
    <3>1. loop' = [loop EXCEPT ![l] = x]
      BY <1>1, <1>2, <1>7, <2>2, <2>4 DEF Visit
    <3>2. x \in LoopType /\ x.pc = "walk"
      BY <1>3, <2>1 DEF LoopType
    <3> HIDE DEF x
    <3>3. QED
      BY <1>3, <1>4, <1>5, <3>1, <3>2, ThreadStep
  <2>5. QED
    BY <2>3, <2>4
<1>8. QED
  BY <1>6, <1>7

LEMMA ScanStep == ASSUME IInv, NEW l \in Loop, Scan(l) \/ Die(l) PROVE IInv'
<1>0. TypeOK
  BY DEF IInv
<1>1. PICK y \in LoopType : y = loop[l]
  BY <1>0, Types
<1>2. CASE Scan(l)
  <2> DEFINE x == [y EXCEPT !.pc = "update"]
  <2>1. loop' = [loop EXCEPT ![l] = x] /\ Alive(l)
    BY <1>1, <1>2 DEF Scan, Alive
  <2>2. x \in LoopType /\ x.pc = "update"
    BY DEF LoopType
  <2> HIDE DEF x
  <2>3. UNCHANGED <<list, id, handle, req, adds, removals, shrunk, enabled, due, deaths>>
    BY <1>2 DEF Scan, requests
  <2>4. deaths' \in 0 .. MaxDeaths
    BY <1>0, <2>3, Types
  <2>5. QED
    BY <2>1, <2>2, <2>3, <2>4, ThreadStep
<1>3. CASE Die(l)
  <2> DEFINE x == [Unborn EXCEPT !.pc = "dead"]
  <2>1. loop' = [loop EXCEPT ![l] = x] /\ Alive(l)
    BY <1>3 DEF Die, Alive
  <2>2. x \in LoopType /\ x.pc = "dead"
    BY Blank DEF LoopType
  <2> HIDE DEF x
  <2>3. UNCHANGED <<list, id, handle, req, adds, removals, shrunk, enabled, due>>
    BY <1>3 DEF Die, requests
  <2>4. deaths' \in 0 .. MaxDeaths /\ deaths' # 0
    BY <1>0, <1>3, Blank, Types DEF Die
  <2>5. QED
    BY <2>1, <2>2, <2>3, <2>4, ThreadStep
<1>4. QED
  BY <1>2, <1>3

\* The job that was scanned is awaited again, by every pass.
LEMMA UpdateStep == ASSUME IInv, NEW l \in Loop, Update(l) PROVE IInv'
<1>0. TypeOK
  BY DEF IInv
<1>1. PICK gone : gone = loop[l].job
  OBVIOUS
<1> DEFINE awaited(k) == [loop[k] EXCEPT !.seen = @ \ {gone}]
<1>2. loop' = [k \in Loop |-> IF k = l THEN [awaited(k) EXCEPT !.pc = "walk", !.job = None]
                                       ELSE awaited(k)]
  BY <1>1 DEF Update
<1>3. UNCHANGED <<list, id, handle, req, adds, removals, shrunk, enabled, deaths>> /\ Alive(l)
  BY DEF Update, requests, Alive
<1>4. \A k \in Loop : /\ awaited(k) \in LoopType /\ awaited(k).pc = loop[k].pc
                      /\ [awaited(k) EXCEPT !.pc = "walk", !.job = None] \in LoopType
                      /\ [awaited(k) EXCEPT !.pc = "walk", !.job = None].pc = "walk"
  <2> SUFFICES ASSUME NEW k \in Loop
               PROVE  /\ awaited(k) \in LoopType /\ awaited(k).pc = loop[k].pc
                      /\ [awaited(k) EXCEPT !.pc = "walk", !.job = None] \in LoopType
                      /\ [awaited(k) EXCEPT !.pc = "walk", !.job = None].pc = "walk"
    OBVIOUS
  <2>1. PICK y \in LoopType : y = loop[k]
    BY <1>0, Types
  <2>2. y.seen \ {gone} \in SUBSET Job
    BY LoopFields
  <2>3. awaited(k) = [y EXCEPT !.seen = y.seen \ {gone}]
    BY <2>1
  <2>4. QED
    BY <2>1, <2>2, <2>3 DEF LoopType
<1>5. \A k \in Loop : loop[k] = Unborn => awaited(k) = Unborn
  BY DEF Unborn
<1>6. loop[l] # Unborn
  BY <1>3, Blank DEF Alive
<1> HIDE DEF awaited
<1>7. \A k \in Loop : loop'[k] = IF k = l THEN [awaited(k) EXCEPT !.pc = "walk", !.job = None]
                                          ELSE awaited(k)
  BY <1>2
<1>8. loop' \in [Loop -> LoopType]
  BY <1>2, <1>4
<1>9. /\ \A k \in Loop : loop[k] = Unborn => loop'[k] = Unborn
      /\ \A k \in Loop : loop'[k].pc \notin {"unborn", "dead"} => Alive(k)
      /\ \A k \in Loop : Alive(k) /\ deaths' = 0 => loop'[k].pc \notin {"unborn", "dead"}
  BY <1>3, <1>4, <1>5, <1>6, <1>7 DEF Alive
<1>10. enabled' \in [Job -> BOOLEAN] /\ due' \subseteq Job /\ deaths' \in 0 .. MaxDeaths
  BY <1>0, <1>3, Types DEF Update, Rescheduled
<1>11. QED
  BY <1>3, <1>8, <1>9, <1>10, LoopStep

\* The clock, a switch, or nothing at all.
LEMMA ClockStep ==
    ASSUME IInv, (\E j \in Job : Elapse(j)) \/ (\E n \in 1 .. MaxJobs : Toggle(n)) \/ UNCHANGED vars
    PROVE  IInv'
<1>0. TypeOK
  BY DEF IInv
<1>1. UNCHANGED <<list, id, handle, req, adds, removals, shrunk, loop, deaths>>
  BY DEF Elapse, Toggle, requests, vars
<1>2. enabled' \in [Job -> BOOLEAN]
  <2>1. ASSUME NEW n \in 1 .. MaxJobs, Toggle(n) PROVE enabled' \in [Job -> BOOLEAN]
    <3>1. list[Found(n)] \in Job
      BY <1>0, <2>1, Types, FoundIsThere DEF Toggle
    <3>2. PICK e \in Job : e = list[Found(n)]
      BY <3>1
    <3>3. enabled' = [enabled EXCEPT ![e] = ~enabled[e]]
      BY <2>1, <3>2 DEF Toggle
    <3>4. PICK b \in BOOLEAN : b = enabled[e]
      BY <1>0, Types
    <3>5. (~b) \in BOOLEAN /\ enabled' = [enabled EXCEPT ![e] = ~b]
      BY <3>3, <3>4
    <3>6. QED
      BY <1>0, <3>5, Types
  <2>2. CASE enabled' = enabled
    BY <1>0, <2>2, Types
  <2>3. QED
    BY <2>1, <2>2 DEF Elapse, vars
<1>3. due' \subseteq Job
  BY <1>0, Types DEF Elapse, Toggle, vars, Range
<1>4. deaths' \in 0 .. MaxDeaths /\ loop' \in [Loop -> LoopType]
  BY <1>0, <1>1, Types
<1>5. QED
  BY <1>1, <1>2, <1>3, <1>4, LoopStep DEF Alive

-----------------------------------------------------------------------------
(* Requests.                                                               *)

\* add_scheduled_scan begins.  The number is within the bound because the list is
\* shorter than the jobs that are numbered.
LEMMA NumberStep ==
    ASSUME IInv, NEW r \in Request, NEW j \in Job, Number(r, j)
    PROVE  IInv'
<1>0. TypeOK /\ JobsDiffer /\ Numbered /\ OneThread /\ Served /\ Located
  BY DEF IInv
<1> DEFINE x == [Free EXCEPT !.pc = "append", !.job = j]
<1>1. /\ req[r].pc = "free" /\ id[j] = 0
      /\ id' = [id EXCEPT ![j] = Len(list) + 1] /\ req' = [req EXCEPT ![r] = x]
      /\ UNCHANGED <<list, enabled, due, handle, loop, deaths, removals, shrunk>>
      /\ ~adds' => ~adds /\ Adding = {}
  BY DEF Number
<1>2. x \in ReqType /\ x.pc = "append" /\ x.job = j
  BY Blank DEF ReqType
<1> HIDE DEF x
<1>3. /\ req' \in [Request -> ReqType] /\ req'[r] = x
      /\ \A s \in Request : s # r => req'[s] = req[s]
  BY <1>0, <1>1, <1>2, Types
<1>4. Len(list) + 1 \in 0 .. MaxJobs /\ Len(list) + 1 # 0
  BY <1>0, <1>1, Blank, Types, ListIsShort
<1>5. /\ id' \in [Job -> 0 .. MaxJobs] /\ id'[j] = Len(list) + 1
      /\ \A k \in Job : k # j => id'[k] = id[k]
  BY <1>0, <1>1, <1>4, Types
<1>6. adds' \in BOOLEAN
  <2>1. (adds \/ Adding # {}) \in BOOLEAN
    BY Zenon
  <2>2. QED
    BY <2>1, Zenon DEF Number
<1>7. TypeOK'
  BY <1>0, <1>1, <1>3, <1>5, <1>6, Types, TypesNext
<1>8. \A i \in DOMAIN list : list[i] \in Job /\ list[i] # j
  BY <1>0, <1>1, Types DEF JobsDiffer
<1>9. JobsDiffer'
  BY <1>0, <1>1, <1>2, <1>3, <1>4, <1>5, <1>8 DEF JobsDiffer, IsInjective
<1>10. Removing' = Removing
  BY <1>1, <1>2, <1>3 DEF Removing
<1>11. Numbered'
  <2> SUFFICES ASSUME ~adds'
               PROVE  /\ \A s, t \in Adding' : s = t
                      /\ ~shrunk => /\ \A i \in DOMAIN list : id'[list[i]] = i
                                    /\ \A s \in Request : req'[s].pc = "append" =>
                                          id'[req'[s].job] = Len(list) + 1
    BY <1>1 DEF Numbered
  <2>1. ~adds /\ Adding = {}
    BY <1>1
  <2>2. \A s \in Request : s # r => req'[s].pc \notin {"append", "check", "create", "start"}
    BY <1>3, <2>1 DEF Adding
  <2>3. Adding' \subseteq {r}
    BY <2>2 DEF Adding
  <2>4. QED
    BY <1>0, <1>2, <1>3, <1>5, <1>8, <2>1, <2>2, <2>3 DEF Numbered
<1>12. OneThread'
  BY <1>0, <1>1, <1>2, <1>3 DEF OneThread, Needed, Alive
<1>13. Served'
  BY <1>0, <1>1, <1>2, <1>3 DEF Served, Alive
<1>14. Located'
  <2>1. \A s \in Removing : req'[s] = req[s]
    BY <1>1, <1>3 DEF Removing
  <2>2. QED
    BY <1>0, <1>1, <1>5, <1>8, <1>10, <2>1 DEF Located
<1>15. QED
  BY <1>7, <1>9, <1>11, <1>12, <1>13, <1>14 DEF IInv

\* The job is appended, under the number that then counts its place.
LEMMA AppendStep == ASSUME IInv, NEW r \in Request, AppendJob(r) PROVE IInv'
<1>0. TypeOK /\ JobsDiffer /\ Numbered /\ OneThread /\ Served /\ Located
  BY DEF IInv
<1>1. PICK j \in Job : j = req[r].job
  BY <1>0 DEF AppendJob, JobsDiffer
<1> DEFINE x == [req[r] EXCEPT !.pc = "check"]
<1>2. /\ req[r].pc = "append" /\ list' = Append(list, j) /\ req' = [req EXCEPT ![r] = x]
      /\ UNCHANGED <<id, enabled, due, handle, loop, deaths, adds, removals, shrunk>>
  BY <1>1 DEF AppendJob
<1>3. x \in ReqType /\ x.pc = "check" /\ x.id = req[r].id
  BY <1>0, Types DEF ReqType
<1> HIDE DEF x
<1>4. /\ req' \in [Request -> ReqType] /\ req'[r] = x
      /\ \A s \in Request : s # r => req'[s] = req[s]
  BY <1>0, <1>2, <1>3, Types
<1>5. /\ list' \in Seq(Job) /\ Len(list') = Len(list) + 1 /\ list' # <<>>
      /\ \A i \in 1 .. Len(list) : list'[i] = list[i]
      /\ list'[Len(list) + 1] = j
  BY <1>0, <1>2, Types, AppendProperties
<1>6. DOMAIN list' = 1 .. Len(list) + 1 /\ DOMAIN list = 1 .. Len(list) /\ Len(list) \in Nat
  BY <1>0, <1>5, LenProperties, Types
<1>7. \A i \in DOMAIN list' : i # Len(list) + 1 => i \in DOMAIN list /\ list'[i] = list[i]
  BY <1>5, <1>6
<1>8. TypeOK'
  BY <1>0, <1>2, <1>4, <1>5, Types, TypesNext
<1>9. /\ id[j] # 0 /\ \A i \in DOMAIN list : list[i] # j
      /\ \A s \in Request : s # r /\ req[s].pc = "append" => req[s].job # j
  BY <1>0, <1>1, <1>2 DEF JobsDiffer
<1>10. JobsDiffer'
  <2>1. IsInjective(list')
    BY <1>0, <1>5, <1>7, <1>9 DEF JobsDiffer, IsInjective
  <2>2. \A i \in DOMAIN list' : id[list'[i]] # 0
    BY <1>0, <1>5, <1>7, <1>9 DEF JobsDiffer
  <2>3. \A s \in Request : req'[s].pc = "append" => s # r /\ req'[s] = req[s]
    BY <1>3, <1>4
  <2>4. \A s \in Request : req'[s].pc = "append" => \A i \in DOMAIN list' : list'[i] # req'[s].job
    BY <1>0, <1>5, <1>7, <1>9, <2>3 DEF JobsDiffer
  <2>5. QED
    BY <1>0, <1>2, <2>1, <2>2, <2>3, <2>4 DEF JobsDiffer
<1>11. Adding' = Adding
  BY <1>2, <1>3, <1>4 DEF Adding
<1>12. Removing' = Removing /\ \A s \in Removing : req'[s] = req[s]
  BY <1>2, <1>3, <1>4 DEF Removing
<1>13. Numbered'
  <2> SUFFICES ASSUME ~adds
               PROVE  /\ \A s, t \in Adding' : s = t
                      /\ ~shrunk => /\ \A i \in DOMAIN list' : id[list'[i]] = i
                                    /\ \A s \in Request : req'[s].pc = "append" =>
                                          id[req'[s].job] = Len(list') + 1
    BY <1>2 DEF Numbered
  <2>1. \A s, t \in Adding : s = t
    BY <1>0 DEF Numbered
  <2>2. \A s \in Request : req'[s].pc # "append"
    BY <1>2, <1>3, <1>4, <2>1 DEF Adding
  <2>3. ~shrunk => id[j] = Len(list) + 1
    BY <1>0, <1>1, <1>2 DEF Numbered
  <2>4. ~shrunk => \A i \in DOMAIN list' : id[list'[i]] = i
    BY <1>0, <1>5, <1>7, <2>3 DEF Numbered
  <2>5. QED
    BY <1>11, <2>1, <2>2, <2>4
<1>14. OneThread'
  BY <1>0, <1>2, <1>3, <1>4 DEF OneThread, Needed, Alive
<1>15. Served'
  BY <1>0, <1>2, <1>3, <1>4 DEF Served, Alive
<1>16. Located'
  BY <1>0, <1>2, <1>5, <1>6, <1>12 DEF Located
<1>17. QED
  BY <1>8, <1>10, <1>13, <1>14, <1>15, <1>16 DEF IInv

\* A step of an addition that leaves the list: r goes on to x.
LEMMA AddingStep ==
    ASSUME IInv, NEW r \in Request, req[r].pc \in {"check", "create", "start"},
           NEW x \in ReqType, x.pc \in {"create", "start", "free"},
           req' = [req EXCEPT ![r] = x],
           UNCHANGED <<list, id, enabled, due, deaths, adds, removals, shrunk>>,
           handle' \in Loop \cup {None}, loop' \in [Loop -> LoopType],
           OneThread', Served'
    PROVE  IInv'
<1>0. TypeOK /\ JobsDiffer /\ Numbered /\ Located
  BY DEF IInv
<1>1. /\ req' \in [Request -> ReqType] /\ req'[r] = x
      /\ \A s \in Request : s # r => req'[s] = req[s]
  BY <1>0, Types
<1>2. TypeOK'
  BY <1>0, <1>1, Types, TypesNext
<1>3. \A s \in Request : req'[s].pc = "append" => req'[s] = req[s]
  BY <1>1
<1>4. JobsDiffer'
  BY <1>0, <1>3 DEF JobsDiffer, IsInjective
<1>5. Adding' \subseteq Adding
  BY <1>1 DEF Adding
<1>6. Numbered'
  BY <1>0, <1>3, <1>5 DEF Numbered
<1>7. Removing' = Removing /\ \A s \in Removing : req'[s] = req[s]
  BY <1>1 DEF Removing
<1>8. Located'
  BY <1>0, <1>7 DEF Located
<1>9. QED
  BY <1>2, <1>4, <1>6, <1>8 DEF IInv

\* Until two additions overlap, no other request is adding.
LEMMA AloneAdding ==
    ASSUME Numbered, ~adds, NEW r \in Request,
           req[r].pc \in {"append", "check", "create", "start"}
    PROVE  \A s \in Request : s # r => req[s].pc \notin {"append", "check", "create", "start"}
  BY DEF Numbered, Adding

LEMMA CheckStep == ASSUME IInv, NEW r \in Request, Check(r) PROVE IInv'
<1>0. TypeOK /\ Numbered /\ OneThread /\ Served
  BY DEF IInv
<1>1. /\ req[r].pc = "check" /\ handle' = handle /\ loop' = loop
      /\ UNCHANGED <<list, id, enabled, due, deaths, adds, removals, shrunk>>
  BY DEF Check
<1> DEFINE x == IF Needed THEN [req[r] EXCEPT !.pc = "create"] ELSE Free
<1>2. req' = [req EXCEPT ![r] = x]
  BY DEF Check
<1>3. x \in ReqType /\ x.pc = IF Needed THEN "create" ELSE "free"
  BY <1>0, Blank, Types DEF ReqType
<1> HIDE DEF x
<1>4. req'[r] = x /\ \A s \in Request : s # r => req'[s] = req[s]
  BY <1>0, <1>2, Types
<1>5. handle' \in Loop \cup {None} /\ loop' \in [Loop -> LoopType]
  BY <1>0, <1>1, Types
<1>6. Needed' <=> Needed
  BY <1>1 DEF Needed, Alive
<1>7. OneThread'
  BY <1>0, <1>1, <1>3, <1>4, <1>6 DEF OneThread, Alive
<1>8. Served'
  <2> SUFFICES ASSUME ~adds, deaths = 0
               PROVE  /\ handle # None => Alive(handle) \/ \E s \in Request : req'[s].pc = "start"
                      /\ list # <<>> /\ handle = None =>
                            \E s \in Request : req'[s].pc \in {"check", "create"}
    BY <1>1 DEF Served, Alive
  <2>1. \A s \in Request : req[s].pc = "start" => s # r /\ req'[s] = req[s]
    BY <1>1, <1>4
  <2>2. handle = None => req'[r].pc = "create"
    BY <1>3, <1>4 DEF Needed
  <2>3. handle # None => Alive(handle) \/ \E s \in Request : req[s].pc = "start"
    BY <1>0 DEF Served
  <2>4. QED
    BY <2>1, <2>2, <2>3
<1>9. QED
  BY <1>1, <1>2, <1>3, <1>5, <1>7, <1>8, AddingStep

\* The thread that is made is the next, and none lives that it could double.
LEMMA CreateStep == ASSUME IInv, NEW r \in Request, Create(r) PROVE IInv'
<1>0. TypeOK /\ Numbered /\ OneThread /\ Served
  BY DEF IInv
<1>1. /\ req[r].pc = "create" /\ handle' \in Loop /\ handle' = handle + 1 /\ loop' = loop
      /\ UNCHANGED <<list, id, enabled, due, deaths, adds, removals, shrunk>>
  BY DEF Create
<1> DEFINE x == [req[r] EXCEPT !.pc = "start"]
<1>2. req' = [req EXCEPT ![r] = x]
  BY DEF Create
<1>3. x \in ReqType /\ x.pc = "start"
  BY <1>0, Types DEF ReqType
<1> HIDE DEF x
<1>4. req'[r] = x /\ \A s \in Request : s # r => req'[s] = req[s]
  BY <1>0, <1>2, Types
<1>5. handle \in Nat /\ handle' # None /\ handle' > handle /\ Loop \subseteq Nat \ {0}
  BY <1>0, <1>1, Types DEF Loop, None
<1>6. \A l \in Loop : l > handle' => l > handle
  BY <1>1, <1>5
<1>7. loop[handle'] = Unborn
  BY <1>0, <1>1, <1>5 DEF OneThread
<1>8. ASSUME ~adds PROVE /\ \A l \in Loop : ~Alive(l)
                         /\ \A s \in Request : s # r => req[s].pc # "create"
  <2>1. Needed /\ \A l \in Loop : Alive(l) => l = handle
    BY <1>0, <1>1, <1>8 DEF OneThread
  <2>2. \A l \in Loop : ~Alive(l)
    BY <1>5, <2>1 DEF Needed, None
  <2>3. QED
    BY <1>0, <1>1, <1>8, <2>2, AloneAdding
<1>9. OneThread'
  BY <1>0, <1>1, <1>3, <1>4, <1>5, <1>6, <1>7, <1>8 DEF OneThread, Alive
<1>10. Served'
  BY <1>3, <1>4, <1>5 DEF Served
<1>11. handle' \in Loop \cup {None} /\ loop' \in [Loop -> LoopType]
  BY <1>0, <1>1, Types
<1>12. QED
  BY <1>1, <1>2, <1>3, <1>9, <1>10, <1>11, AddingStep

LEMMA StartStep == ASSUME IInv, NEW r \in Request, Start(r) PROVE IInv'
<1>0. TypeOK /\ Numbered /\ OneThread /\ Served
  BY DEF IInv
<1> DEFINE started(y) == IF y = Unborn THEN [y EXCEPT !.pc = "walk", !.seen = due] ELSE y
<1>1. /\ req[r].pc = "start" /\ handle' = handle
      /\ loop' = [loop EXCEPT ![handle] = started(loop[handle])]
      /\ req' = [req EXCEPT ![r] = Free]
      /\ UNCHANGED <<list, id, enabled, due, deaths, adds, removals, shrunk>>
  BY DEF Start
<1>2. \A y \in LoopType : started(y) \in LoopType
  BY <1>0, Types DEF LoopType
<1>3. started(Unborn).pc = "walk"
  BY DEF Unborn
<1> HIDE DEF started
<1>4. /\ loop' \in [Loop -> LoopType] /\ handle' \in Loop \cup {None}
      /\ \A l \in Loop : l # handle => loop'[l] = loop[l]
      /\ handle \in Loop => loop'[handle] = started(loop[handle])
  BY <1>0, <1>1, <1>2, Types
<1>5. req'[r] = Free /\ \A s \in Request : s # r => req'[s] = req[s]
  BY <1>0, <1>1, Types
<1>6. handle \in Nat /\ handle \in Loop \cup {None} /\ Loop \subseteq Nat \ {0}
  BY <1>0, Types DEF Loop, None
<1>7. \A l \in Loop : l > handle => loop'[l] = Unborn
  <2>1. \A l \in Loop : l > handle => l # handle
    BY <1>6
  <2>2. QED
    BY <1>0, <1>4, <2>1 DEF OneThread
<1>8. ASSUME ~adds
      PROVE  /\ handle \in Loop /\ loop'[handle].pc = "walk"
             /\ \A l \in Loop : l # handle => ~Alive(l)
             /\ \A s \in Request : s # r => req[s].pc \notin {"create", "start"}
  <2>1. handle # None /\ loop[handle] = Unborn
    BY <1>0, <1>1, <1>8 DEF OneThread
  <2>2. handle \in Loop /\ loop'[handle].pc = "walk"
    BY <1>3, <1>4, <1>6, <2>1
  <2>3. \A l \in Loop : l # handle => ~Alive(l)
    BY <1>0, <1>8 DEF OneThread
  <2>4. QED
    BY <1>0, <1>1, <1>8, <2>2, <2>3, AloneAdding
<1>9. OneThread'
  <2>1. ~adds => \A l \in Loop : loop'[l].pc \notin {"unborn", "dead"} => l = handle
    BY <1>4, <1>8 DEF Alive
  <2>2. ~adds => \A s \in Request : req'[s].pc \notin {"create", "start"}
    BY <1>5, <1>8, Blank
  <2>3. QED
    BY <1>1, <1>7, <2>1, <2>2 DEF OneThread, Alive
<1>10. Served'
  BY <1>1, <1>6, <1>8 DEF Served, Alive, None
<1>11. QED
  BY <1>1, <1>4, <1>9, <1>10, Blank, AddingStep

\* remove_scheduled_scan finds the place of its number.
LEMMA SearchStep ==
    ASSUME IInv, NEW r \in Request, NEW n \in 1 .. MaxJobs, Search(r, n)
    PROVE  IInv'
<1>0. TypeOK /\ JobsDiffer /\ Numbered /\ OneThread /\ Served /\ Located
  BY DEF IInv
<1>1. PICK place \in 1 .. Len(list) : place = Found(n) /\ id[list[place]] = n
  BY <1>0, FoundIsThere DEF Search
<1> DEFINE x == [Free EXCEPT !.pc = "pop", !.id = n, !.index = place]
<1>2. /\ req[r].pc = "free" /\ req' = [req EXCEPT ![r] = x]
      /\ UNCHANGED <<list, id, enabled, due, handle, loop, deaths, adds, shrunk>>
      /\ ~removals' => ~removals /\ Removing = {}
  BY <1>1 DEF Search
<1>3. place \in 0 .. MaxJobs /\ place \in DOMAIN list
  BY <1>0, Blank, Types, ListIsShort
<1>4. x \in ReqType /\ x.pc = "pop" /\ x.id = n /\ x.index = place
  <2>1. n \in 0 .. MaxJobs
    BY Blank
  <2>2. QED
    BY <1>3, <2>1, Blank DEF ReqType
<1> HIDE DEF x
<1>5. /\ req' \in [Request -> ReqType] /\ req'[r] = x
      /\ \A s \in Request : s # r => req'[s] = req[s]
  BY <1>0, <1>2, <1>4, Types
<1>6. removals' \in BOOLEAN
  <2>1. (removals \/ Removing # {}) \in BOOLEAN
    BY Zenon
  <2>2. QED
    BY <2>1, Zenon DEF Search
<1>7. TypeOK'
  BY <1>0, <1>2, <1>5, <1>6, Types, TypesNext
<1>8. \A s \in Request : req'[s].pc \in {"append", "check", "create", "start"} =>
          s # r /\ req'[s] = req[s]
  BY <1>4, <1>5
<1>9. JobsDiffer'
  BY <1>0, <1>2, <1>8 DEF JobsDiffer, IsInjective
<1>10. Adding' \subseteq Adding
  BY <1>8 DEF Adding
<1>11. Numbered'
  BY <1>0, <1>2, <1>8, <1>10 DEF Numbered
<1>12. OneThread'
  BY <1>0, <1>2, <1>8 DEF OneThread, Needed, Alive
<1>13. Served'
  BY <1>0, <1>2, <1>5 DEF Served, Alive
<1>14. Located'
  <2> SUFFICES ASSUME ~removals' PROVE Located'
    BY DEF Located
  <2>1. Removing' \subseteq {r}
    BY <1>2, <1>5 DEF Removing
  <2>2. QED
    BY <1>1, <1>2, <1>3, <1>4, <1>5, <2>1 DEF Located
<1>15. QED
  BY <1>7, <1>9, <1>11, <1>12, <1>13, <1>14 DEF IInv

\* A removal takes a job out of the list, if it is long enough.
LEMMA PopStep == ASSUME IInv, NEW r \in Request, Pop(r) PROVE IInv'
<1>0. TypeOK /\ JobsDiffer /\ Numbered /\ OneThread /\ Served /\ Located
  BY DEF IInv
<1>1. /\ req[r].pc = "pop" /\ req' = [req EXCEPT ![r] = Free] /\ shrunk' = TRUE
      /\ UNCHANGED <<id, handle, loop, deaths, adds, removals>>
  BY DEF Pop
<1>2. /\ req' \in [Request -> ReqType] /\ req'[r] = Free
      /\ \A s \in Request : s # r => req'[s] = req[s]
  BY <1>0, <1>1, Blank, Types
\* What stays was there, each at a place of its own.
<1>3. /\ list' \in Seq(Job)
      /\ IsInjective(list')
      /\ \A i \in DOMAIN list' : \E k \in DOMAIN list : list'[i] = list[k]
  <2>1. CASE req[r].index \in DOMAIN list
    <3>1. PICK n \in 1 .. Len(list) : n = req[r].index
      BY <1>0, <2>1, Types
    <3>2. list' = RemoveAt(list, n)
      BY <2>1, <3>1 DEF Pop
    <3>3. list \in Seq(Job) /\ Len(list) \in Nat /\ DOMAIN list = 1 .. Len(list)
      BY <1>0, Types
    <3>4. /\ list' \in Seq(Job) /\ Len(list') = Len(list) - 1
          /\ \A k \in 1 .. Len(list) - 1 : list'[k] = IF k < n THEN list[k] ELSE list[k + 1]
      BY <3>2, <3>3, RemoveAtLeaves
    <3>5. DOMAIN list' = 1 .. Len(list) - 1
      BY <3>4, LenProperties
    <3>6. \A k \in 1 .. Len(list) - 1 : k \in 1 .. Len(list) /\ k + 1 \in 1 .. Len(list)
      BY <3>3
    <3>7. \A i, k \in 1 .. Len(list) : list[i] = list[k] => i = k
      BY <1>0, <3>3 DEF JobsDiffer, IsInjective
    <3>8. ASSUME NEW i \in 1 .. Len(list) - 1, NEW k \in 1 .. Len(list) - 1, list'[i] = list'[k]
          PROVE  i = k
      <4>1. CASE i < n /\ k < n
        BY <3>4, <3>6, <3>7, <3>8, <4>1
      <4>2. CASE ~(i < n) /\ ~(k < n)
        <5>1. i + 1 = k + 1
          BY <3>4, <3>6, <3>7, <3>8, <4>2
        <5>2. QED
          BY <5>1
      <4>3. CASE i < n /\ ~(k < n)
        <5>1. i = k + 1
          BY <3>4, <3>6, <3>7, <3>8, <4>3
        <5>2. QED
          BY <4>3, <5>1
      <4>4. CASE ~(i < n) /\ k < n
        <5>1. k = i + 1
          BY <3>4, <3>6, <3>7, <3>8, <4>4
        <5>2. QED
          BY <4>4, <5>1
      <4>5. QED
        BY <4>1, <4>2, <4>3, <4>4
    <3>9. QED
      BY <3>3, <3>4, <3>5, <3>6, <3>8 DEF IsInjective
  <2>2. CASE req[r].index \notin DOMAIN list
    <3>1. list' = list
      BY <2>2 DEF Pop
    <3>2. QED
      BY <1>0, <3>1, Types DEF JobsDiffer
  <2>3. QED
    BY <2>1, <2>2
<1>4. enabled' \in [Job -> BOOLEAN] /\ due' \subseteq Job
  BY <1>0, Types DEF Pop
<1>5. TypeOK'
  BY <1>0, <1>1, <1>2, <1>3, <1>4, Types, TypesNext
<1>6. \A s \in Request : req'[s].pc # "free" => s # r /\ req'[s] = req[s]
  BY <1>2, Blank
<1>7. JobsDiffer'
  <2>1. \A i \in DOMAIN list' : id[list'[i]] # 0
    BY <1>0, <1>3 DEF JobsDiffer
  <2>2. \A s \in Request : req'[s].pc = "append" => \A i \in DOMAIN list' : list'[i] # req'[s].job
    BY <1>0, <1>3, <1>6 DEF JobsDiffer
  <2>3. QED
    BY <1>0, <1>1, <1>3, <1>6, <2>1, <2>2 DEF JobsDiffer
<1>8. Adding' \subseteq Adding /\ Removing' \subseteq Removing \ {r}
  BY <1>2, <1>6, Blank DEF Adding, Removing
<1>9. Numbered'
  BY <1>0, <1>1, <1>8 DEF Numbered
<1>10. OneThread'
  BY <1>0, <1>1, <1>6 DEF OneThread, Needed, Alive
<1>11. Served'
  <2>1. list' # <<>> => list # <<>>
    <3>1. list' \in Seq(Job) /\ list \in Seq(Job) /\ DOMAIN <<>> = {}
      BY <1>0, <1>3, Types
    <3>2. list' # <<>> => 1 \in DOMAIN list'
      BY <3>1, EmptySeq, LenProperties
    <3>3. QED
      BY <1>3, <3>1, <3>2
  <2>2. \A s \in Request : req[s].pc # "pop" => req'[s] = req[s]
    BY <1>1, <1>2
  <2>3. QED
    BY <1>0, <1>1, <2>1, <2>2 DEF Served, Alive
<1>12. Located'
  <2>1. r \in Removing
    BY <1>1 DEF Removing
  <2>2. ~removals => Removing' = {}
    BY <1>0, <1>8, <2>1 DEF Located
  <2>3. QED
    BY <1>1, <2>2 DEF Located
<1>13. QED
  BY <1>5, <1>7, <1>9, <1>10, <1>11, <1>12 DEF IInv

LEMMA IInvStep == ASSUME IInv, [Next]_vars PROVE IInv'
<1>1. CASE \E r \in Request, j \in Job : Number(r, j)
  BY <1>1, NumberStep
<1>2. CASE \E r \in Request, n \in 1 .. MaxJobs : Search(r, n)
  BY <1>2, SearchStep
<1>3. CASE \E r \in Request : Serve(r)
  BY <1>3, AppendStep, CheckStep, CreateStep, StartStep, PopStep DEF Serve
<1>4. CASE \E l \in Loop : Work(l) \/ Die(l)
  BY <1>4, WakeStep, VisitStep, ScanStep, UpdateStep DEF Work
<1>5. CASE (\E j \in Job : Elapse(j)) \/ (\E n \in 1 .. MaxJobs : Toggle(n)) \/ UNCHANGED vars
  BY <1>5, ClockStep
<1>6. QED
  BY <1>1, <1>2, <1>3, <1>4, <1>5 DEF Next

LEMMA SchedulerIInv == FairSpec => []IInv
  BY InitIInv, IInvStep, PTL DEF FairSpec

-----------------------------------------------------------------------------
(* The theorems.                                                           *)

LEMMA OneAtMost ==
    ASSUME NEW S, NEW x, S \subseteq {x}
    PROVE  Cardinality(S) <= 1
<1>1. S = {} \/ S = {x}
  OBVIOUS
<1>2. Cardinality({}) = 0 /\ Cardinality({x}) = 1
  BY FS_EmptySet, FS_Singleton
<1>3. QED
  BY <1>1, <1>2

LEMMA IInvImpliesOrderly == IInv => Orderly
<1> SUFFICES ASSUME IInv, ~adds
             PROVE  /\ Cardinality({l \in Loop : Alive(l)}) <= 1
                    /\ list # <<>> /\ Adding = {} /\ deaths = 0 =>
                          handle # None /\ Alive(handle)
                    /\ ~shrunk => \A i \in DOMAIN list : id[list[i]] = i
  BY DEF Orderly
<1>0. TypeOK /\ Numbered /\ OneThread /\ Served
  BY DEF IInv
<1>1. {l \in Loop : Alive(l)} \subseteq {handle}
  BY <1>0 DEF OneThread
<1>2. Cardinality({l \in Loop : Alive(l)}) <= 1
  BY <1>1, OneAtMost
<1>3. ASSUME list # <<>>, Adding = {}, deaths = 0 PROVE handle # None /\ Alive(handle)
  <2>1. \A r \in Request : req[r].pc \notin {"check", "create", "start"}
    BY <1>3 DEF Adding
  <2>2. QED
    BY <1>0, <1>3, <2>1 DEF Served
<1>4. ~shrunk => \A i \in DOMAIN list : id[list[i]] = i
  BY <1>0 DEF Numbered
<1>5. QED
  BY <1>2, <1>3, <1>4

\* No job stands in the list twice; until two additions overlap there is one
\* scheduler thread at most, there is one for every job whose addition is over, and the
\* numbers are those of the places.
THEOREM JobsAreServedByOne == FairSpec => []SchedulerInvariant
<1>1. IInv => SchedulerInvariant
  BY IInvImpliesOrderly DEF IInv, JobsDiffer, SchedulerInvariant
<1>2. QED
  BY <1>1, SchedulerIInv, PTL

\* What RemovalsAreExact says of a step.
Exact ==
    \A r \in Request :
        req[r].pc = "pop" /\ req'[r].pc = "free" /\ ~removals =>
            \E i \in DOMAIN list : /\ id[list[i]] = req[r].id
                                   /\ list' = RemoveAt(list, i)

\* Only the removal's own step frees the request.
LEMMA OthersWait ==
    ASSUME TypeOK, NEW r \in Request, NEW s \in Request, NEW x, r # s,
           req' = [req EXCEPT ![s] = x], req[r].pc = "pop", req'[r].pc = "free"
    PROVE  FALSE
<1>1. req'[r] = req[r]
  BY Types
<1>2. QED
  BY <1>1

LEMMA StepIsExact == ASSUME IInv, [Next]_vars PROVE Exact
<1>0. TypeOK /\ Located
  BY DEF IInv
<1> SUFFICES ASSUME NEW r \in Request, req[r].pc = "pop", req'[r].pc = "free", ~removals
             PROVE  \E i \in DOMAIN list : /\ id[list[i]] = req[r].id
                                           /\ list' = RemoveAt(list, i)
  BY DEF Exact
<1>1. req' # req
  OBVIOUS
<1>2. \E s \in Request : \E x : req' = [req EXCEPT ![s] = x] /\ (s = r => Pop(r))
  <2>1. ASSUME NEW s \in Request, NEW j \in Job, Number(s, j)
        PROVE  s # r /\ \E x : req' = [req EXCEPT ![s] = x]
    BY <2>1 DEF Number
  <2>2. ASSUME NEW s \in Request, NEW n \in 1 .. MaxJobs, Search(s, n)
        PROVE  s # r /\ \E x : req' = [req EXCEPT ![s] = x]
    BY <2>2 DEF Search
  <2>3. ASSUME NEW s \in Request, AppendJob(s) \/ Check(s) \/ Create(s) \/ Start(s)
        PROVE  s # r /\ \E x : req' = [req EXCEPT ![s] = x]
    BY <2>3 DEF AppendJob, Check, Create, Start
  <2>4. ASSUME NEW s \in Request, Pop(s) PROVE \E x : req' = [req EXCEPT ![s] = x]
    BY <2>4 DEF Pop
  <2>5. ASSUME \/ \E l \in Loop : Work(l) \/ Die(l)
               \/ \E j \in Job : Elapse(j)
               \/ \E n \in 1 .. MaxJobs : Toggle(n)
               \/ UNCHANGED vars
        PROVE  FALSE
    BY <1>1, <2>5 DEF Work, Wake, Visit, Scan, Update, Die, Elapse, Toggle, requests, vars
  <2>6. QED
    BY <2>1, <2>2, <2>3, <2>4, <2>5 DEF Next, Serve
<1>3. Pop(r)
  BY <1>0, <1>2, OthersWait
<1>4. r \in Removing
  BY DEF Removing
<1>5. req[r].index \in DOMAIN list /\ id[list[req[r].index]] = req[r].id
  BY <1>0, <1>4 DEF Located
<1>6. list' = RemoveAt(list, req[r].index)
  BY <1>3, <1>5 DEF Pop
<1>7. QED
  BY <1>5, <1>6

\* A removal takes out a job that bears the number it was asked for, until two
\* removals overlap.
THEOREM RemovalsStayExact == FairSpec => RemovalsAreExact
<1>1. IInv /\ [Next]_vars => [Exact]_vars
  BY StepIsExact
<1>2. QED
  BY <1>1, SchedulerIInv, PTL DEF FairSpec, RemovalsAreExact, Exact
=============================================================================
