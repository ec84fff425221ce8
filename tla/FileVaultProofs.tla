-------------------------- MODULE FileVaultProofs --------------------------
(* Proofs about FileVault, for every set of files, items and requests.     *)
EXTENDS FileVault, TLAPS

\* Requests and the watchdog are the threads that run ThreadStep.
LEMMA ThreadFacts == Request \subseteq Thread /\ Watcher \in Thread
  BY DEF Thread

\* The invariant holds with empty directories and tables.
LEMMA InitInvariant == Init => VaultInvariant
<1> SUFFICES ASSUME Init PROVE VaultInvariant
  OBVIOUS
<1> USE VaultAssumption, ThreadFacts DEF Init, VaultAssumption
<1>1. TypeOK
  BY DEF TypeOK, Status, UploadStage, Stage
<1>2. OneCopy /\ ItemsHaveOrigin /\ QuarantinesHaveRow
  BY DEF OneCopy, ItemsHaveOrigin, QuarantinesHaveRow
<1>3. ThreadsHaveWork /\ StagesOfThreads
  BY DEF ThreadsHaveWork, StagesOfThreads, ItemStage
<1>4. QED
  BY <1>1, <1>2, <1>3 DEF VaultInvariant

\* Sending a thread on keeps the thread variables in their types.
LEMMA GotoType ==
    ASSUME TypeOK, NEW t \in Thread, NEW s \in Stage,
           NEW f \in File \cup {NoFile}, NEW i \in Item \cup {NoItem},
           Goto(t, s, f, i)
    PROVE  /\ stage' \in [Thread -> Stage]
           /\ onFile' \in [Thread -> File \cup {NoFile}]
           /\ onItem' \in [Thread -> Item \cup {NoItem}]
  BY DEF TypeOK, Goto

\* So does sending it home.
LEMMA ReturnType ==
    ASSUME TypeOK, NEW t \in Thread, Return(t)
    PROVE  /\ stage' \in [Thread -> Stage]
           /\ onFile' \in [Thread -> File \cup {NoFile}]
           /\ onItem' \in [Thread -> Item \cup {NoItem}]
  BY DEF TypeOK, Goto, Return, Stage

\* Every step keeps the variables in their types.
LEMMA TypeStep == VaultInvariant /\ [Next]_vars => TypeOK'
<1> SUFFICES ASSUME VaultInvariant, [Next]_vars PROVE TypeOK'
  OBVIOUS
<1> USE VaultAssumption, ThreadFacts
    DEF VaultAssumption, itemVars, rowVars, watchVars, threadVars
<1>0. TypeOK /\ ThreadsHaveWork /\ StagesOfThreads /\ ItemsHaveOrigin /\ QuarantinesHaveRow
  BY DEF VaultInvariant
<1>1. ASSUME NEW f \in File, FileStep(f) PROVE TypeOK'
  <2>1. CASE BeginWrite(f) \/ EndWrite(f)
    BY <1>0, <2>1 DEF BeginWrite, EndWrite, TypeOK, UploadStage
  <2>2. CASE StoreUpload(f)
    BY <1>0, <2>2 DEF StoreUpload, InsertRow, TypeOK, UploadStage, Writer
  <2>3. CASE ScanUpload(f) \/ UploadFails(f) \/ Rescan(f)
    BY <1>0, <2>3
    DEF ScanUpload, UploadFails, Rescan, TypeOK, UploadStage, Writer
  <2>4. CASE Notice(f)
    BY <1>0, <2>4 DEF Notice, Goto, TypeOK, Stage
  <2>5. QED
    BY <1>1, <2>1, <2>2, <2>3, <2>4 DEF FileStep
<1>2. CASE Wake \/ WatchScan \/ WatchFails
  <2>1. onFile[Watcher] \in File
    BY <1>0, <1>2 DEF Wake, WatchScan, WatchFails, ThreadsHaveWork
  <2>2. CASE Wake
    BY <1>0, <2>1, <2>2 DEF Wake, InsertRow, Goto, Return, TypeOK, Stage, Writer
  <2>3. CASE WatchScan
    BY <1>0, <2>1, <2>3
    DEF WatchScan, AfterWatchScan, Goto, Return, TypeOK, Stage, Writer
  <2>4. CASE WatchFails
    BY <1>0, <2>1, <2>4, ReturnType DEF WatchFails, TypeOK, Writer
  <2>5. QED
    BY <1>2, <2>2, <2>3, <2>4
<1>3. ASSUME NEW r \in Request, RequestStep(r) PROVE TypeOK'
  <2>1. ASSUME NEW f \in File, BeginQuarantine(r, f) PROVE TypeOK'
    BY <1>0, <2>1 DEF BeginQuarantine, Goto, TypeOK, Stage
  <2>2. ASSUME NEW i \in Item,
               BeginRestore(r, i) \/ RestoreMissing(r, i) \/ BeginDelete(r, i)
        PROVE TypeOK'
    BY <1>0, <2>2
    DEF BeginRestore, RestoreMissing, BeginDelete, Goto, TypeOK, Stage, Status
  <2>3. CASE RestoreMove(r)
    <3>1. onFile[r] \in File /\ onItem[r] \in Item
      BY <1>0, <2>3 DEF RestoreMove, ThreadsHaveWork, ItemStage
    <3>2. QED
      BY <1>0, <2>3, <3>1 DEF RestoreMove, Goto, Return, TypeOK, Stage
  <2>4. CASE RestoreCommit(r)
    BY <1>0, <2>4 DEF RestoreCommit, Goto, Return, TypeOK, Stage, Status
  <2>5. CASE DeleteFiles(r)
    BY <1>0, <2>5 DEF DeleteFiles, VaultAfterDelete, Goto, TypeOK, Stage
  <2>6. CASE DeleteCommit(r)
    BY <1>0, <2>6
    DEF DeleteCommit, StatusAfterDelete, Goto, Return, TypeOK, Stage, Status
  <2>7. QED
    BY <1>3, <2>1, <2>2, <2>3, <2>4, <2>5, <2>6 DEF RequestStep
<1>4. ASSUME NEW t \in Thread, ThreadStep(t) PROVE TypeOK'
  <2>1. CASE QuarantineMove(t)
    <3>1. onFile[t] \in File
      BY <1>0, <2>1 DEF QuarantineMove, ThreadsHaveWork
    <3>2. QED
      BY <1>0, <2>1, <3>1
      DEF QuarantineMove, Vacate, Goto, Return, TypeOK, Stage
  <2>2. CASE QuarantineCommit(t)
    <3>1. onFile[t] \in File /\ onItem[t] \in Item
      BY <1>0, <2>2 DEF QuarantineCommit, ThreadsHaveWork, ItemStage
    <3>2. first[onFile[t]] \in Writer
      BY <1>0, <2>2, <3>1 DEF QuarantineCommit, QuarantinesHaveRow, TypeOK
    <3>3. QED
      BY <1>0, <2>2, <3>1, <3>2
      DEF QuarantineCommit, Goto, Return, TypeOK, Stage, Status
  <2>3. CASE CommitFails(t)
    BY <1>0, <2>3
    DEF CommitFails, VaultAfterRollback, Goto, Return, TypeOK, Stage
  <2>4. QED
    BY <1>4, <2>1, <2>2, <2>3 DEF ThreadStep
<1>5. CASE Crash
  BY <1>0, <1>5 DEF Crash, TypeOK, Stage, UploadStage
<1>6. CASE UNCHANGED vars
  BY <1>0, <1>6 DEF vars, TypeOK
<1>7. QED
  BY <1>1, <1>2, <1>3, <1>4, <1>5, <1>6 DEF Next

-----------------------------------------------------------------------------
\* Steps that touch neither the vault nor a row of quarantine_items, and at
\* most send a thread t to a stage that holds no item.
LEMMA QuietStep ==
    ASSUME VaultInvariant, TypeOK', NEW t \in Thread,
           UNCHANGED itemVars,
           \A f \in File : disk[f] = "none" <=> disk'[f] = "none",
           rows \subseteq rows', \A f \in File : first[f] # "none" => first'[f] = first[f],
           \A f \in File, w \in Writer : <<f, w>> \in rows' \ rows => first'[f] # "none",
           \A u \in Thread \ {t} :
              stage'[u] = stage[u] /\ onFile'[u] = onFile[u] /\ onItem'[u] = onItem[u],
           stage'[t] \notin ItemStage,
           stage'[t] # "idle" => onFile'[t] \in File,
           stage'[t] \in {"scan", "qmove"} => first'[onFile'[t]] # "none",
           t = Watcher => stage'[t] \in {"idle", "wait", "scan", "qmove"},
           t # Watcher => stage'[t] \notin {"wait", "scan"}
    PROVE  VaultInvariant'
<1>0. Watcher \in Thread /\ Request \subseteq Thread /\ Watcher \notin Request
  BY ThreadFacts, VaultAssumption DEF VaultAssumption
<1>1. OneCopy' /\ ItemsHaveOrigin'
  BY DEF VaultInvariant, TypeOK, OneCopy, ItemsHaveOrigin, itemVars
<1>2. QuarantinesHaveRow'
  BY DEF VaultInvariant, TypeOK, QuarantinesHaveRow, ThreadsHaveWork, ItemStage
<1>3. ThreadsHaveWork'
  BY DEF VaultInvariant, ThreadsHaveWork, itemVars, ItemStage
<1>4. StagesOfThreads'
  BY <1>0 DEF VaultInvariant, StagesOfThreads, Thread
<1>5. QED
  BY <1>1, <1>2, <1>3, <1>4 DEF VaultInvariant

\* Every step keeps the invariant.
LEMMA InvariantStep == VaultInvariant /\ [Next]_vars => VaultInvariant'
<1> SUFFICES ASSUME VaultInvariant, [Next]_vars PROVE VaultInvariant'
  OBVIOUS
<1> USE VaultAssumption, ThreadFacts
    DEF VaultAssumption, itemVars, rowVars, watchVars, threadVars
<1>0. TypeOK /\ TypeOK'
  BY TypeStep DEF VaultInvariant
<1>1. ASSUME NEW f \in File, FileStep(f) PROVE VaultInvariant'
  <2> USE DEF VaultInvariant, TypeOK, OneCopy, ItemsHaveOrigin,
          QuarantinesHaveRow, ThreadsHaveWork, StagesOfThreads
  <2>1. CASE BeginWrite(f) \/ EndWrite(f)
    BY <1>0, <2>1 DEF BeginWrite, EndWrite, EverHeld
  <2>2. CASE StoreUpload(f)
    BY <1>0, <2>2 DEF StoreUpload, InsertRow, Writer
  <2>3. CASE ScanUpload(f) \/ UploadFails(f) \/ Rescan(f)
    BY <1>0, <2>3 DEF ScanUpload, UploadFails, Rescan
  <2>4. CASE Notice(f)
    BY <1>0, <2>4 DEF Notice, Goto, ItemStage
  <2>5. QED
    BY <1>1, <2>1, <2>2, <2>3, <2>4 DEF FileStep
<1>2. CASE Wake \/ WatchScan \/ WatchFails
  <2>1. onFile[Watcher] \in File /\ (WatchScan => first[onFile[Watcher]] # "none")
    BY <1>2
    DEF Wake, WatchScan, WatchFails, VaultInvariant, ThreadsHaveWork, QuarantinesHaveRow
  <2>2. CASE Wake
    BY <1>0, <2>1, <2>2, QuietStep
    DEF Wake, InsertRow, Goto, Return, TypeOK, ItemStage, Writer
  <2>3. CASE WatchScan
    BY <1>0, <2>1, <2>3, QuietStep
    DEF WatchScan, AfterWatchScan, Goto, Return, TypeOK, ItemStage
  <2>4. CASE WatchFails
    BY <1>0, <2>1, <2>4, QuietStep DEF WatchFails, Goto, Return, TypeOK, ItemStage
  <2>5. QED
    BY <1>2, <2>2, <2>3, <2>4
<1>3. ASSUME NEW r \in Request, NEW f \in File, BeginQuarantine(r, f)
      PROVE VaultInvariant'
  <2>1. first[f] # "none"
    BY <1>3 DEF BeginQuarantine, VaultInvariant, QuarantinesHaveRow, Writer
  <2>2. QED
    BY <1>0, <1>3, <2>1, QuietStep DEF BeginQuarantine, Goto, TypeOK, ItemStage
<1>4. ASSUME NEW r \in Request, NEW i \in Item,
             BeginRestore(r, i) \/ BeginDelete(r, i)
      PROVE VaultInvariant'
  <2> USE DEF VaultInvariant, BeginRestore, BeginDelete, Goto, ItemStage
  <2>1. origin[i] \in File
    BY <1>0, <1>4 DEF ItemsHaveOrigin, TypeOK
  <2>2. ThreadsHaveWork'
    BY <1>0, <1>4, <2>1 DEF ThreadsHaveWork, TypeOK
  <2>3. OneCopy' /\ ItemsHaveOrigin' /\ QuarantinesHaveRow' /\ StagesOfThreads'
    BY <1>0, <1>4
    DEF OneCopy, ItemsHaveOrigin, QuarantinesHaveRow, StagesOfThreads, TypeOK
  <2>4. QED
    BY <1>0, <2>2, <2>3
<1>5. ASSUME NEW r \in Request, NEW i \in Item, RestoreMissing(r, i)
      PROVE VaultInvariant'
  BY <1>0, <1>5
  DEF RestoreMissing, VaultInvariant, TypeOK, OneCopy, ItemsHaveOrigin,
      QuarantinesHaveRow, ThreadsHaveWork, StagesOfThreads
<1>6. ASSUME NEW r \in Request,
             RestoreMove(r) \/ RestoreCommit(r) \/ DeleteFiles(r) \/ DeleteCommit(r)
      PROVE VaultInvariant'
  <2>1. /\ onFile[r] \in File /\ onItem[r] \in Item \cap owned
        /\ origin[onItem[r]] = onFile[r]
    BY <1>6
    DEF RestoreMove, RestoreCommit, DeleteFiles, DeleteCommit, VaultInvariant,
        ThreadsHaveWork, ItemStage
  <2> USE DEF VaultInvariant, Goto, Return, ItemStage, VaultAfterDelete,
          StatusAfterDelete
  <2>2. OneCopy' /\ ItemsHaveOrigin'
    BY <1>0, <1>6, <2>1
    DEF RestoreMove, RestoreCommit, DeleteFiles, DeleteCommit, TypeOK, OneCopy,
        ItemsHaveOrigin
  <2>3. QuarantinesHaveRow' /\ StagesOfThreads'
    BY <1>0, <1>6, <2>1
    DEF RestoreMove, RestoreCommit, DeleteFiles, DeleteCommit, TypeOK,
        QuarantinesHaveRow, StagesOfThreads
  <2>4. ThreadsHaveWork'
    BY <1>0, <1>6, <2>1
    DEF RestoreMove, RestoreCommit, DeleteFiles, DeleteCommit, TypeOK,
        ThreadsHaveWork
  <2>5. QED
    BY <1>0, <2>2, <2>3, <2>4
<1>7. ASSUME NEW t \in Thread, ThreadStep(t) PROVE VaultInvariant'
  <2> USE DEF VaultInvariant, Goto, Return, ItemStage, VaultAfterRollback, Vacate
  <2>1. onFile[t] \in File
    BY <1>7
    DEF ThreadStep, QuarantineMove, QuarantineCommit, CommitFails, ThreadsHaveWork
  <2>2. OneCopy' /\ ItemsHaveOrigin'
    BY <1>0, <1>7, <2>1
    DEF ThreadStep, QuarantineMove, QuarantineCommit, CommitFails, TypeOK,
        OneCopy, ItemsHaveOrigin, ThreadsHaveWork
  <2>3. QuarantinesHaveRow' /\ StagesOfThreads'
    BY <1>0, <1>7, <2>1
    DEF ThreadStep, QuarantineMove, QuarantineCommit, CommitFails, TypeOK,
        QuarantinesHaveRow, StagesOfThreads
  <2>4. ThreadsHaveWork'
    BY <1>0, <1>7, <2>1
    DEF ThreadStep, QuarantineMove, QuarantineCommit, CommitFails, TypeOK,
        ThreadsHaveWork, ItemsHaveOrigin
  <2>5. QED
    BY <1>0, <2>2, <2>3, <2>4
<1>8. CASE Crash
  BY <1>0, <1>8
  DEF Crash, VaultInvariant, TypeOK, OneCopy, ItemsHaveOrigin, ItemStage,
      QuarantinesHaveRow, ThreadsHaveWork, StagesOfThreads
<1>9. CASE UNCHANGED vars
  BY <1>0, <1>9
  DEF vars, VaultInvariant, OneCopy, ItemsHaveOrigin, QuarantinesHaveRow,
      ThreadsHaveWork, StagesOfThreads
<1>10. QED
  BY <1>1, <1>2, <1>3, <1>4, <1>5, <1>6, <1>7, <1>8, <1>9
  DEF Next, RequestStep

\* Whoever quarantines, restores and deletes at the same time, and wherever the
\* process is killed or a commit fails: a file has one copy, no item is shared
\* by two quarantines, and each refers to a File row.
THEOREM VaultSafety == Spec => []VaultInvariant
<1>1. Init => VaultInvariant
  BY InitInvariant
<1>2. VaultInvariant /\ [Next]_vars => VaultInvariant'
  BY InvariantStep
<1>3. QED
  BY <1>1, <1>2, PTL DEF Spec

-----------------------------------------------------------------------------
\* Without kills and failed commits, a step keeps the catalogue in line.
LEMMA CatalogueStep ==
    ASSUME ~MayCrash, ~MayFail, VaultInvariant, CatalogueMatchesVault, [Next]_vars
    PROVE  CatalogueMatchesVault'
<1> USE VaultAssumption, ThreadFacts
    DEF VaultAssumption, itemVars, threadVars, CatalogueMatchesVault
<1>0. TypeOK /\ ThreadsHaveWork /\ ItemsHaveOrigin
  BY DEF VaultInvariant
<1>1. ASSUME NEW f \in File, FileStep(f) PROVE CatalogueMatchesVault'
  <2>1. CASE Notice(f)
    BY <1>0, <2>1 DEF Notice, Goto, TypeOK
  <2>2. QED
    BY <1>1, <2>1
    DEF FileStep, BeginWrite, EndWrite, StoreUpload, ScanUpload, UploadFails,
        Rescan
<1>2. CASE Wake \/ WatchScan \/ WatchFails
  BY <1>0, <1>2 DEF Wake, WatchScan, AfterWatchScan, WatchFails, Goto, Return, TypeOK
<1>3. ASSUME NEW r \in Request, RequestStep(r) PROVE CatalogueMatchesVault'
  <2>1. CASE \/ \E f \in File : BeginQuarantine(r, f)
             \/ \E i \in Item : BeginRestore(r, i) \/ BeginDelete(r, i)
    BY <1>0, <2>1 DEF BeginQuarantine, BeginRestore, BeginDelete, Goto, TypeOK
  <2>2. CASE \E i \in Item : RestoreMissing(r, i)
    BY <1>0, <2>2 DEF RestoreMissing, TypeOK
  <2>3. CASE RestoreMove(r) \/ RestoreCommit(r) \/ DeleteFiles(r) \/ DeleteCommit(r)
    BY <1>0, <2>3
    DEF RestoreMove, RestoreCommit, DeleteFiles, DeleteCommit, Goto, Return,
        VaultAfterDelete, StatusAfterDelete, TypeOK, ThreadsHaveWork, ItemStage
  <2>4. QED
    BY <1>3, <2>1, <2>2, <2>3 DEF RequestStep
<1>4. ASSUME NEW t \in Thread, QuarantineMove(t) \/ QuarantineCommit(t)
      PROVE CatalogueMatchesVault'
  BY <1>0, <1>4
  DEF QuarantineMove, QuarantineCommit, Goto, Return, TypeOK, ThreadsHaveWork,
      ItemsHaveOrigin, ItemStage
<1>5. CASE UNCHANGED vars
  BY <1>5 DEF vars
<1>6. QED
  BY <1>1, <1>2, <1>3, <1>4, <1>5 DEF Next, ThreadStep, CommitFails, Crash

\* As long as nothing is killed and commits succeed, the list of quarantined
\* items is the content of the quarantine directory, whatever requests overlap.
THEOREM CatalogueIsAccurate ==
    ASSUME ~MayCrash, ~MayFail
    PROVE  Spec => []CatalogueMatchesVault
<1>1. Init => CatalogueMatchesVault
  BY DEF Init, CatalogueMatchesVault
<1>2. VaultInvariant /\ CatalogueMatchesVault /\ [Next]_vars => CatalogueMatchesVault'
  BY CatalogueStep
<1>3. QED
  BY <1>1, <1>2, VaultSafety, PTL DEF Spec

-----------------------------------------------------------------------------
\* Nothing moves for custody unless a file or a name in quarantine does.
LEMMA PlaceKept ==
    ASSUME UNCHANGED <<vault, origin>>,
           \A f \in File : disk[f] = "none" <=> disk'[f] = "none"
    PROVE  place' = place
  BY DEF place, Held, EverHeld

\* A step that relocates one file.
LEMMA PlaceMoves ==
    ASSUME NEW f \in File, NEW to \in Kept!Place,
           place'[f] = to, \A g \in File \ {f} : place'[g] = place[g]
    PROVE  place' = [place EXCEPT ![f] = to]
<1>1. place \in [File -> Kept!Place] /\ place' \in [File -> Kept!Place]
  BY DEF place, Kept!Place
<1>2. QED
  BY <1>1

\* A thread that neither was about to delete nor is now leaves the requests
\* to delete alone.
LEMMA AskedKept ==
    ASSUME TypeOK, NEW t \in Thread, stage[t] # "dfiles",
           NEW s, s # "dfiles", NEW f, NEW i, Goto(t, s, f, i)
    PROVE  asked' = asked
<1>1. \A u \in Thread :
          /\ stage'[u] = "dfiles" <=> stage[u] = "dfiles"
          /\ stage[u] = "dfiles" => onFile'[u] = onFile[u]
  BY DEF TypeOK, Goto
<1>2. QED
  BY <1>1 DEF asked

\* A thread that has done its deletion withdraws at most its own request.
LEMMA AskedSettles ==
    ASSUME TypeOK, NEW t \in Thread, NEW s, s # "dfiles", NEW f, NEW i,
           Goto(t, s, f, i)
    PROVE  Kept!Settle
<1>1. \A u \in Thread :
          stage'[u] = "dfiles" => stage[u] = "dfiles" /\ onFile'[u] = onFile[u]
  BY DEF TypeOK, Goto
<1>2. QED
  BY <1>1 DEF asked, Kept!Settle

\* Every step is a step of custody or invisible to it.
LEMMA CustodyStep ==
    VaultInvariant /\ [Next]_vars => [Kept!CustodyNext]_<<place, asked>>
<1> SUFFICES ASSUME VaultInvariant, [Next]_vars
             PROVE  [Kept!CustodyNext]_<<place, asked>>
  OBVIOUS
<1> USE VaultAssumption, ThreadFacts DEF VaultAssumption, itemVars, Kept!Place
<1>0. TypeOK /\ OneCopy /\ ItemsHaveOrigin /\ ThreadsHaveWork
  BY DEF VaultInvariant
<1>1. ASSUME NEW f \in File, BeginWrite(f) PROVE Kept!Appear(f)
  <2>1. place[f] = "absent" /\ place'[f] = "live"
    BY <1>0, <1>1 DEF BeginWrite, place, Held, EverHeld, TypeOK
  <2>2. \A g \in File \ {f} : place'[g] = place[g]
    BY <1>0, <1>1 DEF BeginWrite, place, Held, EverHeld, TypeOK
  <2>3. asked' = asked
    BY <1>1 DEF BeginWrite, threadVars, asked
  <2>4. QED
    BY <2>1, <2>2, <2>3, PlaceMoves DEF Kept!Appear, Kept!Move
<1>2. ASSUME NEW f \in File,
             EndWrite(f) \/ StoreUpload(f) \/ ScanUpload(f) \/ UploadFails(f)
             \/ Rescan(f) \/ Notice(f)
      PROVE UNCHANGED <<place, asked>>
  <2>1. place' = place
    BY <1>0, <1>2, PlaceKept
    DEF EndWrite, StoreUpload, ScanUpload, UploadFails, Rescan, Notice, TypeOK
  <2>2. CASE UNCHANGED threadVars
    BY <2>1, <2>2 DEF threadVars, asked
  <2>3. CASE stage[Watcher] = "idle" /\ Goto(Watcher, "wait", f, NoItem)
    BY <1>0, <2>1, <2>3, AskedKept
  <2>4. QED
    BY <1>2, <2>2, <2>3
    DEF EndWrite, StoreUpload, ScanUpload, UploadFails, Rescan, Notice
<1>3. CASE Wake \/ WatchScan \/ WatchFails \/ UNCHANGED vars
  <2>1. place' = place
    BY <1>3, PlaceKept DEF Wake, WatchScan, WatchFails, vars
  <2>2. CASE UNCHANGED vars
    BY <2>1, <2>2 DEF vars, asked
  <2>3. CASE Wake
    BY <1>0, <2>1, <2>3, AskedKept DEF Wake, Return
  <2>4. CASE WatchScan
    BY <1>0, <2>1, <2>4, AskedKept DEF WatchScan, AfterWatchScan, Return
  <2>5. CASE WatchFails
    BY <1>0, <2>1, <2>5, AskedKept DEF WatchFails, Return
  <2>6. QED
    BY <1>3, <2>2, <2>3, <2>4, <2>5
<1>30. CASE Crash
  <2>1. place' = place
    BY <1>30, PlaceKept DEF Crash
  <2>2. asked' = {}
    BY <1>30 DEF Crash, asked
  <2>3. QED
    BY <2>1, <2>2 DEF Kept!CustodyNext, Kept!Forget, Kept!Settle
<1>4. ASSUME NEW r \in Request,
             \/ \E f \in File : BeginQuarantine(r, f)
             \/ \E i \in Item : BeginRestore(r, i) \/ RestoreMissing(r, i)
             \/ RestoreCommit(r) \/ DeleteCommit(r)
      PROVE UNCHANGED <<place, asked>>
  <2>1. place' = place
    BY <1>4, PlaceKept
    DEF BeginQuarantine, BeginRestore, RestoreMissing, RestoreCommit, DeleteCommit
  <2>2. CASE UNCHANGED threadVars
    BY <2>1, <2>2 DEF threadVars, asked
  <2>3. CASE \/ \E f \in File : BeginQuarantine(r, f)
             \/ \E i \in Item : BeginRestore(r, i)
             \/ RestoreCommit(r) \/ DeleteCommit(r)
    BY <1>0, <2>1, <2>3, AskedKept
    DEF BeginQuarantine, BeginRestore, RestoreCommit, DeleteCommit, Return
  <2>4. QED
    BY <1>4, <2>2, <2>3 DEF RestoreMissing
<1>40. ASSUME NEW r \in Request, NEW i \in Item, BeginDelete(r, i)
       PROVE origin[i] \in File /\ Kept!Ask(origin[i])
  <2>1. place' = place
    BY <1>40, PlaceKept DEF BeginDelete
  <2>2. origin[i] \in File
    BY <1>0, <1>40 DEF BeginDelete, ItemsHaveOrigin, TypeOK
  <2>3. /\ stage'[r] = "dfiles" /\ onFile'[r] = origin[i]
        /\ stage[r] # "dfiles"
        /\ \A u \in Thread \ {r} : stage'[u] = stage[u] /\ onFile'[u] = onFile[u]
    BY <1>0, <1>40 DEF BeginDelete, Goto, TypeOK
  <2>4. asked' = asked \cup {origin[i]}
    BY <2>3 DEF asked
  <2>5. QED
    BY <2>1, <2>2, <2>4 DEF Kept!Ask
<1>5. ASSUME NEW r \in Request, RestoreMove(r)
      PROVE Kept!Release(onFile[r]) \/ UNCHANGED <<place, asked>>
  <2>0. asked' = asked
    BY <1>0, <1>5, AskedKept DEF RestoreMove, Return
  <2>1. CASE onItem[r] \notin vault
    BY <1>5, <2>0, <2>1, PlaceKept DEF RestoreMove
  <2>2. CASE onItem[r] \in vault
    <3>1. onFile[r] \in File /\ origin[onItem[r]] = onFile[r]
      BY <1>0, <1>5 DEF RestoreMove, ThreadsHaveWork, ItemStage
    <3>2. place[onFile[r]] = "held" /\ place'[onFile[r]] = "live"
      BY <1>0, <1>5, <2>2, <3>1 DEF RestoreMove, OneCopy, TypeOK, place, Held
    <3>3. \A g \in File \ {onFile[r]} : place'[g] = place[g]
      BY <1>0, <1>5, <2>2, <3>1 DEF RestoreMove, TypeOK, place, Held, EverHeld
    <3>4. QED
      BY <2>0, <3>1, <3>2, <3>3, PlaceMoves DEF Kept!Release, Kept!Move
  <2>3. QED
    BY <2>1, <2>2
<1>6. ASSUME NEW r \in Request, DeleteFiles(r)
      PROVE Kept!Destroy(onFile[r]) \/ Kept!Forget
  <2>0. onFile[r] \in asked /\ Kept!Settle
    <3>1. onFile[r] \in asked
      BY <1>6 DEF DeleteFiles, asked
    <3>2. Kept!Settle
      BY <1>0, <1>6, AskedSettles DEF DeleteFiles
    <3>3. QED
      BY <3>1, <3>2
  <2>1. /\ onFile[r] \in File /\ onItem[r] \in Item
        /\ origin[onItem[r]] = onFile[r]
    BY <1>0, <1>6 DEF DeleteFiles, ThreadsHaveWork, ItemStage
  <2>2. \A g \in File \ {onFile[r]} : place'[g] = place[g]
    BY <1>0, <1>6, <2>1
    DEF DeleteFiles, VaultAfterDelete, TypeOK, place, Held, EverHeld
  <2>3. CASE disk[onFile[r]] # "none" \/ onItem[r] \in vault
    <3>1. place[onFile[r]] \in {"live", "held"}
      BY <2>1, <2>3 DEF place, Held
    <3>2. place'[onFile[r]] = "gone"
      BY <1>0, <1>6, <2>1, <2>3
      DEF DeleteFiles, VaultAfterDelete, OneCopy, TypeOK, place, Held, EverHeld
    <3>3. QED
      BY <2>0, <2>1, <2>2, <3>1, <3>2, PlaceMoves DEF Kept!Destroy, Kept!Move
  <2>4. CASE disk[onFile[r]] = "none" /\ onItem[r] \notin vault
    <3>1. UNCHANGED <<vault, origin>>
      BY <1>6, <2>4 DEF DeleteFiles, VaultAfterDelete
    <3>2. place' = place
      BY <1>0, <1>6, <2>4, <3>1, PlaceKept DEF DeleteFiles, TypeOK
    <3>3. QED
      BY <2>0, <3>2 DEF Kept!Forget
  <2>5. QED
    BY <2>3, <2>4
<1>7. ASSUME NEW t \in Thread, QuarantineMove(t)
      PROVE Kept!Hold(onFile[t]) \/ UNCHANGED <<place, asked>>
  <2>0. asked' = asked
    BY <1>0, <1>7, AskedKept DEF QuarantineMove, Return
  <2>1. onFile[t] \in File
    BY <1>0, <1>7 DEF QuarantineMove, ThreadsHaveWork
  <2>2. CASE disk[onFile[t]] = "none"
    BY <1>7, <2>0, <2>2, PlaceKept DEF QuarantineMove
  <2>3. CASE disk[onFile[t]] # "none"
    <3>1. PICK i \in Item : /\ origin[i] = NoFile
                            /\ disk' = [disk EXCEPT ![onFile[t]] = "none"]
                            /\ vault' = vault \cup {i}
                            /\ origin' = [origin EXCEPT ![i] = onFile[t]]
      BY <1>7, <2>3 DEF QuarantineMove, Vacate
    <3>2. place[onFile[t]] = "live" /\ place'[onFile[t]] = "held"
      BY <1>0, <2>1, <2>3, <3>1 DEF TypeOK, place, Held
    <3>3. \A g \in File \ {onFile[t]} : place'[g] = place[g]
      BY <1>0, <2>1, <3>1 DEF TypeOK, place, Held, EverHeld, ItemsHaveOrigin
    <3>4. QED
      BY <2>0, <2>1, <3>2, <3>3, PlaceMoves DEF Kept!Hold, Kept!Move
  <2>4. QED
    BY <2>2, <2>3
<1>8. ASSUME NEW t \in Thread, QuarantineCommit(t) \/ CommitFails(t)
      PROVE UNCHANGED <<place, asked>>
  <2>1. place' = place
    BY <1>8, PlaceKept DEF QuarantineCommit, CommitFails, VaultAfterRollback
  <2>2. QED
    BY <1>0, <1>8, <2>1, AskedKept DEF QuarantineCommit, CommitFails, Return
<1>9. ASSUME NEW t \in Thread, ThreadStep(t) \/ (t \in Request /\ RequestStep(t))
      PROVE [Kept!CustodyNext]_<<place, asked>>
  <2>1. stage[t] # "idle" => onFile[t] \in File
    BY <1>0 DEF ThreadsHaveWork
  <2>2. QED
    BY <1>4, <1>40, <1>5, <1>6, <1>7, <1>8, <1>9, <2>1
    DEF ThreadStep, RequestStep, RestoreMove, DeleteFiles, QuarantineMove,
        Kept!CustodyNext
<1>10. QED
  BY <1>1, <1>2, <1>3, <1>30, <1>9 DEF Next, FileStep, Kept!CustodyNext

\* The vault implements custody, through kills and failed commits: each file is
\* in one place, only a request to delete it destroys it, and it stays so.
THEOREM VaultImplementsCustody == Spec => CustodyRefined
<1>1. Init => Kept!CustodyInit
  BY VaultAssumption
  DEF Init, Kept!CustodyInit, place, asked, Held, EverHeld, VaultAssumption
<1>2. VaultInvariant /\ [Next]_vars => [Kept!CustodyNext]_<<place, asked>>
  BY CustodyStep
<1>3. QED
  BY <1>1, <1>2, VaultSafety, PTL DEF Spec, CustodyRefined, Kept!CustodySpec

-----------------------------------------------------------------------------
(* One request at a time, without kills and failed commits.                *)

OneRequest == \A r, s \in Request : r = s

Present(f) == disk[f] # "none" \/ Held(f)

\* What a restore has moved back is still somewhere when it is put on record: the
\* watchdog may have taken it again, but only a request could have deleted it.
RestoredIsPresent == \A t \in Thread : stage[t] = "rcommit" => Present(onFile[t])

RecordIInv == VaultInvariant /\ GoneIsOnRecord /\ RestoredIsPresent

\* A step that moves nothing into or out of quarantine, destroys nothing, and keeps
\* on record what is gone.
LEMMA NothingGoneStep ==
    ASSUME GoneIsOnRecord, RestoredIsPresent, vault' = vault, origin' = origin,
           \A i \in Item : status[i] \in {"deleted", "missing"} =>
               status'[i] \in {"deleted", "missing"},
           \A f \in File : disk[f] # "none" => disk'[f] # "none",
           \A t \in Thread : stage[t] \in {"rcommit", "dcommit"} \/ stage'[t] \in {"rcommit", "dcommit"} =>
               stage'[t] = stage[t] /\ onFile'[t] = onFile[t],
           \A t \in Thread : stage[t] = "rcommit" => onFile[t] \in File
    PROVE  GoneIsOnRecord' /\ RestoredIsPresent'
<1>1. \A f \in File : (EverHeld(f)' <=> EverHeld(f)) /\ (Held(f)' <=> Held(f))
  BY DEF EverHeld, Held
<1>2. GoneIsOnRecord'
  BY <1>1 DEF GoneIsOnRecord
<1>3. RestoredIsPresent'
  BY <1>1 DEF RestoredIsPresent, Present
<1>4. QED
  BY <1>2, <1>3

\* A file that goes into quarantine is there.
LEMMA TakenStep ==
    ASSUME VaultInvariant, GoneIsOnRecord, RestoredIsPresent,
           NEW t \in Thread, QuarantineMove(t)
    PROVE  GoneIsOnRecord' /\ RestoredIsPresent'
<1>0. TypeOK /\ ThreadsHaveWork /\ onFile[t] \in File /\ stage[t] = "qmove"
  BY DEF VaultInvariant, ThreadsHaveWork, QuarantineMove
<1>1. \A u \in Thread : stage[u] \in {"rcommit", "dcommit"} \/ stage'[u] \in {"rcommit", "dcommit"} =>
          stage'[u] = stage[u] /\ onFile'[u] = onFile[u] /\ onFile[u] \in File
  BY <1>0 DEF QuarantineMove, Goto, Return, TypeOK, ThreadsHaveWork
<1>2. CASE disk[onFile[t]] = "none"
  <2>1. disk' = disk /\ vault' = vault /\ origin' = origin /\ status' = status
    BY <1>2 DEF QuarantineMove
  <2>2. QED
    BY <1>1, <2>1, NothingGoneStep
<1>3. CASE disk[onFile[t]] # "none"
  <2>1. PICK i \in Item : /\ origin[i] = NoFile
                          /\ disk' = [disk EXCEPT ![onFile[t]] = "none"]
                          /\ vault' = vault \cup {i}
                          /\ origin' = [origin EXCEPT ![i] = onFile[t]]
                          /\ status' = status
    BY <1>3 DEF QuarantineMove, Vacate
  <2>2. PICK g \in File : g = onFile[t]
    BY <1>0
  <2>3. Held(g)'
    BY <1>0, <2>1, <2>2 DEF Held, TypeOK
  <2>4. ASSUME NEW f \in File, f # g
        PROVE  (EverHeld(f)' <=> EverHeld(f)) /\ (Held(f) => Held(f)') /\ disk'[f] = disk[f]
               /\ \A j \in Item : origin[j] = f => origin'[j] = f
    <3>1. f # NoFile
      BY VaultAssumption DEF VaultAssumption
    <3>2. \A j \in Item : origin'[j] = IF j = i THEN g ELSE origin[j]
      BY <1>0, <2>1, <2>2 DEF TypeOK
    <3>3. \A j \in Item : origin'[j] = f <=> origin[j] = f
      BY <2>1, <2>4, <3>1, <3>2
    <3>4. vault \subseteq Item
      BY <1>0 DEF TypeOK
    <3>5. QED
      BY <1>0, <2>1, <2>2, <2>4, <3>3, <3>4 DEF EverHeld, Held, TypeOK
  <2>5. GoneIsOnRecord'
    <3> SUFFICES ASSUME NEW f \in File, EverHeld(f)', disk'[f] = "none", ~Held(f)'
                 PROVE  \/ \E j \in Item : origin'[j] = f /\ status[j] \in {"deleted", "missing"}
                        \/ \E u \in Thread : onFile'[u] = f /\ stage'[u] = "dcommit"
      BY <2>1 DEF GoneIsOnRecord
    <3>1. f # g
      BY <2>3
    <3>2. QED
      BY <1>1, <2>4, <3>1 DEF GoneIsOnRecord
  <2>6. RestoredIsPresent'
    <3> SUFFICES ASSUME NEW u \in Thread, stage'[u] = "rcommit"
                 PROVE  Present(onFile[u])'
      BY DEF RestoredIsPresent
    <3>1. PICK h \in File : h = onFile[u] /\ h = onFile'[u]
      BY <1>1
    <3>2. disk[h] # "none" \/ Held(h)
      BY <1>1, <3>1 DEF RestoredIsPresent, Present
    <3>3. disk'[h] # "none" \/ Held(h)'
      BY <2>3, <2>4, <3>2
    <3>4. QED
      BY <3>1, <3>3 DEF Present, Held
  <2>7. QED
    BY <2>5, <2>6
<1>4. QED
  BY <1>2, <1>3

\* So is one that comes out of it again.
LEMMA GivenBackStep ==
    ASSUME VaultInvariant, GoneIsOnRecord, RestoredIsPresent,
           NEW r \in Request, RestoreMove(r)
    PROVE  GoneIsOnRecord' /\ RestoredIsPresent'
<1>0. /\ TypeOK /\ ThreadsHaveWork /\ r \in Thread /\ stage[r] = "rmove"
      /\ onFile[r] \in File /\ onItem[r] \in Item /\ origin[onItem[r]] = onFile[r]
  BY ThreadFacts DEF VaultInvariant, ThreadsHaveWork, RestoreMove, ItemStage
<1>1. \A u \in Thread : u # r => stage'[u] = stage[u] /\ onFile'[u] = onFile[u]
  BY <1>0 DEF RestoreMove, Goto, Return, TypeOK
<1>2. CASE onItem[r] \notin vault
  <2>1. /\ disk' = disk /\ vault' = vault /\ origin' = origin /\ status' = status
        /\ stage'[r] = "idle"
    BY <1>0, <1>2 DEF RestoreMove, Return, Goto, TypeOK
  <2>2. QED
    BY <1>0, <1>1, <2>1, NothingGoneStep DEF ThreadsHaveWork
<1>3. CASE onItem[r] \in vault
  <2>1. PICK g \in File, i \in Item : g = onFile[r] /\ i = onItem[r]
    BY <1>0
  <2>2. /\ vault' = vault \ {i} /\ disk' = [disk EXCEPT ![g] = "whole"] /\ origin' = origin
        /\ status' = status /\ origin[i] = g /\ stage'[r] = "rcommit" /\ onFile'[r] = g
    BY <1>0, <1>3, <2>1 DEF RestoreMove, Goto, TypeOK
  <2>3. \A f \in File : /\ EverHeld(f)' <=> EverHeld(f)
                        /\ f # g => (Held(f)' <=> Held(f)) /\ disk'[f] = disk[f]
    BY <1>0, <2>2 DEF EverHeld, Held, TypeOK
  <2>4. disk'[g] # "none"
    BY <1>0, <2>2 DEF TypeOK
  <2>5. GoneIsOnRecord'
    BY <1>0, <1>1, <2>2, <2>3, <2>4 DEF GoneIsOnRecord
  <2>6. RestoredIsPresent'
    <3> SUFFICES ASSUME NEW u \in Thread, stage'[u] = "rcommit"
                 PROVE  Present(onFile[u])'
      BY DEF RestoredIsPresent
    <3>1. PICK h \in File : h = onFile'[u] /\ (u # r => h = onFile[u])
      BY <1>0, <1>1, <2>2 DEF ThreadsHaveWork
    <3>2. h = g \/ disk[h] # "none" \/ Held(h)
      BY <1>1, <2>2, <3>1 DEF RestoredIsPresent, Present
    <3>3. disk'[h] # "none" \/ Held(h)'
      BY <2>3, <2>4, <3>2
    <3>4. QED
      BY <3>1, <3>3 DEF Present, Held
  <2>7. QED
    BY <2>5, <2>6
<1>4. QED
  BY <1>2, <1>3

\* The commit of a restore takes nothing off the record: its file is there.
LEMMA RestoredStep ==
    ASSUME VaultInvariant, GoneIsOnRecord, RestoredIsPresent,
           NEW r \in Request, RestoreCommit(r)
    PROVE  GoneIsOnRecord' /\ RestoredIsPresent'
<1>0. /\ TypeOK /\ ThreadsHaveWork /\ r \in Thread /\ stage[r] = "rcommit"
      /\ onFile[r] \in File /\ onItem[r] \in Item /\ origin[onItem[r]] = onFile[r]
  BY ThreadFacts DEF VaultInvariant, ThreadsHaveWork, RestoreCommit, ItemStage
<1>1. \A u \in Thread : u # r => stage'[u] = stage[u] /\ onFile'[u] = onFile[u]
  BY <1>0 DEF RestoreCommit, Goto, Return, TypeOK
<1>2. PICK g \in File, i \in Item : g = onFile[r] /\ i = onItem[r]
  BY <1>0
<1>3. /\ vault' = vault /\ disk' = disk /\ origin' = origin /\ origin[i] = g
      /\ stage'[r] = "idle" /\ \A j \in Item : j # i => status'[j] = status[j]
  BY <1>0, <1>2 DEF RestoreCommit, Return, Goto, TypeOK
<1>4. disk[g] # "none" \/ Held(g)
  BY <1>0, <1>2 DEF RestoredIsPresent, Present
<1>5. \A f \in File : (EverHeld(f)' <=> EverHeld(f)) /\ (Held(f)' <=> Held(f))
  BY <1>3 DEF EverHeld, Held
<1>6. GoneIsOnRecord'
  <2> SUFFICES ASSUME NEW f \in File, EverHeld(f), disk[f] = "none", ~Held(f)
               PROVE  \/ \E j \in Item : origin'[j] = f /\ status'[j] \in {"deleted", "missing"}
                      \/ \E u \in Thread : onFile'[u] = f /\ stage'[u] = "dcommit"
    BY <1>3, <1>5 DEF GoneIsOnRecord
  <2>1. f # g
    BY <1>4
  <2>2. QED
    BY <1>0, <1>1, <1>3, <2>1 DEF GoneIsOnRecord
<1>7. RestoredIsPresent'
  <2> SUFFICES ASSUME NEW u \in Thread, stage'[u] = "rcommit"
               PROVE  Present(onFile[u])'
    BY DEF RestoredIsPresent
  <2>1. PICK h \in File : h = onFile'[u] /\ h = onFile[u] /\ stage[u] = "rcommit"
    BY <1>0, <1>1, <1>3 DEF ThreadsHaveWork
  <2>2. disk[h] # "none" \/ Held(h)
    BY <2>1 DEF RestoredIsPresent, Present
  <2>3. disk'[h] # "none" \/ Held(h)'
    BY <1>3, <1>5, <2>2
  <2>4. QED
    BY <2>1, <2>3 DEF Present, Held
<1>8. QED
  BY <1>6, <1>7

\* A file is destroyed by a request that goes on to record it, and no other request
\* has given it back and is still to say so.
LEMMA DestroyedStep ==
    ASSUME OneRequest, VaultInvariant, GoneIsOnRecord, RestoredIsPresent,
           NEW r \in Request, DeleteFiles(r)
    PROVE  GoneIsOnRecord' /\ RestoredIsPresent'
<1>0. /\ TypeOK /\ ThreadsHaveWork /\ r \in Thread /\ stage[r] = "dfiles"
      /\ onFile[r] \in File /\ onItem[r] \in Item /\ origin[onItem[r]] = onFile[r]
  BY ThreadFacts DEF VaultInvariant, ThreadsHaveWork, DeleteFiles, ItemStage
<1>1. \A u \in Thread : u # r => stage'[u] = stage[u] /\ onFile'[u] = onFile[u]
  BY <1>0 DEF DeleteFiles, Goto, TypeOK
<1>2. PICK g \in File, i \in Item : g = onFile[r] /\ i = onItem[r]
  BY <1>0
<1>3. /\ vault' = vault \ {i} /\ disk' = [disk EXCEPT ![g] = "none"] /\ origin' = origin
      /\ status' = status /\ origin[i] = g /\ stage'[r] = "dcommit" /\ onFile'[r] = g
  BY <1>0, <1>2 DEF DeleteFiles, VaultAfterDelete, Goto, TypeOK
<1>4. \A f \in File : /\ EverHeld(f)' <=> EverHeld(f)
                      /\ f # g => (Held(f)' <=> Held(f)) /\ disk'[f] = disk[f]
  BY <1>0, <1>3 DEF EverHeld, Held, TypeOK
<1>5. GoneIsOnRecord'
  BY <1>0, <1>1, <1>3, <1>4 DEF GoneIsOnRecord
<1>6. \A u \in Thread : stage[u] = "rcommit" => u \in Request
  BY DEF VaultInvariant, StagesOfThreads, Thread
<1>7. \A u \in Thread : stage'[u] # "rcommit"
  BY <1>0, <1>1, <1>3, <1>6 DEF OneRequest
<1>8. RestoredIsPresent'
  BY <1>7 DEF RestoredIsPresent
<1>9. QED
  BY <1>5, <1>8

\* The record is made.
LEMMA DeletedStep ==
    ASSUME VaultInvariant, GoneIsOnRecord, RestoredIsPresent,
           NEW r \in Request, DeleteCommit(r)
    PROVE  GoneIsOnRecord' /\ RestoredIsPresent'
<1>0. /\ TypeOK /\ ThreadsHaveWork /\ r \in Thread /\ stage[r] = "dcommit"
      /\ onFile[r] \in File /\ onItem[r] \in Item /\ origin[onItem[r]] = onFile[r]
  BY ThreadFacts DEF VaultInvariant, ThreadsHaveWork, DeleteCommit, ItemStage
<1>1. \A u \in Thread : u # r => stage'[u] = stage[u] /\ onFile'[u] = onFile[u]
  BY <1>0 DEF DeleteCommit, Goto, Return, TypeOK
<1>2. PICK g \in File, i \in Item : g = onFile[r] /\ i = onItem[r]
  BY <1>0
<1>3. /\ vault' = vault /\ disk' = disk /\ origin' = origin /\ origin[i] = g
      /\ stage'[r] = "idle" /\ status'[i] = "deleted"
      /\ \A j \in Item : j # i => status'[j] = status[j]
  BY <1>0, <1>2 DEF DeleteCommit, StatusAfterDelete, Return, Goto, TypeOK
<1>4. \A f \in File : (EverHeld(f)' <=> EverHeld(f)) /\ (Held(f)' <=> Held(f))
  BY <1>3 DEF EverHeld, Held
<1>5. GoneIsOnRecord'
  <2> SUFFICES ASSUME NEW f \in File, EverHeld(f), disk[f] = "none", ~Held(f)
               PROVE  \/ \E j \in Item : origin'[j] = f /\ status'[j] \in {"deleted", "missing"}
                      \/ \E u \in Thread : onFile'[u] = f /\ stage'[u] = "dcommit"
    BY <1>3, <1>4 DEF GoneIsOnRecord
  <2>1. CASE f = g
    BY <1>3, <2>1
  <2>2. CASE f # g
    <3>1. CASE \E j \in Item : origin[j] = f /\ status[j] \in {"deleted", "missing"}
      BY <1>3, <2>2, <3>1
    <3>2. CASE \E u \in Thread : onFile[u] = f /\ stage[u] = "dcommit"
      BY <1>1, <1>2, <2>2, <3>2
    <3>3. QED
      BY <3>1, <3>2 DEF GoneIsOnRecord
  <2>3. QED
    BY <2>1, <2>2
<1>6. RestoredIsPresent'
  <2> SUFFICES ASSUME NEW u \in Thread, stage'[u] = "rcommit"
               PROVE  Present(onFile[u])'
    BY DEF RestoredIsPresent
  <2>1. PICK h \in File : h = onFile'[u] /\ h = onFile[u] /\ stage[u] = "rcommit"
    BY <1>0, <1>1, <1>3 DEF ThreadsHaveWork
  <2>2. disk[h] # "none" \/ Held(h)
    BY <2>1 DEF RestoredIsPresent, Present
  <2>3. disk'[h] # "none" \/ Held(h)'
    BY <1>3, <1>4, <2>2
  <2>4. QED
    BY <2>1, <2>3 DEF Present, Held
<1>7. QED
  BY <1>5, <1>6

LEMMA RecordStep ==
    ASSUME ~MayCrash, ~MayFail, OneRequest, RecordIInv, [Next]_vars
    PROVE  GoneIsOnRecord' /\ RestoredIsPresent'
<1>0. /\ VaultInvariant /\ TypeOK /\ ThreadsHaveWork /\ GoneIsOnRecord /\ RestoredIsPresent
      /\ Request \subseteq Thread /\ Watcher \in Thread
  BY ThreadFacts DEF RecordIInv, VaultInvariant
<1>1. \A t \in Thread : stage[t] = "rcommit" => onFile[t] \in File
  BY <1>0 DEF ThreadsHaveWork
<1> USE DEF itemVars, threadVars
<1>2. ASSUME NEW f \in File, FileStep(f) PROVE GoneIsOnRecord' /\ RestoredIsPresent'
  <2>1. /\ vault' = vault /\ origin' = origin /\ status' = status
        /\ \A g \in File : disk[g] # "none" => disk'[g] # "none"
    BY <1>0, <1>2
    DEF FileStep, BeginWrite, EndWrite, StoreUpload, ScanUpload, UploadFails, Rescan, Notice,
        TypeOK
  <2>2. \A t \in Thread : stage[t] \in {"rcommit", "dcommit"} \/ stage'[t] \in {"rcommit", "dcommit"} =>
            stage'[t] = stage[t] /\ onFile'[t] = onFile[t]
    BY <1>0, <1>2
    DEF FileStep, BeginWrite, EndWrite, StoreUpload, ScanUpload, UploadFails, Rescan, Notice,
        Goto, TypeOK
  <2>3. QED
    BY <1>0, <1>1, <2>1, <2>2, NothingGoneStep
<1>3. CASE Wake \/ WatchScan \/ WatchFails
  <2>1. /\ vault' = vault /\ origin' = origin /\ status' = status /\ disk' = disk
        /\ \A t \in Thread : stage[t] \in {"rcommit", "dcommit"} \/ stage'[t] \in {"rcommit", "dcommit"} =>
               stage'[t] = stage[t] /\ onFile'[t] = onFile[t]
    BY <1>0, <1>3 DEF Wake, WatchScan, AfterWatchScan, WatchFails, Return, Goto, TypeOK
  <2>2. QED
    BY <1>0, <1>1, <2>1, NothingGoneStep
<1>4. ASSUME NEW r \in Request,
             \/ \E f \in File : BeginQuarantine(r, f)
             \/ \E i \in Item : BeginRestore(r, i) \/ BeginDelete(r, i)
      PROVE  GoneIsOnRecord' /\ RestoredIsPresent'
  <2>1. /\ vault' = vault /\ origin' = origin /\ status' = status /\ disk' = disk
        /\ \A t \in Thread : stage[t] \in {"rcommit", "dcommit"} \/ stage'[t] \in {"rcommit", "dcommit"} =>
               stage'[t] = stage[t] /\ onFile'[t] = onFile[t]
    BY <1>0, <1>4 DEF BeginQuarantine, BeginRestore, BeginDelete, Goto, TypeOK
  <2>2. QED
    BY <1>0, <1>1, <2>1, NothingGoneStep
<1>5. ASSUME NEW r \in Request, NEW i \in Item, RestoreMissing(r, i)
      PROVE  GoneIsOnRecord' /\ RestoredIsPresent'
  <2>1. /\ vault' = vault /\ origin' = origin /\ disk' = disk /\ stage' = stage
        /\ onFile' = onFile
        /\ \A j \in Item : status[j] \in {"deleted", "missing"} =>
               status'[j] \in {"deleted", "missing"}
    BY <1>0, <1>5 DEF RestoreMissing, TypeOK
  <2>2. QED
    BY <1>0, <1>1, <2>1, NothingGoneStep
<1>6. ASSUME NEW r \in Request,
             RestoreMove(r) \/ RestoreCommit(r) \/ DeleteFiles(r) \/ DeleteCommit(r)
      PROVE  GoneIsOnRecord' /\ RestoredIsPresent'
  BY <1>0, <1>6, GivenBackStep, RestoredStep, DestroyedStep, DeletedStep
<1>7. ASSUME NEW t \in Thread, QuarantineMove(t) PROVE GoneIsOnRecord' /\ RestoredIsPresent'
  BY <1>0, <1>7, TakenStep
<1>8. ASSUME NEW t \in Thread, QuarantineCommit(t) PROVE GoneIsOnRecord' /\ RestoredIsPresent'
  <2>1. /\ vault' = vault /\ origin' = origin /\ disk' = disk
        /\ \A j \in Item : status[j] \in {"deleted", "missing"} =>
               status'[j] \in {"deleted", "missing"}
    BY <1>0, <1>8 DEF QuarantineCommit, TypeOK, ThreadsHaveWork
  <2>2. \A u \in Thread : stage[u] \in {"rcommit", "dcommit"} \/ stage'[u] \in {"rcommit", "dcommit"} =>
            stage'[u] = stage[u] /\ onFile'[u] = onFile[u]
    BY <1>0, <1>8 DEF QuarantineCommit, Return, Goto, TypeOK
  <2>3. QED
    BY <1>0, <1>1, <2>1, <2>2, NothingGoneStep
<1>9. CASE UNCHANGED vars
  BY <1>0, <1>1, <1>9, NothingGoneStep DEF vars
<1>10. QED
  BY <1>2, <1>3, <1>4, <1>5, <1>6, <1>7, <1>8, <1>9
  DEF Next, RequestStep, ThreadStep, CommitFails, Crash

\* As long as requests come one at a time, nothing is killed and commits succeed: a
\* file that is nowhere is listed as deleted or missing, whatever the watchdog does
\* meanwhile (quarantine_service.py:88-150).
THEOREM LossesAreOnRecord ==
    ASSUME ~MayCrash, ~MayFail, OneRequest
    PROVE  Spec => []GoneIsOnRecord
<1>1. Init => RecordIInv
  <2> SUFFICES ASSUME Init PROVE RecordIInv
    OBVIOUS
  <2>1. \A f \in File : ~EverHeld(f)
    BY VaultAssumption DEF Init, EverHeld, VaultAssumption
  <2>2. GoneIsOnRecord
    BY <2>1 DEF GoneIsOnRecord
  <2>3. RestoredIsPresent
    BY DEF Init, RestoredIsPresent
  <2>4. QED
    BY <2>2, <2>3, InitInvariant DEF RecordIInv
<1>2. RecordIInv /\ [Next]_vars => RecordIInv'
  BY InvariantStep, RecordStep DEF RecordIInv
<1>3. RecordIInv => GoneIsOnRecord
  BY DEF RecordIInv
<1>4. QED
  BY <1>1, <1>2, <1>3, PTL DEF Spec

-----------------------------------------------------------------------------
(* No upload is missed.                                                    *)

\* The watchdog will come to f, or is at work on it.
InHand(f) ==
    \/ f \in events \ processed
    \/ onFile[Watcher] = f /\ stage[Watcher] \in {"wait", "scan", "qmove"}

\* A malicious or suspicious upload is in the watchdog's hands until it is in
\* quarantine.
NoUploadIsMissed ==
    \A f \in Upload \cap Bad : disk[f] # "none" /\ ~EverHeld(f) => InHand(f)

\* The watchdog knows of files that are or were there only; what it scans is
\* complete; and an upload is complete when its handler goes on.
WatchdogIsCurrent ==
    /\ \A f \in events \cup processed : disk[f] # "none" \/ EverHeld(f)
    /\ \A f \in Upload : disk[f] = "writing" => up[f] = "write"
    /\ stage[Watcher] \in {"scan", "qmove"} =>
           disk[onFile[Watcher]] = "whole" \/ EverHeld(onFile[Watcher])

WatchIInv == VaultInvariant /\ NoUploadIsMissed /\ WatchdogIsCurrent

Handling == {"wait", "scan", "qmove"}

\* Origins are never forgotten.
LEMMA OriginStands ==
    ASSUME TypeOK, [Next]_vars, NEW i \in Item, origin[i] # NoFile
    PROVE  origin'[i] = origin[i]
<1>1. ASSUME NEW t \in Thread, QuarantineMove(t)
      PROVE  origin'[i] = origin[i]
  <2>1. CASE disk[onFile[t]] = "none"
    BY <1>1, <2>1 DEF QuarantineMove
  <2>2. CASE disk[onFile[t]] # "none"
    <3>1. PICK j \in Item : /\ origin[j] = NoFile
                            /\ origin' = [origin EXCEPT ![j] = onFile[t]]
      BY <1>1, <2>2 DEF QuarantineMove
    <3>2. QED
      BY <3>1 DEF TypeOK
  <2>3. QED
    BY <2>1, <2>2
<1>2. CASE UNCHANGED origin
  BY <1>2
<1>3. ASSUME NEW f \in File, FileStep(f)
      PROVE  UNCHANGED origin
  BY <1>3 DEF FileStep, BeginWrite, EndWrite, StoreUpload, ScanUpload, UploadFails,
              Rescan, Notice, itemVars
<1>4. ASSUME NEW r \in Request, RequestStep(r)
      PROVE  UNCHANGED origin
  BY <1>4 DEF RequestStep, BeginQuarantine, BeginRestore, RestoreMissing, BeginDelete,
              RestoreMove, RestoreCommit, DeleteFiles, DeleteCommit, itemVars
<1>5. Wake \/ WatchScan \/ WatchFails \/ Crash \/ UNCHANGED vars => UNCHANGED origin
  BY DEF Wake, WatchScan, WatchFails, Crash, itemVars, vars
<1>6. \A t \in Thread : QuarantineCommit(t) \/ CommitFails(t) => UNCHANGED origin
  BY DEF QuarantineCommit, CommitFails
<1>7. QED
  BY <1>1, <1>2, <1>3, <1>4, <1>5, <1>6 DEF Next, ThreadStep

\* A step that changes the folder only where a file is or was in quarantine, and
\* takes the watchdog off a path only when that is so, misses nothing.
LEMMA NothingMissed ==
    ASSUME VaultInvariant, NoUploadIsMissed, WatchdogIsCurrent,
           \A i \in Item : origin[i] # NoFile => origin'[i] = origin[i],
           \A f \in File : \/ disk'[f] = disk[f]
                           \/ disk'[f] # "writing" /\ \E i \in Item : origin'[i] = f,
           \A f \in Upload : up[f] = "write" => up'[f] = "write",
           events \subseteq events',
           \A f \in events' \ events : \E i \in Item : origin'[i] = f,
           TypeOK',
           processed' = processed,
           \/ stage'[Watcher] = stage[Watcher] /\ onFile'[Watcher] = onFile[Watcher]
           \/ /\ stage'[Watcher] \notin Handling
              /\ stage[Watcher] \in Handling =>
                    \E i \in Item : origin'[i] = onFile[Watcher]
    PROVE  NoUploadIsMissed' /\ WatchdogIsCurrent'
<1>1. \A f \in File : (\E i \in Item : origin[i] = f) => \E i \in Item : origin'[i] = f
  BY VaultAssumption DEF VaultAssumption
<1>2. TypeOK /\ ThreadsHaveWork
  BY DEF VaultInvariant
<1>3. ASSUME NEW f \in Upload \cap Bad, disk'[f] # "none",
             ~\E i \in Item : origin'[i] = f
      PROVE  InHand(f)'
  <2>1. f \in File /\ InHand(f)
    BY <1>1, <1>3, VaultAssumption DEF VaultAssumption, NoUploadIsMissed, EverHeld
  <2>2. CASE f \in events \ processed
    BY <2>2 DEF InHand
  <2>3. CASE onFile[Watcher] = f /\ stage[Watcher] \in Handling
    BY <1>3, <2>3 DEF InHand, Handling
  <2>4. QED
    BY <2>1, <2>2, <2>3 DEF InHand, Handling
<1>4. NoUploadIsMissed'
  BY <1>3 DEF NoUploadIsMissed, EverHeld
<1>5. ASSUME NEW f \in events' \cup processed'
      PROVE  disk'[f] # "none" \/ \E i \in Item : origin'[i] = f
  <2>1. f \in File
    BY <1>5 DEF TypeOK
  <2>2. CASE f \in events' \ events
    BY <2>2
  <2>3. CASE f \in events \cup processed
    BY <1>1, <2>1, <2>3 DEF WatchdogIsCurrent, EverHeld
  <2>4. QED
    BY <1>5, <2>2, <2>3
<1>6. ASSUME NEW f \in Upload, disk'[f] = "writing"
      PROVE  up'[f] = "write"
  BY <1>6, VaultAssumption DEF VaultAssumption, WatchdogIsCurrent
<1>7. ASSUME stage'[Watcher] \in {"scan", "qmove"}
      PROVE  \/ disk'[onFile'[Watcher]] = "whole"
             \/ \E i \in Item : origin'[i] = onFile'[Watcher]
  <2>1. stage'[Watcher] = stage[Watcher] /\ onFile'[Watcher] = onFile[Watcher]
    BY <1>7 DEF Handling
  <2>2. onFile[Watcher] \in File
    BY <1>2, <1>7, <2>1, ThreadFacts DEF ThreadsHaveWork
  <2>3. disk[onFile[Watcher]] = "whole" \/ \E i \in Item : origin[i] = onFile[Watcher]
    BY <1>7, <2>1 DEF WatchdogIsCurrent, EverHeld
  <2>4. QED
    BY <1>1, <2>1, <2>2, <2>3
<1>8. WatchdogIsCurrent'
  BY <1>5, <1>6, <1>7 DEF WatchdogIsCurrent, EverHeld
<1>9. QED
  BY <1>4, <1>8

LEMMA FileAppears ==
    ASSUME VaultInvariant, NoUploadIsMissed, WatchdogIsCurrent, TypeOK',
           NEW f \in File, BeginWrite(f) \/ EndWrite(f)
    PROVE  NoUploadIsMissed' /\ WatchdogIsCurrent'
<1> USE VaultAssumption DEF VaultAssumption
<1>0. TypeOK /\ ThreadsHaveWork
  BY DEF VaultInvariant
<1>1. /\ UNCHANGED <<origin, processed, stage, onFile>>
      /\ \A g \in File \ {f} : disk'[g] = disk[g]
      /\ \A g \in File \ {f} : up'[g] = up[g]
      /\ events' = events \cup {f}
      /\ disk'[f] = "writing" => disk[f] = "none" /\ ~EverHeld(f)
      /\ f \in Upload /\ disk'[f] = "writing" => up'[f] = "write"
      /\ disk'[f] \in {"writing", "whole"}
      /\ disk'[f] = "whole" => disk[f] = "writing"
  BY <1>0 DEF BeginWrite, EndWrite, TypeOK, itemVars, threadVars
<1>2. EverHeld(f) <=> \E i \in Item : origin'[i] = f
  BY <1>1 DEF EverHeld
<1>3. disk'[f] = "writing" => f \notin processed
  BY <1>1 DEF WatchdogIsCurrent
<1>4. ASSUME NEW g \in Upload \cap Bad, disk'[g] # "none",
             ~\E i \in Item : origin'[i] = g
      PROVE  InHand(g)'
  <2>1. CASE g = f /\ disk'[f] = "writing"
    BY <1>1, <1>3, <2>1 DEF InHand
  <2>2. CASE g # f \/ disk'[f] = "whole"
    <3>1. InHand(g)
      BY <1>1, <1>4, <2>2 DEF NoUploadIsMissed, EverHeld
    <3>2. QED
      BY <1>1, <3>1 DEF InHand
  <2>3. QED
    BY <1>1, <2>1, <2>2
<1>5. NoUploadIsMissed'
  BY <1>4 DEF NoUploadIsMissed, EverHeld
<1>6. \A g \in events' \cup processed' : disk'[g] # "none" \/ \E i \in Item : origin'[i] = g
  BY <1>0, <1>1 DEF WatchdogIsCurrent, EverHeld, TypeOK
<1>7. \A g \in Upload : disk'[g] = "writing" => up'[g] = "write"
  BY <1>1 DEF WatchdogIsCurrent
<1>8. stage'[Watcher] \in {"scan", "qmove"} =>
          \/ disk'[onFile'[Watcher]] = "whole"
          \/ \E i \in Item : origin'[i] = onFile'[Watcher]
  <2> HAVE stage'[Watcher] \in {"scan", "qmove"}
  <2>1. stage[Watcher] \in {"scan", "qmove"} /\ onFile'[Watcher] = onFile[Watcher]
    BY <1>1
  <2>2. onFile[Watcher] \in File
    BY <1>0, <2>1, ThreadFacts DEF ThreadsHaveWork
  <2>3. disk[onFile[Watcher]] = "whole" \/ EverHeld(onFile[Watcher])
    BY <2>1 DEF WatchdogIsCurrent
  <2>4. QED
    BY <1>1, <2>1, <2>2, <2>3 DEF EverHeld
<1>9. WatchdogIsCurrent'
  BY <1>6, <1>7, <1>8 DEF WatchdogIsCurrent, EverHeld
<1>10. QED
  BY <1>5, <1>9

LEMMA WatchdogLooks ==
    ASSUME VaultInvariant, NoUploadIsMissed, WatchdogIsCurrent, TypeOK',
           \/ \E f \in File : Notice(f)
           \/ Wake
           \/ WatchScan
    PROVE  NoUploadIsMissed' /\ WatchdogIsCurrent'
<1> USE VaultAssumption, ThreadFacts DEF VaultAssumption
<1>0. TypeOK /\ ThreadsHaveWork
  BY DEF VaultInvariant
<1>1. UNCHANGED <<origin, disk, up>>
  BY DEF Notice, Wake, WatchScan, itemVars
<1>2. \A g : EverHeld(g)' <=> EverHeld(g)
  BY <1>1 DEF EverHeld
<1>3. ASSUME NEW g \in Upload \cap Bad, disk[g] # "none", ~EverHeld(g)
      PROVE  InHand(g)'
  <2>0. g \in File /\ InHand(g)
    BY <1>3 DEF NoUploadIsMissed
  <2>1. ASSUME NEW f \in File, Notice(f) PROVE InHand(g)'
    <3>1. g \in events \ processed
      BY <2>0, <2>1 DEF Notice, InHand
    <3>2. CASE g = f
      BY <1>0, <2>1, <3>1, <3>2 DEF Notice, InHand, Goto, TypeOK
    <3>3. CASE g # f
      BY <1>0, <2>1, <3>1, <3>3 DEF Notice, InHand
    <3>4. QED
      BY <3>2, <3>3
  <2>2. ASSUME Wake PROVE InHand(g)'
    <3>1. UNCHANGED <<events, processed>>
      BY <2>2 DEF Wake, watchVars
    <3>2. CASE g = onFile[Watcher]
      <4>1. disk[g] = "whole"
        BY <1>0, <1>3, <2>2, <3>2 DEF Wake, WatchdogIsCurrent, TypeOK
      <4>2. QED
        BY <1>0, <2>2, <3>2, <4>1 DEF Wake, Goto, InHand, TypeOK
    <3>3. CASE g # onFile[Watcher]
      BY <2>0, <3>1, <3>3 DEF InHand
    <3>4. QED
      BY <3>2, <3>3
  <2>3. ASSUME WatchScan PROVE InHand(g)'
    <3>1. UNCHANGED <<events, processed>>
      BY <2>3 DEF WatchScan, watchVars
    <3>2. CASE g = onFile[Watcher]
      <4>1. disk[g] = "whole"
        BY <1>3, <2>3, <3>2 DEF WatchScan, WatchdogIsCurrent
      <4>2. QED
        BY <1>0, <2>3, <3>2, <4>1 DEF WatchScan, AfterWatchScan, Goto, InHand, TypeOK
    <3>3. CASE g # onFile[Watcher]
      BY <2>0, <3>1, <3>3 DEF InHand
    <3>4. QED
      BY <3>2, <3>3
  <2>4. QED
    BY <2>1, <2>2, <2>3
<1>4. NoUploadIsMissed'
  BY <1>1, <1>2, <1>3 DEF NoUploadIsMissed
<1>5. events' \cup processed' \subseteq events \cup processed
  BY DEF Notice, Wake, WatchScan, watchVars
<1>6. stage'[Watcher] \in {"scan", "qmove"} => disk[onFile'[Watcher]] = "whole"
  BY <1>0 DEF Notice, Wake, WatchScan, AfterWatchScan, Return, Goto, TypeOK, threadVars
<1>7. WatchdogIsCurrent'
  BY <1>1, <1>2, <1>5, <1>6 DEF WatchdogIsCurrent
<1>8. QED
  BY <1>4, <1>7

LEMMA MissedStep ==
    ASSUME ~MayCrash, ~MayFail, WatchIInv, [Next]_vars
    PROVE  NoUploadIsMissed' /\ WatchdogIsCurrent'
<1> USE VaultAssumption, ThreadFacts DEF VaultAssumption
<1>0. /\ VaultInvariant /\ NoUploadIsMissed /\ WatchdogIsCurrent
      /\ TypeOK /\ ThreadsHaveWork /\ StagesOfThreads /\ TypeOK'
  BY TypeStep DEF WatchIInv, VaultInvariant
<1>1. \A i \in Item : origin[i] # NoFile => origin'[i] = origin[i]
  BY <1>0, OriginStands
<1>2. ASSUME NEW f \in File, FileStep(f)
      PROVE  NoUploadIsMissed' /\ WatchdogIsCurrent'
  <2>1. CASE BeginWrite(f) \/ EndWrite(f)
    BY <1>0, <2>1, FileAppears
  <2>2. CASE Notice(f)
    BY <1>0, <2>2, WatchdogLooks
  <2>3. CASE StoreUpload(f) \/ ScanUpload(f) \/ UploadFails(f) \/ Rescan(f)
    <3>1. /\ UNCHANGED <<disk, events, processed, stage, onFile>>
          /\ \A g \in File : up[g] = "write" => up'[g] = "write"
      BY <1>0, <2>3 DEF StoreUpload, ScanUpload, UploadFails, Rescan, TypeOK, watchVars, threadVars
    <3>2. QED
      BY <1>0, <1>1, <3>1, NothingMissed
  <2>4. QED
    BY <1>2, <2>1, <2>2, <2>3 DEF FileStep
<1>3. CASE Wake \/ WatchScan
  BY <1>0, <1>3, WatchdogLooks
<1>4. ASSUME NEW r \in Request, RequestStep(r)
      PROVE  NoUploadIsMissed' /\ WatchdogIsCurrent'
  <2>1. r \in Thread /\ r # Watcher
    OBVIOUS
  <2>2. /\ processed' = processed /\ up' = up
        /\ stage'[Watcher] = stage[Watcher] /\ onFile'[Watcher] = onFile[Watcher]
    <3>1. \A s, g, i : Goto(r, s, g, i) =>
              stage'[Watcher] = stage[Watcher] /\ onFile'[Watcher] = onFile[Watcher]
      BY <1>0, <2>1 DEF Goto, TypeOK
    <3>2. CASE \/ \E f \in File : BeginQuarantine(r, f)
               \/ \E i \in Item : BeginRestore(r, i) \/ RestoreMissing(r, i) \/ BeginDelete(r, i)
      BY <3>1, <3>2
      DEF BeginQuarantine, BeginRestore, RestoreMissing, BeginDelete, watchVars, threadVars
    <3>3. CASE RestoreMove(r) \/ RestoreCommit(r) \/ DeleteFiles(r) \/ DeleteCommit(r)
      BY <3>1, <3>3
      DEF RestoreMove, RestoreCommit, DeleteFiles, DeleteCommit, Return, watchVars
    <3>4. QED
      BY <1>4, <3>2, <3>3 DEF RequestStep
  <2>3. CASE RestoreMove(r) \/ DeleteFiles(r)
    <3>1. PICK h \in File : h = onFile[r] /\ \E i \in Item : origin[i] = h
      BY <1>0, <2>1, <2>3 DEF RestoreMove, DeleteFiles, ThreadsHaveWork, ItemStage
    <3>2. \E i \in Item : origin'[i] = h
      BY <1>1, <3>1
    <3>3. /\ \A f \in File \ {h} : disk'[f] = disk[f]
          /\ disk'[h] = disk[h] \/ disk'[h] # "writing"
          /\ events \subseteq events' /\ events' \subseteq events \cup {h}
      BY <1>0, <2>3, <3>1 DEF RestoreMove, DeleteFiles, TypeOK, watchVars
    <3>4. QED
      BY <1>0, <1>1, <2>2, <3>2, <3>3, NothingMissed
  <2>4. CASE ~(RestoreMove(r) \/ DeleteFiles(r))
    <3>1. UNCHANGED <<disk, events>>
      BY <1>4, <2>4
      DEF RequestStep, BeginQuarantine, BeginRestore, RestoreMissing, BeginDelete,
          RestoreCommit, DeleteCommit, watchVars
    <3>2. QED
      BY <1>0, <1>1, <2>2, <3>1, NothingMissed
  <2>5. QED
    BY <2>3, <2>4
<1>5. ASSUME NEW t \in Thread, QuarantineMove(t)
      PROVE  NoUploadIsMissed' /\ WatchdogIsCurrent'
  <2>1. PICK h \in File : h = onFile[t]
    BY <1>0, <1>5 DEF QuarantineMove, ThreadsHaveWork
  <2>2. UNCHANGED <<events, processed, up>>
    BY <1>5 DEF QuarantineMove, watchVars
  <2>3. /\ t # Watcher => stage'[Watcher] = stage[Watcher] /\ onFile'[Watcher] = onFile[Watcher]
        /\ t = Watcher => stage'[Watcher] \notin Handling
    BY <1>0, <1>5 DEF QuarantineMove, Return, Goto, TypeOK, Handling
  <2>4. CASE disk[h] = "none"
    <3>1. disk' = disk
      BY <1>5, <2>1, <2>4 DEF QuarantineMove
    <3>2. t = Watcher => \E i \in Item : origin[i] = h
      BY <1>0, <1>5, <2>1, <2>4 DEF QuarantineMove, WatchdogIsCurrent, EverHeld
    <3>3. t = Watcher => \E i \in Item : origin'[i] = onFile[Watcher]
      BY <1>1, <2>1, <3>2
    <3>4. QED
      BY <1>0, <1>1, <2>2, <2>3, <3>1, <3>3, NothingMissed
  <2>5. CASE disk[h] # "none"
    <3>1. PICK i \in Item : disk' = Vacate(h) /\ origin' = [origin EXCEPT ![i] = h]
      BY <1>5, <2>1, <2>5 DEF QuarantineMove
    <3>2. \E j \in Item : origin'[j] = h
      BY <1>0, <3>1 DEF TypeOK
    <3>3. \A f \in File : disk'[f] = disk[f] \/ (disk'[f] # "writing" /\ \E j \in Item : origin'[j] = f)
      <4>1. \A f \in File : f # h => disk'[f] = disk[f]
        BY <1>0, <3>1 DEF Vacate, TypeOK
      <4>2. disk'[h] # "writing"
        BY <1>0, <2>1, <3>1 DEF Vacate, TypeOK
      <4>3. ASSUME NEW f \in File
            PROVE  disk'[f] = disk[f] \/ (disk'[f] # "writing" /\ \E j \in Item : origin'[j] = f)
        <5>1. CASE f = h
          BY <3>2, <4>2, <5>1
        <5>2. CASE f # h
          BY <4>1, <5>2
        <5>3. QED
          BY <5>1, <5>2
      <4>4. QED
        BY <4>3
    <3>4. t = Watcher => \E j \in Item : origin'[j] = onFile[Watcher]
      BY <2>1, <3>2
    <3>5. QED
      BY <1>0, <1>1, <2>2, <2>3, <3>3, <3>4, NothingMissed
  <2>6. QED
    BY <2>4, <2>5
<1>6. ASSUME NEW t \in Thread, QuarantineCommit(t) \/ CommitFails(t)
      PROVE  NoUploadIsMissed' /\ WatchdogIsCurrent'
  <2>1. UNCHANGED <<disk, events, processed, up>>
    BY <1>6 DEF QuarantineCommit, CommitFails, watchVars
  <2>2. /\ t # Watcher => stage'[Watcher] = stage[Watcher] /\ onFile'[Watcher] = onFile[Watcher]
        /\ t = Watcher => stage[Watcher] \notin Handling /\ stage'[Watcher] \notin Handling
    BY <1>0, <1>6 DEF QuarantineCommit, CommitFails, Return, Goto, TypeOK, Handling
  <2>3. QED
    BY <1>0, <1>1, <2>1, <2>2, NothingMissed
<1>7. CASE UNCHANGED vars
  BY <1>0, <1>1, <1>7, NothingMissed DEF vars
<1>8. QED
  BY <1>2, <1>3, <1>4, <1>5, <1>6, <1>7 DEF Next, ThreadStep, WatchFails, Crash

\* As long as nothing is killed and commits succeed, whatever requests overlap: a malicious or
\* suspicious upload in the folder that was never in quarantine has an event the watchdog will
\* serve, or the watchdog is at work on it; no order of events, of the set of processed paths
\* and of the one-second wait lets it slip (folder_monitor.py:64-221).  A commit of the watchdog
\* that fails does (WatchFails): the path stays processed, and no later event is served.
THEOREM UploadsAreNeverMissed ==
    ASSUME ~MayCrash, ~MayFail
    PROVE  Spec => []NoUploadIsMissed
<1>1. Init => WatchIInv
  <2> SUFFICES ASSUME Init PROVE WatchIInv
    OBVIOUS
  <2>1. NoUploadIsMissed
    BY VaultAssumption DEF Init, NoUploadIsMissed, VaultAssumption
  <2>2. WatchdogIsCurrent
    BY VaultAssumption, ThreadFacts DEF Init, WatchdogIsCurrent, VaultAssumption
  <2>3. QED
    BY <2>1, <2>2, InitInvariant DEF WatchIInv
<1>2. WatchIInv /\ [Next]_vars => WatchIInv'
  BY InvariantStep, MissedStep DEF WatchIInv
<1>3. WatchIInv => NoUploadIsMissed
  BY DEF WatchIInv
<1>4. QED
  BY <1>1, <1>2, <1>3, PTL DEF Spec
=============================================================================
