----------------------------- MODULE FileVault -----------------------------
(***************************************************************************)
(* One watched folder and the quarantine directory beside it: uploads      *)
(* (routes/files.py), the watchdog thread (folder_monitor.py) and the      *)
(* quarantine requests (routes/quarantine.py over quarantine_service.py).  *)
(*                                                                         *)
(* A quarantine moves the file first and records it in the database        *)
(* afterwards, so each operation is at least two steps and the threads     *)
(* meet in between.  Requests are served by the thread pool; an upload is  *)
(* an async handler that does not yield from its first write to its last   *)
(* commit, so while one is under way no other request begins.  Watchdog    *)
(* calls its handler from a single thread.                                 *)
(*                                                                         *)
(* Every upload gets a path of its own (a uuid), so a path is written      *)
(* once.  Vault files have unique names too: Item stands for both the name *)
(* in the quarantine directory and the row of quarantine_items.            *)
(***************************************************************************)
EXTENDS Naturals

CONSTANTS
    File,        \* paths in the watched folder
    Upload,      \* those written by upload_files; other programs write the rest
    Bad,         \* files whose analysis says malicious or suspicious
    Item,        \* names in quarantine: bounds how often files are quarantined
    Request,     \* requests that may be in progress at once
    Watcher,     \* the watchdog thread
    NoFile,
    NoItem,
    MayCrash,    \* whether the process may be killed
    MayFail      \* whether a commit may fail (database locked)

ASSUME VaultAssumption ==
    /\ Upload \subseteq File
    /\ Bad \subseteq File
    /\ Watcher \notin Request
    /\ NoFile \notin File
    /\ NoItem \notin Item
    /\ MayCrash \in BOOLEAN
    /\ MayFail \in BOOLEAN

Thread == Request \cup {Watcher}

VARIABLES
    disk,        \* what the folder holds under each path
    vault,       \* files present in the quarantine directory
    origin,      \* the path a quarantined file came from
    status,      \* status of its quarantine_items row, "none" without a row
    owned,       \* items with a user_id
    rows,        \* File rows: <<path, "user">> or <<path, "monitor">>
    first,       \* the one with the lowest id, which .first() returns
    flagged,     \* rows with is_quarantined
    scanned,     \* rows with a Scan
    up,          \* progress of each upload
    events,      \* watchdog events not handled yet
    processed,   \* processed_files of the handler
    stage,       \* where each thread stands
    onFile,      \* the path it works on
    onItem       \* the item it works on

vars == <<disk, vault, origin, status, owned, rows, first, flagged, scanned,
          up, events, processed, stage, onFile, onItem>>

threadVars == <<stage, onFile, onItem>>
itemVars   == <<vault, origin, status, owned>>
rowVars    == <<rows, first, flagged, scanned>>
watchVars  == <<events, processed>>

Writer == {"user", "monitor"}
Status == {"none", "quarantined", "restored", "missing", "deleted"}
Stage  == {"idle", "wait", "scan", "qmove", "qcommit", "rmove", "rcommit",
           "dfiles", "dcommit"}
ItemStage == {"qcommit", "rmove", "rcommit", "dfiles", "dcommit"}
UploadStage == {"new", "write", "store", "scan", "done", "failed"}
UploadBusy  == {"write", "store", "scan"}

TypeOK ==
    /\ disk \in [File -> {"none", "writing", "whole"}]
    /\ vault \subseteq Item
    /\ origin \in [Item -> File \cup {NoFile}]
    /\ status \in [Item -> Status]
    /\ owned \subseteq Item
    /\ rows \subseteq File \X Writer
    /\ first \in [File -> Writer \cup {"none"}]
    /\ flagged \subseteq File \X Writer
    /\ scanned \subseteq File \X Writer
    /\ up \in [File -> UploadStage]
    /\ events \subseteq File
    /\ processed \subseteq File
    /\ stage \in [Thread -> Stage]
    /\ onFile \in [Thread -> File \cup {NoFile}]
    /\ onItem \in [Thread -> Item \cup {NoItem}]

\* The event loop dispatches requests only while no upload occupies it.
LoopFree == \A f \in File : up[f] \notin UploadBusy

Held(f) == \E i \in vault : origin[i] = f
EverHeld(f) == \E i \in Item : origin[i] = f

-----------------------------------------------------------------------------
Init ==
    /\ disk = [f \in File |-> "none"]
    /\ vault = {}
    /\ origin = [i \in Item |-> NoFile]
    /\ status = [i \in Item |-> "none"]
    /\ owned = {}
    /\ rows = {}
    /\ first = [f \in File |-> "none"]
    /\ flagged = {}
    /\ scanned = {}
    /\ up = [f \in File |-> "new"]
    /\ events = {}
    /\ processed = {}
    /\ stage = [t \in Thread |-> "idle"]
    /\ onFile = [t \in Thread |-> NoFile]
    /\ onItem = [t \in Thread |-> NoItem]

Goto(t, s, f, i) ==
    /\ stage' = [stage EXCEPT ![t] = s]
    /\ onFile' = [onFile EXCEPT ![t] = f]
    /\ onItem' = [onItem EXCEPT ![t] = i]

Return(t) == Goto(t, "idle", NoFile, NoItem)

\* A File row is inserted; the first one of a path keeps the lowest id.
InsertRow(f, w) ==
    /\ rows' = rows \cup {<<f, w>>}
    /\ first' = [first EXCEPT ![f] = IF @ = "none" THEN w ELSE @]

-----------------------------------------------------------------------------
(* Files appear in the folder.                                             *)

\* A file is opened for writing, by upload_files or by another program.
BeginWrite(f) ==
    /\ disk[f] = "none"
    /\ ~EverHeld(f)
    /\ f \in Upload => up[f] = "new" /\ LoopFree
    /\ disk' = [disk EXCEPT ![f] = "writing"]
    /\ events' = events \cup {f}
    /\ up' = IF f \in Upload THEN [up EXCEPT ![f] = "write"] ELSE up
    /\ UNCHANGED <<itemVars, rowVars, processed, threadVars>>

\* Its content is complete.
EndWrite(f) ==
    /\ disk[f] = "writing"
    /\ f \in Upload => up[f] = "write"
    /\ disk' = [disk EXCEPT ![f] = "whole"]
    /\ events' = events \cup {f}
    /\ up' = IF f \in Upload THEN [up EXCEPT ![f] = "store"] ELSE up
    /\ UNCHANGED <<itemVars, rowVars, processed, threadVars>>

\* upload_files hashes the file and commits its row.
StoreUpload(f) ==
    /\ up[f] = "store"
    /\ disk[f] = "whole"
    /\ InsertRow(f, "user")
    /\ up' = [up EXCEPT ![f] = "scan"]
    /\ UNCHANGED <<disk, itemVars, flagged, scanned, watchVars, threadVars>>

\* The VirusTotal lookup and the analysis are over: the Scan is committed,
\* with the audit entry and the alert.
ScanUpload(f) ==
    /\ up[f] = "scan"
    /\ disk[f] = "whole"
    /\ scanned' = scanned \cup {<<f, "user">>}
    /\ up' = [up EXCEPT ![f] = "done"]
    /\ UNCHANGED <<disk, itemVars, rows, first, flagged, watchVars, threadVars>>

\* The file is gone when it is to be read, or a commit fails: the handler
\* rolls back and answers with an error for this file.
UploadFails(f) ==
    /\ up[f] \in {"store", "scan"}
    /\ disk[f] # "whole" \/ MayFail
    /\ up' = [up EXCEPT ![f] = "failed"]
    /\ UNCHANGED <<disk, itemVars, rowVars, watchVars, threadVars>>

\* POST /scan/{file_id}: 404 unless the file is on disk.
Rescan(f) ==
    /\ LoopFree
    /\ <<f, "user">> \in rows
    /\ disk[f] = "whole"
    /\ scanned' = scanned \cup {<<f, "user">>}
    /\ UNCHANGED <<disk, itemVars, rows, first, flagged, up, watchVars, threadVars>>

-----------------------------------------------------------------------------
(* The watchdog thread.                                                    *)

\* _process_file: a path is handled once in the life of the handler.
Notice(f) ==
    /\ stage[Watcher] = "idle"
    /\ f \in events
    /\ events' = events \ {f}
    /\ IF f \in processed
       THEN UNCHANGED <<processed, threadVars>>
       ELSE /\ processed' = processed \cup {f}
            /\ Goto(Watcher, "wait", f, NoItem)
    /\ UNCHANGED <<disk, itemVars, rowVars, up>>

\* One second later: a missing or an empty file is dropped, any other gets a
\* File row without uploader.  The write of an upload is over by then.
Wake ==
    /\ stage[Watcher] = "wait"
    /\ LET f == onFile[Watcher] IN
       /\ up[f] # "write"
       /\ IF disk[f] = "whole"
          THEN InsertRow(f, "monitor") /\ Goto(Watcher, "scan", f, NoItem)
          ELSE Return(Watcher) /\ UNCHANGED <<rows, first>>
    /\ UNCHANGED <<disk, itemVars, flagged, scanned, up, watchVars>>

\* Mutant: a verdict other than "clean" ends the handling.
AfterWatchScan_Never(f) == Return(Watcher)

\* Threats go to quarantine, for _auto_quarantine is on.
AfterWatchScan(f) ==
    IF f \in Bad THEN Goto(Watcher, "qmove", f, NoItem) ELSE Return(Watcher)

\* The analysis and its Scan row; it fails when the file is gone.
WatchScan ==
    /\ stage[Watcher] = "scan"
    /\ LET f == onFile[Watcher] IN
       IF disk[f] = "whole"
       THEN scanned' = scanned \cup {<<f, "monitor">>} /\ AfterWatchScan(f)
       ELSE Return(Watcher) /\ UNCHANGED scanned
    /\ UNCHANGED <<disk, itemVars, rows, first, flagged, up, watchVars>>

\* A commit of its own fails: that of the File row, that of the Scan, or that
\* of a threat's alert, which follows the committed Scan.  The handler rolls
\* back and returns, and the path stays processed.
WatchFails ==
    /\ MayFail
    /\ LET f == onFile[Watcher] IN
       /\ \/ stage[Watcher] = "wait" /\ up[f] # "write" /\ UNCHANGED scanned
          \/ stage[Watcher] = "scan" /\ UNCHANGED scanned
          \/ /\ stage[Watcher] = "scan" /\ f \in Bad
             /\ scanned' = scanned \cup {<<f, "monitor">>}
       /\ disk[f] = "whole"
    /\ Return(Watcher)
    /\ UNCHANGED <<disk, itemVars, rows, first, flagged, up, watchVars>>

-----------------------------------------------------------------------------
(* Quarantine, restore and delete.  A request may only touch what belongs  *)
(* to its user (owned_or_forbidden): one user stands for all of them.      *)

\* POST /quarantine/{file_id}
BeginQuarantine(r, f) ==
    /\ stage[r] = "idle"
    /\ LoopFree
    /\ <<f, "user">> \in rows \ flagged
    /\ Goto(r, "qmove", f, NoItem)
    /\ UNCHANGED <<disk, itemVars, rowVars, up, watchVars>>

\* Mutant: the file is copied and stays where it was.
Vacate_Copy(f) == disk

Vacate(f) == [disk EXCEPT ![f] = "none"]

\* quarantine_file moves the file, or finds that it is not there.
QuarantineMove(t) ==
    /\ stage[t] = "qmove"
    /\ LET f == onFile[t] IN
       IF disk[f] = "none"
       THEN Return(t) /\ UNCHANGED <<disk, vault, origin>>
       ELSE \E i \in Item :
               /\ origin[i] = NoFile
               /\ disk' = Vacate(f)
               /\ vault' = vault \cup {i}
               /\ origin' = [origin EXCEPT ![i] = f]
               /\ Goto(t, "qcommit", f, i)
    /\ UNCHANGED <<status, owned, rowVars, up, watchVars>>

\* Its commit: the item refers to the first row of the path and belongs to
\* the caller, or else to whoever that row says uploaded the file.
QuarantineCommit(t) ==
    /\ stage[t] = "qcommit"
    /\ LET f == onFile[t]
           i == onItem[t] IN
       /\ status' = [status EXCEPT ![i] = "quarantined"]
       /\ owned' = IF t \in Request \/ first[f] = "user" THEN owned \cup {i} ELSE owned
       /\ flagged' = flagged \cup {<<f, first[f]>>}
    /\ Return(t)
    /\ UNCHANGED <<disk, vault, origin, rows, first, scanned, up, watchVars>>

\* POST /quarantine/{item_id}/restore, whatever the status of the item.
BeginRestore(r, i) ==
    /\ stage[r] = "idle"
    /\ LoopFree
    /\ i \in owned
    /\ i \in vault
    /\ Goto(r, "rmove", origin[i], i)
    /\ UNCHANGED <<disk, itemVars, rowVars, up, watchVars>>

\* The vault file is not there: the item is marked missing.
RestoreMissing(r, i) ==
    /\ stage[r] = "idle"
    /\ LoopFree
    /\ i \in owned \ vault
    /\ status' = [status EXCEPT ![i] = "missing"]
    /\ UNCHANGED <<disk, vault, origin, owned, rowVars, up, watchVars, threadVars>>

\* The file is moved back, unless it has gone since the check.
RestoreMove(r) ==
    /\ stage[r] = "rmove"
    /\ LET f == onFile[r]
           i == onItem[r] IN
       IF i \in vault
       THEN /\ vault' = vault \ {i}
            /\ disk' = [disk EXCEPT ![f] = "whole"]
            /\ events' = events \cup {f}
            /\ Goto(r, "rcommit", f, i)
       ELSE Return(r) /\ UNCHANGED <<vault, disk, events>>
    /\ UNCHANGED <<origin, status, owned, rowVars, up, processed>>

RestoreCommit(r) ==
    /\ stage[r] = "rcommit"
    /\ status' = [status EXCEPT ![onItem[r]] = "restored"]
    /\ flagged' = flagged \ {<<onFile[r], first[onFile[r]]>>}
    /\ Return(r)
    /\ UNCHANGED <<disk, vault, origin, owned, rows, first, scanned, up, watchVars>>

\* DELETE /quarantine/{item_id}, whatever the status of the item.
BeginDelete(r, i) ==
    /\ stage[r] = "idle"
    /\ LoopFree
    /\ i \in owned
    /\ Goto(r, "dfiles", origin[i], i)
    /\ UNCHANGED <<disk, itemVars, rowVars, up, watchVars>>

\* Mutant: the vault file is not removed.
VaultAfterDelete_Kept(r) == vault

VaultAfterDelete(r) == vault \ {onItem[r]}

\* delete_file removes the vault file and whatever is at the original path.
DeleteFiles(r) ==
    /\ stage[r] = "dfiles"
    /\ vault' = VaultAfterDelete(r)
    /\ disk' = [disk EXCEPT ![onFile[r]] = "none"]
    /\ Goto(r, "dcommit", onFile[r], onItem[r])
    /\ UNCHANGED <<origin, status, owned, rowVars, up, watchVars>>

\* Mutant: a deleted file is listed as restored.
StatusAfterDelete_Restored == "restored"

StatusAfterDelete == "deleted"

DeleteCommit(r) ==
    /\ stage[r] = "dcommit"
    /\ status' = [status EXCEPT ![onItem[r]] = StatusAfterDelete]
    /\ Return(r)
    /\ UNCHANGED <<disk, vault, origin, owned, rowVars, up, watchVars>>

\* Mutant: the rollback of a failed operation empties the vault slot.
VaultAfterRollback_Cleaned(t) == vault \ {onItem[t]}

VaultAfterRollback(t) == vault

\* The commit fails after the files were moved: rollback, and the files stay
\* where they are.
CommitFails(t) ==
    /\ MayFail
    /\ stage[t] \in {"qcommit", "rcommit", "dcommit"}
    /\ vault' = VaultAfterRollback(t)
    /\ Return(t)
    /\ UNCHANGED <<disk, origin, status, owned, rowVars, up, watchVars>>

\* The process is killed and started again: threads, events and the set of
\* processed paths are gone, files and rows stay.
Crash ==
    /\ MayCrash
    /\ stage' = [t \in Thread |-> "idle"]
    /\ onFile' = [t \in Thread |-> NoFile]
    /\ onItem' = [t \in Thread |-> NoItem]
    /\ up' = [f \in File |-> IF up[f] \in UploadBusy THEN "failed" ELSE up[f]]
    /\ events' = {}
    /\ processed' = {}
    /\ UNCHANGED <<disk, itemVars, rowVars>>

FileStep(f) ==
    \/ BeginWrite(f)
    \/ EndWrite(f)
    \/ StoreUpload(f)
    \/ ScanUpload(f)
    \/ UploadFails(f)
    \/ Rescan(f)
    \/ Notice(f)

RequestStep(r) ==
    \/ \E f \in File : BeginQuarantine(r, f)
    \/ \E i \in Item : BeginRestore(r, i) \/ RestoreMissing(r, i) \/ BeginDelete(r, i)
    \/ RestoreMove(r)
    \/ RestoreCommit(r)
    \/ DeleteFiles(r)
    \/ DeleteCommit(r)

ThreadStep(t) ==
    \/ QuarantineMove(t)
    \/ QuarantineCommit(t)
    \/ CommitFails(t)

Next ==
    \/ \E f \in File : FileStep(f)
    \/ Wake
    \/ WatchScan
    \/ WatchFails
    \/ \E r \in Request : RequestStep(r)
    \/ \E t \in Thread : ThreadStep(t)
    \/ Crash

Spec == Init /\ [][Next]_vars

-----------------------------------------------------------------------------
(* Invariants.                                                             *)

\* A file has at most one copy: in the folder, or once in the vault.  The
\* moves of quarantine_file and restore_file never leave two behind, so a
\* restore cannot overwrite anything, whoever interferes.
OneCopy ==
    \A i \in vault :
        /\ disk[origin[i]] = "none"
        /\ \A j \in vault : origin[j] = origin[i] => j = i

\* Every name in quarantine comes from a path, rows and owners included.
ItemsHaveOrigin ==
    \A i \in Item :
        i \in vault \cup owned \/ status[i] # "none" => origin[i] # NoFile

\* quarantine_items.file_id is NOT NULL: whoever is about to quarantine a file
\* finds a File row for its path.
QuarantinesHaveRow ==
    /\ \A f \in File, w \in Writer : <<f, w>> \in rows => first[f] # "none"
    /\ \A t \in Thread :
          stage[t] \in {"scan", "qmove", "qcommit"} => first[onFile[t]] # "none"

\* A thread past its first step works on a path, and on an item of that path.
\* The item of an uncommitted quarantine is its own secret and lies in the
\* vault; a file that was moved back or deleted does not.
ThreadsHaveWork ==
    /\ \A t \in Thread :
          /\ stage[t] # "idle" => onFile[t] \in File
          /\ stage[t] \in ItemStage =>
                onItem[t] \in Item /\ origin[onItem[t]] = onFile[t]
          /\ stage[t] = "qcommit" =>
                /\ status[onItem[t]] = "none"
                /\ onItem[t] \in vault \ owned
          /\ stage[t] \in ItemStage \ {"qcommit"} => onItem[t] \in owned
          /\ stage[t] \in {"rcommit", "dcommit"} => onItem[t] \notin vault
    /\ \A t, u \in Thread :
          stage[t] = "qcommit" /\ stage[u] = "qcommit" /\ onItem[t] = onItem[u] => t = u

\* Only the watchdog waits and scans, and it neither restores nor deletes.
StagesOfThreads ==
    /\ stage[Watcher] \in {"idle", "wait", "scan", "qmove", "qcommit"}
    /\ \A r \in Request : stage[r] \notin {"wait", "scan"}

VaultInvariant ==
    /\ TypeOK
    /\ OneCopy
    /\ ItemsHaveOrigin
    /\ QuarantinesHaveRow
    /\ ThreadsHaveWork
    /\ StagesOfThreads

\* The catalogue agrees with the vault: an item is listed as quarantined
\* exactly while its file is in the quarantine directory, but for operations
\* between their move and their commit.
CatalogueMatchesVault ==
    \A i \in Item :
        (\A t \in Thread : stage[t] \in {"qcommit", "rcommit", "dcommit"} => onItem[t] # i)
            => (status[i] = "quarantined" <=> i \in vault)

\* A file that is nowhere was deleted on request, and some item says that it
\* is gone.
GoneIsOnRecord ==
    \A f \in File :
        (EverHeld(f) /\ disk[f] = "none" /\ ~Held(f)) =>
            \/ \E i \in Item : origin[i] = f /\ status[i] \in {"deleted", "missing"}
            \/ \E t \in Thread : onFile[t] = f /\ stage[t] = "dcommit"

-----------------------------------------------------------------------------
(* Refinement of custody.                                                  *)

place == [f \in File |->
            IF disk[f] # "none" THEN "live"
            ELSE IF Held(f) THEN "held"
            ELSE IF EverHeld(f) THEN "gone" ELSE "absent"]

asked == {onFile[t] : t \in {u \in Thread : stage[u] = "dfiles"}}

Kept == INSTANCE Custody WITH File <- File, place <- place, asked <- asked

\* The vault implements custody: whatever interleaves, is killed or fails to
\* commit, a file is in one place, is destroyed only by the request to delete
\* it, at the moment that request removes the files, and never reappears.
CustodyRefined == Kept!CustodySpec

-----------------------------------------------------------------------------
(* Liveness: no thread stalls, and watchdog's queue serves every event.    *)

FairSpec ==
    /\ Spec
    /\ WF_vars(Wake)
    /\ WF_vars(WatchScan)
    /\ \A t \in Thread :
          WF_vars(QuarantineMove(t)) /\ WF_vars(QuarantineCommit(t))
    /\ \A f \in File :
          /\ WF_vars(EndWrite(f))
          /\ WF_vars(StoreUpload(f) \/ ScanUpload(f) \/ UploadFails(f))
          /\ SF_vars(Notice(f))

\* While commits succeed and nothing is killed, a malicious or suspicious
\* upload does not stay in the folder unseen: after a failed commit of the
\* watchdog nothing looks at the path again.
BadUploadsAreQuarantined ==
    \A f \in Upload \cap Bad : disk[f] = "whole" ~> EverHeld(f)
=============================================================================
