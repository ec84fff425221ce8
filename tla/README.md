# A verification model of the malicious-file detection platform

TLA+ modules, TLC configurations and TLAPS proofs for the backend of this
repository (`backend/app/`), its mail worker (`backend/email_worker.py`) and the
mailbox dashboard (`Email/server/`). Paths below are relative to the repository
root. `PROJECT.json` holds the same inventory in machine-readable form: components,
runs, the source lines behind every definition (`map`), hazards, findings and
theorems.

## 1. The system

The platform is one FastAPI process with background threads, an optional second
process that polls mailboxes, and a separate Node.js program that watches a single
mailbox. They share a SQLite database in WAL mode, an uploads directory, a quarantine
directory and a few JSON files.

| Part | State it keeps | Operations | Modules |
|---|---|---|---|
| Email ingestion (`services/email_monitor_service.py`, `backend/email_worker.py`) | one monitor loop per process, tables `email_monitoring_config`, `email_processed_uids`, `email_records`, `email_attachments`, counters and `connection_status` | poll, list, claim a UID, analyse, persist in one transaction, quarantine attachments, count, notify | `EmailIngest` |
| File vault (`routes/files.py`, `services/folder_monitor.py`, `services/quarantine_service.py`, `routes/quarantine.py`) | uploads and quarantine directories, tables `files`, `scans`, `quarantine_items`, `processed_files` of the watchdog | upload and scan, watchdog scan and auto-quarantine, quarantine, restore, delete, rescan | `FileVault` |
| Dashboard, lifecycle (`Email/server/monitor.js`, `routes.js`) | `state`, `_stop`, `_runPromise`, `_stopPromise`, `client` | start, stop, restart; connect, idle, back off | `MailWatch` |
| Dashboard, synchronisation and store (`monitor.js`, `store.js`) | `_fetching`, `_fetchQueued`, `lastUid`, the list of mails and its file | fetch new UIDs, add, evict, save, load | `MailSync` |
| Dashboard, safety labels (`safety.js`) | none | findings to label | `MailSafety` |
| Bridge (`monitor.js`, `/sync-raw`, `backend/import_email_folder.py`) | `email_records`, `email_processed_uids`, `emails.json` | post, import, claim and store | `MailBridge` |
| Review of mails (`routes/email_security.py`) | `is_quarantined`, `email_quarantine`, `email_alerts` | scan, hold, release, decide on rows, read alerts | `MailReview` |
| Detectors and scores (`scanner/risk_scorer.py`, `email_risk_engine.py`, `url_scanner.py`) | none | additive scores, weights and thresholds | `MailRisk` |
| Zone firewall (`services/firewall_service.py`, `routes/firewall.py`) | zones, rules, blacklist, statistics, log, `backend/system_settings.json` | decide, block, unblock, edit, save in a thread | `Firewall` |
| Logins and accounts (`security/middleware.py`, `routes/auth.py`) | failures and lockouts per address, `users` | check, verify, record, clear, register, reset | `LoginGuard` |
| Sandbox jobs (`routes/sandbox.py`) | `jobs.json`, stored samples | submit, analyse in a thread, delete | `SandboxJobs` |
| Scheduled scans (`services/scheduler_service.py`) | list of jobs, thread handle | add, toggle, remove, run | `Scheduler` |
| Antivirus routes, settings, sockets, shares, telemetry, frontend, legacy backend, tests | see `PROJECT.json` | | none |

### What is hard in it

* **Interleaving.** The in-process monitor thread, the worker process and loops that
  outlived their `stop()` handle the same mailboxes. Uploads, the watchdog thread and
  quarantine requests move the same files. Start, stop and restart requests meet in
  `monitor.js` at every `await`. Request threads share the login tracker, the list
  of scheduled scans, `jobs.json` and the firewall's settings file without a lock.
* **Atomicity.** Files are moved before rows are written; a UID is claimed before its
  mail is stored; a hold is kept in two tables; files and counters are
  read, changed and written back.
* **Failure.** Processes are killed between these steps, commits fail with "database is
  locked" after `busy_timeout`, connections drop, messages fail to parse, files are cut
  short, posts to a backend that is down are lost.
* **Liveness.** What was missed is to be found by the next poll; a stop must
  end a loop that may be connecting, idle or backing off; a due job is to be scanned.

### What makes each modelled part correct

* Ingestion: a mail is analysed by one loop only and never again once stored; a message
  is stored once; a stored mail keeps its claim; counters and announcements speak of
  stored mails only; every message that arrives is stored in the end, unless its own
  processing raises.
* Vault: a file has one copy and is in one place; it is destroyed by a delete only; the
  list of quarantined items is the content of the quarantine directory; a bad upload
  ends in quarantine; a file that is gone is on record as gone.
* Dashboard: the published state is that of the run; the last command decides; every
  call returns; the store keeps order, Message-IDs and count, in memory and on disk, and
  has no gap; everything before a message that cannot be parsed is imported.
* Bridge: a message has one record whichever way it comes; "safe" means determined; no
  import keeps the loop from a mail that is not on record.
* Review and scores: flag and rows of a mail agree; only its owner decides; no threat
  is lost in the weighting.
* Firewall: what passes is permitted, whatever was edited before; counters add up; the
  file ends with what is in force.
* Logins: a lockout comes exactly when it is due; names that differ in spelling alone
  are not both taken.
* Sandbox and scheduler: what was told of a job stays true; every job ends, every due
  scan runs, a removal removes what it was asked to.

Many of these hold only until two requests overlap. Then the module keeps a history
variable (`overlapped`, `spoilt`, `adds`, `removals`) and the property says what the code
promises before an overlap, while an invariant beside it says what survives one. The
hazards, each with its line and the properties that cover it, are in `PROJECT.json`;
those without a property carry a note.

## 2. The modules

| Module | Role |
|---|---|
| `ScanLedger` | abstract: each mail is taken at most once, its outcome is final, one record per Message-ID |
| `EmailIngest`, `EmailIngestMC`, `EmailIngestProofs` | the monitor loops over IMAP, SQLite and quarantine; refines `ScanLedger` |
| `Custody` | abstract: each file is absent, live, held or gone; it is destroyed only while a request to delete it is pending |
| `FileVault`, `FileVaultMC`, `FileVaultProofs` | uploads, watchdog and quarantine requests; refines `Custody` |
| `MailWatch`, `MailWatchMC`, `MailWatchProofs` | start, stop and restart against the dashboard's connection loop |
| `MailSync` | the dashboard's fetches and its store |
| `MailSafety` | operators: the dashboard's label of a mail |
| `MailBridge`, `MailBridgeMC`, `MailBridgeProofs` | composes `MailSync` and `MailSafety` with the backend's database, import and polling loop |
| `MailRisk` | operators: scores of files, attachments, URLs and mails |
| `MailReview`, `MailReviewMC`, `MailReviewProofs` | arrivals assessed by `MailRisk`, and the requests of their owners |
| `Firewall`, `FirewallMC` | decisions, configuration and the saving threads |
| `LoginGuard`, `LoginGuardMC` | the login tracker and the table of users under two request threads |
| `AccessProofs` | proofs about `Firewall` and `LoginGuard`, the two gates |
| `SandboxJobs`, `SandboxJobsMC`, `SandboxJobsProofs` | the job file under submissions, analyses, deletions and kills |
| `Scheduler`, `SchedulerMC`, `SchedulerProofs` | the list of jobs under requests and scheduler threads |

### EmailIngest

A *mail* stands for a (configuration, folder, UID) triple; `MsgIdOf` gives the Message-ID
that copies of a message share, or `NoId`, for which the code makes one up (`MessageId`). A
*monitor* is one running `_monitor_loop`.

* A fetch names the UID alone, in the folder the listing loop ended with (`selected`,
  `LeftSelected`). So a loop has two mails in hand: `cur` is the one it claims, stores and
  counts, `got` the one whose content it was given (`Found`), and `body` says which content a
  record has. With one monitored folder, the default, they are the same.
* `claimed`, `records`, `checked`, `conn` are the rows of `email_processed_uids`,
  committed `email_records`, and the columns `emails_checked` and `connection_status`.
  `vault` and `stray` are the attachments moved to quarantine, and the temporary copies
  left behind when that fails.
* `pc` follows a loop through the code: `BeginPass` (configurations due), `ListMailbox`
  or `ConnectFails`, per mail `Fetch`/`FetchFails`, `Claim`/`ClaimRefused`
  (`_claim_uid`), `OpenTransaction`/`PersistFails` (the flush of the record),
  `ProcessingFails` (any other exception after the claim, of the analysis, a flush or the
  commit, for mails in `Faulty`), `QuarantineAttachment`, `QuarantineBreaks`/`CommitHollow`
  (its handler rolls back the caller's record, and what follows is committed without it), `CommitRecord`, `ReadCounter`, `WriteCounter`, `Notify`, and
  `FinishCheck`. `Stop` lowers the flag, which the loop reads where the code does:
  in the `while` condition and between mails, not between mailboxes.
* `writeLock` is the SQLite write lock. Sessions that commit at once are single steps;
  only the transaction of `_process_new_email` stays open over other work. A writer waits
  for it, and fails only when the holder stalls for the whole `busy_timeout`. That
  happens at one place: `_quarantine_attachment` opens a second session
  inside the open transaction and waits for the lock its own thread holds.
* `Crash` kills a process: the transaction rolls back, files and rows stay.

Bounds: the counters are bounded by the number of mails. Mails are never removed from
the server, and configurations are never edited. Kills are unbounded.

### FileVault

* `disk` is the watched folder, `vault` the quarantine directory, `origin` the path a
  quarantined file came from. An *item* is a name in quarantine and its row; names
  are uuids, so their number bounds how often files are quarantined, and no other counter
  is needed.
* `rows`, `first`, `flagged`, `scanned` are the `files` rows of a path (one by the
  uploader, one by the watchdog), the one `.first()` returns, `is_quarantined`, and the
  rows that have a `scans` row.
* An upload (`up`) goes through `BeginWrite`, `EndWrite`, `StoreUpload`, `ScanUpload`, or
  `UploadFails`. The handler is `async` and never awaits between its first write and its
  last commit, so it occupies the event loop: no request is dispatched meanwhile
  (`LoopFree`), while requests already in the thread pool and the watchdog go on.
* The watchdog goes through `Notice` (`_process_file` up to its sleep), `Wake`,
  `WatchScan`, and then the same `QuarantineMove` and `QuarantineCommit` as a request;
  `WatchFails` is a commit of its own that fails, after which the path stays processed.
* `QuarantineMove`/`QuarantineCommit`, `RestoreMove`/`RestoreCommit` and
  `DeleteFiles`/`DeleteCommit` split each operation between its file
  move and its commit; `CommitFails` rolls the rows back and leaves the files;
  `Crash` kills the process in any of these places.

Not in the model: reading a file while a part of its content is there (a file is empty or
whole), the rows of scheduled scans, start and stop of the observer, the notification
list. One user stands for all, since a request may only touch what its user owns.

### MailWatch

* The program is single-threaded: a step runs from one `await` to the next, and
  continuations that are ready run before the next call or event (`Quiet`).
* A call is `ready`, waits for its `logout`, waits (`await`) for the run it found in
  `_runPromise`, and is `done`. `restart()` is a stop whose continuation starts.
* `run` is where `#run` stands, `runNo` names the promise, `armed` and `heard` say whether
  a stop promise exists and whether the current wait of the loop races with it.
* `LateActive` is an opening that finishes after `stop()` took the connection
  away and still publishes "active".

`imapflow` is external: a connection opens, fails, or is refused; a logout ends. A
`start()` counts as done when it has launched its run. An account without settings (which
only publishes "error") is not modelled. The poll timer that a late opening
sets up finds no client when it fires and does nothing.

### MailSync

* `store` is the EmailStore, `file` what `emails.json` holds of it; `Add` saves, or fails to.
  A mail is its UID; `MsgId` says which are copies. `total` counts additions.
* `fetch` stands between two awaits of `#fetchRange`: at the `next` message, or in the
  parser. `Exists`, `Poll`, `Refresh`, `Connect` and `RunQueued` are the callers of
  `#syncNew`; `Defer` is its early return, `EndFetch` its `finally`.
* A fetch may outlive its connection (`orphan`), and a stop and start around it. What
  `MailWatch` follows call by call is here a `link` that is down, open or active.

### MailSafety and MailBridge

* A mail's `Content` is the facts that the tests of `safety.js` find. `Label` has the
  precedence of `assessEmailSafety`: an exception, then findings, then what could not be
  determined, then "safe". Of several scanner results the first that says anything counts.
* `records` are rows of `email_records`, each with its key (a Message-ID, prefixed for
  imports of other accounts), account and class; `claimed` the rows of
  `email_processed_uids`. A `Dashboard` step is a step of `MailSync`, with the post of the
  mail it adds. `Import` is one transaction, run by `BackendStarts` and on request.
  `LoopClaims` and `LoopStores` are the two commits of `EmailIngest` that matter here, `LoopFails`
  is any failure between them (`dropped`).
* `UidIn` gives the UIDs of an account's mailbox: the import claims those of the
  dashboard's mailbox whatever mailbox the account has (`Settled` names the consequence).

### MailRisk and MailReview

* Scores are exact: entropies in hundredths of a bit, mail scores in hundredths of a
  point. `Measured` is what a failed stage of the analysis leaves, namely nothing found.
* `LinkFacts` is what `analyze_body` makes of a mail's links, which are the monitor's URLs too;
  an upload's URLs include the addresses of images. Without its 15 points a lone lure behind a
  shortener would stay at 29 of the 30 points that make a mail suspicious.
* A request is `find` (its first read), `look` (its second) and `save`; `Written` is the
  session's rule that only columns whose value differs from the one read are written. That
  is how a hold beside a release can leave flag and row in contradiction.
* The quarantine page's route takes any word as an action (`OtherAction`): other than `release` and
  `delete` it becomes the row's status without a second read (`MarkRow`), and `apart` remembers
  that, until the next decision brings flag and row together again.

### Firewall

* Each operation holds `_firewall_lock` and is one step. `Decision` is
  `check_connection`: blacklist, zones, rules by priority and place, default policy.
* Saving threads load, open (which empties the file) and write; `fresh`, `mixed` and
  `file` say whether what they write, and what a restart would load, is in force.
  `Loaded` has the default lists that a restart puts in place of emptied ones.
* `routes/settings.py` has a `system_settings.json` of its own, in another directory.

### LoginGuard, SandboxJobs, Scheduler

* `LoginGuard` follows the requests of one address; threads are switched between any two
  accesses to the tracker: `Login`, `ReadLockout`, `Unlock` and `Unlist` are `is_locked_out`;
  `Select`, `Replace`, `Fetch`, `RecordFailure`, `Judge` and `LockOut` are
  `record_failed_attempt`, the first two also `get_remaining_attempts`; `Clear` and
  `ClearLockout` are `clear_attempts`. The order of the attempts in the list is never looked at,
  so `attempts` says how many are of each minute. `holding` are the threads that append next to the
  list that is still in place; any other appends in vain. The clock moves while threads compare or
  hash passwords, or wait. `Taken` compares names as the route does: the stored one as the
  database folds it (`DbFold`, ASCII only), the new one as Python does (`Fold`).
* `SandboxJobs` splits each change of `jobs.json` into load, open and write; the event loop,
  the analysis threads and the deletions do so independently. A negative duration is accepted
  and ends the analysis thread (`negative`).
* `Scheduler` has the list, each thread's place in its walk over it, and the requests
  between their accesses; a thread that meets a folder it cannot list ends.

## 3. The runs

| Run | Checks | Instance and why it is enough |
|---|---|---|
| `ingest_duo` | `IngestInvariant`, `CountersNeverOverstate`, `AnnouncedAreRecorded`, `LedgerRefined` | two loops, one mailbox whose inbox and archive use the same UID, a mail without Message-ID and one with a dangerous attachment whose processing may raise, kills: loops meet on the same mail, on the same content under two names, and under the lock (276 000 states up to exchanging the loops) |
| `ingest_solo` | `EveryMessageIsRecorded`, `NoClaimedMailIsLost`, `CountersExactAtRest` | one loop that is never stopped or killed, two mailboxes of one folder with copies of one message, a third mail whose processing may raise, two dangerous attachments (15 000 states) |
| `ingest_dangerous` | violates `DangerousIsQuarantined` | one loop, one mail |
| `vault_faults` | `VaultInvariant`, `CustodyRefined` | one bad upload, two requests and the watchdog, two names in quarantine, kills and failed commits of each of them: a file is quarantined, restored and quarantined again, and both requests can hold stale items (598 000 states) |
| `vault_live` | `CatalogueMatchesVault`, `GoneIsOnRecord`, `BadUploadsAreQuarantined` | one request at a time, the watchdog, an upload and a file of another program (63 000 states) |
| `mail_bridge` | `SyncInvariant`, `NoGap`, `ArrivedAreImported`, `BridgeInvariant`, `SafeIsDetermined`, `ClaimedAreRecorded`, `PolledAreRecorded` | six mails (a copy, one without content, one that does not parse, an archive, a lure), a store of two, a first fetch of three, two accounts and two polled mails, one of them with another UID in its mailbox: additions evict, the first fetch leaves mails out, an import meets a record of the other account, a claim is not followed by a record (364 000 states) |
| `login_guard` | `GuardInvariant`, `LockoutIsExact`, `AccountsAreDistinct` | two threads, a limit of two within two minutes, five minutes, three spellings of a name, one with a capital letter beyond ASCII: failures age, a lockout ends and comes again (2 598 000 states up to exchanging the threads) |
| `firewall` | `FirewallInvariant`, `PassageIsPermitted`, `SettingsSurvive` | an address outside and one in a zone within another, two rules of equal priority that contradict each other, two saving threads |
| `mail_watch` | `WatchInvariant`, `SequentialCalls`, `StopIsFinal`, `StartIsFinal`, `CallsReturn` | six calls of any kind, overlapping or not, every failure; calls are alike until they are made, so an action constraint makes them in the order of their numbers. Six is the fewest with which a stop outlives its run, takes the stop promise of the next and leaves one that only the flag can end (294 000 states) |
| `sandbox_jobs` | `JobsInvariant`, `ListIsTold`, `JobsEnd` | two jobs, each of a negative duration or not, their threads, a deletion and a submission at a time, kills (21 000 states) |
| `mail_review` | `ReviewInvariant`, `TablesAgree`, `ThreatsAreSeen`, `OwnersDecide` | one mail of five contents on both sides of the thresholds, one of them a lone lure behind a shortener, two threads, owner and stranger, two actions on a row beside release and deletion, one of which is the name of a status (3 592 000 states up to exchanging the threads; a mail's rows and requests concern no other mail) |
| `scheduler` | `SchedulerInvariant`, `RemovalsAreExact`, `DueJobsAreScanned` | two jobs, two requests, two scheduler threads of which one may end with an error |

Deadlock is checked in the ingestion runs, whose loops can always be started again or
begin another pass; the other systems may come to rest when every mail, call, name or job
is used up. Symmetry is used where only invariants are checked. Every property has a
mutant, a definition of the module changed by a plausible bug (`..._<Variant>` beside the
original), under which its run fails.

### Bounds

Faults of dashboard and backend in `mail_bridge`: one (`MaxFaults`), so that each kind is met
at every point, not two of them in a row. `MAX_STORED`, `SYNC_LIMIT`, the login limit, window and lockout
are scaled down, the thresholds of the scores are not. `MaxTime` and `MaxListed` end the clock
and the list of attempts, which overlapping threads could lengthen without end. `MaxEvents` bounds
the firewall's counters between two resets. `MaxJobs` is 2: two jobs with one number then come
from overlapping additions; that a removal leads to them as well (it needs three
jobs) is not reached. `MaxLoops` and `MaxDeaths` bound scheduler threads. In the vault the
names of quarantined files are the bound, in `MailWatch` the calls. Kills are unbounded in `ingest_duo`,
`vault_faults`, `sandbox_jobs` and `firewall`.

### Fairness

* `EmailIngest!SteadySpec`: loops are started and never stopped or killed; each loop
  takes its steps (weak fairness: the thread is scheduled, calls have timeouts). For
  each mailbox a complete listing, and for each mail a fetch, succeeds again and again if
  it can be tried again and again (strong fairness): an IMAP server that fails for ever
  promises nothing. That each mailbox is due again and again is the polling interval (strong
  fairness on `Due`). Processing raises or not as it likes, for mails in `Faulty` only.
* `FileVault!FairSpec`: threads that are inside an operation finish it, the watchdog
  thread runs, and its queue is served in the end (strong fairness on `Notice(f)`:
  it takes events in order, so each has its turn when the thread is idle again and
  again). Nothing obliges anybody to send a request.
* `MailWatch!FairSpec`: logouts end (`socketTimeout`), continuations that are ready run,
  a connection attempt has an outcome (`connectionTimeout`), delays elapse. Nothing is
  assumed about which outcome, nor about calls being made. No fairness on `LateActive`.
* `MailBridge!BridgeSpec` (for the dashboard as `MailSync!FairSpec`): a fetch makes progress
  (`socketTimeout`), connection attempts follow each other, `setImmediate` runs, the poll timer
  ticks; the backend's loop goes on, and a backend that is down is started again. Neither
  `exists` events nor refreshes, posts or requests for an import are relied on.
* `SandboxJobs!FairSpec` and `Scheduler!FairSpec`: threads are scheduled and sleeps end.

### Finding

`ingest_dangerous`: `_quarantine_attachment` waits for the write lock of the transaction it
is called from, so it always gives up; the mail is stored and its dangerous attachment is
not in quarantine.

### Observations

What the models show beside the properties, and no run states:

* Ingestion: two processes lose an update of `emails_checked` (only downwards, by
  `CountersNeverOverstate`); whatever raises after a claim (analysis, flush, commit) leaves the
  claim and loses the mail, as does a writer that times out while another process's transaction
  stalls over an attachment. With two monitored folders each fetch goes to the one listed last: a
  UID of the first brings another mail, which is stored in its name, or none. A temporary
  file that cannot be written makes the handler roll back the mail's record, after which the mail is
  counted and announced without one.
* Vault: a commit of the watchdog that fails leaves the path processed, and the file is never
  scanned or quarantined unless the process restarts and the file changes; a delete that overlaps a restore destroys the file and leaves "restored" on
  record; a file still empty a second after its creation is marked as processed and
  never scanned; an upload that the watchdog quarantines while
  `upload_files` waits for VirusTotal ends in an error; an item whose first `files` row is the
  watchdog's has no owner and is listed for nobody.
* Dashboard: a stop that arrives while a background restart waits for its logout is undone; a
  `start()` during the logout of a `stop()` makes that stop wait for the new run and
  publishes "stopped" over it; a first synchronisation that throws leaves its connection
  open; a message that does not parse keeps all later ones from being imported.
* Bridge: an import claims UIDs of the dashboard's mailbox for an account that may have a
  mailbox of its own, whose mails under those UIDs are then never looked at; one mail in
  another account's name undoes the owner's whole import, at every start; an import between
  the two commits of the loop gives another account two records of a message.
* Review: two holds leave two rows; hold beside release leaves flag and row in contradiction, and
  so does one request with another action, such as the "keep" that
  `reports/PART4_EMAIL_SECURITY_FINAL_REPORT.md:198` lists;
  the deletion on the quarantine page never succeeds.
* Scores: a file that only ClamAV reports has 15 points, "low risk".
* Firewall: a torn settings file makes every later save fail; emptied lists come back as
  the default ones; an address blocked by one rule stays blocked on every port.
* Logins: concurrent failures restore each other's cleared attempts, so a lockout may come
  late; a name with a capital letter beyond ASCII can be registered beside its other spellings, and
  its password cannot be reset. Sandbox: overlapping saves lose jobs; a kill, or a negative
  duration, leaves jobs running for ever.
  Scheduler: overlapping additions start two threads; an unlistable folder ends the thread.

## 4. What is proved

All theorems hold for every value of the constants that the named assumptions admit. Most
assumptions only give the constants their types. These say more:

* `IngestAssumption`: within one folder of one mailbox a UID names one mail (IMAP's own rule); UIDs of
  different folders may well be equal.
* `BridgeAssumption`: within one mailbox a UID names one mail (IMAP's own rule), and copies of a
  message have the same content.
* `GuardAssumption`: the limit of failed logins and the window are positive (the defaults are 10
  and 5 minutes). With a window of zero minutes no failure is within it, while the one just appended
  is counted all the same, so that a limit of one would lock addresses out for failures in no window.

Each module's inductive invariant was an invariant of a run of TLC before it was proved.

| Theorem | Statement | Argument |
|---|---|---|
| `EmailIngestProofs!IngestSafety` | `Spec => []IngestInvariant` | inductive as it stands |
| `EmailIngestProofs!IngestImplementsLedger` | `Spec => LedgerRefined` | each step maps to one ledger step or a stutter, under the invariant |
| `EmailIngestProofs!AnnouncementsAreOfRecords` | `Spec => []AnnouncedAreRecorded` | from the invariant: a loop that notifies holds a stored mail |
| `EmailIngestProofs!CountersStayBehind` | `Spec => []CountersNeverOverstate` | `CounterIInv`: what a loop has read leaves room for all that are still to count |
| `EmailIngestProofs!ClaimsAreNeverLost` | without kills, with one monitored folder, and with one loop or nothing to quarantine, `Spec => []NoClaimedMailIsLost` | no writer times out (`LockNeverTimesOut`) and a fetch brings the mail of its name, so a mail whose processing does not raise is only given up for a stored copy |
| `EmailIngestProofs!SoloCountersAreExact` | with one loop and no kills, `Spec => []CountersExactAtRest` | `SoloIInv`: what is stored and not counted is the loop's own mail |
| `FileVaultProofs!VaultSafety` | `Spec => []VaultInvariant` | inductive as it stands |
| `FileVaultProofs!CatalogueIsAccurate` | without kills and failed commits, `Spec => []CatalogueMatchesVault` | inductive relative to `VaultInvariant` |
| `FileVaultProofs!LossesAreOnRecord` | the same with one request at a time, `Spec => []GoneIsOnRecord` | `RecordIInv`: what a restore moved back is still somewhere when its commit says so |
| `FileVaultProofs!UploadsAreNeverMissed` | without kills and failed commits, `Spec => []NoUploadIsMissed` | `WatchIInv`: what the watchdog has seen is or was there, and an upload is complete when its handler goes on |
| `FileVaultProofs!VaultImplementsCustody` | `Spec => CustodyRefined` | each step moves at most one file, and destroys one only in the step that serves a request to delete it |
| `MailWatchProofs!WatchSafety` | `Spec => []WatchInvariant` | inductive as it stands |
| `MailWatchProofs!SequentialCallsStop` | `Spec => []SequentialCalls` | `SequentialIInv`: until calls overlap every run listens for its stop; `LastCallStands` says where the run is in each stage of the last call |
| `MailBridgeProofs!StoreStaysSound`, `NoMailIsMissing` | `BridgeSpec => []SyncInvariant`, `[]NoGap` | `SyncIInv`: a fetch goes on where the store ends, also one that outlives its connection |
| `MailBridgeProofs!OneRecordIsKept`, `SafeMeansDetermined`, `ClaimsAreAccounted` | `BridgeSpec => []BridgeInvariant`, `[]SafeIsDetermined`, `[]ClaimedAreRecorded` | inductive together, with `KeysAreKnown`; the steps of `MailSync` and those of the backend are treated apart |
| `MailReviewProofs!HeldMailsAreShown`, `TablesStayTogether` | `Spec => []ReviewInvariant`, `[]TablesAgree` (rows changed by another action are exempt until the next decision) | `InTurn`: what a request has read is still so, until another about the same mail overlaps it |
| `MailReviewProofs!OwnersDecideAlways` | `Spec => OwnersDecide` | from `Grounded`: past its first read a request is the owner's |
| `MailReviewProofs!ThreatsAreAlwaysSeen` | `Spec => []ThreatsAreSeen` | each part alone reaches the threshold, and a sum is no less than its parts (`SumBounds`) |
| `AccessProofs!PassageIsAlwaysPermitted` | `Spec => []PassageIsPermitted` | `FindRuleIsFirst`: after each turn of the loop the rule kept is the first so far |
| `AccessProofs!CountersAlwaysAgree` | `Spec => []FirewallInvariant` | by the branches of a decision |
| `AccessProofs!SettingsAreSaved` | `Spec => []SettingsSurvive` | `SavesInTurn`: one saver at a time, with an up-to-date copy |
| `AccessProofs!LockoutsHaveCause`, `LockoutsAreExact` | `GuardSpec => []GuardInvariant`, `[]LockoutIsExact` | `ListsAreHonest`: every list holds failures that happened; `OneByOne`: until requests overlap it holds all of them; sums of counts compare as the counts do (`SumsCompare`) |
| `AccessProofs!NamesAreDistinct` | `GuardSpec => []AccountsAreDistinct` (for names without capital letters beyond ASCII) | `NamesAreFree`: the name to be inserted is free until requests overlap |
| `SandboxJobsProofs!JobsSafety`, `ListIsAlwaysTold` | `Spec => []JobsInvariant`, `[]ListIsTold` | `Alone` and `Faithful`: until changes overlap, a copy is the list with one edit |
| `SchedulerProofs!JobsAreServedByOne` | `FairSpec => []SchedulerInvariant` | `OneThread` and `Served`; the list is no longer than there are jobs, since they differ |
| `SchedulerProofs!RemovalsStayExact` | `FairSpec => RemovalsAreExact` | `Located`: the place a removal has found still holds a job of that number |

Why the invariants look as they do:

* `IngestInvariant`. That no mail is handled twice (`NoDoubleScan`) needs that whatever is
  in flight is claimed (`MailInHand`) and that what is stored stays claimed
  (`RecordsAreClaimed`): the unique constraint on claims then keeps every other loop
  out. One record per message needs `LockDiscipline`: the loop that passed
  the check on `message_id` holds the write lock until its commit, so nobody stores a copy
  in between.
* `ReadingsLeaveRoom` (counters). A counter is read and written back with other loops' reads and
  writes in between, so what a loop has read may be smaller or larger than the row when it
  writes. It still belongs to a time when every mail now waiting to be counted was not counted:
  the reading plus all loops that are to count is at most the number of records. For one loop the
  reading is the row itself, and the sum is exact.
* Claims. A claimed mail is lost by a kill, by an exception in its own processing, by a writer that
  gives up while another loop's transaction stalls over an attachment (`StallsAreDangerous`), and
  with several folders by a fetch from the wrong one. The theorem exempts mails in `Faulty` and
  assumes the other three away; what it shows is that a duplicate, a skipped folder, a
  failed fetch or the exception of another mail is none of these. In `MailBridge`,
  where loops fail and are killed, `ClaimedAreRecorded` counts instead: what imports claim is on
  record, and the loop's claims cost no more mails than there were faults.
* `VaultInvariant`. One copy of a file (`OneCopy`) needs that an item whose quarantine is not
  committed is known to its own thread only, and that a thread past its file move
  has its item out of the vault (`ThreadsHaveWork`). `QuarantinesHaveRow` is the reason why the
  NOT NULL `file_id` of an item can always be filled.
* `RestoredIsPresent`. A restore overwrites "deleted" with "restored" between other steps. The
  watchdog may take the file again before that commit; then it is in the vault. Only another
  request could have destroyed it, hence the one request.
* `WatchIInv`. An upload is missed if its path is marked as processed before there is anything to
  scan. The model takes the watchdog's `sleep(1)` to be longer than the write of an upload, one call of
  `write` (`Wake` does not come before its end), so what the watchdog wakes up to is whole or has
  been moved. `BadUploadsAreQuarantined` adds fairness to this:
  what is in the watchdog's hands is served.
* `WatchInvariant`. A run behind the state "stopped" has a stop waiting for it
  (`StopIsWaiting`), which holds because a run is launched with the state "connecting" and
  "stopped" is published in the very step that reads `_runPromise`; "active" is honest
  because a raised flag ends a run that hears of it at once (`FlaggedRunIsDeaf`).
  `ClientIsInUse` shows that a connection in use is never replaced, overlapping calls or not: the
  flag goes up only with the connection taken away.
* `SyncIInv`. `FetchGoesOn` says that whatever a fetch has passed over since the newest stored
  mail need not be stored, and that it parses nothing older. The file is an earlier list with the same
  properties, so a restart may load it at any point.
* Bridge. The owner's records are found under either of two keys, so one record of a message needs
  `KeysAreKnown` (a record's key has its user's name or the owner's) beside `OneRecordEach`.
* `InTurn` and `Located` are the same thought in two places: a place or value that was read in one
  access and is used in the next is still right, because whoever could have changed it would
  have counted as an overlap. `Current` spells out which of its readings a request relies on.
* `Alone`/`Faithful` and `SavesInTurn` say it of files that are rewritten as a whole: the copy in the
  hands of the only writer is what is in force plus its own change.
* `GuardIInv`. A lockout needs enough failures although threads put old copies of the list back. What
  survives is that a list never has more attempts of a minute than failures that happened in it
  (`ListsAreHonest`), and that a thread about to count them has just dropped those outside the window, in
  a minute that cannot pass under it. A thread that has counted too many and not yet set the lockout keeps
  them behind it (`LockIsDue`): the history forgets only while no other request is in progress. For
  the converse, `OneByOne` says that no recent failure is missing from the list, and `BelowLimit` that
  an address without a lockout has reached the limit in no window, which takes both: the attempts just
  counted are all failures of the last window.
* The search for a rule, the sum of the attempts of all minutes and the sums over a mail's parts are
  recursive functions over lists and sets of any size. The library's induction theorems take an operator and cannot be used, so
  these proofs take a least counterexample instead (`WFMin`, `NatLessThanWellFounded`): first
  that the function exists (`SearchExists`, `TurnsExist`), then what it yields
  (`TurnKeepsFirst`, `SumBounds`, `SumsCompare`). For a phishing URL the bound is tight: 25 points, 4 for the
  two facts of the URL, and at least 2.25 for the link in the body.
* `Served`. Whoever finds no thread starts one; in between the list has jobs and no thread,
  and `OneThread` has to count the addition that is about to make it.

Only model-checked, and why:

* All liveness properties: TLAPS has no ENABLED, and no rule for fairness of these forms.
* `EveryMessageIsRecorded`, `BadUploadsAreQuarantined` and the other promises that something
  happens are about fair behaviours; the theorems about the same modules are not.

## 5. The plan, and what is not modelled

Done: the modules above and the theorems of section 4. No module declares a RECURSIVE operator, so
all can be proved about. Every invariant that a passing run checks is a theorem.

Not stated: that the `link` of `MailSync` is an abstraction of `MailWatch`. `MailWatch` does not say
whether INBOX has been selected when a first synchronisation throws, and a session left open by
that keeps `MailSync`'s link open after its run has ended; a mapping from one to the other would
need a history of both. `MailSync` therefore lets its link do all that a connection can.

Not modelled, and why:

* Start, stop and join of the polling loop and of the folder observer, and the routes that
  save and switch monitoring settings: `EmailIngest` runs any number of loops side by side,
  which is what they can lead to.
* The antivirus routes, settings, API keys and network shares: switches and lists in memory, and files that
  one handler reads, changes and writes, as in `SandboxJobs`.
* Event sockets: registered, served and removed on the event loop only.
* The firewall's inspector loop: it feeds decisions with the host's connections.
* Parsing of mails and documents, regular expressions, entropy and strings of the detectors,
  archives: data, abstracted to the facts they find.
* External services (VirusTotal, webhooks), password hashing and tokens, host telemetry
  and drive enumeration, export and reports, the React frontend, the legacy Flask backend, the
  report generator and the stored samples under `backend/uploads`, among them copies of
  library files. They are more than half of the repository's lines.
