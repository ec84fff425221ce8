----------------------------- MODULE Scheduler ------------------------------
(***************************************************************************)
(* Scheduled folder scans: services/scheduler_service.py and the routes of *)
(* routes/features.py that add, remove and toggle its jobs.                *)
(*                                                                         *)
(* The jobs live in a list that the requests (threads of the server's      *)
(* pool) and the scheduler's own thread share without a lock; the first    *)
(* addition starts that thread.  stop_scheduler is left out: nothing calls *)
(* it.  What a scan finds in a folder is left out as well, but for a       *)
(* folder that cannot be listed, whose error ends the thread.  The search  *)
(* for a number is one step.                                               *)
(***************************************************************************)
EXTENDS Naturals, Sequences, FiniteSets, SequencesExt

CONSTANTS
    MaxJobs,     \* bound: jobs that are ever added
    MaxLoops,    \* bound: scheduler threads that are ever created
    MaxDeaths,   \* bound: of these, those that meet an unlistable folder
    Request      \* threads of the server's pool

ASSUME SchedulerAssumption == MaxJobs \in Nat /\ MaxLoops \in Nat /\ MaxDeaths \in Nat

\* Jobs and scheduler threads, in the order in which they are made.
Job == 1 .. MaxJobs
Loop == 1 .. MaxLoops
None == 0

VARIABLES
    list,        \* _scheduled_scans
    id,          \* a job's number; 0 before it is made
    enabled,
    due,         \* jobs whose next_run has passed
    handle,      \* _scheduler_thread
    loop,        \* what each scheduler thread does
    req,         \* what each request does
    deaths,      \* scheduler threads that an error ended
    adds,        \* history: two additions have overlapped
    removals,    \* history: two removals have
    shrunk       \* history: a job has been removed

vars == <<list, id, enabled, due, handle, loop, req, deaths,
          adds, removals, shrunk>>
requests == <<handle, req, adds, removals, shrunk>>

Unborn == [pc |-> "unborn", at |-> 0, seen |-> {}, job |-> None]
Free == [pc |-> "free", job |-> None, id |-> 0, index |-> 0]

TypeOK ==
    /\ list \in Seq(Job)
    /\ id \in [Job -> 0 .. MaxJobs]
    /\ enabled \in [Job -> BOOLEAN]
    /\ due \subseteq Job
    /\ handle \in Loop \cup {None}
    /\ loop \in [Loop -> [pc : {"unborn", "walk", "scan", "update", "sleep",
                                "dead"},
                          at : 0 .. MaxJobs, seen : SUBSET Job,
                          job : Job \cup {None}]]
    /\ req \in [Request -> [pc : {"free", "append", "check", "create", "start",
                                  "pop"},
                            job : Job \cup {None}, id : 0 .. MaxJobs,
                            index : 0 .. MaxJobs]]
    /\ deaths \in 0 .. MaxDeaths
    /\ adds \in BOOLEAN /\ removals \in BOOLEAN /\ shrunk \in BOOLEAN

Init ==
    /\ list = <<>>
    /\ id = [j \in Job |-> 0]
    /\ enabled = [j \in Job |-> TRUE]
    /\ due = {}
    /\ handle = None
    /\ loop = [l \in Loop |-> Unborn]
    /\ req = [r \in Request |-> Free]
    /\ deaths = 0
    /\ adds = FALSE /\ removals = FALSE /\ shrunk = FALSE

Alive(l) == loop[l].pc \notin {"unborn", "dead"}
Adding == {r \in Request : req[r].pc \in {"append", "check", "create", "start"}}
Removing == {r \in Request : req[r].pc = "pop"}

-----------------------------------------------------------------------------
(* Requests.                                                               *)

\* add_scheduled_scan numbers the job by the length of the list...
Number(r, j) ==
    /\ req[r].pc = "free"
    /\ id[j] = 0
    /\ \A earlier \in 1 .. j - 1 : id[earlier] # 0
    /\ id' = [id EXCEPT ![j] = Len(list) + 1]
    /\ req' = [req EXCEPT ![r] = [Free EXCEPT !.pc = "append", !.job = j]]
    /\ adds' = (adds \/ Adding # {})
    /\ UNCHANGED <<list, enabled, due, handle, loop, deaths, removals, shrunk>>

\* ... appends it...
AppendJob(r) ==
    /\ req[r].pc = "append"
    /\ list' = Append(list, req[r].job)
    /\ req' = [req EXCEPT ![r].pc = "check"]
    /\ UNCHANGED <<id, enabled, due, handle, loop, deaths, adds, removals,
                   shrunk>>

\* Mutant: the thread that is there is not looked at.
Needed_Always == TRUE

\* ... and starts the scheduler, unless its thread is alive.
Needed == handle = None \/ ~Alive(handle)

Check(r) ==
    /\ req[r].pc = "check"
    /\ req' = [req EXCEPT ![r] = IF Needed THEN [@ EXCEPT !.pc = "create"]
                                           ELSE Free]
    /\ UNCHANGED <<list, id, enabled, due, handle, loop, deaths, adds, removals,
                   shrunk>>

Create(r) ==
    /\ req[r].pc = "create"
    /\ \E l \in Loop :
          /\ l = handle + 1
          /\ handle' = l
    /\ req' = [req EXCEPT ![r].pc = "start"]
    /\ UNCHANGED <<list, id, enabled, due, loop, deaths, adds, removals, shrunk>>

\* The thread that is started is the one the module then refers to; one that
\* has been started already raises an error, which fails the request.
Start(r) ==
    /\ req[r].pc = "start"
    /\ loop' = [loop EXCEPT ![handle] =
                   IF @ = Unborn THEN [@ EXCEPT !.pc = "walk", !.seen = due]
                                 ELSE @]
    /\ req' = [req EXCEPT ![r] = Free]
    /\ UNCHANGED <<list, id, enabled, due, handle, deaths, adds, removals,
                   shrunk>>

\* Mutant: the numbers are not compared.
Found_Any(n) == IF list = <<>> THEN 0 ELSE 1

\* remove_scheduled_scan looks for the first job of a number...
Found(n) == SelectInSeq(list, LAMBDA j : id[j] = n)

Search(r, n) ==
    /\ req[r].pc = "free"
    /\ Found(n) # 0
    /\ req' = [req EXCEPT ![r] = [Free EXCEPT !.pc = "pop", !.id = n,
                                              !.index = Found(n)]]
    /\ removals' = (removals \/ Removing # {})
    /\ UNCHANGED <<list, id, enabled, due, handle, loop, deaths, adds, shrunk>>

\* ... and takes out what then stands at its place, if anything.
\* (the switch and the time of a job outside the list are forgotten: nothing
\* looks at them).
Pop(r) ==
    /\ req[r].pc = "pop"
    /\ IF req[r].index \in DOMAIN list
       THEN LET gone == list[req[r].index]
            IN  /\ list' = RemoveAt(list, req[r].index)
                /\ enabled' = [enabled EXCEPT ![gone] = TRUE]
                /\ due' = due \ {gone}
       ELSE UNCHANGED <<list, enabled, due>>
    /\ shrunk' = TRUE
    /\ req' = [req EXCEPT ![r] = Free]
    /\ UNCHANGED <<id, handle, loop, deaths, adds, removals>>

\* toggle_scheduled_scan
Toggle(n) ==
    /\ Found(n) # 0
    /\ enabled' = [enabled EXCEPT ![list[Found(n)]] = ~@]
    /\ UNCHANGED <<list, id, due, loop, deaths>>
    /\ UNCHANGED requests

-----------------------------------------------------------------------------
(* The scheduler's thread.                                                 *)

\* The thirty seconds are over: a pass begins, with the time of its start.
Wake(l) ==
    /\ loop[l].pc = "sleep"
    /\ loop' = [loop EXCEPT ![l] = [@ EXCEPT !.pc = "walk", !.at = 0,
                                             !.seen = due]]
    /\ UNCHANGED <<list, id, enabled, due, deaths>>
    /\ UNCHANGED requests

\* The iteration keeps an index into the list, which may change under it: a
\* removal before the index makes the pass skip a job.
Runs(l, j) == enabled[j] /\ j \in loop[l].seen

Visit(l) ==
    LET at == loop[l].at
        j == list[at + 1]
    IN  /\ loop[l].pc = "walk"
        /\ loop' = [loop EXCEPT ![l] =
              IF at >= Len(list) THEN [Unborn EXCEPT !.pc = "sleep"]
              ELSE IF Runs(l, j)
              THEN [@ EXCEPT !.at = at + 1, !.pc = "scan", !.job = j]
              ELSE [@ EXCEPT !.at = at + 1]]
        /\ UNCHANGED <<list, id, enabled, due, deaths>>
        /\ UNCHANGED requests

\* _execute_scheduled_scan returns: the folder is missing, or its files have
\* been scanned.
Scan(l) ==
    /\ loop[l].pc = "scan"
    /\ loop' = [loop EXCEPT ![l].pc = "update"]
    /\ UNCHANGED <<list, id, enabled, due, deaths>>
    /\ UNCHANGED requests

\* The folder cannot be listed: nothing catches the error.
Die(l) ==
    /\ loop[l].pc = "scan"
    /\ deaths < MaxDeaths
    /\ deaths' = deaths + 1
    /\ loop' = [loop EXCEPT ![l] = [Unborn EXCEPT !.pc = "dead"]]
    /\ UNCHANGED <<list, id, enabled, due>>
    /\ UNCHANGED requests

\* Mutant: the next run is not put off.
Rescheduled_None(j) == due

\* _update_next_run: the job is no longer due, for a pass in progress neither.
Rescheduled(j) == due \ {j}

Update(l) ==
    /\ loop[l].pc = "update"
    /\ due' = Rescheduled(loop[l].job)
    /\ loop' = [k \in Loop |->
          LET awaited == [loop[k] EXCEPT !.seen = @ \ {loop[l].job}]
          IN  IF k = l THEN [awaited EXCEPT !.pc = "walk", !.job = None]
                       ELSE awaited]
    /\ UNCHANGED <<list, id, enabled, deaths>>
    /\ UNCHANGED requests

\* The interval of a job passes.
Elapse(j) ==
    /\ j \in Range(list) \ due
    /\ due' = due \cup {j}
    /\ UNCHANGED <<list, id, enabled, loop, deaths>>
    /\ UNCHANGED requests

Work(l) == Wake(l) \/ Visit(l) \/ Scan(l) \/ Update(l)
Serve(r) == AppendJob(r) \/ Check(r) \/ Create(r) \/ Start(r) \/ Pop(r)

Next ==
    \/ \E r \in Request, j \in Job : Number(r, j)
    \/ \E r \in Request, n \in 1 .. MaxJobs : Search(r, n)
    \/ \E n \in 1 .. MaxJobs : Toggle(n)
    \/ \E r \in Request : Serve(r)
    \/ \E l \in Loop : Work(l) \/ Die(l)
    \/ \E j \in Job : Elapse(j)

\* Threads go on; no one has to ask for anything, and no error has to occur.
FairSpec ==
    /\ Init /\ [][Next]_vars
    /\ \A l \in Loop : WF_vars(Work(l))
    /\ \A r \in Request : WF_vars(Serve(r))

-----------------------------------------------------------------------------
(* Properties.                                                             *)

\* Until two additions overlap there is one scheduler thread at most, no job
\* is scanned twice at a time, and once the request that added a job is over
\* a thread is there for it, unless an error has ended it.  Until then, and
\* until a job is removed, the numbers are those of the places in the list.
Orderly ==
    ~adds =>
        /\ Cardinality({l \in Loop : Alive(l)}) <= 1
        /\ list # <<>> /\ Adding = {} /\ deaths = 0 =>
              handle # None /\ Alive(handle)
        /\ ~shrunk => \A i \in DOMAIN list : id[list[i]] = i

\* However additions overlap, no job stands in the list twice, and the module
\* refers to a thread that it created.
SchedulerInvariant ==
    /\ TypeOK
    /\ Orderly
    /\ IsInjective(list)

\* A removal takes out a job that bears the number it was asked for, whatever
\* is added, toggled or scanned meanwhile, until two removals overlap.
RemovalsAreExact ==
    [][\A r \in Request :
          req[r].pc = "pop" /\ req'[r].pc = "free" /\ ~removals =>
              \E i \in DOMAIN list : /\ id[list[i]] = req[r].id
                                     /\ list' = RemoveAt(list, i)]_vars

\* Every job that is due is scanned sooner or later and waits for its next
\* time, whatever removals make single passes skip, unless it is disabled or
\* removed, or an error has ended a thread.
Waiting(j) == j \in due /\ enabled[j] /\ j \in Range(list)

DueJobsAreScanned ==
    \A j \in Job : Waiting(j) ~> (~Waiting(j) \/ deaths > 0)
=============================================================================
