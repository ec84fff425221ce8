----------------------------- MODULE SandboxJobs -----------------------------
(***************************************************************************)
(* The sandbox's job list, routes/sandbox.py: submission, analysis and     *)
(* deletion of jobs kept in jobs.json.                                     *)
(*                                                                         *)
(* Every change loads the file, edits the copy and writes the file anew,   *)
(* and nothing keeps two changes apart: submissions run on the event loop  *)
(* (one at a time), each analysis in a thread of its own, deletions in the *)
(* server's thread pool.  Opening the file for writing empties it, and a   *)
(* load that meets it then fails.                                          *)
(***************************************************************************)
EXTENDS FiniteSets

CONSTANTS
    Job,         \* jobs
    Request,     \* threads that serve deletions
    Loop,        \* the event loop
    NoJob

ASSUME JobsAssumption ==
    /\ NoJob \notin Job
    /\ Loop \notin Job \cup Request
    /\ Job \cap Request = {}

\* An analysis thread is named by its job.
Actor == {Loop} \cup Job \cup Request

VARIABLES
    list,        \* what jobs.json holds, when it can be read
    torn,        \* it cannot: it has been emptied, or mixed up
    sample,      \* jobs whose file is stored
    pc,          \* where each actor stands
    about,       \* the job that the loop, and each request, is busy with
    copy,        \* the edited list that each actor is going to write
    mixed,       \* actors whose writing has overlapped another's
    truth,       \* history: what was saved last of each job
    spoilt,      \* history: two changes have overlapped, or one was cut short
    negative     \* jobs submitted with a negative duration, which is not refused

vars == <<list, torn, sample, pc, about, copy, mixed, truth, spoilt, negative>>

Status == {"absent", "running", "completed"}
Listing == [Job -> Status]

TypeOK ==
    /\ list \in Listing
    /\ torn \in BOOLEAN
    /\ sample \subseteq Job
    /\ pc \in [Actor -> {"idle", "sleep", "load", "remove", "open", "write", "over"}]
    /\ about \in [Actor -> Job \cup {NoJob}]
    /\ copy \in [Actor -> Listing]
    /\ mixed \subseteq Actor
    /\ truth \in [Job -> Status \cup {"new", "deleted"}]
    /\ spoilt \in BOOLEAN
    /\ negative \subseteq Job

NoJobs == [j \in Job |-> "absent"]
Nobody == [a \in Actor |-> IF a \in Job THEN a ELSE NoJob]

Init ==
    /\ list = NoJobs
    /\ torn = FALSE
    /\ sample = {}
    /\ pc = [a \in Actor |-> "idle"]
    /\ about = Nobody
    /\ copy = [a \in Actor |-> NoJobs]
    /\ mixed = {}
    /\ truth = [j \in Job |-> "new"]
    /\ spoilt = FALSE
    /\ negative = {}

Goto(a, stage) == pc' = [pc EXCEPT ![a] = stage]

\* An actor that is done, or has failed: an analysis thread ends.
Rest(a) == IF a \in Job THEN "over" ELSE "idle"

\* What it is busy with then: an analysis knows no other job.
Forget(a) == about' = [about EXCEPT ![a] = IF a \in Job THEN a ELSE NoJob]

\* Actors between their load and the end of their writing.
Changing == {a \in Actor : pc[a] \in {"remove", "open", "write"}}
Writing == {a \in Actor : pc[a] = "write"}

-----------------------------------------------------------------------------
\* A file is submitted under a new id, with any duration, and stored.
Submit(j) ==
    /\ pc[Loop] = "idle"
    /\ truth[j] = "new"
    /\ j \notin sample
    /\ sample' = sample \cup {j}
    /\ negative' \in {negative, negative \cup {j}}
    /\ about' = [about EXCEPT ![Loop] = j]
    /\ Goto(Loop, "load")
    /\ UNCHANGED <<list, torn, copy, mixed, truth, spoilt>>

\* The analysis has slept for its duration, five seconds at most.  Nobody can sleep
\* for a negative time: that is an exception, which ends the thread.
Analysed(j) ==
    /\ pc[j] = "sleep"
    /\ Goto(j, IF j \in negative THEN Rest(j) ELSE "load")
    /\ UNCHANGED <<list, torn, sample, about, copy, mixed, truth, spoilt, negative>>

\* Someone asks for the deletion of a job.
AskDelete(q, j) ==
    /\ q \in Request
    /\ pc[q] = "idle"
    /\ truth[j] # "new"
    /\ about' = [about EXCEPT ![q] = j]
    /\ Goto(q, "load")
    /\ UNCHANGED <<list, torn, sample, copy, mixed, truth, spoilt, negative>>

\* Mutant: an analysis marks every job of the list.
Edited_All(a, j) ==
    CASE a = Loop    -> [list EXCEPT ![j] = "running"]
      [] a \in Job   -> [i \in Job |-> IF list[i] = "absent" THEN "absent" ELSE "completed"]
      [] OTHER       -> [list EXCEPT ![j] = "absent"]

\* Mutant: the job goes back on the list when its analysis is done.
Edited_Append(a, j) ==
    CASE a = Loop    -> [list EXCEPT ![j] = "running"]
      [] a \in Job   -> [list EXCEPT ![j] = "completed"]
      [] OTHER       -> [list EXCEPT ![j] = "absent"]

\* The list with actor a's change to job j: an analysis marks its job if it is
\* still listed.
Edited(a, j) ==
    CASE a = Loop    -> [list EXCEPT ![j] = "running"]
      [] a \in Job   -> [list EXCEPT ![j] = IF @ = "absent" THEN @ ELSE "completed"]
      [] OTHER       -> [list EXCEPT ![j] = "absent"]

\* The load fails on a file that cannot be read; a job that is not listed cannot
\* be deleted.
Refused(a) == torn \/ (a \in Request /\ list[about[a]] = "absent")

Load(a) ==
    /\ pc[a] = "load"
    /\ IF Refused(a)
       THEN /\ Goto(a, Rest(a))
            /\ Forget(a)
            /\ UNCHANGED copy
            /\ spoilt' = (spoilt \/ torn)
       ELSE /\ Goto(a, IF a \in Request THEN "remove" ELSE "open")
            /\ copy' = [copy EXCEPT ![a] = Edited(a, about[a])]
            /\ UNCHANGED about
            /\ spoilt' = (spoilt \/ Changing # {})
    /\ UNCHANGED <<list, torn, sample, mixed, truth, negative>>

\* A deletion removes the stored file before it saves the list.
RemoveSample(q) ==
    /\ pc[q] = "remove"
    /\ sample' = sample \ {about[q]}
    /\ Goto(q, "open")
    /\ UNCHANGED <<list, torn, about, copy, mixed, truth, spoilt, negative>>

OpenFile(a) ==
    /\ pc[a] = "open"
    /\ torn' = TRUE
    /\ mixed' = IF Writing = {} THEN mixed ELSE mixed \cup Writing \cup {a}
    /\ Goto(a, "write")
    /\ UNCHANGED <<list, sample, about, copy, truth, spoilt, negative>>

Told(a, j) ==
    CASE a = Loop               -> "running"
      [] a \in Request          -> "deleted"
      [] OTHER                  -> IF truth[j] = "running" THEN "completed" ELSE truth[j]

\* Mutant: the thread that is to analyse the job is not started.
Started_None(a) == pc' = [pc EXCEPT ![a] = Rest(a)]

\* After the list is saved: a submission starts the analysis thread.
Started(a) ==
    pc' = [b \in Actor |-> CASE b = a                        -> Rest(a)
                             [] a = Loop /\ b = about[Loop]  -> "sleep"
                             [] OTHER                        -> pc[b]]

\* The actor writes its copy; texts that two actors write at once may be unreadable.
WriteFile(a) ==
    /\ pc[a] = "write"
    /\ \/ torn' = FALSE /\ list' = copy[a]
       \/ a \in mixed /\ torn' = TRUE /\ list' = list
    /\ mixed' = mixed \ {a}
    /\ truth' = [truth EXCEPT ![about[a]] = Told(a, about[a])]
    /\ Started(a)
    /\ Forget(a)
    /\ copy' = [copy EXCEPT ![a] = NoJobs]
    /\ UNCHANGED <<sample, spoilt, negative>>

\* The process ends, with its threads, and starts again.
Restart ==
    /\ spoilt' = (spoilt \/ \E a \in Actor : pc[a] \notin {"idle", "over"})
    /\ pc' = [a \in Actor |-> IF a \in Job /\ pc[a] # "idle" THEN "over" ELSE "idle"]
    /\ mixed' = {}
    /\ about' = Nobody
    /\ copy' = [a \in Actor |-> NoJobs]
    /\ UNCHANGED <<list, torn, sample, truth, negative>>

ActorStep(a) == Load(a) \/ RemoveSample(a) \/ OpenFile(a) \/ WriteFile(a)

Next ==
    \/ \E j \in Job : Submit(j) \/ Analysed(j)
    \/ \E q \in Request, j \in Job : AskDelete(q, j)
    \/ \E a \in Actor : ActorStep(a)
    \/ Restart

Spec == Init /\ [][Next]_vars

\* Sleeps end, and threads are scheduled.
FairSpec ==
    /\ Spec
    /\ \A j \in Job : WF_vars(Analysed(j))
    /\ \A a \in Actor : WF_vars(ActorStep(a))

-----------------------------------------------------------------------------
(* Properties.                                                             *)

\* Whatever changes overlap and whenever the process is killed: a job reads
\* "completed", in the file or in a copy about to be saved, only after its
\* analysis, and the file cannot be read only after changes have overlapped, or
\* while one of them writes.
OnlyAnalysedComplete ==
    \A j \in Job : \A l \in {list} \cup {copy[a] : a \in Actor} :
        l[j] = "completed" => pc[j] \in {"open", "write", "over"}

JobsInvariant ==
    /\ TypeOK
    /\ OnlyAnalysedComplete
    /\ torn => spoilt \/ Cardinality(Writing) = 1

\* While no two changes have overlapped and none was cut short, what the file
\* lists once it is written is what was told of each job: no submission is lost,
\* no deleted job comes back, no result is undone.  Each listed job has its file,
\* unless it is just being deleted.
ListIsTold ==
    ~spoilt =>
        /\ ~torn => \A j \in Job :
              list[j] = IF truth[j] \in {"new", "deleted"} THEN "absent" ELSE truth[j]
        /\ \A j \in Job : list[j] # "absent" /\ j \notin sample =>
              \E q \in Request : about[q] = j /\ q \in Changing

\* A submitted job does not stay "running" for ever, unless its duration is
\* negative or its analysis was lost to an overlap or to a restart.
JobsEnd ==
    \A j \in Job :
        list[j] = "running" ~> (list[j] # "running" \/ spoilt \/ j \in negative)
=============================================================================
