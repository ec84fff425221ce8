----------------------------- MODULE MailWatch -----------------------------
(***************************************************************************)
(* Lifecycle of the dashboard's mailbox monitor, Email/server/monitor.js:  *)
(* start, stop and restart calls against the loop of #run and #connectOnce.*)
(*                                                                         *)
(* The program is single-threaded: a step runs from one await to the next, *)
(* and continuations that are ready run before any other call or event is  *)
(* served.  The calls come from the dashboard (routes.js), from a save of  *)
(* the settings, which restarts in the background, from startup and from   *)
(* shutdown; nothing keeps two of them apart.                              *)
(***************************************************************************)
EXTENDS Naturals

CONSTANTS
    Call,        \* calls made to the monitor
    NoCall

ASSUME WatchAssumption == NoCall \notin Call

VARIABLES
    state,       \* the published state
    stopFlag,    \* _stop
    run,         \* where #run stands; "none" when _runPromise is null
    runNo,       \* runs started so far: names the current _runPromise
    armed,       \* _stopPromise and _stopResolve are set
    heard,       \* the current wait of #run listens to that promise
    client,      \* this.client: "open", "closed", or "failed": open, but given up
    leaked,      \* a connection is open that this.client no longer names
    kind,        \* kind of each call made
    pc,          \* progress of each call
    waitFor,     \* the run that a stop waits for
    opening,     \* stops that cut off a connection whose opening may still finish
    last,        \* the call made last
    overlapped   \* history: a call was made while another was in progress

vars == <<state, stopFlag, run, runNo, armed, heard, client, leaked, kind, pc,
          waitFor, opening, last, overlapped>>

runVars  == <<stopFlag, run, runNo, heard, client, leaked>>
callVars == <<kind, last, overlapped>>
stopVars == <<waitFor, opening>>

State == {"stopped", "connecting", "active", "reconnecting", "error"}
RunStage == {"none", "connecting", "active", "backoff"}

TypeOK ==
    /\ state \in State
    /\ stopFlag \in BOOLEAN
    /\ run \in RunStage
    /\ runNo \in Nat
    /\ armed \in BOOLEAN
    /\ heard \in BOOLEAN
    /\ client \in {"none", "open", "closed", "failed"}
    /\ leaked \in BOOLEAN
    /\ kind \in [Call -> {"start", "stop", "restart"}]
    /\ pc \in [Call -> {"ready", "logout", "await", "done"}]
    /\ waitFor \in [Call -> Nat]
    /\ opening \subseteq Call
    /\ last \in Call \cup {NoCall}
    /\ overlapped \in BOOLEAN

\* Mutant: a stop waits for the next run instead of the end of its own.
Resumable_NextRun(c) == pc[c] = "await" /\ runNo # waitFor[c]

\* A stop whose run is over continues before anything else happens.
Resumable(c) == pc[c] = "await" /\ (run = "none" \/ runNo # waitFor[c])
Quiet == \A c \in Call : ~Resumable(c)

MayBegin(c) == pc[c] = "ready" /\ Quiet

InProgress(c) == pc[c] \notin {"ready", "done"}

-----------------------------------------------------------------------------
Init ==
    /\ state = "stopped"
    /\ stopFlag = FALSE
    /\ run = "none"
    /\ runNo = 0
    /\ armed = FALSE
    /\ heard = FALSE
    /\ client = "none"
    /\ leaked = FALSE
    /\ kind = [c \in Call |-> "start"]
    /\ pc = [c \in Call |-> "ready"]
    /\ waitFor = [c \in Call |-> 0]
    /\ opening = {}
    /\ last = NoCall
    /\ overlapped = FALSE

Issue(c, k) ==
    /\ MayBegin(c)
    /\ kind' = [kind EXCEPT ![c] = k]
    /\ last' = c
    /\ overlapped' = (overlapped \/ \E d \in Call : InProgress(d))

\* this.client is replaced by a new connection; one that is still in use is then
\* out of reach.  (So is one whose first synchronisation failed, see below.)
Replace ==
    /\ client' = "open"
    /\ leaked' = (leaked \/ client = "open")

\* start() up to its first await: nothing if a run exists, otherwise a new run
\* that is connecting.
Launch ==
    \/ /\ run # "none"
       /\ UNCHANGED <<state, runVars>>
    \/ /\ run = "none"
       /\ state' = "connecting"
       /\ stopFlag' = FALSE
       /\ run' = "connecting"
       /\ runNo' = runNo + 1
       /\ heard' = TRUE
       /\ Replace

Start(c) ==
    /\ Issue(c, "start")
    /\ Launch
    /\ armed' = (armed \/ run = "none")
    /\ pc' = [pc EXCEPT ![c] = "done"]
    /\ UNCHANGED stopVars

\* Raising the flag and resolving the stop promise ends a run that listens.
RunAfterStop == IF armed /\ heard THEN "none" ELSE run

\* stop(), also on behalf of restart(), while there is a connection: it waits
\* for the logout.
StopConnection(c, k) ==
    /\ Issue(c, k)
    /\ k = "stop" \/ (k = "restart" /\ (state # "stopped" \/ run # "none"))
    /\ client # "none"
    /\ stopFlag' = TRUE
    /\ run' = RunAfterStop
    /\ client' = "none"
    /\ opening' = IF run = "connecting" THEN opening \cup {c} ELSE opening
    /\ pc' = [pc EXCEPT ![c] = "logout"]
    /\ UNCHANGED <<state, runNo, armed, heard, leaked, waitFor>>

\* stop() without a connection: state and run are dealt with at once.
StopIdle(c, k) ==
    /\ Issue(c, k)
    /\ k = "stop" \/ (k = "restart" /\ (state # "stopped" \/ run # "none"))
    /\ client = "none"
    /\ stopFlag' = TRUE
    /\ run' = RunAfterStop
    /\ state' = "stopped"
    /\ pc' = [pc EXCEPT ![c] = "await"]
    /\ waitFor' = [waitFor EXCEPT ![c] = runNo]
    /\ UNCHANGED <<runNo, armed, heard, client, leaked, opening>>

\* restart() of a monitor that is stopped.
RestartStopped(c) ==
    /\ Issue(c, "restart")
    /\ state = "stopped"
    /\ run = "none"
    /\ Launch
    /\ armed' = TRUE
    /\ pc' = [pc EXCEPT ![c] = "done"]
    /\ UNCHANGED stopVars

\* Mutant: the state is left as it was.
StateAfterStop_Kept == state

StateAfterStop == "stopped"

\* The logout of stop() is over: publish the state and wait for _runPromise,
\* which may by now be that of a later run.
LogoutDone(c) ==
    /\ pc[c] = "logout"
    /\ Quiet
    /\ state' = StateAfterStop
    /\ pc' = [pc EXCEPT ![c] = "await"]
    /\ waitFor' = [waitFor EXCEPT ![c] = runNo]
    /\ opening' = opening \ {c}
    /\ UNCHANGED <<runVars, armed, callVars>>

\* The opening of a connection is not cancelled by the stop that closes it:
\* if INBOX was being opened or read, that finishes first and publishes
\* "active" whatever has happened since.
LateActive(c) ==
    /\ c \in opening
    /\ pc[c] = "logout"
    /\ Quiet
    /\ state' = "active"
    /\ opening' = opening \ {c}
    /\ UNCHANGED <<runVars, armed, pc, waitFor, callVars>>

\* Mutant: restart() forgets the second half.
AfterStop_NoStart(c) == UNCHANGED <<state, runVars>> /\ armed' = FALSE

\* Mutant: a stop() is taken for a restart().
AfterStop_Always(c) == Launch /\ armed' = (run = "none")

\* What follows stop() in the caller: restart() starts again.
AfterStop(c) ==
    IF kind[c] = "restart"
    THEN Launch /\ armed' = (run = "none")
    ELSE UNCHANGED <<state, runVars>> /\ armed' = FALSE

\* The awaited run is over: the stop promise is dropped and stop() returns.
Resume(c) ==
    /\ Resumable(c)
    /\ AfterStop(c)
    /\ pc' = [pc EXCEPT ![c] = "done"]
    /\ UNCHANGED <<callVars, stopVars>>

-----------------------------------------------------------------------------
(* The loop.                                                               *)

\* Mutant: a failed connection stays open.
Closed_Open == client

\* A failure closes the connection.
Closed == IF client = "open" THEN "closed" ELSE client

\* Connected, INBOX open and first synchronisation done.
Connected ==
    /\ run = "connecting"
    /\ Quiet
    /\ ~stopFlag
    /\ run' = "active"
    /\ state' = "active"
    /\ UNCHANGED <<stopFlag, runNo, armed, heard, client, leaked, pc,
                   stopVars, callVars>>

\* The server refuses the credentials: the loop gives up.
AuthFails ==
    /\ run = "connecting"
    /\ Quiet
    /\ ~stopFlag
    /\ run' = "none"
    /\ state' = "error"
    /\ client' = Closed
    /\ UNCHANGED <<stopFlag, runNo, armed, heard, leaked, pc, stopVars, callVars>>

\* connectOnce fails: back off, listening to the stop promise if there is one.
\* The connection is closed, except when it is the synchronisation that failed:
\* then it stays open until stop() or, for ever, until the next one replaces it.
ConnectionFails ==
    /\ run \in {"connecting", "active"}
    /\ Quiet
    /\ ~stopFlag
    /\ run' = "backoff"
    /\ state' = "reconnecting"
    /\ heard' = armed
    /\ \/ client' = Closed
       \/ run = "connecting" /\ client = "open" /\ client' = "failed"
    /\ UNCHANGED <<stopFlag, runNo, armed, leaked, pc, stopVars, callVars>>

\* The delay is over: connect again.
Reconnect ==
    /\ run = "backoff"
    /\ Quiet
    /\ ~stopFlag
    /\ run' = "connecting"
    /\ heard' = armed
    /\ Replace
    /\ UNCHANGED <<state, stopFlag, runNo, armed, pc, stopVars, callVars>>

\* A run that did not hear of the stop sees the flag after its current wait.
NoticeStop ==
    /\ run # "none"
    /\ Quiet
    /\ stopFlag
    /\ run' = "none"
    /\ UNCHANGED <<state, stopFlag, runNo, armed, heard, client, leaked, pc,
                   stopVars, callVars>>

CallStep(c) ==
    \/ Start(c)
    \/ \E k \in {"stop", "restart"} : StopConnection(c, k) \/ StopIdle(c, k)
    \/ RestartStopped(c)
    \/ LogoutDone(c)
    \/ LateActive(c)
    \/ Resume(c)

Next ==
    \/ \E c \in Call : CallStep(c)
    \/ Connected
    \/ AuthFails
    \/ ConnectionFails
    \/ Reconnect
    \/ NoticeStop

Spec == Init /\ [][Next]_vars

\* Logouts end (socketTimeout), continuations run, connection attempts have an
\* outcome (connectionTimeout) and back-off delays elapse.
FairSpec ==
    /\ Spec
    /\ \A c \in Call : WF_vars(LogoutDone(c)) /\ WF_vars(Resume(c))
    /\ WF_vars(Connected \/ AuthFails \/ ConnectionFails)
    /\ WF_vars(Reconnect)
    /\ WF_vars(NoticeStop)

-----------------------------------------------------------------------------
(* Properties.                                                             *)

Closing == \E c \in Call : pc[c] = "logout"

\* "active" is published for a live connection that nobody has asked to stop,
\* or while a connection is being closed.
ActiveIsConnected ==
    state = "active" => (run = "active" /\ ~stopFlag) \/ Closing

\* A run behind the state "stopped" is one that some stop() is still waiting
\* for.
StopIsWaiting ==
    state = "stopped" /\ run # "none" =>
        \E c \in Call : pc[c] = "await" /\ waitFor[c] = runNo

\* A run that is to end by the flag alone has no stop promise left, and a run
\* without one was deprived of it by a stop() that outlived its own run.
FlaggedRunIsDeaf ==
    run # "none" /\ stopFlag => ~(armed /\ heard)

\* waitFor names a run that was started.
WaitsAreReal == \A c \in Call : waitFor[c] <= runNo

WatchInvariant ==
    /\ TypeOK
    /\ ActiveIsConnected
    /\ StopIsWaiting
    /\ FlaggedRunIsDeaf
    /\ WaitsAreReal

\* What the call made last returned with: no run and the state "stopped" after a
\* stop, otherwise a run, unless the credentials have been refused.
LastIsHonored ==
    IF kind[last] = "stop"
    THEN run = "none" /\ state = "stopped"
    ELSE run # "none" \/ state = "error"

\* While calls are made one after the other, the published state "stopped" means
\* that no run is left, no connection in use is dropped without being closed, and
\* what a call returned with stays so until the next, whatever the server does.
SequentialCalls ==
    ~overlapped =>
        /\ state = "stopped" => run = "none"
        /\ ~leaked
        /\ last # NoCall /\ pc[last] = "done" => LastIsHonored

Issued == \A c \in Call : pc[c] # "ready"

\* When calls are made one after the other and the last is a stop, monitoring
\* ends for good, whatever the server does.
StopIsFinal ==
    (Issued /\ ~overlapped /\ kind[last] = "stop") ~> [](run = "none" /\ state = "stopped")

\* When the last call is a start or a restart, a run exists from then on,
\* unless the credentials are refused.
StartIsFinal ==
    (Issued /\ ~overlapped /\ kind[last] # "stop") ~> [](run # "none" \/ state = "error")

\* Every call returns, as long as calls are not made while others are in progress.
CallsReturn == \A c \in Call : InProgress(c) ~> (pc[c] = "done" \/ overlapped)
=============================================================================
