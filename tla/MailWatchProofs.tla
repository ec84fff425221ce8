-------------------------- MODULE MailWatchProofs --------------------------
(* Proofs about MailWatch, for every number of calls, overlapping or not.  *)
EXTENDS MailWatch, TLAPS

LEMMA InitInvariant == Init => WatchInvariant
<1> SUFFICES ASSUME Init PROVE WatchInvariant
  OBVIOUS
<1>1. TypeOK
  BY DEF Init, TypeOK, State, RunStage
<1>2. ActiveIsConnected /\ StopIsWaiting /\ FlaggedRunIsDeaf
  BY DEF Init, ActiveIsConnected, StopIsWaiting, FlaggedRunIsDeaf
<1>3. WaitsAreReal
  <2>1. runNo = 0 /\ waitFor = [c \in Call |-> 0]
    BY DEF Init
  <2>2. 0 <= 0
    OBVIOUS
  <2>3. QED
    BY <2>1, <2>2, Zenon DEF WaitsAreReal
<1>4. QED
  BY <1>1, <1>2, <1>3 DEF WatchInvariant

\* What starting does to the run, as the steps that start need it.
LEMMA LaunchFacts ==
    ASSUME TypeOK, Launch
    PROVE  /\ state' \in State /\ run' \in RunStage /\ stopFlag' \in BOOLEAN
           /\ runNo' \in Nat /\ heard' \in BOOLEAN /\ leaked' \in BOOLEAN
           /\ client' \in {"none", "open", "closed", "failed"}
           /\ run # "none" =>
                UNCHANGED <<state, stopFlag, run, runNo, heard, client, leaked>>
           /\ run = "none" =>
                /\ state' = "connecting" /\ run' = "connecting" /\ ~stopFlag'
                /\ runNo' = runNo + 1
<1>1. CASE run # "none"
  BY <1>1 DEF TypeOK, Launch, runVars
<1>2. CASE run = "none"
  <2>1. leaked' = (leaked \/ client = "open")
    BY <1>2 DEF Launch, Replace
  <2>2. leaked' \in BOOLEAN
    BY <2>1, Zenon
  <2>3. client' = "open"
    BY <1>2 DEF Launch, Replace
  <2>4. state' = "connecting" /\ run' = "connecting" /\ stopFlag' = FALSE
        /\ runNo' = runNo + 1 /\ heard' = TRUE
    BY <1>2 DEF Launch
  <2>5. runNo' \in Nat
    BY <2>4 DEF TypeOK
  <2>6. state' \in State /\ run' \in RunStage
    BY <2>4 DEF State, RunStage
  <2>7. QED
    BY <1>2, <2>2, <2>3, <2>4, <2>5, <2>6, Zenon
<1>3. QED
  BY <1>1, <1>2

LEMMA RunAfterStopFacts ==
    ASSUME TypeOK
    PROVE  /\ RunAfterStop \in RunStage
           /\ armed /\ heard => RunAfterStop = "none"
           /\ RunAfterStop # "none" => RunAfterStop = run
  BY DEF TypeOK, RunAfterStop, RunStage

\* A call keeps the invariant, one step form at a time.
LEMMA CallStepInvariant ==
    ASSUME WatchInvariant, NEW c \in Call, CallStep(c)
    PROVE  WatchInvariant'
<1> USE WatchAssumption DEF WatchAssumption, callVars, stopVars, runVars
<1>0. TypeOK /\ ActiveIsConnected /\ StopIsWaiting /\ FlaggedRunIsDeaf
      /\ WaitsAreReal
  BY DEF WatchInvariant
<1>1. ASSUME Start(c) \/ RestartStopped(c) PROVE WatchInvariant'
  <2>1. Launch /\ armed' \in BOOLEAN /\ pc[c] = "ready"
        /\ pc' = [pc EXCEPT ![c] = "done"] /\ UNCHANGED <<waitFor, opening>>
        /\ (run # "none" => armed' = armed)
    BY <1>0, <1>1 DEF Start, RestartStopped, TypeOK, Issue, MayBegin
  <2>2. TypeOK'
    BY <1>0, <1>1, <2>1, LaunchFacts DEF Start, RestartStopped, Issue, TypeOK
  <2>3. ActiveIsConnected' /\ FlaggedRunIsDeaf' /\ WaitsAreReal'
    BY <1>0, <2>1, LaunchFacts
    DEF TypeOK, ActiveIsConnected, Closing, FlaggedRunIsDeaf, WaitsAreReal
  <2>4. StopIsWaiting'
    BY <1>0, <2>1, LaunchFacts DEF TypeOK, StopIsWaiting
  <2>5. QED
    BY <2>2, <2>3, <2>4 DEF WatchInvariant
<1>2. ASSUME NEW k \in {"stop", "restart"}, StopConnection(c, k)
      PROVE WatchInvariant'
  <2>1. TypeOK'
    BY <1>0, <1>2, RunAfterStopFacts DEF StopConnection, Issue, TypeOK
  <2>2. Closing' /\ FlaggedRunIsDeaf' /\ WaitsAreReal'
    BY <1>0, <1>2, RunAfterStopFacts
    DEF StopConnection, TypeOK, Closing, FlaggedRunIsDeaf, WaitsAreReal
  <2>3. StopIsWaiting'
    BY <1>0, <1>2, RunAfterStopFacts
    DEF StopConnection, Issue, MayBegin, TypeOK, StopIsWaiting
  <2>4. QED
    BY <2>1, <2>2, <2>3 DEF WatchInvariant, ActiveIsConnected
<1>3. ASSUME NEW k \in {"stop", "restart"}, StopIdle(c, k)
      PROVE WatchInvariant'
  <2>1. TypeOK'
    BY <1>0, <1>3, RunAfterStopFacts DEF StopIdle, Issue, TypeOK, State
  <2>2. ActiveIsConnected' /\ StopIsWaiting'
    BY <1>0, <1>3 DEF StopIdle, TypeOK, ActiveIsConnected, StopIsWaiting
  <2>3. FlaggedRunIsDeaf' /\ WaitsAreReal'
    BY <1>0, <1>3, RunAfterStopFacts
    DEF StopIdle, TypeOK, FlaggedRunIsDeaf, WaitsAreReal
  <2>4. QED
    BY <2>1, <2>2, <2>3 DEF WatchInvariant
<1>4. ASSUME LogoutDone(c) PROVE WatchInvariant'
  <2>1. TypeOK' /\ ActiveIsConnected'
    BY <1>0, <1>4 DEF LogoutDone, StateAfterStop, TypeOK, State, ActiveIsConnected
  <2>2. StopIsWaiting' /\ FlaggedRunIsDeaf' /\ WaitsAreReal'
    BY <1>0, <1>4
    DEF LogoutDone, TypeOK, StopIsWaiting, FlaggedRunIsDeaf, WaitsAreReal
  <2>3. QED
    BY <2>1, <2>2 DEF WatchInvariant
<1>5. ASSUME LateActive(c) PROVE WatchInvariant'
  BY <1>0, <1>5
  DEF LateActive, TypeOK, State, ActiveIsConnected, Closing, StopIsWaiting,
      FlaggedRunIsDeaf, WaitsAreReal, WatchInvariant
<1>6. ASSUME Resume(c) PROVE WatchInvariant'
  <2>1. pc[c] = "await" /\ (run = "none" \/ runNo # waitFor[c])
        /\ pc' = [pc EXCEPT ![c] = "done"]
        /\ UNCHANGED <<kind, last, overlapped, waitFor, opening>>
    BY <1>6 DEF Resume, Resumable
  <2>2. CASE kind[c] = "restart"
    <3>1. Launch /\ armed' = (run = "none")
      BY <1>6, <2>2 DEF Resume, AfterStop
    <3>2. TypeOK'
      BY <1>0, <2>1, <3>1, LaunchFacts DEF TypeOK
    <3>3. ActiveIsConnected' /\ FlaggedRunIsDeaf' /\ WaitsAreReal'
      BY <1>0, <2>1, <3>1, LaunchFacts
      DEF TypeOK, ActiveIsConnected, Closing, FlaggedRunIsDeaf, WaitsAreReal
    <3>4. StopIsWaiting'
      BY <1>0, <2>1, <3>1, LaunchFacts DEF TypeOK, StopIsWaiting
    <3>5. QED
      BY <3>2, <3>3, <3>4 DEF WatchInvariant
  <2>3. CASE kind[c] # "restart"
    <3>1. UNCHANGED <<state, stopFlag, run, runNo, heard, client, leaked>>
          /\ armed' = FALSE
      BY <1>6, <2>3 DEF Resume, AfterStop
    <3>2. TypeOK' /\ ActiveIsConnected' /\ FlaggedRunIsDeaf' /\ WaitsAreReal'
      BY <1>0, <2>1, <3>1
      DEF TypeOK, ActiveIsConnected, Closing, FlaggedRunIsDeaf, WaitsAreReal
    <3>3. StopIsWaiting'
      BY <1>0, <2>1, <3>1 DEF TypeOK, StopIsWaiting
    <3>4. QED
      BY <3>2, <3>3 DEF WatchInvariant
  <2>4. QED
    BY <2>2, <2>3
<1>7. QED
  BY <1>1, <1>2, <1>3, <1>4, <1>5, <1>6 DEF CallStep

\* A step of the loop keeps the invariant.
LEMMA LoopStepInvariant ==
    ASSUME WatchInvariant,
           Connected \/ AuthFails \/ ConnectionFails \/ Reconnect \/ NoticeStop
    PROVE  WatchInvariant'
<1> USE DEF callVars, stopVars, WatchInvariant, TypeOK, State, RunStage, Closed,
            ActiveIsConnected, Closing, StopIsWaiting, FlaggedRunIsDeaf, WaitsAreReal
<1>1. CASE Connected
  BY <1>1 DEF Connected
<1>2. CASE AuthFails
  BY <1>2 DEF AuthFails
<1>3. CASE ConnectionFails
  BY <1>3 DEF ConnectionFails
<1>4. CASE Reconnect
  BY <1>4 DEF Reconnect, Replace
<1>5. CASE NoticeStop
  BY <1>5 DEF NoticeStop
<1>6. QED
  BY <1>1, <1>2, <1>3, <1>4, <1>5

LEMMA StepInvariant == WatchInvariant /\ [Next]_vars => WatchInvariant'
<1> SUFFICES ASSUME WatchInvariant, [Next]_vars PROVE WatchInvariant'
  OBVIOUS
<1>1. CASE \E c \in Call : CallStep(c)
  BY <1>1, CallStepInvariant
<1>2. CASE Connected \/ AuthFails \/ ConnectionFails \/ Reconnect \/ NoticeStop
  BY <1>2, LoopStepInvariant
<1>3. CASE UNCHANGED vars
  BY <1>3
  DEF vars, WatchInvariant, TypeOK, ActiveIsConnected, Closing, StopIsWaiting,
      FlaggedRunIsDeaf, WaitsAreReal
<1>4. QED
  BY <1>1, <1>2, <1>3 DEF Next

\* However many calls overlap: "active" is published for a live connection or
\* while one is being closed, and a run hidden behind the state "stopped"
\* (monitor.js:94-116) has a stop() that still waits for it.
THEOREM WatchSafety == Spec => []WatchInvariant
<1>1. Init => WatchInvariant
  BY InitInvariant
<1>2. WatchInvariant /\ [Next]_vars => WatchInvariant'
  BY StepInvariant
<1>3. QED
  BY <1>1, <1>2, PTL DEF Spec

-----------------------------------------------------------------------------
(* Calls that are made one after the other.                                *)

\* A connection in use belongs to a run that uses it, and a raised flag means that
\* its connection has been taken away: so none is ever replaced while in use.
ClientIsInUse ==
    /\ stopFlag => client = "none"
    /\ client = "open" => run \in {"connecting", "active"}
    /\ ~leaked

\* Until two calls overlap, every run listens for the stop, which therefore ends
\* it at once, and nothing is started before the stop has returned.
StopsAreHeard ==
    ~overlapped =>
        /\ \A c, d \in Call : InProgress(c) /\ InProgress(d) => c = d
        /\ \A c \in Call : InProgress(c) => run = "none"
        /\ run # "none" => armed /\ heard
        /\ state = "stopped" => run = "none"

\* Until two calls overlap, the call in progress is the last one; what it has
\* published by the time it awaits its run, and what it has returned with, stays.
LastCallStands ==
    ~overlapped =>
        /\ \A c \in Call : InProgress(c) => c = last /\ kind[c] # "start"
        /\ \A c \in Call : pc[c] = "await" => state = "stopped"
        /\ last # NoCall /\ pc[last] = "done" => LastIsHonored

SequentialIInv == WatchInvariant /\ ClientIsInUse /\ StopsAreHeard /\ LastCallStands

LEMMA LaunchUsesClient ==
    ASSUME TypeOK, ClientIsInUse, Launch
    PROVE  ClientIsInUse'
<1> USE DEF ClientIsInUse
<1>1. CASE run # "none"
  BY <1>1 DEF Launch, runVars
<1>2. CASE run = "none"
  <2>1. client # "open"
    BY <1>2
  <2>2. stopFlag' = FALSE /\ run' = "connecting" /\ client' = "open"
        /\ leaked' = (leaked \/ client = "open")
    BY <1>2 DEF Launch, Replace
  <2>3. ~leaked'
    BY <2>1, <2>2
  <2>4. QED
    BY <2>2, <2>3
<1>3. QED
  BY <1>1, <1>2

LEMMA ClientStep == ASSUME TypeOK, ClientIsInUse, [Next]_vars PROVE ClientIsInUse'
<1> USE DEF ClientIsInUse, callVars, stopVars, runVars
<1>1. ASSUME NEW c \in Call, Start(c) \/ RestartStopped(c) PROVE ClientIsInUse'
  BY <1>1, LaunchUsesClient DEF Start, RestartStopped
<1>2. ASSUME NEW c \in Call, NEW k \in {"stop", "restart"},
             StopConnection(c, k) \/ StopIdle(c, k)
      PROVE  ClientIsInUse'
  BY <1>2 DEF StopConnection, StopIdle
<1>3. ASSUME NEW c \in Call, LogoutDone(c) \/ LateActive(c) PROVE ClientIsInUse'
  BY <1>3 DEF LogoutDone, LateActive
<1>4. ASSUME NEW c \in Call, Resume(c) PROVE ClientIsInUse'
  <2>1. Launch \/ UNCHANGED runVars
    BY <1>4 DEF Resume, AfterStop
  <2>2. QED
    BY <2>1, LaunchUsesClient
<1>5. CASE Connected \/ AuthFails \/ ConnectionFails
  BY <1>5 DEF Connected, AuthFails, ConnectionFails, Closed
<1>6. CASE Reconnect
  BY <1>6 DEF Reconnect, Replace
<1>7. CASE NoticeStop \/ UNCHANGED vars
  BY <1>7 DEF NoticeStop, vars
<1>8. QED
  BY <1>1, <1>2, <1>3, <1>4, <1>5, <1>6, <1>7 DEF Next, CallStep

\* A call that is made while none is in progress, by what it leaves behind.
LEMMA IssuedStep ==
    ASSUME TypeOK, StopsAreHeard, NEW c \in Call, NEW k, Issue(c, k),
           pc' \in [Call -> {"ready", "logout", "await", "done"}],
           \A d \in Call : d # c => pc'[d] = pc[d],
           ~overlapped => /\ InProgress(c)' => run' = "none"
                          /\ run' # "none" => armed' /\ heard'
                          /\ state' = "stopped" => run' = "none"
    PROVE  StopsAreHeard'
<1> SUFFICES ASSUME ~overlapped'
             PROVE  /\ \A d, e \in Call : InProgress(d)' /\ InProgress(e)' => d = e
                    /\ \A d \in Call : InProgress(d)' => run' = "none"
                    /\ run' # "none" => armed' /\ heard'
                    /\ state' = "stopped" => run' = "none"
  BY DEF StopsAreHeard
<1>1. ~overlapped /\ \A d \in Call : ~InProgress(d)
  BY Zenon DEF Issue
<1>2. \A d \in Call : d # c => ~InProgress(d)'
  BY <1>1 DEF InProgress
<1>3. QED
  BY <1>1, <1>2

LEMMA SequentialCallStep ==
    ASSUME TypeOK, TypeOK', StopsAreHeard, NEW c \in Call, CallStep(c)
    PROVE  StopsAreHeard'
<1> USE DEF callVars, stopVars, runVars
<1>1. ASSUME Start(c) \/ RestartStopped(c) PROVE StopsAreHeard'
  <2>1. /\ \E k \in {"start", "restart"} : Issue(c, k)
        /\ Launch /\ pc' = [pc EXCEPT ![c] = "done"]
        /\ armed' = (armed \/ run = "none") \/ (run = "none" /\ armed' = TRUE)
    BY <1>1 DEF Start, RestartStopped
  <2>2. pc'[c] = "done" /\ \A d \in Call : d # c => pc'[d] = pc[d]
    BY <2>1 DEF TypeOK
  <2>3. CASE run = "none"
    <3>1. run' = "connecting" /\ state' = "connecting" /\ armed' = TRUE /\ heard' = TRUE
      BY <2>1, <2>3 DEF Launch
    <3>2. QED
      BY <2>1, <2>2, <3>1, IssuedStep DEF InProgress, TypeOK
  <2>4. CASE run # "none"
    <3>1. run' = run /\ state' = state /\ heard' = heard /\ (armed => armed')
      BY <2>1, <2>4 DEF Launch
    <3>2. ~overlapped => (run # "none" => armed /\ heard) /\ (state = "stopped" => run = "none")
      BY DEF StopsAreHeard
    <3>3. QED
      BY <2>1, <2>2, <2>4, <3>1, <3>2, IssuedStep DEF InProgress, TypeOK
  <2>5. QED
    BY <2>3, <2>4
<1>2. ASSUME NEW k \in {"stop", "restart"}, StopConnection(c, k) \/ StopIdle(c, k)
      PROVE  StopsAreHeard'
  <2>1. Issue(c, k) /\ run' = RunAfterStop /\ \A d \in Call : d # c => pc'[d] = pc[d]
    BY <1>2 DEF StopConnection, StopIdle, TypeOK
  <2>2. ~overlapped => run' = "none"
    BY <2>1 DEF StopsAreHeard, RunAfterStop
  <2>3. QED
    BY <2>1, <2>2, IssuedStep DEF TypeOK
<1>3. ASSUME LogoutDone(c) \/ LateActive(c) PROVE StopsAreHeard'
  <2>1. /\ run' = run /\ armed' = armed /\ heard' = heard /\ overlapped' = overlapped
        /\ InProgress(c) /\ \A d \in Call : InProgress(d)' <=> InProgress(d)
    BY <1>3 DEF LogoutDone, LateActive, InProgress, TypeOK
  <2>2. QED
    BY <2>1 DEF StopsAreHeard
<1>4. ASSUME Resume(c) PROVE StopsAreHeard'
  <2>1. /\ InProgress(c) /\ overlapped' = overlapped
        /\ \A d \in Call : InProgress(d)' <=> InProgress(d) /\ d # c
    BY <1>4 DEF Resume, Resumable, InProgress, TypeOK
  <2>2. CASE ~overlapped
    <3>1. run = "none" /\ \A d \in Call : ~InProgress(d)'
      BY <2>1, <2>2 DEF StopsAreHeard
    <3>2. \/ run' = "none"
          \/ run' = "connecting" /\ state' = "connecting" /\ armed' = TRUE /\ heard' = TRUE
      BY <1>4, <3>1 DEF Resume, AfterStop, Launch
    <3>3. QED
      BY <3>1, <3>2 DEF StopsAreHeard
  <2>3. QED
    BY <2>1, <2>2 DEF StopsAreHeard
<1>5. QED
  BY <1>1, <1>2, <1>3, <1>4 DEF CallStep

LEMMA SequentialStep ==
    ASSUME TypeOK, TypeOK', StopsAreHeard, [Next]_vars
    PROVE  StopsAreHeard'
<1>1. ASSUME NEW c \in Call, CallStep(c) PROVE StopsAreHeard'
  BY <1>1, SequentialCallStep
<1>2. CASE Connected \/ AuthFails \/ ConnectionFails \/ Reconnect \/ NoticeStop
  <2>1. /\ pc' = pc /\ overlapped' = overlapped /\ armed' = armed /\ run # "none"
        /\ heard' = heard \/ heard' = armed
        /\ state' = state \/ state' # "stopped"
    BY <1>2
    DEF Connected, AuthFails, ConnectionFails, Reconnect, NoticeStop, callVars
  <2>2. SUFFICES ASSUME ~overlapped PROVE StopsAreHeard'
    BY <2>1 DEF StopsAreHeard
  <2>3. (\A c \in Call : ~InProgress(c)) /\ armed /\ heard /\ state # "stopped"
    BY <2>1, <2>2 DEF StopsAreHeard
  <2>4. \A c \in Call : ~InProgress(c)'
    BY <2>1, <2>3 DEF InProgress
  <2>5. armed' /\ heard' /\ state' # "stopped"
    BY <2>1, <2>3
  <2>6. QED
    BY <2>4, <2>5 DEF StopsAreHeard
<1>3. CASE UNCHANGED vars
  BY <1>3 DEF vars, StopsAreHeard, InProgress
<1>4. QED
  BY <1>1, <1>2, <1>3 DEF Next

\* A call that is made while none is in progress becomes the last one.
LEMMA LastIssued ==
    ASSUME TypeOK, NEW c \in Call, NEW k, Issue(c, k),
           pc' \in [Call -> {"ready", "logout", "await", "done"}],
           \A d \in Call : d # c => pc'[d] = pc[d],
           pc'[c] = "await" => state' = "stopped",
           IF pc'[c] = "done" THEN k # "stop" /\ run' # "none" ELSE k # "start"
    PROVE  LastCallStands'
<1> SUFFICES ASSUME ~overlapped'
             PROVE  /\ \A d \in Call : InProgress(d)' => d = last' /\ kind'[d] # "start"
                    /\ \A d \in Call : pc'[d] = "await" => state' = "stopped"
                    /\ pc'[last'] = "done" => LastIsHonored'
  BY DEF LastCallStands
<1>1. last' = c /\ kind' = [kind EXCEPT ![c] = k]
  BY DEF Issue
<1>2. \A d \in Call : ~InProgress(d)
  BY Zenon DEF Issue
<1>3. \A d \in Call : d # c => ~InProgress(d)'
  BY <1>2 DEF InProgress
<1>4. kind'[c] = k
  BY <1>1 DEF TypeOK
<1>5. QED
  BY <1>1, <1>3, <1>4 DEF InProgress, LastIsHonored

LEMMA LastCallStep ==
    ASSUME TypeOK, TypeOK', StopsAreHeard, LastCallStands, NEW c \in Call, CallStep(c)
    PROVE  LastCallStands'
<1> USE DEF callVars, stopVars, runVars
<1>1. ASSUME Start(c) \/ RestartStopped(c) PROVE LastCallStands'
  <2>1. /\ \E k \in {"start", "restart"} : Issue(c, k)
        /\ Launch /\ pc' = [pc EXCEPT ![c] = "done"]
    BY <1>1 DEF Start, RestartStopped
  <2>2. run' # "none"
    BY <2>1 DEF Launch
  <2>3. pc'[c] = "done" /\ \A d \in Call : d # c => pc'[d] = pc[d]
    BY <2>1 DEF TypeOK
  <2>4. PICK k \in {"start", "restart"} : Issue(c, k)
    BY <2>1
  <2>5. QED
    BY <2>2, <2>3, <2>4, LastIssued DEF TypeOK
<1>2. ASSUME NEW k \in {"stop", "restart"}, StopConnection(c, k) \/ StopIdle(c, k)
      PROVE  LastCallStands'
  <2>1. /\ Issue(c, k) /\ \A d \in Call : d # c => pc'[d] = pc[d]
        /\ pc'[c] = "logout" \/ (pc'[c] = "await" /\ state' = "stopped")
    BY <1>2 DEF StopConnection, StopIdle, TypeOK
  <2>2. QED
    BY <2>1, LastIssued DEF TypeOK
<1>3. ASSUME LogoutDone(c) \/ LateActive(c) PROVE LastCallStands'
  <2>1. /\ overlapped' = overlapped /\ last' = last /\ kind' = kind /\ InProgress(c)
        /\ \A d \in Call : d # c => pc'[d] = pc[d]
        /\ \A d \in Call : InProgress(d)' <=> InProgress(d)
        /\ pc'[c] = "logout" \/ (pc'[c] = "await" /\ state' = "stopped")
    BY <1>3 DEF LogoutDone, LateActive, InProgress, TypeOK, StateAfterStop
  <2>2. SUFFICES ASSUME ~overlapped PROVE LastCallStands'
    BY <2>1 DEF LastCallStands
  <2>3. c = last /\ \A d \in Call : d # c => ~InProgress(d)
    BY <2>1, <2>2 DEF LastCallStands, StopsAreHeard
  <2>4. \A d \in Call : pc'[d] = "await" => d = c
    BY <2>1, <2>3 DEF InProgress
  <2>5. QED
    BY <2>1, <2>3, <2>4 DEF LastCallStands
<1>4. ASSUME Resume(c) PROVE LastCallStands'
  <2>1. /\ overlapped' = overlapped /\ last' = last /\ kind' = kind /\ InProgress(c)
        /\ \A d \in Call : d # c => pc'[d] = pc[d]
        /\ pc[c] = "await" /\ pc'[c] = "done" /\ AfterStop(c)
    BY <1>4 DEF Resume, Resumable, InProgress, TypeOK
  <2>2. SUFFICES ASSUME ~overlapped PROVE LastCallStands'
    BY <2>1 DEF LastCallStands
  <2>3. /\ c = last /\ state = "stopped" /\ run = "none"
        /\ \A d \in Call : d # c => ~InProgress(d)
    BY <2>1, <2>2 DEF LastCallStands, StopsAreHeard
  <2>4. \A d \in Call : ~InProgress(d)' /\ pc'[d] # "await"
    BY <2>1, <2>3 DEF InProgress
  <2>5. kind \in [Call -> {"start", "stop", "restart"}]
    BY DEF TypeOK
  <2>6. CASE kind[c] = "restart"
    <3>1. run' # "none"
      BY <2>1, <2>6 DEF AfterStop, Launch
    <3>2. QED
      BY <2>1, <2>3, <2>4, <2>6, <3>1 DEF LastCallStands, LastIsHonored
  <2>7. CASE kind[c] # "restart"
    <3>1. run' = run /\ state' = state
      BY <2>1, <2>7 DEF AfterStop
    <3>2. kind[c] = "stop"
      BY <2>1, <2>2, <2>5, <2>7 DEF LastCallStands
    <3>3. QED
      BY <2>1, <2>3, <2>4, <3>1, <3>2 DEF LastCallStands, LastIsHonored
  <2>8. QED
    BY <2>6, <2>7
<1>5. QED
  BY <1>1, <1>2, <1>3, <1>4 DEF CallStep

LEMMA LastStep ==
    ASSUME WatchInvariant, TypeOK', StopsAreHeard, LastCallStands, [Next]_vars
    PROVE  LastCallStands'
<1>1. TypeOK /\ FlaggedRunIsDeaf
  BY DEF WatchInvariant
<1>2. ASSUME NEW c \in Call, CallStep(c) PROVE LastCallStands'
  BY <1>1, <1>2, LastCallStep
<1>3. CASE Connected \/ AuthFails \/ ConnectionFails \/ Reconnect \/ NoticeStop
  <2>1. /\ pc' = pc /\ overlapped' = overlapped /\ last' = last /\ kind' = kind /\ run # "none"
        /\ run' # "none" \/ state' = "error" \/ NoticeStop
    BY <1>3
    DEF Connected, AuthFails, ConnectionFails, Reconnect, NoticeStop, callVars
  <2>2. SUFFICES ASSUME ~overlapped PROVE LastCallStands'
    BY <2>1 DEF LastCallStands
  <2>3. (\A c \in Call : ~InProgress(c)) /\ ~stopFlag
    BY <1>1, <2>1, <2>2 DEF StopsAreHeard, FlaggedRunIsDeaf
  <2>4. \A c \in Call : ~InProgress(c)' /\ pc'[c] # "await"
    BY <2>1, <2>3 DEF InProgress
  <2>5. run' # "none" \/ state' = "error"
    BY <2>1, <2>3 DEF NoticeStop
  <2>6. QED
    BY <2>1, <2>2, <2>4, <2>5 DEF LastCallStands, LastIsHonored
<1>4. CASE UNCHANGED vars
  BY <1>4 DEF vars, LastCallStands, InProgress, LastIsHonored
<1>5. QED
  BY <1>2, <1>3, <1>4 DEF Next

\* While calls are made one after the other, "stopped" means that no run is left
\* (monitor.js:94-116), no connection in use is ever dropped unclosed, and what a
\* call returned with stays so until the next: after a stop nothing runs again, after
\* a start or restart a run is there as long as the credentials are accepted.
THEOREM SequentialCallsStop == Spec => []SequentialCalls
<1>1. Init => SequentialIInv
  BY InitInvariant
  DEF Init, SequentialIInv, ClientIsInUse, StopsAreHeard, LastCallStands, InProgress
<1>2. SequentialIInv /\ [Next]_vars => SequentialIInv'
  BY StepInvariant, ClientStep, SequentialStep, LastStep DEF SequentialIInv, WatchInvariant
<1>3. SequentialIInv => SequentialCalls
  BY DEF SequentialIInv, ClientIsInUse, StopsAreHeard, LastCallStands, SequentialCalls
<1>4. QED
  BY <1>1, <1>2, <1>3, PTL DEF Spec
=============================================================================
