----------------------------- MODULE LoginGuard -----------------------------
(***************************************************************************)
(* Login, registration and password reset (routes/auth.py) over the        *)
(* LoginAttemptTracker of security/middleware.py and the table of users.   *)
(*                                                                         *)
(* The handlers are plain functions: each request runs in a thread of the  *)
(* pool, and threads are switched between any two accesses to the tracker, *)
(* which has no lock.  The tracker keeps the addresses apart; the module   *)
(* follows the requests of one.  Whether a password is right is decided    *)
(* outside, by a slow comparison that another request may overtake.  Time  *)
(* passes while requests compare or hash passwords, or wait.               *)
(***************************************************************************)
EXTENDS Integers, Functions

CONSTANTS
    Thread,      \* threads that serve requests
    Name,        \* user names
    Fold,        \* a name in lower case: what Python's lower() makes of it
    DbFold,      \* what the database's does, which changes ASCII letters alone
    MaxAttempts, \* MAX_LOGIN_ATTEMPTS
    Window,      \* LOGIN_WINDOW_MINUTES
    Lockout,     \* LOCKOUT_MINUTES
    MaxTime,     \* bound: the clock stops here
    MaxListed,   \* bound: attempts listed, which threads can restore without end
    Never        \* lockedAt of an address without a lockout

Time == 0 .. MaxTime

ASSUME GuardAssumption ==
    /\ DOMAIN Fold = Name
    /\ DOMAIN DbFold = Name
    /\ MaxAttempts \in Nat \ {0}
    /\ Window \in Nat \ {0}
    /\ Lockout \in Nat
    /\ MaxTime \in Nat
    /\ MaxListed \in Nat
    /\ Never \notin Time

VARIABLES
    now,         \* the clock, in minutes
    attempts,    \* _attempts[ip]: how many of the list were made in each minute
    holding,     \* threads about to append to the list that is still there
    lockedAt,    \* _lockouts[ip]
    pc,          \* where each thread stands
    seen,        \* the attempts its cleanup has kept
    users,       \* names in the table of users
    row,         \* the name a registration will insert
    failures,    \* history: failed logins by minute, see Forgiven
    overlapped   \* history: two requests have been in progress at once

guardVars == <<now, attempts, holding, lockedAt, pc, seen, users, row, failures, overlapped>>

\* Histories count no further than the limit.
Tally == [Time -> 0 .. MaxAttempts]

Stage == {"idle", "present", "expired", "unlist", "verify", "clean", "store", "fetch",
          "append", "judge", "lock", "count", "recount", "clear", "unlock", "hash"}

GuardTypeOK ==
    /\ now \in Time
    /\ attempts \in [Time -> Nat]
    /\ holding \subseteq Thread
    /\ lockedAt \in Time \cup {Never}
    /\ pc \in [Thread -> Stage]
    /\ seen \in [Thread -> [Time -> Nat]]
    /\ users \subseteq Name
    /\ row \in [Thread -> SUBSET Name]
    /\ failures \in Tally
    /\ overlapped \in BOOLEAN

NoAttempts == [m \in Time |-> 0]

GuardInit ==
    /\ now = 0
    /\ attempts = NoAttempts
    /\ holding = {}
    /\ lockedAt = Never
    /\ pc = [t \in Thread |-> "idle"]
    /\ seen = [t \in Thread |-> NoAttempts]
    /\ users = {}
    /\ row = [t \in Thread |-> {}]
    /\ failures = NoAttempts
    /\ overlapped = FALSE

Goto(t, stage) == pc' = [pc EXCEPT ![t] = stage]

\* A cleared address starts afresh; the history forgets with it only as long as
\* requests have come one at a time.
Forgiven == IF overlapped THEN failures ELSE NoAttempts

\* A request is taken up by an idle thread.
Accept(t) ==
    /\ pc[t] = "idle"
    /\ overlapped' = (overlapped \/ \E u \in Thread \ {t} : pc[u] # "idle")

\* Minutes pass only while no thread is in the middle of the tracker.
Tick ==
    /\ now < MaxTime
    /\ \A t \in Thread : pc[t] \in {"idle", "verify", "hash"}
    /\ now' = now + 1
    /\ UNCHANGED <<attempts, holding, lockedAt, pc, seen, users, row, failures, overlapped>>

-----------------------------------------------------------------------------
(* Login: is_locked_out, the comparison, record_failed_attempt and         *)
(* get_remaining_attempts or clear_attempts.                               *)

Login(t) ==
    /\ Accept(t)
    /\ Goto(t, IF lockedAt = Never THEN "verify" ELSE "present")
    /\ UNCHANGED <<now, attempts, holding, lockedAt, seen, users, row, failures>>

\* The lockout that was there is read; if it has gone, that is an exception and
\* the request fails.  While it lasts the request is refused.
ReadLockout(t) ==
    /\ pc[t] = "present"
    /\ Goto(t, IF lockedAt # Never /\ now - lockedAt > Lockout THEN "expired" ELSE "idle")
    /\ UNCHANGED <<now, attempts, holding, lockedAt, seen, users, row, failures, overlapped>>

\* A lockout that is over is removed, unless it has gone ...
Unlock(t) ==
    /\ pc[t] = "expired"
    /\ lockedAt' = Never
    /\ Goto(t, IF lockedAt = Never THEN "idle" ELSE "unlist")
    /\ UNCHANGED <<now, attempts, holding, seen, users, row, failures, overlapped>>

\* ... and then the attempts are.
Unlist(t) ==
    /\ pc[t] = "unlist"
    /\ attempts' = NoAttempts
    /\ holding' = {}
    /\ failures' = Forgiven
    /\ Goto(t, "verify")
    /\ UNCHANGED <<now, lockedAt, seen, users, row, overlapped>>

\* The comparison, of a password for an account that must exist to succeed;
\* it is found under its exact name as well.  A request that gives no name is
\* refused without one.
Verify(t) ==
    /\ pc[t] = "verify"
    /\ \/ Goto(t, "idle")
       \/ Goto(t, "clean")
       \/ users # {} /\ Goto(t, "clear")
    /\ UNCHANGED <<now, attempts, holding, lockedAt, seen, users, row, failures, overlapped>>

\* Mutant: attempts are never forgotten.
Recent_All(m) == TRUE

Recent(m) == m > now - Window

\* _cleanup_old_attempts: the recent attempts are selected ...
Select(t) ==
    /\ pc[t] \in {"clean", "count"}
    /\ seen' = [seen EXCEPT ![t] = [m \in Time |-> IF Recent(m) THEN attempts[m] ELSE 0]]
    /\ Goto(t, IF pc[t] = "clean" THEN "store" ELSE "recount")
    /\ UNCHANGED <<now, attempts, holding, lockedAt, users, row, failures, overlapped>>

\* ... and become the list, whatever has been done to the list meanwhile.
Replace(t) ==
    /\ pc[t] \in {"store", "recount"}
    /\ attempts' = seen[t]
    /\ holding' = {}
    /\ seen' = [seen EXCEPT ![t] = NoAttempts]
    /\ Goto(t, IF pc[t] = "store" THEN "fetch" ELSE "idle")
    /\ UNCHANGED <<now, lockedAt, users, row, failures, overlapped>>

\* record_failed_attempt looks the list up ...
Fetch(t) ==
    /\ pc[t] = "fetch"
    /\ holding' = holding \cup {t}
    /\ Goto(t, "append")
    /\ UNCHANGED <<now, attempts, lockedAt, seen, users, row, failures, overlapped>>

OneMore(f) == [f EXCEPT ![now] = IF @ < MaxAttempts THEN @ + 1 ELSE @]

Listed == SumFunction(attempts)

\* ... and appends to it: in vain, if it has been replaced.
RecordFailure(t) ==
    /\ pc[t] = "append"
    /\ \/ /\ t \in holding
          /\ Listed < MaxListed
          /\ attempts' = [attempts EXCEPT ![now] = @ + 1]
       \/ /\ t \notin holding
          /\ UNCHANGED attempts
    /\ holding' = holding \ {t}
    /\ failures' = OneMore(failures)
    /\ Goto(t, "judge")
    /\ UNCHANGED <<now, lockedAt, seen, users, row, overlapped>>

\* Mutant: the lockout comes one attempt too late.
TooMany_Late == Listed > MaxAttempts

TooMany == Listed >= MaxAttempts

\* The list is looked up once more and counted ...
Judge(t) ==
    /\ pc[t] = "judge"
    /\ Goto(t, IF TooMany THEN "lock" ELSE "count")
    /\ UNCHANGED <<now, attempts, holding, lockedAt, seen, users, row, failures, overlapped>>

\* ... and the address locked out, even if it was cleared in between.
LockOut(t) ==
    /\ pc[t] = "lock"
    /\ lockedAt' = now
    /\ Goto(t, "count")
    /\ UNCHANGED <<now, attempts, holding, seen, users, row, failures, overlapped>>

\* clear_attempts, after a login or a password reset: the attempts are removed ...
Clear(t) ==
    /\ pc[t] = "clear"
    /\ attempts' = NoAttempts
    /\ holding' = {}
    /\ Goto(t, "unlock")
    /\ UNCHANGED <<now, lockedAt, seen, users, row, failures, overlapped>>

\* ... and then the lockout.
ClearLockout(t) ==
    /\ pc[t] = "unlock"
    /\ lockedAt' = Never
    /\ failures' = Forgiven
    /\ Goto(t, "idle")
    /\ UNCHANGED <<now, attempts, holding, seen, users, row, overlapped>>

-----------------------------------------------------------------------------
(* Password reset and registration.                                        *)

\* Mutant: the name is looked up as it is spelled.
Taken_Spelled(n) == n \in users

\* An account is found under a name: the database folds the name that it has, the
\* program the one that is asked for.
Taken(n) == \E m \in users : DbFold[m] = Fold[n]

\* The account with that name and address gets a new password; the lockout is
\* not asked about.
ResetPassword(t) ==
    /\ Accept(t)
    /\ \E n \in Name : Taken(n)
    /\ Goto(t, "clear")
    /\ UNCHANGED <<now, attempts, holding, lockedAt, seen, users, row, failures>>

\* A name that is found taken is refused, else the password is hashed.
\* E-mail addresses, stored in lower case, are treated like names and left out.
Register(t) ==
    /\ Accept(t)
    /\ \E n \in Name :
           /\ ~Taken(n)
           /\ row' = [row EXCEPT ![t] = {n}]
    /\ Goto(t, "hash")
    /\ UNCHANGED <<now, attempts, holding, lockedAt, seen, users, failures>>

\* The row is inserted, unless its exact name is there: the column is unique, and
\* the request fails.
Insert(t) ==
    /\ pc[t] = "hash"
    /\ users' = users \cup row[t]
    /\ row' = [row EXCEPT ![t] = {}]
    /\ Goto(t, "idle")
    /\ UNCHANGED <<now, attempts, holding, lockedAt, seen, failures, overlapped>>

GuardNext ==
    \/ Tick
    \/ \E t \in Thread :
           \/ Login(t) \/ ReadLockout(t) \/ Unlock(t) \/ Unlist(t) \/ Verify(t)
           \/ Select(t) \/ Replace(t) \/ Fetch(t) \/ RecordFailure(t) \/ Judge(t)
           \/ LockOut(t) \/ Clear(t) \/ ClearLockout(t)
           \/ ResetPassword(t) \/ Register(t) \/ Insert(t)

GuardSpec == GuardInit /\ [][GuardNext]_guardVars

-----------------------------------------------------------------------------
(* Properties.                                                             *)

\* Failures f counts in the window that ends with minute m.
Within(f, m) ==
    SumFunction([k \in Time |-> IF m - Window < k /\ k <= m THEN f[k] ELSE 0])

\* However the threads interleave, and however often the list is replaced under
\* the feet of another, an address is locked out only if it failed often enough
\* within the window that ends with the lockout.
LockedForCause ==
    lockedAt # Never => Within(failures, lockedAt) >= MaxAttempts

GuardInvariant == GuardTypeOK /\ LockedForCause

Resting == \A t \in Thread : pc[t] = "idle"

\* As long as requests have come one at a time, an address is locked out exactly
\* if it reached the limit within some window since it was last cleared.
LockoutIsExact ==
    ~overlapped /\ Resting =>
        (lockedAt # Never <=> \E m \in Time : m <= now /\ Within(failures, m) >= MaxAttempts)

\* Names that both fold alike: those without a capital letter beyond ASCII.
FoldedAlike == {n \in Name : DbFold[n] = Fold[n]}

\* No two accounts have names that differ in spelling alone, unless requests have
\* overlapped or one of them has a capital letter that the database leaves alone.
AccountsAreDistinct ==
    ~overlapped =>
        \A m, n \in users \cap FoldedAlike : Fold[m] = Fold[n] => m = n
=============================================================================
