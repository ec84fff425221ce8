------------------------------ MODULE Custody ------------------------------
(* What quarantine promises of every file: it is in one place at a time,   *)
(* moves between the folder and the vault as a whole, is destroyed only    *)
(* while somebody asks for it, and then never comes back.                  *)
CONSTANT File

VARIABLES
    place,       \* where each file is
    asked        \* files with a pending request to delete them

Place == {"absent", "live", "held", "gone"}

CustodyInit ==
    /\ place = [f \in File |-> "absent"]
    /\ asked = {}

Move(f, from, to) ==
    /\ place[f] \in from
    /\ place' = [place EXCEPT ![f] = to]

Appear(f)  == Move(f, {"absent"}, "live") /\ UNCHANGED asked
Hold(f)    == Move(f, {"live"}, "held") /\ UNCHANGED asked
Release(f) == Move(f, {"held"}, "live") /\ UNCHANGED asked
Ask(f)     == asked' = asked \cup {f} /\ UNCHANGED place

\* Requests end when they are carried out, and are forgotten in a crash.
Settle     == asked' \in SUBSET asked
Forget     == Settle /\ UNCHANGED place
Destroy(f) == f \in asked /\ Move(f, {"live", "held"}, "gone") /\ Settle

CustodyNext ==
    \/ \E f \in File : Appear(f) \/ Hold(f) \/ Release(f) \/ Ask(f) \/ Destroy(f)
    \/ Forget

CustodySpec == CustodyInit /\ [][CustodyNext]_<<place, asked>>
=============================================================================
