---------------------------- MODULE MailWatchMC ----------------------------
(* An instance of MailWatch for TLC.  Its liveness properties allow no      *)
(* symmetry; calls are alike until they are made, so it is enough to make   *)
(* them in the order of their numbers.                                      *)
EXTENDS MailWatch

\* Action constraint: a call is made when those before it have been.  It cuts off
\* no step for which fairness is assumed.
CallsInOrder ==
    \A c \in Call : pc[c] = "ready" /\ pc'[c] # "ready" =>
        \A d \in Call : d < c => pc[d] # "ready"
=============================================================================
