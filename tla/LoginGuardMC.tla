---------------------------- MODULE LoginGuardMC ----------------------------
(* Instances of LoginGuard for TLC.                                        *)
EXTENDS LoginGuard, TLC

CONSTANTS anne, anNE, Anne

\* Three spellings of one name that begins with an umlaut, which is a capital letter
\* in the last.
LowerCase == [n \in Name |-> anne]
LowerAscii == [n \in Name |-> IF n = Anne THEN Anne ELSE anne]

Threads == Permutations(Thread)
=============================================================================
