----------------------------- MODULE FirewallMC -----------------------------
(* An instance of Firewall for TLC.                                        *)
EXTENDS Firewall, TLC

CONSTANTS public, dmz, out, server, web, telnet, r1, r2

\* An outside host, and a server in the DMZ, whose network lies within Public's.
CoversMC == (out :> <<public>>) @@ (server :> <<dmz, public>>)

\* Two rules of one priority that apply to the same traffic.
RuleListMC == <<r1, r2>>
SrcMC == [r \in {r1, r2} |-> public]
DstMC == [r \in {r1, r2} |-> dmz]
MatchesMC == (r1 :> {telnet}) @@ (r2 :> {telnet, web})
AllowsMC == (r1 :> FALSE) @@ (r2 :> TRUE)
PriorityMC == [r \in {r1, r2} |-> 1]
PairsMC == {<<public, dmz>>}

Threads == Permutations(Saver)
=============================================================================
