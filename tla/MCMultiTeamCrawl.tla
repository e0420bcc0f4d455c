-------------------------- MODULE MCMultiTeamCrawl --------------------------
(***************************************************************************)
(* MultiTeamCrawl on small instances for TLC: one run with every swimmer,  *)
(* or several runs without one of them.                                    *)
(***************************************************************************)
EXTENDS MultiTeamCrawl, TLC

CONSTANT OneRunSwimmer  \* listed only where there is no second run

Scope == runs <= 1 \/ \A t \in Team : OneRunSwimmer \notin listed[t]

MCSpec == Init /\ [][Next /\ Scope']_vars

Symmetric == Permutations(Team)
=============================================================================
