----------------------------- MODULE EditLedger -----------------------------
(***************************************************************************)
(* What saveWorkspace promises its callers, with the tabs, the network and *)
(* the server taken away: every edit is asked for once, may be stored, and *)
(* its caller is told one outcome that is true of it (the outcomes of      *)
(* WorkspaceSaveResult, SuiteWorkspaceProvider.tsx).                       *)
(***************************************************************************)
CONSTANT Edits
VARIABLES told, stored

Settled == {"ok", "stale", "conflict", "discarded", "error"}
Refused == {"conflict", "discarded"}

Init == told = [e \in Edits |-> "unasked"] /\ stored = {}

Ask(e) ==
    /\ told[e] = "unasked"
    /\ told' = [told EXCEPT ![e] = "waiting"]
    /\ UNCHANGED stored

(* A save reaches the store.  An edit whose caller heard of an error may   *)
(* still get there; one that was refused or dropped may not.               *)
Store(S) ==
    /\ \A e \in S : told[e] \notin Refused \cup {"unasked"}
    /\ stored' = stored \cup S
    /\ UNCHANGED told

(* One answer for the callers of S.  An edit to a paused workspace is      *)
(* answered the moment it is asked for.                                    *)
Tell(S, what) ==
    /\ \A e \in S : told[e] \in {"unasked", "waiting"}
    /\ what \in {"ok", "stale"} => S \subseteq stored
    /\ what \in Refused => S \cap stored = {}
    /\ told' = [e \in Edits |-> IF e \in S THEN what ELSE told[e]]
    /\ UNCHANGED stored

Next ==
    \/ \E e \in Edits : Ask(e)
    \/ \E S \in SUBSET Edits : Store(S)
    \/ \E S \in SUBSET Edits, what \in Settled : Tell(S, what)

Spec == Init /\ [][Next]_<<told, stored>>

=============================================================================
