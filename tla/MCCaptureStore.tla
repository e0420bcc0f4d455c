--------------------------- MODULE MCCaptureStore ---------------------------
(* CaptureStore on small instances for TLC. *)
EXTENDS CaptureStore, TLC

CONSTANT RequestsAroundCrash  \* bound: requests made where the server dies

Scope == crashes = 0 \/ made <= RequestsAroundCrash

MCSpec == Init /\ [][Next /\ Scope']_vars

Symmetry == Permutations(Request) \cup Permutations(Capture) \cup Permutations(Body)
=============================================================================
