----------------------------- MODULE PageLedger -----------------------------
(***************************************************************************)
(* What the app promises a crawl about its captures: a capture that is     *)
(* open takes pages one by one, and a page it took stays until the capture *)
(* is deleted or its file is lost with the server.                         *)
(***************************************************************************)
CONSTANTS Capture, Url, Missing, Torn

VARIABLE kept   \* the pages each capture holds, or that it is missing or lost

Init == kept = [c \in Capture |-> Missing]

Open(c) ==
  /\ kept[c] = Missing
  /\ kept' = [kept EXCEPT ![c] = {}]

File(c, u) ==
  /\ kept[c] \notin {Missing, Torn}
  /\ kept' = [kept EXCEPT ![c] = @ \cup {u}]

Delete(c) ==
  /\ kept[c] \notin {Missing, Torn}
  /\ kept' = [kept EXCEPT ![c] = Missing]

Lose(c) == kept' = [kept EXCEPT ![c] = Torn]

Next == \E c \in Capture : Open(c) \/ (\E u \in Url : File(c, u)) \/ Delete(c) \/ Lose(c)

Spec == Init /\ [][Next]_kept
=============================================================================
