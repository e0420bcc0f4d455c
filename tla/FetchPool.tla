----------------------------- MODULE FetchPool -----------------------------
(***************************************************************************)
(* runBoundedFetchPool in boundedFetchPool.ts: lanes that take items in    *)
(* order, each start waiting for a slot of the stagger chain and then for  *)
(* Pause, with Cancel and the pass's own stop asked before and after the   *)
(* waits.                                                                  *)
(*                                                                         *)
(* Time is discrete and relative: how long each lane still waits for its   *)
(* slot, how far off the next slot is, and how long ago the last start     *)
(* was, up to the stagger.  A lane that can go on does so before the clock *)
(* ticks; a run takes any time.                                            *)
(***************************************************************************)
EXTENDS Naturals, FiniteSets

CONSTANTS
  Lane,    \* concurrency of them
  Items,   \* how many items there are
  Stagger  \* staggerMs, in ticks

VARIABLES
  lane,    \* "head", "slot", "run" or "done"
  wait,    \* ticks until the slot a lane took
  chain,   \* staggerChain: ticks until the slot after the last one taken
  cursor,  \* items started
  halt,    \* shouldStop: "cancel" or the pass's own "stop"
  paused,
  gap,     \* history: ticks since the last start, up to Stagger
  held     \* history: Pause has held a lane past its slot

vars == <<lane, wait, chain, cursor, halt, paused, gap, held>>

Init ==
  /\ lane = [l \in Lane |-> "head"] /\ wait = [l \in Lane |-> 0]
  /\ chain = 0 /\ cursor = 0 /\ halt = "no" /\ paused = FALSE
  /\ gap = Stagger /\ held = FALSE

Least(a, b) == IF a < b THEN a ELSE b
Minus1(n) == IF n = 0 THEN 0 ELSE n - 1
-----------------------------------------------------------------------------
Exhausted == halt # "no" \/ cursor >= Items

(* A plausible bug: the chain is not moved on, so lanes share a slot. *)
TakeSharedSlot(l) ==
  /\ lane[l] = "head"
  /\ IF Exhausted
     THEN /\ lane' = [lane EXCEPT ![l] = "done"]
          /\ UNCHANGED <<wait, chain>>
     ELSE /\ lane' = [lane EXCEPT ![l] = "slot"]
          /\ wait' = [wait EXCEPT ![l] = chain]
          /\ chain' = IF chain = 0 THEN Stagger ELSE chain
  /\ UNCHANGED <<cursor, halt, paused, gap, held>>

(* The head of a lane's loop, and the slot it takes: the next one is a     *)
(* stagger after this one comes due, or after now when it has already.     *)
TakeSlot(l) ==
  /\ lane[l] = "head"
  /\ IF Exhausted
     THEN /\ lane' = [lane EXCEPT ![l] = "done"]
          /\ UNCHANGED <<wait, chain>>
     ELSE /\ lane' = [lane EXCEPT ![l] = "slot"]
          /\ wait' = [wait EXCEPT ![l] = chain]
          /\ chain' = chain + Stagger
  /\ UNCHANGED <<cursor, halt, paused, gap, held>>

(* A plausible bug: Cancel does not end the wait for Pause. *)
GateOpenUnpaused == ~paused

(* beforeStart is waitWhilePaused, which Cancel ends and a stop does not. *)
GateOpen == ~paused \/ halt = "cancel"

Ready(l) == lane[l] = "slot" /\ wait[l] = 0 /\ GateOpen

(* A plausible bug: shouldStop is asked at the head of the loop only. *)
BeginAnyway(l) ==
  /\ Ready(l)
  /\ IF cursor >= Items
     THEN /\ lane' = [lane EXCEPT ![l] = "done"]
          /\ UNCHANGED <<cursor, gap>>
     ELSE /\ lane' = [lane EXCEPT ![l] = "run"]
          /\ cursor' = cursor + 1
          /\ gap' = 0
  /\ UNCHANGED <<wait, chain, halt, paused, held>>

Begin(l) ==
  /\ Ready(l)
  /\ IF Exhausted
     THEN /\ lane' = [lane EXCEPT ![l] = "done"]
          /\ UNCHANGED <<cursor, gap>>
     ELSE /\ lane' = [lane EXCEPT ![l] = "run"]
          /\ cursor' = cursor + 1
          /\ gap' = 0
  /\ UNCHANGED <<wait, chain, halt, paused, held>>

(* run settles, or throws; its reply may make the pass stop. *)
Settle(l, stops) ==
  /\ lane[l] = "run"
  /\ lane' = [lane EXCEPT ![l] = "head"]
  /\ halt' = IF stops /\ halt = "no" THEN "stop" ELSE halt
  /\ UNCHANGED <<wait, chain, cursor, paused, gap, held>>

Cancel ==
  /\ halt # "cancel" /\ halt' = "cancel"
  /\ UNCHANGED <<lane, wait, chain, cursor, paused, gap, held>>

TogglePause ==
  /\ paused' = ~paused
  /\ UNCHANGED <<lane, wait, chain, cursor, halt, gap, held>>

Over == \A l \in Lane : lane[l] = "done"

(* A plausible bug: a slot is counted from when it is taken, though the    *)
(* one before it is partly over.                                           *)
TickUncounted ==
  /\ ~Over /\ \A l \in Lane : lane[l] # "head" /\ ~Ready(l)
  /\ wait' = [l \in Lane |-> Minus1(wait[l])]
  /\ chain' = chain
  /\ gap' = Least(gap + 1, Stagger)
  /\ held' = (held \/ \E l \in Lane : lane[l] = "slot" /\ wait[l] = 0)
  /\ UNCHANGED <<lane, cursor, halt, paused>>

Tick ==
  /\ ~Over /\ \A l \in Lane : lane[l] # "head" /\ ~Ready(l)
  /\ wait' = [l \in Lane |-> Minus1(wait[l])]
  /\ chain' = Minus1(chain)
  /\ gap' = Least(gap + 1, Stagger)
  /\ held' = (held \/ \E l \in Lane : lane[l] = "slot" /\ wait[l] = 0)
  /\ UNCHANGED <<lane, cursor, halt, paused>>

Step == \E l \in Lane : TakeSlot(l) \/ Begin(l)
Next == Step \/ Tick \/ Cancel \/ TogglePause \/ \E l \in Lane, stops \in BOOLEAN : Settle(l, stops)

Spec == Init /\ [][Next]_vars

(* The clock runs, and a fetch has a deadline. *)
FairSpec ==
  /\ Spec /\ WF_vars(Step) /\ WF_vars(Tick)
  /\ \A l \in Lane : WF_vars(\E stops \in BOOLEAN : Settle(l, stops))
-----------------------------------------------------------------------------
TypeOK ==
  /\ lane \in [Lane -> {"head", "slot", "run", "done"}]
  /\ wait \in [Lane -> 0 .. Cardinality(Lane) * Stagger]
  /\ chain \in 0 .. (Cardinality(Lane) + 1) * Stagger
  /\ cursor \in 0 .. Items /\ halt \in {"no", "cancel", "stop"}
  /\ paused \in BOOLEAN /\ gap \in 0 .. Stagger /\ held \in BOOLEAN

Started == cursor' # cursor

(* The documented floor: "Minimum delay between the start of one item and  *)
(* the start of the next".                                                 *)
StartsAreSpaced == [][Started => gap = Stagger]_vars

(* Nothing starts after Cancel or a stop, however long its lane had waited *)
(* (the second check of shouldStop, after the waits).  And as long as      *)
(* Pause has not held a lane that was due, the floor is kept, however long *)
(* the runs take and whichever lane starts next.                           *)
StartsAreDue == [][Started => halt = "no" /\ (gap = Stagger \/ held)]_vars

(* A cancelled pool resolves even when paused, after its last run settled. *)
CancelEndsThePool == halt = "cancel" ~> Over
=============================================================================
