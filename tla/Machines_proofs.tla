--------------------------- MODULE Machines_proofs ---------------------------
(***************************************************************************)
(* Proofs about the smaller machines, each as MCMachines runs it.          *)
(***************************************************************************)
EXTENDS MCMachines, MeetCrawl_proofs, MeetScoring_proofs, FiniteSetTheorems, WellFoundedInduction, TLAPS

(* runBoundedFetchPool, for any number of lanes and items and any stagger. *)

PoolSizes == Items \in Nat /\ Stagger \in Nat

(* The types, without the bounds that follow from the number of lanes. *)
PoolTypes ==
  /\ lane \in [Lane -> {"head", "slot", "run", "done"}]
  /\ wait \in [Lane -> Nat] /\ chain \in Nat
  /\ gap \in 0 .. Stagger /\ late \in BOOLEAN

(* Slots that are taken lie a stagger apart, before the next one to take,  *)
(* and all of them a stagger after the last start.                         *)
SlotsAreSpaced ==
  ~late =>
    /\ gap + chain >= Stagger
    /\ \A l \in Lane : lane[l] = "slot" =>
         /\ gap + wait[l] >= Stagger
         /\ chain >= wait[l] + Stagger
         /\ \A m \in Lane \ {l} : lane[m] = "slot" =>
              wait[m] >= wait[l] + Stagger \/ wait[l] >= wait[m] + Stagger

PoolInv == PoolTypes /\ SlotsAreSpaced

LEMMA PoolInitHolds == ASSUME PoolSizes PROVE Pool!Init => PoolInv
<1> SUFFICES ASSUME Pool!Init PROVE PoolInv
  OBVIOUS
<1>1. lane \in [Lane -> {"head", "slot", "run", "done"}] /\ wait \in [Lane -> Nat]
  BY DEF Pool!Init
<1>2. chain = 0 /\ gap = Stagger /\ late = FALSE
  BY DEF Pool!Init
<1>3. PoolTypes
  <2>1. chain \in Nat /\ gap \in 0 .. Stagger
    BY <1>2 DEF PoolSizes
  <2>2. late \in BOOLEAN
    BY <1>2
  <2> QED BY <1>1, <2>1, <2>2 DEF PoolTypes
<1>4. \A l \in Lane : lane[l] # "slot"
  BY DEF Pool!Init
<1>5. gap + chain >= Stagger
  BY <1>2 DEF PoolSizes
<1>6. SlotsAreSpaced
  BY <1>4, <1>5 DEF SlotsAreSpaced
<1> QED BY <1>3, <1>6 DEF PoolInv

(* Taking a slot puts it behind all the others. *)
LEMMA TakeSlotHolds == ASSUME PoolSizes, PoolInv, NEW l \in Lane, Pool!TakeSlot(l) PROVE PoolInv'
<1> USE DEF PoolSizes
<1>1. CASE Pool!Exhausted
  <2>1. lane' = [lane EXCEPT ![l] = "done"] /\ UNCHANGED <<wait, chain, gap, late>>
    BY <1>1 DEF Pool!TakeSlot
  <2> QED BY <2>1 DEF PoolInv, PoolTypes, SlotsAreSpaced
<1>2. CASE ~Pool!Exhausted
  <2>1. /\ lane' = [lane EXCEPT ![l] = "slot"]
        /\ wait' = [wait EXCEPT ![l] = chain]
        /\ chain' = chain + Stagger
        /\ UNCHANGED <<gap, late>>
        /\ lane[l] = "head"
    BY <1>2 DEF Pool!TakeSlot
  <2>2. PoolTypes'
    BY <2>1 DEF PoolInv, PoolTypes
  <2>3. ASSUME ~late, NEW m \in Lane, lane'[m] = "slot"
        PROVE  gap + wait'[m] >= Stagger /\ chain' >= wait'[m] + Stagger
    <3>1. CASE m = l
      BY <2>1, <2>3, <3>1 DEF PoolInv, PoolTypes, SlotsAreSpaced
    <3>2. CASE m # l
      BY <2>1, <2>3, <3>2 DEF PoolInv, PoolTypes, SlotsAreSpaced
    <3> QED BY <3>1, <3>2
  <2>4. ASSUME ~late, NEW m \in Lane, NEW n \in Lane \ {m}, lane'[m] = "slot", lane'[n] = "slot"
        PROVE  wait'[n] >= wait'[m] + Stagger \/ wait'[m] >= wait'[n] + Stagger
    <3>1. CASE m = l
      <4>1. lane[n] = "slot" /\ wait'[n] = wait[n] /\ wait'[m] = chain
        BY <2>1, <2>4, <3>1 DEF PoolInv, PoolTypes
      <4> QED BY <2>4, <4>1 DEF PoolInv, PoolTypes, SlotsAreSpaced
    <3>2. CASE n = l
      <4>1. lane[m] = "slot" /\ wait'[m] = wait[m] /\ wait'[n] = chain
        BY <2>1, <2>4, <3>2 DEF PoolInv, PoolTypes
      <4> QED BY <2>4, <4>1 DEF PoolInv, PoolTypes, SlotsAreSpaced
    <3>3. CASE m # l /\ n # l
      <4>1. lane[m] = "slot" /\ lane[n] = "slot" /\ wait'[m] = wait[m] /\ wait'[n] = wait[n]
        BY <2>1, <2>4, <3>3 DEF PoolInv, PoolTypes
      <4> QED BY <2>4, <4>1 DEF PoolInv, SlotsAreSpaced
    <3> QED BY <3>1, <3>2, <3>3
  <2>5. ~late => gap + chain' >= Stagger
    BY <2>1 DEF PoolInv, PoolTypes, SlotsAreSpaced
  <2>6. SlotsAreSpaced'
    BY <2>1, <2>3, <2>4, <2>5 DEF SlotsAreSpaced
  <2> QED BY <2>2, <2>6 DEF PoolInv
<1> QED BY <1>1, <1>2

(* A start leaves the other slots a stagger ahead. *)
LEMMA BeginHolds == ASSUME PoolSizes, PoolInv, NEW l \in Lane, Pool!Begin(l) PROVE PoolInv'
<1> USE DEF PoolSizes
<1>1. CASE Pool!Exhausted
  <2>1. lane' = [lane EXCEPT ![l] = "done"] /\ UNCHANGED <<wait, chain, gap, late>>
    BY <1>1 DEF Pool!Begin
  <2> QED BY <2>1 DEF PoolInv, PoolTypes, SlotsAreSpaced
<1>2. CASE ~Pool!Exhausted
  <2>1. /\ lane' = [lane EXCEPT ![l] = "run"] /\ gap' = 0
        /\ UNCHANGED <<wait, chain, late>>
        /\ lane[l] = "slot" /\ wait[l] = 0
    BY <1>2 DEF Pool!Begin, Pool!Ready
  <2>2. PoolTypes'
    BY <2>1 DEF PoolInv, PoolTypes
  <2>3. \A m \in Lane : lane'[m] = "slot" => m # l /\ lane[m] = "slot"
    BY <2>1 DEF PoolInv, PoolTypes
  <2>4. ASSUME ~late, NEW m \in Lane, lane'[m] = "slot"
        PROVE  wait[m] >= Stagger
    BY <2>1, <2>3, <2>4 DEF PoolInv, PoolTypes, SlotsAreSpaced
  <2>5. ~late => chain >= Stagger
    BY <2>1 DEF PoolInv, PoolTypes, SlotsAreSpaced
  <2>6. SlotsAreSpaced'
    BY <2>1, <2>2, <2>3, <2>4, <2>5 DEF PoolInv, PoolTypes, SlotsAreSpaced
  <2> QED BY <2>2, <2>6 DEF PoolInv
<1> QED BY <1>1, <1>2

(* Until a lane is held past its slot, all that waits comes nearer by one. *)
LEMMA TickHolds == ASSUME PoolSizes, PoolInv, Pool!Tick PROVE PoolInv'
<1> USE DEF PoolSizes
<1>1. /\ wait' = [l \in Lane |-> Pool!Minus1(wait[l])] /\ chain' = Pool!Minus1(chain)
      /\ gap' = Pool!Least(gap + 1, Stagger)
      /\ late' = (late \/ \E l \in Lane : lane[l] = "slot" /\ wait[l] = 0)
      /\ UNCHANGED lane
  BY DEF Pool!Tick
<1>2. PoolTypes'
  BY <1>1 DEF PoolInv, PoolTypes, Pool!Minus1, Pool!Least
<1>3. SlotsAreSpaced'
  <2> SUFFICES ASSUME ~late' PROVE SlotsAreSpaced'
    BY DEF SlotsAreSpaced
  <2>1. ~late /\ \A l \in Lane : lane[l] = "slot" => wait[l] # 0
    BY <1>1
  <2>2. \A l \in Lane : lane[l] = "slot" => wait'[l] = wait[l] - 1 /\ wait[l] \in Nat \ {0}
    BY <1>1, <2>1 DEF PoolInv, PoolTypes, Pool!Minus1
  <2>3. \A l \in Lane : lane[l] = "slot" => chain' = chain - 1 /\ chain \in Nat \ {0}
    BY <1>1, <2>1, <2>2 DEF PoolInv, PoolTypes, SlotsAreSpaced, Pool!Minus1
  <2>4. gap' + chain' >= Stagger
    BY <1>1, <2>1 DEF PoolInv, PoolTypes, SlotsAreSpaced, Pool!Minus1, Pool!Least
  <2>5. ASSUME NEW l \in Lane, lane[l] = "slot"
        PROVE  gap' + wait'[l] >= Stagger /\ chain' >= wait'[l] + Stagger
    BY <1>1, <2>1, <2>2, <2>3, <2>5 DEF PoolInv, PoolTypes, SlotsAreSpaced, Pool!Least
  <2>6. ASSUME NEW l \in Lane, NEW m \in Lane \ {l}, lane[l] = "slot", lane[m] = "slot"
        PROVE  wait'[m] >= wait'[l] + Stagger \/ wait'[l] >= wait'[m] + Stagger
    BY <2>1, <2>2, <2>6 DEF PoolInv, PoolTypes, SlotsAreSpaced
  <2> QED BY <1>1, <2>4, <2>5, <2>6 DEF SlotsAreSpaced
<1> QED BY <1>2, <1>3 DEF PoolInv

(* Every step keeps the invariant. *)
LEMMA PoolStepHolds == ASSUME PoolSizes PROVE PoolInv /\ [Pool!Next]_(Pool!vars) => PoolInv'
<1> SUFFICES ASSUME PoolInv, [Pool!Next]_(Pool!vars) PROVE PoolInv'
  OBVIOUS
<1>1. ASSUME NEW l \in Lane, Pool!TakeSlot(l) PROVE PoolInv'
  BY <1>1, TakeSlotHolds
<1>2. ASSUME NEW l \in Lane, Pool!Begin(l) PROVE PoolInv'
  BY <1>2, BeginHolds
<1>3. CASE Pool!Tick
  BY <1>3, TickHolds
<1>4. ASSUME NEW l \in Lane, NEW stops \in BOOLEAN, Pool!Settle(l, stops) PROVE PoolInv'
  BY <1>4 DEF Pool!Settle, PoolInv, PoolTypes, SlotsAreSpaced
<1>5. CASE Pool!Cancel
  BY <1>5 DEF Pool!Cancel, PoolInv, PoolTypes, SlotsAreSpaced
<1>6. CASE Pool!TogglePause
  BY <1>6 DEF Pool!TogglePause, PoolInv, PoolTypes, SlotsAreSpaced
<1>7. CASE UNCHANGED Pool!vars
  BY <1>7 DEF Pool!vars, PoolInv, PoolTypes, SlotsAreSpaced
<1> QED BY <1>1, <1>2, <1>3, <1>4, <1>5, <1>6, <1>7 DEF Pool!Next, Pool!Step

(* Only Begin starts an item, in a slot that is a stagger after the last   *)
(* start, and not once Cancel or the pass's stop was heard.                *)
LEMMA StartIsDue ==
  ASSUME PoolSizes, PoolInv, [Pool!Next]_(Pool!vars), Pool!Started PROVE halt = "no" /\ (gap = Stagger \/ late)
<1>1. PICK l \in Lane : Pool!Begin(l)
  BY DEF Pool!Next, Pool!Step, Pool!vars, Pool!Started, Pool!TakeSlot, Pool!Settle, Pool!Cancel, Pool!TogglePause, Pool!Tick
<1>2. halt = "no"
  BY <1>1 DEF Pool!Begin, Pool!Exhausted, Pool!Started
<1>3. lane[l] = "slot" /\ wait[l] = 0
  BY <1>1 DEF Pool!Begin, Pool!Ready
<1>4. gap = Stagger \/ late
  BY <1>3 DEF PoolSizes, PoolInv, PoolTypes, SlotsAreSpaced
<1> QED BY <1>2, <1>4

LEMMA PoolSteps == MCSpec => Pool!Spec
<1>1. MCInit => Pool!Init
  BY DEF MCInit
<1>2. [MCNext]_all => [Pool!Next]_(Pool!vars)
  BY DEF MCNext, all, lanes, Pool!vars
<1> QED BY <1>1, <1>2, PTL DEF MCSpec, Pool!Spec

(* Nothing starts after Cancel or a stop, nor within the stagger of the    *)
(* last start unless Pause has held a lane that was due                    *)
(* (runBoundedFetchPool).                                                  *)
THEOREM StartsAreAlwaysDue == ASSUME PoolSizes PROVE MCSpec => StartsAreDue
<1>1. Pool!Init => PoolInv
  BY PoolInitHolds
<1>2. PoolInv /\ [Pool!Next]_(Pool!vars) => PoolInv'
  BY PoolStepHolds
<1>3. PoolInv /\ [Pool!Next]_(Pool!vars) => [Pool!Started => halt = "no" /\ (gap = Stagger \/ late)]_(Pool!vars)
  BY StartIsDue
<1> QED BY <1>1, <1>2, <1>3, PoolSteps, PTL DEF Pool!Spec, StartsAreDue, Pool!StartsAreDue

(* How far ahead slots are taken.  A lane that waits holds a slot of its   *)
(* own, and the next one to take is as many staggers away as lanes wait    *)
(* from there on.                                                          *)
Span(n) == Stagger * n
Waiters == {l \in Lane : lane[l] = "slot" /\ wait[l] > 0}
Later(l) == {m \in Waiters : wait[m] >= wait[l]}

SlotsAreFew ==
  /\ cursor \in 0 .. Items /\ halt \in {"no", "cancel", "stop"} /\ paused \in BOOLEAN
  /\ \A l \in Lane : lane[l] # "slot" => wait[l] = 0
  /\ \A l \in Waiters : wait[l] < chain /\ chain = wait[l] + Span(Cardinality(Later(l)))
  /\ \A l, m \in Waiters : wait[l] = wait[m] => l = m
  /\ chain <= Span(Cardinality(Waiters) + 1)

FewInv == PoolTypes /\ SlotsAreFew

LEMMA SpanFacts ==
  ASSUME PoolSizes
  PROVE  /\ Span(0) = 0 /\ Span(1) = Stagger /\ \A n \in Nat : Span(n) \in Nat /\ Span(n + 1) = Span(n) + Stagger
         /\ \A m, n \in Nat : m <= n => Span(m) <= Span(n)
         /\ Stagger = 0 => \A n \in Nat : Span(n) = 0
<1>1. Span(0) = 0 /\ Span(1) = Stagger /\ \A n \in Nat : Span(n) \in Nat /\ Span(n + 1) = Span(n) + Stagger
  BY DEF PoolSizes, Span
<1>2. ASSUME NEW m \in Nat, NEW n \in Nat, m <= n PROVE Span(m) <= Span(n)
  <2>1. n - m \in Nat /\ n = m + (n - m)
    BY <1>2
  <2>2. \A d \in Nat : Stagger * (m + d) = Stagger * m + Stagger * d /\ Stagger * d \in Nat /\ Stagger * m \in Nat
    BY DEF PoolSizes
  <2>3. Span(n) = Span(m) + Span(n - m) /\ Span(n - m) \in Nat /\ Span(m) \in Nat
    BY <2>1, <2>2 DEF Span
  <2> QED BY <2>3
<1>3. Stagger = 0 => \A n \in Nat : Span(n) = 0
  BY DEF Span
<1> QED BY <1>1, <1>2, <1>3

LEMMA WaitersFacts ==
  ASSUME IsFiniteSet(Lane)
  PROVE  /\ Waiters \subseteq Lane /\ IsFiniteSet(Waiters) /\ Cardinality(Waiters) \in Nat
         /\ Cardinality(Lane) \in Nat /\ Cardinality(Waiters) <= Cardinality(Lane)
         /\ \A l : Later(l) \subseteq Waiters /\ IsFiniteSet(Later(l)) /\ Cardinality(Later(l)) \in Nat
<1>1. Waiters \in SUBSET Lane /\ \A l : Later(l) \in SUBSET Waiters
  BY DEF Waiters, Later
<1>2. IsFiniteSet(Waiters) /\ Cardinality(Waiters) <= Cardinality(Lane) /\ Cardinality(Waiters) \in Nat /\ Cardinality(Lane) \in Nat
  BY <1>1, FS_Subset, FS_CardinalityType
<1>3. \A l : IsFiniteSet(Later(l)) /\ Cardinality(Later(l)) \in Nat
  BY <1>1, <1>2, FS_Subset, FS_CardinalityType
<1> QED BY <1>1, <1>2, <1>3

LEMMA TakeSlotFew == ASSUME PoolSizes, IsFiniteSet(Lane), FewInv, NEW l \in Lane, Pool!TakeSlot(l) PROVE SlotsAreFew'
<1>1. lane[l] = "head" /\ UNCHANGED <<cursor, halt, paused>> /\ PoolTypes /\ l \notin Waiters
  BY DEF Pool!TakeSlot, FewInv, Waiters
<1>2. /\ cursor \in 0 .. Items /\ halt \in {"no", "cancel", "stop"} /\ paused \in BOOLEAN
      /\ \A m \in Lane : lane[m] # "slot" => wait[m] = 0
      /\ \A m \in Waiters : wait[m] < chain /\ chain = wait[m] + Span(Cardinality(Later(m)))
      /\ \A m, k \in Waiters : wait[m] = wait[k] => m = k
      /\ chain <= Span(Cardinality(Waiters) + 1)
  BY DEF FewInv, SlotsAreFew
<1>3. CASE Pool!Exhausted
  <2>1. lane' = [lane EXCEPT ![l] = "done"] /\ UNCHANGED <<wait, chain>>
    BY <1>3 DEF Pool!TakeSlot
  <2>2. Waiters' = Waiters /\ \A m \in Lane : lane'[m] # "slot" => lane[m] # "slot"
    BY <1>1, <2>1 DEF Waiters, PoolTypes
  <2>3. \A m : Later(m)' = {k \in Waiters' : wait'[k] >= wait'[m]}
    BY DEF Later
  <2>4. \A m : Later(m)' = Later(m)
    BY <2>1, <2>2, <2>3 DEF Later
  <2> QED BY <1>1, <1>2, <2>1, <2>2, <2>4 DEF SlotsAreFew, Span
<1>4. CASE ~Pool!Exhausted
  <2>1. lane' = [lane EXCEPT ![l] = "slot"] /\ wait' = [wait EXCEPT ![l] = chain] /\ chain' = chain + Stagger
    BY <1>4 DEF Pool!TakeSlot
  <2>2. /\ lane'[l] = "slot" /\ wait'[l] = chain /\ chain \in Nat /\ Stagger \in Nat
        /\ \A m \in Lane \ {l} : lane'[m] = lane[m] /\ wait'[m] = wait[m]
        /\ \A m \in Lane : wait[m] \in Nat
    BY <1>1, <2>1 DEF PoolTypes, PoolSizes
  <2>3. \A m \in Lane : lane'[m] # "slot" => wait'[m] = 0
    BY <1>2, <2>2
  <2>4. /\ Waiters' = {m \in Lane : lane'[m] = "slot" /\ wait'[m] > 0}
        /\ \A m : Later(m)' = {k \in Waiters' : wait'[k] >= wait'[m]}
    BY DEF Waiters, Later
  <2>5. CASE chain = 0
    <3>1. Waiters = {}
      <4> SUFFICES ASSUME NEW m \in Waiters PROVE FALSE
        OBVIOUS
      <4>1. wait[m] > 0 /\ m \in Lane
        BY DEF Waiters
      <4> QED BY <1>2, <2>2, <2>5, <4>1
    <3>2. Waiters' = {}
      <4>1. \A m \in Waiters' : m # l /\ m \in Waiters
        BY <2>2, <2>4, <2>5 DEF Waiters
      <4> QED BY <3>1, <4>1
    <3>3. chain' <= Span(Cardinality(Waiters') + 1)
      BY <2>1, <2>2, <2>5, <3>2, FS_EmptySet, SpanFacts
    <3> QED BY <1>1, <1>2, <2>3, <3>2, <3>3 DEF SlotsAreFew, Span
  <2>6. CASE chain # 0
    <3>1. Waiters' = Waiters \cup {l}
      BY <1>1, <2>2, <2>4, <2>6 DEF Waiters
    <3>2. \A m \in Waiters : m # l /\ m \in Lane /\ wait'[m] = wait[m]
      BY <1>1, <2>2 DEF Waiters
    <3>3. Stagger # 0
      BY <1>2, <2>2, <2>6, WaitersFacts, SpanFacts
    <3>4. Later(l)' = {l}
      BY <1>2, <2>2, <2>4, <3>1, <3>2
    <3>5. ASSUME NEW m \in Waiters PROVE Later(m)' = Later(m) \cup {l} /\ l \notin Later(m)
      <4>1. Later(m)' = {k \in Waiters' : wait'[k] >= wait'[m]} /\ Later(m) = {k \in Waiters : wait[k] >= wait[m]}
        BY <2>4 DEF Later
      <4>2. wait'[m] = wait[m] /\ wait'[l] >= wait[m]
        BY <1>2, <2>2, <3>2
      <4>3. \A k \in Waiters : wait'[k] = wait[k]
        BY <3>2
      <4> QED BY <1>1, <3>1, <4>1, <4>2, <4>3
    <3>6. \A m \in Waiters : Cardinality(Later(m)') = Cardinality(Later(m)) + 1
      BY <3>5, WaitersFacts, FS_AddElement
    <3>7. Cardinality(Waiters') = Cardinality(Waiters) + 1 /\ Cardinality(Waiters) \in Nat
      BY <1>1, <3>1, WaitersFacts, FS_AddElement
    <3>8. Cardinality(Later(l)') = 1
      BY <3>4, FS_Singleton
    <3>9. ASSUME NEW m \in Waiters' PROVE wait'[m] < chain' /\ chain' = wait'[m] + Span(Cardinality(Later(m)'))
      <4>1. CASE m = l
        <5>1. wait'[m] = chain /\ wait'[m] < chain'
          BY <2>1, <2>2, <3>3, <4>1
        <5>2. Later(m)' = {l}
          BY <2>4, <3>4, <4>1, Zenon
        <5>3. Cardinality(Later(m)') = 1
          BY <5>2, FS_Singleton
        <5>4. Span(Cardinality(Later(m)')) = Stagger
          BY <5>3, SpanFacts
        <5> QED BY <2>1, <5>1, <5>4
      <4>2. CASE m # l
        <5>1. m \in Waiters /\ wait'[m] = wait[m] /\ wait[m] < chain /\ chain = wait[m] + Span(Cardinality(Later(m))) /\ wait[m] \in Nat
          BY <1>2, <2>2, <3>1, <3>2, <3>9, <4>2
        <5>2. Span(Cardinality(Later(m)) + 1) = Span(Cardinality(Later(m))) + Stagger /\ Span(Cardinality(Later(m))) \in Nat
          BY WaitersFacts, SpanFacts
        <5> QED BY <2>1, <2>2, <3>6, <5>1, <5>2
      <4> QED BY <4>1, <4>2
    <3>10. \A m, k \in Waiters' : wait'[m] = wait'[k] => m = k
      <4>1. \A m \in Waiters : wait'[m] # wait'[l]
        BY <1>2, <2>2, <3>2
      <4> QED BY <1>2, <3>1, <3>2, <4>1
    <3>11. chain' <= Span(Cardinality(Waiters') + 1)
      <4>1. Cardinality(Waiters) + 1 \in Nat
        BY <3>7
      <4>2. Span((Cardinality(Waiters) + 1) + 1) = Span(Cardinality(Waiters) + 1) + Stagger /\ Span(Cardinality(Waiters) + 1) \in Nat
        BY <4>1, SpanFacts
      <4> QED BY <1>2, <2>1, <2>2, <3>7, <4>2
    <3> QED BY <1>1, <1>2, <2>3, <3>9, <3>10, <3>11 DEF SlotsAreFew, Span
  <2> QED BY <2>5, <2>6
<1> QED BY <1>3, <1>4

(* Other steps of a lane leave who waits. *)
LEMMA SameWaiters ==
  ASSUME FewInv, UNCHANGED <<wait, chain>>, cursor' \in 0 .. Items, halt' \in {"no", "cancel", "stop"}, paused' \in BOOLEAN,
         \A l \in Lane : (lane'[l] = "slot" <=> lane[l] = "slot") \/ (lane'[l] # "slot" /\ wait[l] = 0)
  PROVE  SlotsAreFew'
<1>1. \A l \in Lane : wait[l] \in Nat
  BY DEF FewInv, PoolTypes
<1>2. Waiters' = {l \in Lane : lane'[l] = "slot" /\ wait'[l] > 0}
  BY DEF Waiters
<1>3. Waiters' = Waiters
  BY <1>1, <1>2 DEF Waiters
<1>4. \A m : Later(m)' = {k \in Waiters' : wait'[k] >= wait'[m]}
  BY DEF Later
<1>5. \A m : Later(m)' = Later(m)
  BY <1>3, <1>4 DEF Later
<1>6. \A l \in Lane : lane'[l] # "slot" => wait'[l] = 0
  BY DEF FewInv, SlotsAreFew
<1>7. /\ \A l \in Waiters : wait[l] < chain /\ chain = wait[l] + Span(Cardinality(Later(l)))
      /\ \A l, m \in Waiters : wait[l] = wait[m] => l = m
      /\ chain <= Span(Cardinality(Waiters) + 1)
  BY DEF FewInv, SlotsAreFew
<1> QED BY <1>3, <1>5, <1>6, <1>7 DEF SlotsAreFew, Span

(* A tick brings every waiting lane nearer; the nearest one comes due. *)
LEMMA TickFew == ASSUME PoolSizes, IsFiniteSet(Lane), FewInv, Pool!Tick PROVE SlotsAreFew'
<1>1. /\ wait' = [l \in Lane |-> Pool!Minus1(wait[l])] /\ chain' = Pool!Minus1(chain)
      /\ UNCHANGED <<lane, cursor, halt, paused>>
  BY DEF Pool!Tick
<1>2. chain \in Nat /\ \A l \in Lane : wait[l] \in Nat
  BY DEF FewInv, PoolTypes
<1>3. /\ chain' = IF chain = 0 THEN 0 ELSE chain - 1
      /\ \A l \in Lane : wait'[l] = IF wait[l] = 0 THEN 0 ELSE wait[l] - 1
  BY <1>1 DEF Pool!Minus1
<1>4. /\ \A l \in Lane : lane[l] # "slot" => wait[l] = 0
      /\ \A l \in Waiters : wait[l] < chain /\ chain = wait[l] + Span(Cardinality(Later(l)))
      /\ \A l, m \in Waiters : wait[l] = wait[m] => l = m
      /\ chain <= Span(Cardinality(Waiters) + 1)
      /\ cursor \in 0 .. Items /\ halt \in {"no", "cancel", "stop"} /\ paused \in BOOLEAN
  BY DEF FewInv, SlotsAreFew
<1>5. /\ Waiters' = {l \in Lane : lane[l] = "slot" /\ wait'[l] > 0}
      /\ \A l : Later(l)' = {m \in Waiters' : wait'[m] >= wait'[l]}
  BY <1>1 DEF Waiters, Later
<1>6. Waiters' = {l \in Waiters : wait[l] # 1}
  BY <1>2, <1>3, <1>5 DEF Waiters
<1>7. \A l \in Waiters : l \in Lane /\ wait[l] \in Nat \ {0} /\ wait'[l] = wait[l] - 1 /\ chain' = chain - 1
  BY <1>2, <1>3, <1>4 DEF Waiters
<1>8. ASSUME NEW l \in Waiters' PROVE Later(l)' = Later(l)
  BY <1>5, <1>6, <1>7, <1>8 DEF Later
<1>9. ASSUME NEW l \in Waiters' PROVE wait'[l] < chain' /\ chain' = wait'[l] + Span(Cardinality(Later(l)'))
  <2>1. l \in Waiters
    BY <1>6, <1>9
  <2>2. Span(Cardinality(Later(l))) \in Nat
    BY WaitersFacts, SpanFacts
  <2> QED BY <1>2, <1>4, <1>7, <1>8, <1>9, <2>1, <2>2
<1>10. \A l, m \in Waiters' : wait'[l] = wait'[m] => l = m
  BY <1>4, <1>6, <1>7
<1>11. chain' <= Span(Cardinality(Waiters') + 1)
  <2>1. CASE \A l \in Waiters : wait[l] # 1
    <3>1. Waiters' = Waiters
      BY <1>6, <2>1
    <3>2. Span(Cardinality(Waiters) + 1) \in Nat
      <4>1. Cardinality(Waiters) + 1 \in Nat
        BY WaitersFacts
      <4> QED BY <4>1, SpanFacts
    <3> QED BY <1>2, <1>3, <1>4, <3>1, <3>2
  <2>2. CASE \E l \in Waiters : wait[l] = 1
    <3>1. PICK l \in Waiters : wait[l] = 1
      BY <2>2
    <3>2. Waiters' = Waiters \ {l}
      BY <1>4, <1>6, <3>1
    <3>3. Later(l) = Waiters
      BY <1>7, <3>1 DEF Later
    <3>4. Cardinality(Waiters') + 1 = Cardinality(Waiters)
      <4>1. IsFiniteSet(Waiters) /\ Cardinality(Waiters) \in Nat
        BY WaitersFacts
      <4>2. Cardinality(Waiters \ {l}) = Cardinality(Waiters) - 1
        BY <4>1, FS_RemoveElement
      <4> QED BY <3>2, <4>1, <4>2
    <3>5. chain = 1 + Span(Cardinality(Waiters)) /\ chain' = chain - 1
      BY <1>4, <1>7, <3>1, <3>3
    <3>6. Span(Cardinality(Waiters)) \in Nat
      BY WaitersFacts, SpanFacts
    <3> QED BY <3>4, <3>5, <3>6
  <2> QED BY <2>1, <2>2
<1>12. \A l \in Lane : lane'[l] # "slot" => wait'[l] = 0
  BY <1>1, <1>3, <1>4
<1> QED BY <1>1, <1>4, <1>9, <1>10, <1>11, <1>12 DEF SlotsAreFew, Span
LEMMA FewInitHolds == ASSUME PoolSizes, IsFiniteSet(Lane), Pool!Init PROVE FewInv
<1>1. PoolTypes
  BY PoolInitHolds DEF PoolInv
<1>2. \A l \in Lane : lane[l] = "head" /\ wait[l] = 0
  BY DEF Pool!Init
<1>3. chain = 0 /\ cursor = 0 /\ halt = "no" /\ paused = FALSE
  BY DEF Pool!Init
<1>4. Waiters = {}
  BY <1>2 DEF Waiters
<1>5. chain <= Span(Cardinality(Waiters) + 1)
  BY <1>3, <1>4, FS_EmptySet, SpanFacts DEF PoolSizes
<1>6. cursor \in 0 .. Items
  BY <1>3 DEF PoolSizes
<1> QED BY <1>1, <1>2, <1>3, <1>4, <1>5, <1>6 DEF FewInv, SlotsAreFew

(* Every step keeps the slots few. *)
LEMMA FewStepHolds ==
  ASSUME PoolSizes, IsFiniteSet(Lane) PROVE PoolInv /\ FewInv /\ [Pool!Next]_(Pool!vars) => FewInv'
<1> SUFFICES ASSUME PoolInv, FewInv, [Pool!Next]_(Pool!vars) PROVE SlotsAreFew'
  BY PoolStepHolds DEF FewInv, PoolInv
<1>0. /\ lane \in [Lane -> {"head", "slot", "run", "done"}]
      /\ cursor \in 0 .. Items /\ halt \in {"no", "cancel", "stop"} /\ paused \in BOOLEAN
  BY DEF FewInv, PoolTypes, SlotsAreFew
<1>1. ASSUME NEW l \in Lane, Pool!TakeSlot(l) PROVE SlotsAreFew'
  BY <1>1, TakeSlotFew
<1>2. ASSUME NEW l \in Lane, Pool!Begin(l) PROVE SlotsAreFew'
  <2>1. lane[l] = "slot" /\ wait[l] = 0 /\ UNCHANGED <<wait, chain, halt, paused>>
    BY <1>2 DEF Pool!Begin, Pool!Ready
  <2>2. lane'[l] # "slot" /\ \A m \in Lane \ {l} : lane'[m] = lane[m]
    BY <1>0, <1>2 DEF Pool!Begin
  <2>3. cursor' \in 0 .. Items
    BY <1>0, <1>2 DEF Pool!Begin, Pool!Exhausted, PoolSizes
  <2>4. \A m \in Lane : (lane'[m] = "slot" <=> lane[m] = "slot") \/ (lane'[m] # "slot" /\ wait[m] = 0)
    BY <2>1, <2>2
  <2> QED BY <1>0, <2>1, <2>3, <2>4, SameWaiters
<1>3. CASE Pool!Tick
  BY <1>3, TickFew
<1>4. ASSUME NEW l \in Lane, NEW stops \in BOOLEAN, Pool!Settle(l, stops) PROVE SlotsAreFew'
  <2>1. lane[l] = "run" /\ lane' = [lane EXCEPT ![l] = "head"] /\ UNCHANGED <<wait, chain, cursor, paused>>
    BY <1>4 DEF Pool!Settle
  <2>2. halt' \in {"no", "cancel", "stop"}
    BY <1>0, <1>4 DEF Pool!Settle
  <2>3. \A m \in Lane : lane'[m] = "slot" <=> lane[m] = "slot"
    BY <1>0, <2>1
  <2> QED BY <1>0, <2>1, <2>2, <2>3, SameWaiters
<1>5. CASE Pool!Cancel
  BY <1>0, <1>5, SameWaiters DEF Pool!Cancel
<1>6. CASE Pool!TogglePause
  BY <1>0, <1>6, SameWaiters DEF Pool!TogglePause
<1>7. CASE UNCHANGED Pool!vars
  BY <1>0, <1>7, SameWaiters DEF Pool!vars
<1> QED BY <1>1, <1>2, <1>3, <1>4, <1>5, <1>6, <1>7 DEF Pool!Next, Pool!Step

(* So no lane waits longer than all the lanes' staggers. *)
LEMMA FewSlotsAreTyped == ASSUME PoolSizes, IsFiniteSet(Lane), FewInv PROVE Pool!TypeOK
<1>1. /\ lane \in [Lane -> {"head", "slot", "run", "done"}] /\ wait \in [Lane -> Nat] /\ chain \in Nat
      /\ gap \in 0 .. Stagger /\ late \in BOOLEAN
      /\ cursor \in 0 .. Items /\ halt \in {"no", "cancel", "stop"} /\ paused \in BOOLEAN
      /\ \A l \in Lane : lane[l] # "slot" => wait[l] = 0
      /\ \A l \in Waiters : wait[l] < chain /\ chain = wait[l] + Span(Cardinality(Later(l)))
      /\ chain <= Span(Cardinality(Waiters) + 1)
  BY DEF FewInv, PoolTypes, SlotsAreFew
<1>2. /\ Cardinality(Waiters) \in Nat /\ Cardinality(Lane) \in Nat /\ Cardinality(Waiters) <= Cardinality(Lane)
  BY WaitersFacts
<1>3. chain <= Span(Cardinality(Lane) + 1)
  <2>1. Cardinality(Waiters) + 1 <= Cardinality(Lane) + 1 /\ Cardinality(Waiters) + 1 \in Nat /\ Cardinality(Lane) + 1 \in Nat
    BY <1>2
  <2>2. Span(Cardinality(Waiters) + 1) <= Span(Cardinality(Lane) + 1) /\ Span(Cardinality(Waiters) + 1) \in Nat
        /\ Span(Cardinality(Lane) + 1) \in Nat
    BY <2>1, SpanFacts
  <2> QED BY <1>1, <2>2
<1>4. ASSUME NEW l \in Lane PROVE wait[l] <= Span(Cardinality(Lane))
  <2>1. Span(Cardinality(Lane)) \in Nat
    BY <1>2, SpanFacts
  <2>2. CASE wait[l] = 0
    BY <2>1, <2>2
  <2>3. CASE wait[l] # 0
    <3>1. l \in Waiters
      BY <1>1, <1>4, <2>3 DEF Waiters
    <3>2. l \in Later(l) /\ IsFiniteSet(Later(l)) /\ Cardinality(Later(l)) \in Nat
      BY <1>1, <1>4, <3>1, WaitersFacts DEF Later
    <3>3. Cardinality(Later(l)) # 0
      BY <3>2, FS_EmptySet
    <3>4. Stagger <= Span(Cardinality(Later(l)))
      <4>1. 1 <= Cardinality(Later(l))
        BY <3>2, <3>3
      <4> QED BY <3>2, <4>1, SpanFacts
    <3>5. Span(Cardinality(Waiters) + 1) = Span(Cardinality(Waiters)) + Stagger /\ Span(Cardinality(Waiters)) \in Nat
      BY <1>2, SpanFacts
    <3>6. Span(Cardinality(Waiters)) <= Span(Cardinality(Lane))
      BY <1>2, SpanFacts
    <3>7. Span(Cardinality(Later(l))) \in Nat /\ wait[l] \in Nat /\ Stagger \in Nat
      BY <1>1, <3>2, SpanFacts DEF PoolSizes
    <3> QED BY <1>1, <2>1, <3>1, <3>4, <3>5, <3>6, <3>7
  <2> QED BY <2>2, <2>3
<1>5. Pool!Cardinality(Lane) = Cardinality(Lane)
  BY DEF Pool!Cardinality, Cardinality
<1>6. /\ Span(Cardinality(Lane)) = Pool!Cardinality(Lane) * Stagger
      /\ Span(Cardinality(Lane) + 1) = (Pool!Cardinality(Lane) + 1) * Stagger
  BY <1>2, <1>5 DEF Span, PoolSizes
<1>7. wait \in [Lane -> 0 .. Pool!Cardinality(Lane) * Stagger]
  <2>1. Span(Cardinality(Lane)) \in Nat
    BY <1>2, SpanFacts
  <2>2. \A l \in Lane : wait[l] \in 0 .. Span(Cardinality(Lane))
    BY <1>1, <1>4, <2>1
  <2> QED BY <1>1, <1>6, <2>2
<1>8. chain \in 0 .. (Pool!Cardinality(Lane) + 1) * Stagger
  <2>1. Span(Cardinality(Lane) + 1) \in Nat
    <3>1. Cardinality(Lane) + 1 \in Nat
      BY <1>2
    <3> QED BY <3>1, SpanFacts
  <2>2. chain \in 0 .. Span(Cardinality(Lane) + 1)
    BY <1>1, <1>3, <2>1
  <2> QED BY <1>6, <2>2
<1> QED BY <1>1, <1>7, <1>8 DEF Pool!TypeOK

-----------------------------------------------------------------------------
(* The fallback store, for any pages and any bounds. *)

(* What the worker has read and written is still so at its next step:      *)
(* nobody else writes the storage while a message is in hand.              *)
WorkerIsCurrent ==
  /\ worker.at \in {"page", "index"} =>
       worker.keys = index /\ index < MaxListed /\ worker.page # Fallback!Nothing
  /\ worker.at = "index" => slot[index + 1] = worker.page
  /\ worker.at \in {"download", "remove"} => worker.keys = index
  /\ worker.at = "remove" => Fallback!Listed \in files

FallbackInv == Fallback!TypeOK /\ Fallback!AnsweredIsKept /\ WorkerIsCurrent

FallbackBounds == MaxListed \in Nat /\ MaxDeaths \in Nat

LEMMA FallbackInitHolds == ASSUME FallbackBounds PROVE Fallback!Init => FallbackInv
  BY DEF FallbackBounds, Fallback!Init, FallbackInv, Fallback!TypeOK, Fallback!AnsweredIsKept, WorkerIsCurrent, Fallback!Listed, Fallback!Key, Fallback!Nothing, Fallback!Idle

(* Every step keeps the invariant. *)
LEMMA FallbackStepHolds == ASSUME FallbackBounds PROVE FallbackInv /\ [Fallback!Next]_(Fallback!vars) => FallbackInv'
<1> SUFFICES ASSUME FallbackInv, [Fallback!Next]_(Fallback!vars) PROVE FallbackInv'
  OBVIOUS
<1> USE DEF FallbackBounds
<1>t. /\ slot \in [Fallback!Key -> {Fallback!Nothing} \cup {{p} : p \in FallbackPage}] /\ index \in 0 .. MaxListed
      /\ files \subseteq SUBSET FallbackPage /\ answered \subseteq FallbackPage /\ deaths \in 0 .. MaxDeaths
      /\ worker.at \in {"idle", "page", "index", "download", "remove"}
      /\ worker.page \in {Fallback!Nothing} \cup {{p} : p \in FallbackPage} /\ worker.keys \in 0 .. MaxListed
      /\ worker \in [at : {"idle", "page", "index", "download", "remove"},
                     page : {Fallback!Nothing} \cup {{p} : p \in FallbackPage}, keys : 0 .. MaxListed]
  BY DEF FallbackInv, Fallback!TypeOK
<1>1. ASSUME NEW p \in FallbackPage, Fallback!Relay(p) PROVE FallbackInv'
  <2>1. Fallback!TypeOK'
    BY <1>1, <1>t DEF Fallback!Relay, Fallback!At, Fallback!TypeOK
  <2>2. Fallback!AnsweredIsKept'
    BY <1>1 DEF FallbackInv, Fallback!Relay, Fallback!AnsweredIsKept, Fallback!Listed
  <2>3. WorkerIsCurrent'
    BY <1>1, <1>t DEF Fallback!Relay, Fallback!At, WorkerIsCurrent, Fallback!Nothing
  <2> QED BY <2>1, <2>2, <2>3 DEF FallbackInv
<1>2. ASSUME Fallback!WritePage PROVE FallbackInv'
  <2>1. worker.keys = index /\ index < MaxListed /\ worker.page # Fallback!Nothing /\ index + 1 \in Fallback!Key
    BY <1>2, <1>t DEF FallbackInv, WorkerIsCurrent, Fallback!WritePage, Fallback!At, Fallback!Key
  <2>2. Fallback!TypeOK'
    BY <1>2, <1>t, <2>1 DEF Fallback!WritePage, Fallback!At, Fallback!TypeOK
  <2>3. \A k \in 1 .. index : slot'[k] = slot[k]
    BY <1>2, <1>t, <2>1 DEF Fallback!WritePage, Fallback!Key
  <2>4. Fallback!AnsweredIsKept'
    BY <1>2, <2>3 DEF FallbackInv, Fallback!WritePage, Fallback!AnsweredIsKept, Fallback!Listed
  <2>5. WorkerIsCurrent'
    BY <1>2, <1>t, <2>1 DEF Fallback!WritePage, Fallback!At, WorkerIsCurrent
  <2> QED BY <2>2, <2>4, <2>5 DEF FallbackInv
<1>3. ASSUME Fallback!WriteIndex PROVE FallbackInv'
  <2>1. worker.keys = index /\ index < MaxListed /\ worker.page # Fallback!Nothing /\ slot[index + 1] = worker.page
    BY <1>3, <1>t DEF FallbackInv, WorkerIsCurrent, Fallback!WriteIndex, Fallback!At
  <2>2. Fallback!TypeOK'
    BY <1>3, <1>t, <2>1 DEF Fallback!WriteIndex, Fallback!At, Fallback!TypeOK, Fallback!Idle, Fallback!Nothing
  <2>3. worker.page \subseteq Fallback!Listed' /\ Fallback!Listed \subseteq Fallback!Listed'
    BY <1>3, <1>t, <2>1 DEF Fallback!WriteIndex, Fallback!Listed
  <2>4. Fallback!AnsweredIsKept'
    <3>1. answered' \subseteq Fallback!Listed' \cup UNION files'
      BY <1>3, <2>3 DEF FallbackInv, Fallback!WriteIndex, Fallback!AnsweredIsKept
    <3>2. \A k \in 1 .. index' : slot'[k] # Fallback!Nothing
      BY <1>3, <1>t, <2>1 DEF FallbackInv, Fallback!WriteIndex, Fallback!AnsweredIsKept
    <3> QED BY <3>1, <3>2 DEF Fallback!AnsweredIsKept
  <2>5. WorkerIsCurrent'
    BY <1>3 DEF Fallback!WriteIndex, Fallback!Idle, WorkerIsCurrent
  <2> QED BY <2>2, <2>4, <2>5 DEF FallbackInv
<1>4. ASSUME Fallback!Flush PROVE FallbackInv'
  <2>1. Fallback!TypeOK'
    BY <1>4, <1>t DEF Fallback!Flush, Fallback!At, Fallback!TypeOK, Fallback!Idle, Fallback!Nothing
  <2>2. Fallback!AnsweredIsKept'
    BY <1>4 DEF FallbackInv, Fallback!Flush, Fallback!AnsweredIsKept, Fallback!Listed
  <2>3. WorkerIsCurrent'
    BY <1>4 DEF Fallback!Flush, Fallback!Idle, WorkerIsCurrent
  <2> QED BY <2>1, <2>2, <2>3 DEF FallbackInv
<1>5. ASSUME Fallback!Download PROVE FallbackInv'
  <2>1. worker.keys = index
    BY <1>5 DEF FallbackInv, WorkerIsCurrent, Fallback!Download, Fallback!At
  <2>2. Fallback!Listed \subseteq FallbackPage
    BY <1>t DEF Fallback!Listed, Fallback!Key, Fallback!Nothing
  <2>3. files' = files \cup {Fallback!Listed}
    BY <1>5, <2>1 DEF Fallback!Download, Fallback!Listed
  <2>4. Fallback!TypeOK'
    BY <1>5, <1>t, <2>2, <2>3 DEF Fallback!Download, Fallback!At, Fallback!TypeOK
  <2>5. Fallback!AnsweredIsKept'
    BY <1>5, <2>3 DEF FallbackInv, Fallback!Download, Fallback!AnsweredIsKept, Fallback!Listed
  <2>6. WorkerIsCurrent'
    BY <1>5, <1>t, <2>1, <2>3 DEF Fallback!Download, Fallback!At, WorkerIsCurrent, Fallback!Listed
  <2> QED BY <2>4, <2>5, <2>6 DEF FallbackInv
<1>6. ASSUME Fallback!DownloadFails PROVE FallbackInv'
  <2>1. Fallback!TypeOK'
    BY <1>6, <1>t DEF Fallback!DownloadFails, Fallback!TypeOK, Fallback!Idle, Fallback!Nothing
  <2>2. Fallback!AnsweredIsKept' /\ WorkerIsCurrent'
    BY <1>6 DEF FallbackInv, Fallback!DownloadFails, Fallback!AnsweredIsKept, Fallback!Listed, Fallback!Idle, WorkerIsCurrent
  <2> QED BY <2>1, <2>2 DEF FallbackInv
<1>7. ASSUME Fallback!Remove PROVE FallbackInv'
  <2>1. Fallback!TypeOK'
    BY <1>7, <1>t DEF Fallback!Remove, Fallback!TypeOK, Fallback!Idle, Fallback!Nothing
  <2>2. Fallback!Listed \in files
    BY <1>7 DEF FallbackInv, WorkerIsCurrent, Fallback!Remove, Fallback!At
  <2>3. Fallback!AnsweredIsKept'
    BY <1>7, <2>2 DEF FallbackInv, Fallback!Remove, Fallback!AnsweredIsKept
  <2>4. WorkerIsCurrent'
    BY <1>7 DEF Fallback!Remove, Fallback!Idle, WorkerIsCurrent
  <2> QED BY <2>1, <2>3, <2>4 DEF FallbackInv
<1>8. ASSUME Fallback!Die PROVE FallbackInv'
  <2>1. Fallback!TypeOK'
    BY <1>8, <1>t DEF Fallback!Die, Fallback!TypeOK, Fallback!Idle, Fallback!Nothing
  <2>2. Fallback!AnsweredIsKept' /\ WorkerIsCurrent'
    BY <1>8 DEF FallbackInv, Fallback!Die, Fallback!AnsweredIsKept, Fallback!Listed, Fallback!Idle, WorkerIsCurrent
  <2> QED BY <2>1, <2>2 DEF FallbackInv
<1>9. CASE UNCHANGED Fallback!vars
  BY <1>9 DEF FallbackInv, Fallback!vars, Fallback!TypeOK, Fallback!AnsweredIsKept, WorkerIsCurrent, Fallback!Listed
<1> QED BY <1>1, <1>2, <1>3, <1>4, <1>5, <1>6, <1>7, <1>8, <1>9 DEF Fallback!Next

LEMMA FallbackSteps == MCSpec => Fallback!Spec
<1>1. MCInit => Fallback!Init
  BY DEF MCInit
<1>2. [MCNext]_all => [Fallback!Next]_(Fallback!vars)
  BY DEF MCNext, all, fallback, Fallback!vars
<1> QED BY <1>1, <1>2, PTL DEF MCSpec, Fallback!Spec

(* A page the worker answered as saved is listed in the storage or in a    *)
(* downloaded file, and every key listed holds a page, whenever the worker *)
(* is terminated (appendFallbackPage, flushDownloads).                     *)
THEOREM AnsweredIsAlwaysKept == ASSUME FallbackBounds PROVE MCSpec => []AnsweredIsKept
<1>1. Fallback!Init => FallbackInv
  BY FallbackInitHolds
<1>2. FallbackInv /\ [Fallback!Next]_(Fallback!vars) => FallbackInv'
  BY FallbackStepHolds
<1>3. FallbackInv => AnsweredIsKept
  BY DEF FallbackInv, AnsweredIsKept
<1> QED BY <1>1, <1>2, <1>3, FallbackSteps, PTL DEF Fallback!Spec
-----------------------------------------------------------------------------
(* The backups, for any contents, requests and quotas. *)

Await == {"idle", "queued", "export", "stamp", "place", "list", "unlink", "act"}
Copy == Safety!Row \cup {Safety!Absent}
File == [kind : Safety!Kind, stamp : Nat, holds : Copy, whole : {TRUE}]
Errand ==
  [at : Await, kind : Safety!Kind, want : Safety!Contents \cup {"none"}, expected : Nat, life : Nat,
   read : Copy, stamp : Nat, outcome : {"none", "taken", "failed"}, stale : SUBSET File]

BackupSizes ==
  /\ Full # {} /\ MaxAsked \in Nat /\ MaxCrashes \in Nat
  /\ \A p \in {"manual", "restore", "other"} : Keep[p] \in Nat

BackupTypes ==
  /\ store \in Copy
  /\ backups \subseteq File /\ IsFiniteSet(backups)
  /\ clock \in Nat \ {0} /\ born \in Nat /\ asked \in 0 .. MaxAsked /\ died \in 0 .. MaxCrashes
  /\ task \in [Asker -> Errand]
  /\ \A o \in Asker : task[o].kind = "save" => task[o].want \in Safety!Contents

(* Every name on disk is of an earlier millisecond, and the names under    *)
(* way are of no file and of no other request.                             *)
SameFile(a, b) == a.kind = b.kind /\ a.stamp = b.stamp
NamesAreFree ==
  /\ \A f \in backups : f.stamp \in 1 .. clock - 1
  /\ \A o \in Asker : task[o].at = "place" =>
       /\ task[o].stamp \in 1 .. clock
       /\ \A f \in backups : ~SameFile(task[o], f)
       /\ \A p \in Asker \ {o} : task[p].at = "place" => ~SameFile(task[o], task[p])

(* As many newer files of its pool as the quota has, or more *)
OverQuota(f, them) == Cardinality(Safety!Newer(f, them)) >= Keep[Safety!Pool(f.kind)]

(* What a request is about to remove is over its quota still. *)
StaleIsOverQuota == \A o \in Asker : \A f \in task[o].stale : OverQuota(f, backups)

BackupInv == BackupTypes /\ NamesAreFree /\ StaleIsOverQuota

LEMMA OlderIsAnOrder ==
  ASSUME NEW f \in File, NEW g \in File, Safety!Older(f, g)
  PROVE  /\ ~Safety!Older(g, f)
         /\ \A h \in File : Safety!Older(g, h) => Safety!Older(f, h)
<1>1. f.stamp \in Nat /\ g.stamp \in Nat
  BY DEF File
<1>2. ~Safety!Older(g, f)
  BY <1>1 DEF Safety!Older
<1>3. ASSUME NEW h \in File, Safety!Older(g, h) PROVE Safety!Older(f, h)
  <2>1. h.stamp \in Nat
    BY DEF File
  <2> QED BY <1>1, <1>3, <2>1 DEF Safety!Older
<1> QED BY <1>2, <1>3

LEMMA NewerIsLess ==
  ASSUME NEW them, them \subseteq File, NEW f \in File, NEW g \in Safety!Newer(f, them)
  PROVE  /\ g \in them /\ g \notin Safety!Newer(g, them)
         /\ Safety!Newer(g, them) \subseteq Safety!Newer(f, them)
<1>1. g \in them /\ g \in File /\ Safety!Older(f, g) /\ Safety!Pool(g.kind) = Safety!Pool(f.kind)
  BY DEF Safety!Newer
<1>2. ~Safety!Older(g, g)
  BY <1>1 DEF Safety!Older, File
<1>3. ASSUME NEW h \in Safety!Newer(g, them) PROVE h \in Safety!Newer(f, them)
  <2>1. h \in them /\ h \in File /\ Safety!Older(g, h) /\ Safety!Pool(h.kind) = Safety!Pool(g.kind)
    BY <1>3 DEF Safety!Newer
  <2>2. Safety!Older(f, h)
    BY <1>1, <2>1, OlderIsAnOrder
  <2> QED BY <1>1, <2>1, <2>2 DEF Safety!Newer
<1> QED BY <1>1, <1>2, <1>3 DEF Safety!Newer

LEMMA NewerIsFinite ==
  ASSUME NEW them, IsFiniteSet(them), NEW f
  PROVE  IsFiniteSet(Safety!Newer(f, them)) /\ Cardinality(Safety!Newer(f, them)) \in Nat
  BY FS_Subset, FS_CardinalityType DEF Safety!Newer

LEMMA QuotasAreNumbers == ASSUME BackupSizes, NEW f \in File PROVE Keep[Safety!Pool(f.kind)] \in Nat
  BY DEF BackupSizes, Safety!Pool, File

(* More files leave a file over its quota. *)
LEMMA QuotaByMore ==
  ASSUME BackupSizes, NEW them, NEW more, them \subseteq more, IsFiniteSet(more), NEW f \in File, OverQuota(f, them)
  PROVE  OverQuota(f, more)
<1>1. Safety!Newer(f, them) \in SUBSET Safety!Newer(f, more)
  BY DEF Safety!Newer
<1>2. IsFiniteSet(them)
  BY FS_Subset
<1>3. Cardinality(Safety!Newer(f, them)) <= Cardinality(Safety!Newer(f, more))
  BY <1>1, NewerIsFinite, FS_Subset
<1>4. Cardinality(Safety!Newer(f, them)) \in Nat /\ Cardinality(Safety!Newer(f, more)) \in Nat
  BY <1>2, NewerIsFinite
<1> QED BY <1>3, <1>4, QuotasAreNumbers DEF OverQuota

(* Among some files there is one with none of them newer. *)
LEMMA NewestOfSome ==
  ASSUME NEW them, them \subseteq File, IsFiniteSet(them), NEW some, some \subseteq them, some # {}
  PROVE  \E g \in some : Safety!Newer(g, them) \cap some = {}
<1> DEFINE newer == {Safety!Newer(g, them) : g \in some}
<1>1. newer \subseteq FiniteSubsetsOf(them) /\ newer # {}
  <2>1. ASSUME NEW g \in some PROVE Safety!Newer(g, them) \in FiniteSubsetsOf(them)
    <3>1. Safety!Newer(g, them) \in SUBSET them
      BY DEF Safety!Newer
    <3> QED BY <3>1, NewerIsFinite DEF FiniteSubsetsOf
  <2> QED BY <2>1
<1>2. IsWellFoundedOn(StrictSubsetOrdering(them), FiniteSubsetsOf(them))
  BY FS_StrictSubsetOrderingWellFounded
<1>3. PICK x \in newer : \A y \in newer : ~(<<y, x>> \in StrictSubsetOrdering(them))
  <2> HIDE DEF newer
  <2> QED BY <1>1, <1>2, WFMin
<1>4. PICK g \in some : x = Safety!Newer(g, them)
  OBVIOUS
<1>5. ASSUME NEW h \in Safety!Newer(g, them), h \in some PROVE FALSE
  <2>1. g \in File
    OBVIOUS
  <2>2. Safety!Newer(h, them) \subseteq Safety!Newer(g, them) /\ h \notin Safety!Newer(h, them)
    BY <2>1, NewerIsLess
  <2>3. Safety!Newer(h, them) \subseteq them /\ x \subseteq them /\ Safety!Newer(h, them) # x
    BY <1>4, <2>2 DEF Safety!Newer
  <2>4. <<Safety!Newer(h, them), x>> \in StrictSubsetOrdering(them)
    BY <1>4, <2>2, <2>3 DEF StrictSubsetOrdering
  <2> QED BY <1>3, <1>5, <2>4
<1> QED BY <1>5

(* Files over their quota can go, and a file over its quota stays so: the  *)
(* newest one to go has none that goes among the newer ones of its pool.   *)
LEMMA QuotaByStale ==
  ASSUME BackupSizes, NEW them, them \subseteq File, IsFiniteSet(them), NEW stale, stale \subseteq File,
         \A g \in stale : OverQuota(g, them),
         NEW f \in File, OverQuota(f, them)
  PROVE  OverQuota(f, them \ stale)
<1> DEFINE gone == Safety!Newer(f, them) \cap stale
           left == them \ stale
<1>1. CASE gone = {}
  <2>1. Safety!Newer(f, left) = Safety!Newer(f, them)
    BY <1>1 DEF Safety!Newer
  <2> QED BY <2>1 DEF OverQuota
<1>2. CASE gone # {}
  <2>1. PICK g \in gone : Safety!Newer(g, them) \cap gone = {}
    <3>1. gone \subseteq them
      BY DEF Safety!Newer
    <3> HIDE DEF gone
    <3> QED BY <1>2, <3>1, NewestOfSome
  <2>2. g \in stale /\ g \in File /\ g \in Safety!Newer(f, them) /\ Safety!Newer(g, them) \subseteq Safety!Newer(f, them)
    BY NewerIsLess
  <2>3. \A h \in Safety!Newer(g, them) : h \notin stale
    BY <2>1, <2>2
  <2>4. Safety!Newer(g, them) \in SUBSET Safety!Newer(f, left)
    BY <2>2, <2>3 DEF Safety!Newer
  <2>5. IsFiniteSet(left)
    BY FS_Subset
  <2>6. Cardinality(Safety!Newer(g, them)) <= Cardinality(Safety!Newer(f, left))
    BY <2>4, <2>5, NewerIsFinite, FS_Subset
  <2>7. Cardinality(Safety!Newer(g, them)) \in Nat /\ Cardinality(Safety!Newer(f, left)) \in Nat
    BY <2>5, NewerIsFinite
  <2>8. Cardinality(Safety!Newer(g, them)) >= Keep[Safety!Pool(f.kind)]
    <3>1. Safety!Pool(g.kind) = Safety!Pool(f.kind)
      BY <2>2 DEF Safety!Newer
    <3> QED BY <2>2, <3>1 DEF OverQuota
  <2> QED BY <2>6, <2>7, <2>8, QuotasAreNumbers DEF OverQuota
<1> QED BY <1>1, <1>2

(* What a request is about to do, when one thing or a few of it change *)
LEMMA Moves ==
  ASSUME NEW c \in Errand, NEW to \in Await, NEW d, d = [c EXCEPT !.at = to]
  PROVE  d \in Errand /\ d.at = to /\ d.kind = c.kind /\ d.want = c.want /\ d.stale = c.stale
  BY DEF Errand

LEMMA Fails ==
  ASSUME NEW c \in Errand, NEW to \in Await, NEW d, d = [c EXCEPT !.at = to, !.outcome = "failed"]
  PROVE  d \in Errand /\ d.at = to /\ d.kind = c.kind /\ d.want = c.want /\ d.stale = c.stale
  BY DEF Errand

LEMMA IdleErrand == Safety!Idle \in Errand /\ Safety!Idle.at = "idle" /\ Safety!Idle.kind = "manual" /\ Safety!Idle.stale = {}
  BY DEF Errand, Safety!Idle, Await, Safety!Kind, Copy, Safety!Contents

LEMMA BackupInitHolds == ASSUME BackupSizes PROVE Safety!Init => BackupInv
<1> SUFFICES ASSUME Safety!Init PROVE BackupInv
  OBVIOUS
<1>1. PICK c \in Full : store = [content |-> c, version |-> 1, life |-> 0]
  BY DEF Safety!Init, BackupSizes
<1>2. store \in Copy
  BY <1>1 DEF Copy, Safety!Row, Safety!Contents
<1>3. backups = {} /\ clock = 1 /\ born = 0 /\ asked = 0 /\ died = 0 /\ task = [o \in Asker |-> Safety!Idle]
  BY DEF Safety!Init
<1>4. IsFiniteSet(backups)
  BY <1>3, FS_EmptySet
<1>5. BackupTypes
  <2>1. task \in [Asker -> Errand] /\ \A o \in Asker : task[o].kind # "save"
    BY <1>3, IdleErrand
  <2>2. asked \in 0 .. MaxAsked /\ died \in 0 .. MaxCrashes /\ clock \in Nat \ {0} /\ born \in Nat
    BY <1>3 DEF BackupSizes
  <2> QED BY <1>2, <1>3, <1>4, <2>1, <2>2 DEF BackupTypes
<1>6. NamesAreFree
  BY <1>3, IdleErrand DEF NamesAreFree
<1>7. StaleIsOverQuota
  BY <1>3, IdleErrand DEF StaleIsOverQuota
<1> QED BY <1>5, <1>6, <1>7 DEF BackupInv

(* A request goes on: its file is not named, and it removes nothing new. *)
LEMMA GoingOn ==
  ASSUME BackupSizes, BackupInv, NEW o \in Asker, NEW e \in Errand,
         task' = [task EXCEPT ![o] = e], UNCHANGED <<backups, clock>>,
         e.at # "place", e.stale \subseteq task[o].stale,
         e.kind = "save" => e.want \in Safety!Contents,
         store' \in Copy, born' \in Nat, asked' \in 0 .. MaxAsked, died' \in 0 .. MaxCrashes
  PROVE  BackupInv'
<1>1. task \in [Asker -> Errand] /\ task'[o] = e /\ \A p \in Asker \ {o} : task'[p] = task[p]
  BY DEF BackupInv, BackupTypes
<1>2. BackupTypes'
  <2>1. task' \in [Asker -> Errand]
    BY <1>1
  <2>2. \A p \in Asker : task'[p].kind = "save" => task'[p].want \in Safety!Contents
    BY <1>1 DEF BackupInv, BackupTypes
  <2> QED BY <2>1, <2>2 DEF BackupInv, BackupTypes
<1>3. NamesAreFree'
  BY <1>1 DEF BackupInv, NamesAreFree, SameFile
<1>4. StaleIsOverQuota'
  BY <1>1 DEF BackupInv, StaleIsOverQuota, OverQuota
<1> QED BY <1>2, <1>3, <1>4 DEF BackupInv

LEMMA ErrandFacts ==
  ASSUME BackupInv, NEW o \in Asker
  PROVE  /\ task[o] \in Errand /\ task[o].at \in Await /\ task[o].kind \in Safety!Kind
         /\ task[o].want \in Safety!Contents \cup {"none"}
         /\ task[o].kind = "save" => task[o].want \in Safety!Contents
         /\ task[o].read \in Copy /\ task[o].stamp \in Nat /\ task[o].stale \subseteq File
<1>1. task[o] \in Errand
  BY DEF BackupInv, BackupTypes
<1> QED BY <1>1 DEF Errand, BackupInv, BackupTypes

LEMMA FreshOther ==
  ASSUME NEW kind \in {"delete", "manual", "restore"}, NEW want \in Safety!Contents \cup {"none"}, NEW d,
         \/ d = [Safety!Idle EXCEPT !.at = "export", !.kind = kind] 
         \/ d = [Safety!Idle EXCEPT !.at = "export", !.kind = kind, !.want = want] 
  PROVE  d \in Errand /\ d.at = "export" /\ d.stale = {} /\ d.kind # "save"
<1>1. PICK w \in Safety!Contents \cup {"none"} :
        d = [at |-> "export", kind |-> kind, want |-> w, expected |-> 0, life |-> 0,
             read |-> Safety!Absent, stamp |-> 0, outcome |-> "none", stale |-> {}]
  BY DEF Safety!Idle
<1>2. Safety!Absent \in Copy
  BY DEF Copy
<1> QED BY <1>1, <1>2 DEF Errand, Await, Safety!Kind

LEMMA NewContent ==
  ASSUME NEW r \in Copy, r # Safety!Absent, NEW content \in Safety!Contents, NEW d,
         d = [r EXCEPT !.content = content, !.version = @ + 1]
  PROVE  d \in Copy /\ d.content = content /\ d.version = r.version + 1 /\ d.life = r.life
<1>1. r \in Safety!Row
  BY DEF Copy
<1>2. r.version + 1 \in Nat \ {0}
  BY <1>1 DEF Safety!Row
<1>3. d \in Safety!Row /\ d.content = content /\ d.version = r.version + 1 /\ d.life = r.life
  <2> DEFINE v == r.version + 1
  <2>1. d = [r EXCEPT !.content = content, !.version = v] /\ v \in Nat \ {0}
    BY <1>2
  <2> HIDE DEF v
  <2>2. d \in Safety!Row
    BY <1>1, <2>1 DEF Safety!Row
  <2>3. d.content = content /\ d.version = v /\ d.life = r.life
    BY <1>1, <2>1 DEF Safety!Row
  <2> QED BY <2>2, <2>3 DEF v
<1> QED BY <1>3 DEF Copy

LEMMA AskHolds == ASSUME BackupSizes, BackupInv, NEW o \in Asker, Safety!Ask(o) PROVE BackupInv'
<1>0. asked < MaxAsked /\ asked' = asked + 1 /\ UNCHANGED <<store, backups, clock, born, died>>
  BY DEF Safety!Ask
<1>1. asked' \in 0 .. MaxAsked
  BY <1>0 DEF BackupSizes, BackupInv, BackupTypes
<1>2. store \in Copy /\ born \in Nat /\ died \in 0 .. MaxCrashes
  BY DEF BackupInv, BackupTypes
<1>3. store.version \in Nat /\ store.life \in Nat
  BY <1>2 DEF Copy, Safety!Row, Safety!Absent
<1>4. ASSUME NEW content \in Safety!Contents, NEW expected \in {0, store.version},
             task' = [task EXCEPT ![o] = [Safety!Idle EXCEPT !.at = "queued", !.kind = "save", !.want = content,
                                                             !.expected = expected, !.life = store.life]]
      PROVE  BackupInv'
  <2> DEFINE e == [Safety!Idle EXCEPT !.at = "queued", !.kind = "save", !.want = content,
                                      !.expected = expected, !.life = store.life]
  <2>a. expected \in Nat /\ store.life \in Nat
    BY <1>3
  <2>b. e = [Safety!Idle EXCEPT !.at = "queued", !.kind = "save", !.want = content,
                                !.expected = expected, !.life = store.life]
    OBVIOUS
  <2>c. "queued" \in Await /\ "save" \in Safety!Kind
    BY DEF Await, Safety!Kind
  <2>d. content \in Safety!Contents
    OBVIOUS
  <2>2. task' = [task EXCEPT ![o] = e]
    BY <1>4
  <2> HIDE DEF e
  <2>1. e \in Errand /\ e.at = "queued" /\ e.stale = {} /\ e.want = content
    BY <2>a, <2>b, <2>c, <2>d, IdleErrand DEF Errand
  <2> QED BY <1>0, <1>1, <1>2, <2>1, <2>2, GoingOn
<1>5. ASSUME NEW kind \in {"delete", "manual"},
             task' = [task EXCEPT ![o] = [Safety!Idle EXCEPT !.at = "export", !.kind = kind]]
      PROVE  BackupInv'
  <2> DEFINE e == [Safety!Idle EXCEPT !.at = "export", !.kind = kind]
  <2>1. e \in Errand /\ e.at = "export" /\ e.stale = {} /\ e.kind # "save"
    BY FreshOther
  <2> HIDE DEF e
  <2>2. task' = [task EXCEPT ![o] = e]
    BY <1>5 DEF e
  <2> QED BY <1>0, <1>1, <1>2, <2>1, <2>2, GoingOn
<1> QED BY <1>4, <1>5 DEF Safety!Ask

LEMMA AskRestoreHolds == ASSUME BackupSizes, BackupInv, NEW o \in Asker, Safety!AskRestore(o) PROVE BackupInv'
<1>0. asked < MaxAsked /\ asked' = asked + 1 /\ UNCHANGED <<store, backups, clock, born, died>>
  BY DEF Safety!AskRestore
<1>1. asked' \in 0 .. MaxAsked
  BY <1>0 DEF BackupSizes, BackupInv, BackupTypes
<1>2. store \in Copy /\ born \in Nat /\ died \in 0 .. MaxCrashes /\ backups \subseteq File
  BY DEF BackupInv, BackupTypes
<1>3. PICK f \in backups :
        task' = [task EXCEPT ![o] = [Safety!Idle EXCEPT !.at = "export", !.kind = "restore", !.want = f.holds.content]]
  BY DEF Safety!AskRestore
<1>4. f.holds \in Copy
  BY <1>2 DEF File
<1>5. f.holds.content \in Safety!Contents \cup {"none"}
  BY <1>4 DEF Copy, Safety!Row, Safety!Absent
<1> DEFINE e == [Safety!Idle EXCEPT !.at = "export", !.kind = "restore", !.want = f.holds.content]
<1>6. e \in Errand /\ e.at = "export" /\ e.stale = {} /\ e.kind # "save"
  BY <1>5, FreshOther
<1> HIDE DEF e
<1>7. task' = [task EXCEPT ![o] = e]
  BY <1>3 DEF e
<1> QED BY <1>0, <1>1, <1>2, <1>6, <1>7, GoingOn

LEMMA CreateHolds == ASSUME BackupSizes, BackupInv, NEW o \in Asker, Safety!Create(o) PROVE BackupInv'
<1>1. asked' \in 0 .. MaxAsked /\ born' \in Nat /\ UNCHANGED <<backups, clock, task, died>>
  BY DEF Safety!Create, BackupSizes, BackupInv, BackupTypes
<1>2. PICK content \in Safety!Contents : store' = [content |-> content, version |-> 1, life |-> born']
  BY DEF Safety!Create
<1>3. store' \in Copy
  BY <1>1, <1>2 DEF Copy, Safety!Row
<1> QED BY <1>1, <1>3 DEF BackupInv, BackupTypes, NamesAreFree, StaleIsOverQuota, OverQuota

(* The steps that change what a request is about to do and nothing else *)
LEMMA TaskHolds ==
  ASSUME BackupSizes, BackupInv, NEW o \in Asker,
         Safety!Guard(o) \/ Safety!Export(o) \/ Safety!Fail(o)
  PROVE  BackupInv'
<1>1. /\ UNCHANGED <<store, backups, clock, born, asked, died>>
      /\ store \in Copy /\ born \in Nat /\ asked \in 0 .. MaxAsked /\ died \in 0 .. MaxCrashes
  BY DEF Safety!Guard, Safety!Export, Safety!Fail, BackupInv, BackupTypes
<1>a. "act" \in Await /\ "stamp" \in Await /\ task[o] \in Errand
  BY ErrandFacts DEF Await
<1>2. ASSUME NEW d, d \in Errand, d.at # "place", d.kind = task[o].kind, d.want = task[o].want,
             d.stale = task[o].stale, task' = [task EXCEPT ![o] = d]
      PROVE  BackupInv'
  BY <1>1, <1>2, ErrandFacts, GoingOn
<1>3. CASE Safety!Guard(o)
  <2>1. PICK to \in {"export", "act"} : task' = [task EXCEPT ![o] = [task[o] EXCEPT !.at = to]]
    BY <1>3 DEF Safety!Guard, Safety!Goes
  <2> DEFINE d == [task[o] EXCEPT !.at = to]
  <2>a. to \in Await
    BY DEF Await
  <2>b. d = [task[o] EXCEPT !.at = to] /\ task' = [task EXCEPT ![o] = d]
    BY <2>1
  <2> HIDE DEF d
  <2>2. d \in Errand /\ d.at = to /\ d.kind = task[o].kind /\ d.want = task[o].want /\ d.stale = task[o].stale
    BY <1>a, <2>a, <2>b, Moves
  <2> QED BY <1>2, <2>b, <2>2
<1>4. CASE Safety!Export(o)
  <2> DEFINE d == [task[o] EXCEPT !.at = "stamp", !.read = store]
  <2>2. d = [task[o] EXCEPT !.at = "stamp", !.read = store] /\ task' = [task EXCEPT ![o] = d]
    BY <1>4 DEF Safety!Export
  <2> HIDE DEF d
  <2>3. store \in Copy
    BY <1>1
  <2>1. d \in Errand /\ d.at = "stamp" /\ d.kind = task[o].kind /\ d.want = task[o].want /\ d.stale = task[o].stale
    BY <1>a, <2>2, <2>3 DEF Errand
  <2> QED BY <1>2, <2>1, <2>2
<1>5. CASE Safety!Fail(o)
  <2>1. CASE task[o].kind \in {"manual", "restore"}
    <3>1. task' = [task EXCEPT ![o] = Safety!Idle]
      BY <1>5, <2>1 DEF Safety!Fail, Safety!Ends
    <3> QED BY <1>1, <3>1, IdleErrand, GoingOn
  <2>2. CASE task[o].kind \notin {"manual", "restore"}
    <3> DEFINE d == [task[o] EXCEPT !.at = "act", !.outcome = "failed"]
    <3>1. d \in Errand /\ d.at = "act" /\ d.kind = task[o].kind /\ d.want = task[o].want /\ d.stale = task[o].stale
      BY <1>a, Fails, Zenon
    <3>2. task' = [task EXCEPT ![o] = d]
      BY <1>5, <2>2 DEF Safety!Fail
    <3> HIDE DEF d
    <3> QED BY <1>2, <3>1, <3>2
  <2> QED BY <2>1, <2>2
<1> QED BY <1>3, <1>4, <1>5

(* The steps that end a request with a change of the workspace *)
LEMMA ActHolds ==
  ASSUME BackupSizes, BackupInv, NEW o \in Asker,
         Safety!Update(o) \/ Safety!Remove(o) \/ Safety!Replace(o)
  PROVE  BackupInv'
<1>1. /\ UNCHANGED <<backups, clock, asked, died>> /\ task' = [task EXCEPT ![o] = Safety!Idle]
      /\ store \in Copy /\ born \in Nat
      /\ asked \in 0 .. MaxAsked /\ died \in 0 .. MaxCrashes
  BY DEF Safety!Update, Safety!Remove, Safety!Replace, Safety!Ends, BackupInv, BackupTypes
<1>a. born' \in Nat
  <2>1. born' \in {born, born + 1}
    BY DEF Safety!Update, Safety!Remove, Safety!Replace
  <2> QED BY <1>1, <2>1
<1>2. store' \in Copy
  <2>1. ASSUME store # Safety!Absent, NEW content \in Safety!Contents
        PROVE  [store EXCEPT !.content = content, !.version = @ + 1] \in Copy
    BY <1>1, <2>1, NewContent, Zenon
  <2>2. CASE Safety!Update(o)
    <3>1. task[o].want \in Safety!Contents
      BY <2>2, ErrandFacts DEF Safety!Update
    <3> QED BY <1>1, <2>1, <2>2, <3>1 DEF Safety!Update, Safety!Accepts
  <2>3. CASE Safety!Remove(o)
    BY <2>3 DEF Safety!Remove, Copy
  <2>4. CASE Safety!Replace(o)
    <3>1. task[o].want = "none" \/ task[o].want \in Safety!Contents
      BY ErrandFacts
    <3>2. ASSUME NEW content \in Safety!Contents PROVE [content |-> content, version |-> 1, life |-> born + 1] \in Copy
      BY <1>1 DEF Copy, Safety!Row
    <3>3. Safety!Absent \in Copy
      BY DEF Copy
    <3> QED BY <2>1, <2>4, <3>1, <3>2, <3>3 DEF Safety!Replace
  <2> QED BY <2>2, <2>3, <2>4
<1> QED BY <1>1, <1>a, <1>2, IdleErrand, GoingOn

LEMMA StampHolds == ASSUME BackupSizes, BackupInv, ~SameName, NEW o \in Asker, Safety!Stamp(o) PROVE BackupInv'
<1> DEFINE d == [task[o] EXCEPT !.at = "place", !.stamp = clock]
<1>1. /\ UNCHANGED <<store, backups, born, asked, died>> /\ task' = [task EXCEPT ![o] = d]
      /\ clock' \in {clock, clock + 1}
  BY DEF Safety!Stamp
<1>2. task[o] \in Errand /\ "place" \in Await /\ clock \in Nat
  BY ErrandFacts DEF Await, BackupInv, BackupTypes
<1>3. /\ d \in Errand /\ d.at = "place" /\ d.kind = task[o].kind /\ d.want = task[o].want /\ d.stale = task[o].stale
      /\ d.stamp = clock
  BY <1>2 DEF Errand
<1> HIDE DEF d
<1>4. task \in [Asker -> Errand] /\ task'[o] = d /\ \A p \in Asker \ {o} : task'[p] = task[p]
  BY <1>1 DEF BackupInv, BackupTypes
<1>5. BackupTypes'
  <2>1. clock' \in Nat \ {0}
    BY <1>1 DEF BackupInv, BackupTypes
  <2>2. task' \in [Asker -> Errand]
    BY <1>1, <1>3, <1>4
  <2>3. ASSUME NEW p \in Asker, task'[p].kind = "save" PROVE task'[p].want \in Safety!Contents
    <3>1. task[p].kind = "save" /\ task'[p].want = task[p].want
      BY <1>3, <1>4, <2>3
    <3> QED BY <3>1 DEF BackupInv, BackupTypes
  <2> QED BY <1>1, <2>1, <2>2, <2>3 DEF BackupInv, BackupTypes
<1>6. NamesAreFree'
  <2>1. \A f \in backups : f.stamp \in 1 .. clock' - 1 /\ f.stamp # clock
    BY <1>1, <1>2 DEF BackupInv, NamesAreFree
  <2>2. clock \in 1 .. clock'
    BY <1>1 DEF BackupInv, BackupTypes
  <2>3. \A p \in Asker : task[p].at = "place" => task[p].kind # d.kind \/ task[p].stamp # clock
    BY <1>3 DEF Safety!Stamp, Safety!At
  <2>4. ASSUME NEW p \in Asker, task'[p].at = "place"
        PROVE  /\ task'[p].stamp \in 1 .. clock'
               /\ \A f \in backups : ~SameFile(task'[p], f)
               /\ \A q \in Asker \ {p} : task'[q].at = "place" => ~SameFile(task'[p], task'[q])
    <3>1. CASE p = o
      BY <1>3, <1>4, <2>1, <2>2, <2>3, <3>1 DEF SameFile
    <3>2. CASE p # o
      <4>1. task'[p] = task[p] /\ task[p].at = "place"
        BY <1>4, <2>4, <3>2
      <4>2. task[p].stamp \in 1 .. clock'
        BY <1>1, <1>2, <4>1 DEF BackupInv, NamesAreFree
      <4>3. \A f \in backups : ~SameFile(task[p], f)
        BY <4>1 DEF BackupInv, NamesAreFree
      <4>4. ASSUME NEW q \in Asker \ {p}, task'[q].at = "place" PROVE ~SameFile(task[p], task'[q])
        <5>1. CASE q = o
          BY <1>3, <1>4, <2>3, <4>1, <5>1 DEF SameFile
        <5>2. CASE q # o
          BY <1>4, <4>1, <4>4, <5>2 DEF BackupInv, NamesAreFree
        <5> QED BY <5>1, <5>2
      <4> QED BY <4>1, <4>2, <4>3, <4>4
    <3> QED BY <3>1, <3>2
  <2> QED BY <1>1, <2>1, <2>4 DEF NamesAreFree
<1>7. StaleIsOverQuota'
  <2>1. \A p \in Asker : task'[p].stale = task[p].stale
    BY <1>3, <1>4
  <2> QED BY <1>1, <2>1 DEF BackupInv, StaleIsOverQuota, OverQuota
<1> QED BY <1>5, <1>6, <1>7 DEF BackupInv

(* The file goes to a name of its own: nothing is replaced. *)
LEMMA PlaceAdds ==
  ASSUME BackupInv, NEW o \in Asker, Safety!Place(o)
  PROVE  \E added \in File : /\ added.kind = task[o].kind /\ added.stamp = task[o].stamp /\ added.holds = task[o].read
                           /\ backups' = backups \cup {added}
<1> DEFINE added == [kind |-> task[o].kind, stamp |-> task[o].stamp, holds |-> task[o].read, whole |-> TRUE]
<1>1. added \in File
  BY ErrandFacts DEF File
<1>2. \A f \in backups : ~SameFile(task[o], f)
  BY DEF BackupInv, NamesAreFree, Safety!Place, Safety!At
<1>3. {f \in backups : f.kind # task[o].kind \/ f.stamp # task[o].stamp} = backups
  BY <1>2 DEF SameFile
<1>4. backups' = backups \cup {added}
  BY <1>3 DEF Safety!Place
<1> QED BY <1>1, <1>4

LEMMA PlaceHolds == ASSUME BackupSizes, BackupInv, NEW o \in Asker, Safety!Place(o) PROVE BackupInv'
<1> DEFINE d == [task[o] EXCEPT !.at = "list"]
<1>1. /\ UNCHANGED <<store, born, asked, died>> /\ task' = [task EXCEPT ![o] = d] /\ task[o].at = "place"
      /\ clock' = IF clock = task[o].stamp THEN clock + 1 ELSE clock
  BY DEF Safety!Place, Safety!Goes, Safety!At
<1>2. task[o] \in Errand /\ "list" \in Await
  BY ErrandFacts DEF Await
<1>3. d \in Errand /\ d.at = "list" /\ d.kind = task[o].kind /\ d.want = task[o].want /\ d.stale = task[o].stale
  BY <1>2 DEF Errand
<1> HIDE DEF d
<1>4. task \in [Asker -> Errand] /\ task'[o] = d /\ \A p \in Asker \ {o} : task'[p] = task[p]
  BY <1>1 DEF BackupInv, BackupTypes
<1>5. PICK added \in File : added.kind = task[o].kind /\ added.stamp = task[o].stamp /\ backups' = backups \cup {added}
  BY PlaceAdds
<1>6. clock \in Nat \ {0} /\ task[o].stamp \in 1 .. clock /\ clock' \in {clock, clock + 1} /\ task[o].stamp \in 1 .. clock' - 1
  BY <1>1 DEF BackupInv, BackupTypes, NamesAreFree
<1>7. IsFiniteSet(backups')
  BY <1>5, FS_AddElement DEF BackupInv, BackupTypes
<1>8. BackupTypes'
  <2>1. task' \in [Asker -> Errand]
    BY <1>1, <1>3, <1>4
  <2>2. ASSUME NEW p \in Asker, task'[p].kind = "save" PROVE task'[p].want \in Safety!Contents
    <3>1. task[p].kind = "save" /\ task'[p].want = task[p].want
      BY <1>3, <1>4, <2>2
    <3> QED BY <3>1 DEF BackupInv, BackupTypes
  <2>3. clock' \in Nat \ {0}
    BY <1>6
  <2>4. backups' \subseteq File
    BY <1>5 DEF BackupInv, BackupTypes
  <2> QED BY <1>1, <1>7, <2>1, <2>2, <2>3, <2>4 DEF BackupInv, BackupTypes
<1>9. NamesAreFree'
  <2>1. \A f \in backups' : f.stamp \in 1 .. clock' - 1
    BY <1>5, <1>6 DEF BackupInv, NamesAreFree
  <2>2. ASSUME NEW p \in Asker, task'[p].at = "place"
        PROVE  /\ task'[p].stamp \in 1 .. clock'
               /\ \A f \in backups' : ~SameFile(task'[p], f)
               /\ \A q \in Asker \ {p} : task'[q].at = "place" => ~SameFile(task'[p], task'[q])
    <3>1. p # o /\ task'[p] = task[p] /\ task[p].at = "place"
      BY <1>3, <1>4, <2>2
    <3>2. task[p].stamp \in 1 .. clock'
      BY <1>6, <3>1 DEF BackupInv, NamesAreFree
    <3>3. \A f \in backups' : ~SameFile(task[p], f)
      BY <1>1, <1>5, <3>1 DEF BackupInv, NamesAreFree, SameFile
    <3>4. ASSUME NEW q \in Asker \ {p}, task'[q].at = "place" PROVE ~SameFile(task[p], task'[q])
      BY <1>3, <1>4, <3>1, <3>4 DEF BackupInv, NamesAreFree
    <3> QED BY <3>1, <3>2, <3>3, <3>4
  <2> QED BY <2>1, <2>2 DEF NamesAreFree
<1>10. StaleIsOverQuota'
  <2> SUFFICES ASSUME NEW p \in Asker, NEW f \in task'[p].stale PROVE OverQuota(f, backups')
    BY DEF StaleIsOverQuota, OverQuota
  <2>1. f \in task[p].stale
    BY <1>3, <1>4
  <2>2. OverQuota(f, backups) /\ f \in File
    BY <2>1, ErrandFacts DEF BackupInv, StaleIsOverQuota
  <2>3. backups \subseteq backups'
    BY <1>5
  <2> QED BY <1>7, <2>2, <2>3, QuotaByMore
<1> QED BY <1>8, <1>9, <1>10 DEF BackupInv

(* Backups counts as this module does. *)
LEMMA SameCount == \A s : Safety!Cardinality(s) = Cardinality(s)
  BY DEF Safety!Cardinality, Cardinality

LEMMA ListStaleHolds == ASSUME BackupSizes, BackupInv, NEW o \in Asker, Safety!ListStale(o) PROVE BackupInv'
<1> DEFINE stale == {f \in backups : Cardinality(Safety!Newer(f, backups)) >= Keep[Safety!Pool(f.kind)]}
           d == [task[o] EXCEPT !.at = "unlink", !.stale = stale]
<1>1. UNCHANGED <<store, backups, clock, born, asked, died>> /\ task' = [task EXCEPT ![o] = d]
  BY SameCount DEF Safety!ListStale
<1>2. \A f \in stale : OverQuota(f, backups)
  BY DEF OverQuota
<1>3. task[o] \in Errand /\ "unlink" \in Await /\ stale \in SUBSET File
  BY ErrandFacts DEF Await, BackupInv, BackupTypes
<1> HIDE DEF stale
<1>4. d \in Errand /\ d.at = "unlink" /\ d.kind = task[o].kind /\ d.want = task[o].want /\ d.stale = stale
  BY <1>3 DEF Errand
<1> HIDE DEF d
<1>5. task \in [Asker -> Errand] /\ task'[o] = d /\ \A p \in Asker \ {o} : task'[p] = task[p]
  BY <1>1 DEF BackupInv, BackupTypes
<1>6. BackupTypes'
  <2>1. task' \in [Asker -> Errand]
    BY <1>1, <1>4, <1>5
  <2>2. ASSUME NEW p \in Asker, task'[p].kind = "save" PROVE task'[p].want \in Safety!Contents
    <3>1. task[p].kind = "save" /\ task'[p].want = task[p].want
      BY <1>4, <1>5, <2>2
    <3> QED BY <3>1 DEF BackupInv, BackupTypes
  <2> QED BY <1>1, <2>1, <2>2 DEF BackupInv, BackupTypes
<1>7. NamesAreFree'
  BY <1>1, <1>4, <1>5 DEF BackupInv, NamesAreFree, SameFile
<1>8. StaleIsOverQuota'
  BY <1>1, <1>2, <1>4, <1>5 DEF BackupInv, StaleIsOverQuota, OverQuota
<1> QED BY <1>6, <1>7, <1>8 DEF BackupInv

(* What goes was listed as over its quota, and so it is still. *)
LEMMA UnlinkHolds ==
  ASSUME BackupSizes, BackupInv, NEW o \in Asker, Safety!Unlink(o)
  PROVE  BackupInv' /\ \A f \in backups \ backups' : OverQuota(f, backups')
<1>1. UNCHANGED <<store, clock, born, asked, died>> /\ backups' = backups \ task[o].stale
  BY DEF Safety!Unlink
<1>2. PICK d \in Errand : /\ task' = [task EXCEPT ![o] = d] /\ d.at # "place" /\ d.stale = {}
                          /\ d.kind = "save" => d.want \in Safety!Contents
  <2>1. CASE task[o].kind = "manual"
    BY <2>1, IdleErrand DEF Safety!Unlink, Safety!Ends
  <2>2. CASE task[o].kind # "manual"
    <3> DEFINE d == [task[o] EXCEPT !.at = "act", !.outcome = "taken", !.stale = {}]
    <3>1. task' = [task EXCEPT ![o] = d]
      BY <2>2 DEF Safety!Unlink
    <3>2. task[o] \in Errand /\ "act" \in Await
      BY ErrandFacts DEF Await
    <3>3. d \in Errand /\ d.at = "act" /\ d.kind = task[o].kind /\ d.want = task[o].want /\ d.stale = {}
      BY <3>2 DEF Errand
    <3> HIDE DEF d
    <3> QED BY <3>1, <3>3, ErrandFacts
  <2> QED BY <2>1, <2>2
<1>3. task \in [Asker -> Errand] /\ task'[o] = d /\ \A p \in Asker \ {o} : task'[p] = task[p]
  BY <1>2 DEF BackupInv, BackupTypes
<1>4. IsFiniteSet(backups) /\ backups \subseteq File /\ task[o].stale \subseteq File
  BY ErrandFacts DEF BackupInv, BackupTypes
<1>5. \A g \in task[o].stale : OverQuota(g, backups)
  BY DEF BackupInv, StaleIsOverQuota
<1>6. ASSUME NEW f \in File, OverQuota(f, backups) PROVE OverQuota(f, backups')
  BY <1>1, <1>4, <1>5, <1>6, QuotaByStale
<1>7. BackupTypes'
  <2>1. task' \in [Asker -> Errand]
    BY <1>2, <1>3
  <2>2. \A p \in Asker : task'[p].kind = "save" => task'[p].want \in Safety!Contents
    BY <1>2, <1>3 DEF BackupInv, BackupTypes
  <2>3. IsFiniteSet(backups') /\ backups' \subseteq File
    BY <1>1, <1>4, FS_Subset
  <2> QED BY <1>1, <2>1, <2>2, <2>3 DEF BackupInv, BackupTypes
<1>8. NamesAreFree'
  BY <1>1, <1>2, <1>3 DEF BackupInv, NamesAreFree, SameFile
<1>9. StaleIsOverQuota'
  <2> SUFFICES ASSUME NEW p \in Asker, NEW f \in task'[p].stale PROVE OverQuota(f, backups')
    BY DEF StaleIsOverQuota, OverQuota
  <2>1. p # o /\ f \in task[p].stale
    BY <1>2, <1>3
  <2>2. OverQuota(f, backups) /\ f \in File
    BY <2>1, ErrandFacts DEF BackupInv, StaleIsOverQuota
  <2> QED BY <1>6, <2>2
<1>10. \A f \in backups \ backups' : OverQuota(f, backups')
  BY <1>1, <1>4, <1>5, <1>6
<1> QED BY <1>7, <1>8, <1>9, <1>10 DEF BackupInv

(* Every step keeps the invariant, and what it takes away is over quota. *)
LEMMA BackupStepHolds ==
  ASSUME BackupSizes, ~SameName
  PROVE  BackupInv /\ [Safety!Next]_(Safety!bvars) => BackupInv' /\ \A f \in backups \ backups' : OverQuota(f, backups')
<1> SUFFICES ASSUME BackupInv, [Safety!Next]_(Safety!bvars)
             PROVE  BackupInv' /\ \A f \in backups \ backups' : OverQuota(f, backups')
  OBVIOUS
<1>1. ASSUME NEW o \in Asker, Safety!Unlink(o) PROVE BackupInv' /\ \A f \in backups \ backups' : OverQuota(f, backups')
  BY <1>1, UnlinkHolds
<1>2. ASSUME NEW o \in Asker, Safety!Place(o) PROVE BackupInv' /\ backups \subseteq backups'
  <2>1. BackupInv'
    BY <1>2, PlaceHolds
  <2>2. PICK added \in File : backups' = backups \cup {added}
    BY <1>2, PlaceAdds, Zenon
  <2> QED BY <2>1, <2>2
<1>3. ASSUME NEW o \in Asker, Safety!Ask(o) \/ Safety!AskRestore(o) \/ Safety!Create(o) PROVE BackupInv' /\ backups' = backups
  BY <1>3, AskHolds, AskRestoreHolds, CreateHolds DEF Safety!Ask, Safety!AskRestore, Safety!Create
<1>4. ASSUME NEW o \in Asker, Safety!Guard(o) \/ Safety!Export(o) \/ Safety!Fail(o) PROVE BackupInv' /\ backups' = backups
  BY <1>4, TaskHolds DEF Safety!Guard, Safety!Export, Safety!Fail
<1>5. ASSUME NEW o \in Asker, Safety!Stamp(o) PROVE BackupInv' /\ backups' = backups
  BY <1>5, StampHolds DEF Safety!Stamp
<1>6. ASSUME NEW o \in Asker, Safety!ListStale(o) PROVE BackupInv' /\ backups' = backups
  BY <1>6, ListStaleHolds DEF Safety!ListStale
<1>7. ASSUME NEW o \in Asker, Safety!Update(o) \/ Safety!Remove(o) \/ Safety!Replace(o) PROVE BackupInv' /\ backups' = backups
  BY <1>7, ActHolds DEF Safety!Update, Safety!Remove, Safety!Replace
<1>8. ASSUME Safety!Die PROVE BackupInv' /\ backups' = backups
  <2>1. UNCHANGED <<store, backups, clock, born, asked>> /\ task' = [o \in Asker |-> Safety!Idle]
        /\ died' = died + 1 /\ died < MaxCrashes
    BY <1>8 DEF Safety!Die
  <2>2. died' \in 0 .. MaxCrashes
    BY <2>1 DEF BackupSizes, BackupInv, BackupTypes
  <2>3. task' \in [Asker -> Errand] /\ \A o \in Asker : task'[o] = Safety!Idle
    BY <2>1, IdleErrand
  <2>4. BackupTypes'
    BY <2>1, <2>2, <2>3, IdleErrand DEF BackupInv, BackupTypes
  <2>5. NamesAreFree'
    BY <2>1, <2>3, IdleErrand DEF BackupInv, NamesAreFree
  <2>6. StaleIsOverQuota'
    BY <2>3, IdleErrand DEF StaleIsOverQuota
  <2> QED BY <2>1, <2>4, <2>5, <2>6 DEF BackupInv
<1>9. CASE UNCHANGED Safety!bvars
  BY <1>9 DEF Safety!bvars, BackupInv, BackupTypes, NamesAreFree, StaleIsOverQuota, OverQuota
<1> QED BY <1>1, <1>2, <1>3, <1>4, <1>5, <1>6, <1>7, <1>8, <1>9 DEF Safety!Next

LEMMA SafetySteps == MCSpec => Safety!Spec
<1>1. MCInit => Safety!Init
  BY DEF MCInit
<1>2. [MCNext]_all => [Safety!Next]_(Safety!bvars)
  BY DEF MCNext, all, safety, Safety!bvars
<1> QED BY <1>1, <1>2, PTL DEF MCSpec, Safety!Spec

(* What leaves its pool has as many newer ones there as its quota.        *)
LEMMA BackupsGiveWay ==
  ASSUME BackupSizes, BackupInv, BackupInv', \A f \in backups \ backups' : OverQuota(f, backups')
  PROVE  /\ \A f \in backups' : f.whole
         /\ \A f \in backups \ backups' :
              Safety!Cardinality({g \in backups' : Safety!AlikeKinds(f, g) /\ ~Safety!Older(g, f)}) >= Keep[Safety!Pool(f.kind)]
<1>1. \A f \in backups' : f.whole
  BY DEF BackupInv, BackupTypes, File
<1>2. ASSUME NEW f \in backups \ backups'
      PROVE  Safety!Cardinality({g \in backups' : Safety!AlikeKinds(f, g) /\ ~Safety!Older(g, f)}) >= Keep[Safety!Pool(f.kind)]
  <2> DEFINE later == {g \in backups' : Safety!AlikeKinds(f, g) /\ ~Safety!Older(g, f)}
             newer == Safety!Newer(f, backups')
  <2>1. f \in File /\ backups' \subseteq File /\ IsFiniteSet(backups')
    BY DEF BackupInv, BackupTypes
  <2>2. ASSUME NEW g \in newer PROVE g \in later
    <3>1. g \in File /\ g \in backups' /\ Safety!Older(f, g) /\ Safety!Pool(g.kind) = Safety!Pool(f.kind)
      BY <2>1 DEF Safety!Newer
    <3>2. ~Safety!Older(g, f)
      BY <2>1, <3>1, OlderIsAnOrder
    <3>3. Safety!AlikeKinds(f, g)
      BY <2>1, <3>1 DEF Safety!AlikeKinds, Safety!Pool, File, Safety!Kind
    <3> QED BY <3>1, <3>2, <3>3
  <2>3. IsFiniteSet(later)
    BY <2>1, FS_Subset
  <2>4. Cardinality(newer) <= Cardinality(later) /\ Cardinality(later) \in Nat /\ Cardinality(newer) \in Nat
    <3>1. newer \in SUBSET later
      BY <2>2
    <3> HIDE DEF newer, later
    <3> QED BY <2>3, <3>1, FS_Subset, FS_CardinalityType
  <2>5. Cardinality(newer) >= Keep[Safety!Pool(f.kind)] /\ Keep[Safety!Pool(f.kind)] \in Nat
    BY <2>1, QuotasAreNumbers DEF OverQuota
  <2>6. Cardinality(later) >= Keep[Safety!Pool(f.kind)]
    <3> HIDE DEF newer, later
    <3> QED BY <2>4, <2>5
  <2> QED BY <2>6, SameCount
<1> QED BY <1>1, <1>2

(* A backup is whole from the moment it has its name, and leaves its pool  *)
(* only for as many later ones of the same pool, whatever requests prune   *)
(* at once and whenever the server dies (writeJsonBackup,                  *)
(* pruneGeneratedBackups).                                                 *)
THEOREM BackupsAlwaysStand == ASSUME BackupSizes, ~SameName PROVE MCSpec => BackupsStand
<1>1. Safety!Init => BackupInv
  BY BackupInitHolds
<1>2. BackupInv /\ [Safety!Next]_(Safety!bvars) => BackupInv'
  BY BackupStepHolds
<1>3. BackupInv /\ BackupInv' /\ [Safety!Next]_(Safety!bvars) =>
        [/\ \A f \in backups' : f.whole
         /\ \A f \in backups \ backups' :
              Safety!Cardinality({g \in backups' : Safety!AlikeKinds(f, g) /\ ~Safety!Older(g, f)})
                >= Keep[Safety!Pool(f.kind)]]_(Safety!bvars)
  BY BackupStepHolds, BackupsGiveWay
<1> QED BY <1>1, <1>2, <1>3, SafetySteps, PTL DEF Safety!Spec, BackupsStand, Safety!BackupsStand
-----------------------------------------------------------------------------
(* A backup of what an operation takes away, for any contents, requests    *)
(* and quotas, as long as a pool has room for a backup of each request     *)
(* that may be under way: a request that read earlier can place a newer    *)
(* file with older contents, and each can do that once.                    *)

QuotasOutnumber ==
  IsFiniteSet(Asker) /\ \A p \in {"restore", "other"} : Cardinality(Asker) <= Keep[p]

(* What a request knows of the workspace is not of a life to come, nor, in *)
(* the life that lasts, of a version to come.                              *)
Past(life, version) ==
  /\ life \in 0 .. born /\ version \in Nat
  /\ store # Safety!Absent /\ life = born => version <= store.version

RowsArePast ==
  /\ store # Safety!Absent => store.life = born
  /\ \A o \in Asker :
       /\ Past(task[o].life, task[o].expected)
       /\ task[o].read # Safety!Absent => Past(task[o].read.life, task[o].read.version)

(* A save knows the workspace w as it is stored. *)
Knows(t, w) == w # Safety!Absent /\ t.expected # 0 /\ t.life = w.life /\ t.expected = w.version

(* A request has an outcome once it is to act, except a save that found no *)
(* sharp drop; the backup of a save is of the workspace that it knows.     *)
OutcomeIsTrue(t, w) ==
  /\ t.at # "act" => t.outcome = "none"
  /\ t.at = "queued" => t.kind = "save"
  /\ t.at = "act" /\ t.kind # "save" => t.outcome # "none"
  /\ t.at = "act" => t.kind # "manual"
  /\ t.kind = "restore" => t.outcome # "failed"
  /\ t.kind = "save" /\ Knows(t, w) =>
       /\ t.at \in {"stamp", "place", "list", "unlink"} \/ t.outcome = "taken" => t.read = w
       /\ t.at = "act" /\ t.outcome = "none" => ~Safety!SharpDrop(w, t.want)

OutcomesAreTrue == \A o \in Asker : OutcomeIsTrue(task[o], store)

(* From its name to its act a backup is on its way or on disk. *)
Named(t) == t.at \in {"place", "list", "unlink"} \/ t.outcome = "taken"

(* Files of its pool that are newer and hold other contents, and requests  *)
(* that may still place one.                                               *)
Rivals(t, them) == {g \in Safety!Newer(t, them) : ~Safety!Is(g.holds, t.read.content)}
Rivaling(t, tasks) ==
  {p \in Asker : tasks[p].at \in {"stamp", "place"} /\ ~Safety!Is(tasks[p].read, t.read.content)}
Few(t, them, tasks) == Cardinality(Rivals(t, them)) + Cardinality(Rivaling(t, tasks)) < Cardinality(Asker)

Filing(t, f) ==
  /\ Safety!Pool(f.kind) = Safety!Pool(t.kind)
  /\ SameFile(t, f) \/ Safety!Older(t, f)
  /\ Safety!Is(f.holds, t.read.content)

(* While the workspace is as the backup has it, fewer requests than there  *)
(* are have placed rivals of it or may do so.                              *)
Secured(t, w, them, tasks) ==
  w # Safety!Absent /\ w = t.read /\ Named(t) =>
    /\ Few(t, them, tasks)
    /\ t.at # "place" /\ t.kind # "manual" => \E f \in them : Filing(t, f)

LossInv ==
  /\ BackupInv /\ RowsArePast /\ OutcomesAreTrue
  /\ \A o \in Asker : Secured(task[o], store, backups, task)

LEMMA OlderChain ==
  ASSUME NEW f, NEW g, NEW h, f.stamp \in Nat, g.stamp \in Nat, h.stamp \in Nat,
         Safety!Older(f, g), Safety!Older(g, h)
  PROVE  Safety!Older(f, h)
  BY DEF Safety!Older

LEMMA RivalsAreFinite ==
  ASSUME QuotasOutnumber, NEW t, NEW them, IsFiniteSet(them), NEW tasks
  PROVE  /\ IsFiniteSet(Rivals(t, them)) /\ Cardinality(Rivals(t, them)) \in Nat
         /\ IsFiniteSet(Rivaling(t, tasks)) /\ Cardinality(Rivaling(t, tasks)) \in Nat
         /\ Cardinality(Asker) \in Nat
<1>1. Rivals(t, them) \in SUBSET them /\ Rivaling(t, tasks) \in SUBSET Asker
  BY DEF Rivals, Rivaling, Safety!Newer
<1> QED BY <1>1, FS_Subset, FS_CardinalityType DEF QuotasOutnumber

LEMMA StillFew ==
  ASSUME QuotasOutnumber, NEW t, NEW them, IsFiniteSet(them), NEW tasks, Few(t, them, tasks),
         NEW less, IsFiniteSet(less), NEW later,
         Rivals(t, less) \subseteq Rivals(t, them), Rivaling(t, later) \subseteq Rivaling(t, tasks)
  PROVE  Few(t, less, later)
<1>1. Cardinality(Rivals(t, less)) <= Cardinality(Rivals(t, them))
  BY RivalsAreFinite, FS_Subset
<1>2. Cardinality(Rivaling(t, later)) <= Cardinality(Rivaling(t, tasks))
  BY RivalsAreFinite, FS_Subset
<1> QED BY <1>1, <1>2, RivalsAreFinite DEF Few

(* A request that places a rival is no longer one that may. *)
LEMMA FewByPlacing ==
  ASSUME QuotasOutnumber, NEW t, NEW them, IsFiniteSet(them), NEW tasks, Few(t, them, tasks),
         NEW g, NEW later, Rivaling(t, later) \subseteq Rivaling(t, tasks),
         NEW p \in Rivaling(t, tasks), p \notin Rivaling(t, later)
  PROVE  Few(t, them \cup {g}, later)
<1>1. Cardinality(Rivaling(t, later)) + 1 <= Cardinality(Rivaling(t, tasks))
  <2>1. IsFiniteSet(Rivaling(t, later)) /\ IsFiniteSet(Rivaling(t, tasks))
    BY RivalsAreFinite
  <2>2. Cardinality(Rivaling(t, later) \cup {p}) = Cardinality(Rivaling(t, later)) + 1
    BY <2>1, FS_AddElement
  <2>3. Rivaling(t, later) \cup {p} \subseteq Rivaling(t, tasks)
    OBVIOUS
  <2> QED BY <2>1, <2>2, <2>3, FS_Subset
<1>2. IsFiniteSet(them \cup {g})
  BY FS_AddElement
<1>3. Cardinality(Rivals(t, them \cup {g})) <= Cardinality(Rivals(t, them)) + 1
  <2>1. IsFiniteSet(Rivals(t, them)) /\ IsFiniteSet(Rivals(t, them) \cup {g})
    BY RivalsAreFinite, FS_AddElement
  <2>2. Cardinality(Rivals(t, them) \cup {g}) <= Cardinality(Rivals(t, them)) + 1
    BY <2>1, FS_AddElement, FS_CardinalityType
  <2>3. Rivals(t, them \cup {g}) \in SUBSET (Rivals(t, them) \cup {g})
    BY DEF Rivals, Safety!Newer
  <2>4. Cardinality(Rivals(t, them \cup {g})) <= Cardinality(Rivals(t, them) \cup {g})
    BY <2>1, <2>3, FS_Subset
  <2>5. Cardinality(Rivals(t, them \cup {g})) \in Nat /\ Cardinality(Rivals(t, them) \cup {g}) \in Nat
        /\ Cardinality(Rivals(t, them)) \in Nat
    BY <1>2, <2>1, RivalsAreFinite, FS_CardinalityType
  <2> QED BY <2>2, <2>4, <2>5
<1>4. /\ Cardinality(Rivals(t, them \cup {g})) \in Nat /\ Cardinality(Rivals(t, them)) \in Nat
      /\ Cardinality(Rivaling(t, later)) \in Nat /\ Cardinality(Rivaling(t, tasks)) \in Nat
      /\ Cardinality(Asker) \in Nat
  BY <1>2, RivalsAreFinite
<1> QED BY <1>1, <1>3, <1>4 DEF Few

(* Files over their quota can go: of those with the contents of the backup *)
(* the newest has only rivals of the backup before it, too few for that.   *)
LEMMA StillFiled ==
  ASSUME BackupSizes, QuotasOutnumber, NEW them, them \subseteq File, IsFiniteSet(them),
         NEW stale, \A g \in stale : OverQuota(g, them),
         NEW t, t.stamp \in Nat, t.kind \in Safety!Kind \ {"manual"},
         NEW f0 \in them, Filing(t, f0), NEW tasks, Few(t, them, tasks)
  PROVE  \E f \in them \ stale : Filing(t, f)
<1> DEFINE some == {f \in them : Filing(t, f)}
<1>1. PICK g \in some : Safety!Newer(g, them) \cap some = {}
  <2>1. some \subseteq them /\ some # {}
    OBVIOUS
  <2> HIDE DEF some
  <2> QED BY <2>1, NewestOfSome
<1>2. g \in File /\ g \in them /\ g.stamp \in Nat /\ Filing(t, g)
  BY DEF File
<1>3. ASSUME NEW h \in Safety!Newer(g, them) PROVE h \in Rivals(t, them)
  <2>1. h \in them /\ h.stamp \in Nat /\ Safety!Pool(h.kind) = Safety!Pool(g.kind) /\ Safety!Older(g, h)
    BY DEF Safety!Newer, File
  <2>2. Safety!Older(t, h)
    <3>1. CASE SameFile(t, g)
      BY <2>1, <3>1 DEF SameFile, Safety!Older
    <3>2. CASE Safety!Older(t, g)
      BY <1>2, <2>1, <3>2, OlderChain
    <3> QED BY <1>2, <3>1, <3>2 DEF Filing
  <2>3. Safety!Pool(h.kind) = Safety!Pool(t.kind)
    BY <1>2, <2>1 DEF Filing
  <2>4. ~Filing(t, h)
    BY <1>1, <2>1
  <2> QED BY <2>1, <2>2, <2>3, <2>4 DEF Rivals, Filing, Safety!Newer
<1>4. Cardinality(Safety!Newer(g, them)) <= Cardinality(Rivals(t, them))
  <2>1. Safety!Newer(g, them) \subseteq Rivals(t, them)
    BY <1>3
  <2> QED BY <2>1, RivalsAreFinite, FS_Subset
<1>5. Cardinality(Safety!Newer(g, them)) < Cardinality(Asker)
  BY <1>4, RivalsAreFinite, NewerIsFinite DEF Few
<1>6. Keep[Safety!Pool(g.kind)] \in Nat /\ Cardinality(Asker) <= Keep[Safety!Pool(g.kind)]
  <2>1. Safety!Pool(g.kind) = Safety!Pool(t.kind) /\ Safety!Pool(t.kind) \in {"restore", "other"}
    BY <1>2 DEF Filing, Safety!Pool, Safety!Kind
  <2> QED BY <1>2, <2>1, QuotasAreNumbers DEF QuotasOutnumber
<1>7. ~OverQuota(g, them)
  BY <1>5, <1>6, RivalsAreFinite, NewerIsFinite DEF OverQuota
<1> QED BY <1>2, <1>7
(* What a step may do to a request and to the workspace *)
Carried(c, d) == d.kind = c.kind /\ d.want = c.want /\ d.expected = c.expected /\ d.life = c.life
Retained(c, d) == Carried(c, d) /\ d.read = c.read /\ d.stamp = c.stamp

Turn(c, d) ==
  \/ d = Safety!Idle
  \/ /\ d.at \in {"queued", "export"} /\ d.outcome = "none" /\ d.read = Safety!Absent
     /\ d.at = "queued" <=> d.kind = "save"
     /\ d.life \in {0, store.life} /\ d.expected \in {0, store.version}
     /\ d.expected # 0 => d.life = store.life
  \/ /\ c.at = "queued" /\ d.at \in {"export", "act"} /\ Retained(c, d) /\ d.outcome = c.outcome
     /\ d.at = "act" => ~Safety!SharpDrop(store, c.want)
  \/ c.at = "export" /\ d.at = "stamp" /\ Carried(c, d) /\ d.outcome = c.outcome /\ d.read = store
  \/ c.at = "stamp" /\ d.at = "place" /\ Carried(c, d) /\ d.outcome = c.outcome /\ d.read = c.read /\ d.stamp = clock
  \/ /\ \/ c.at = "place" /\ d.at = "list"
        \/ c.at = "list" /\ d.at = "unlink"
     /\ Retained(c, d) /\ d.outcome = c.outcome
  \/ c.at = "unlink" /\ d.at = "act" /\ Retained(c, d) /\ d.outcome = "taken" /\ d.kind # "manual"
  \/ /\ c.at \in {"stamp", "place"} /\ d.at = "act" /\ Retained(c, d) /\ d.outcome = "failed"
     /\ d.kind \notin {"manual", "restore"}

(* The version of a workspace rises, and it is born anew in a new life. *)
StoreMoves ==
  \/ UNCHANGED <<store, born>>
  \/ store' = Safety!Absent /\ born' = born
  \/ /\ store # Safety!Absent /\ store' # Safety!Absent /\ born' = born
     /\ store'.life = store.life /\ store'.version = store.version + 1
  \/ store = Safety!Absent /\ store' # Safety!Absent /\ born' = born + 1 /\ store'.life = born' /\ store'.version = 1

LEMMA SameErrand ==
  ASSUME NEW c \in Errand, NEW to, NEW d, d = [c EXCEPT !.at = to]
  PROVE  d.at = to /\ Retained(c, d) /\ d.outcome = c.outcome
  BY DEF Errand, Retained, Carried

LEMMA AskTurns ==
  ASSUME BackupInv, NEW o \in Asker, Safety!Ask(o) \/ Safety!AskRestore(o)
  PROVE  \E d : task' = [task EXCEPT ![o] = d] /\ Turn(task[o], d)
<1>1. ASSUME NEW content, NEW expected \in {0, store.version}, NEW d,
             d = [Safety!Idle EXCEPT !.at = "queued", !.kind = "save", !.want = content,
                                     !.expected = expected, !.life = store.life]
      PROVE  Turn(task[o], d)
  BY <1>1 DEF Safety!Idle, Turn
<1>2. ASSUME NEW kind \in {"delete", "manual"}, NEW d,
             d = [Safety!Idle EXCEPT !.at = "export", !.kind = kind]
      PROVE  Turn(task[o], d)
  BY <1>2 DEF Safety!Idle, Turn
<1>3. ASSUME NEW want, NEW d,
             d = [Safety!Idle EXCEPT !.at = "export", !.kind = "restore", !.want = want]
      PROVE  Turn(task[o], d)
  <2>1. /\ d.at = "export" /\ d.kind = "restore" /\ d.outcome = "none" /\ d.read = Safety!Absent
        /\ d.life = 0 /\ d.expected = 0
    BY <1>3 DEF Safety!Idle
  <2> QED BY <2>1 DEF Turn
<1>4. CASE Safety!Ask(o)
  <2>1. CASE \E content \in Safety!Contents, expected \in {0, store.version} :
               task' = [task EXCEPT ![o] = [Safety!Idle EXCEPT !.at = "queued", !.kind = "save", !.want = content,
                                                               !.expected = expected, !.life = store.life]]
    BY <1>1, <2>1, Zenon
  <2>2. CASE \E kind \in {"delete", "manual"} :
               task' = [task EXCEPT ![o] = [Safety!Idle EXCEPT !.at = "export", !.kind = kind]]
    BY <1>2, <2>2, Zenon
  <2> QED BY <1>4, <2>1, <2>2 DEF Safety!Ask
<1>5. CASE Safety!AskRestore(o)
  <2>1. PICK f \in backups :
          task' = [task EXCEPT ![o] = [Safety!Idle EXCEPT !.at = "export", !.kind = "restore", !.want = f.holds.content]]
    BY <1>5 DEF Safety!AskRestore
  <2> QED BY <1>3, <2>1, Zenon
<1> QED BY <1>4, <1>5

LEMMA WorkTurns ==
  ASSUME BackupInv, NEW o \in Asker,
         \/ Safety!Guard(o) \/ Safety!Export(o) \/ Safety!Stamp(o) \/ Safety!Place(o) \/ Safety!ListStale(o)
         \/ Safety!Unlink(o) \/ Safety!Fail(o) \/ Safety!Update(o) \/ Safety!Remove(o) \/ Safety!Replace(o)
  PROVE  \E d : task' = [task EXCEPT ![o] = d] /\ Turn(task[o], d)
<1> DEFINE c == task[o]
<1>0. c \in Errand
  BY ErrandFacts
<1>a. Turn(c, Safety!Idle)
  BY DEF Turn
<1>1. CASE Safety!Guard(o)
  <2> DEFINE to == IF Safety!SharpDrop(store, c.want) THEN "export" ELSE "act"
             d == [c EXCEPT !.at = to]
  <2>1. c.at = "queued" /\ task' = [task EXCEPT ![o] = d]
    BY <1>1 DEF Safety!Guard, Safety!At, Safety!Goes
  <2>2. to \in {"export", "act"} /\ (to = "act" => ~Safety!SharpDrop(store, c.want))
    OBVIOUS
  <2>3. d = [c EXCEPT !.at = to]
    OBVIOUS
  <2> HIDE DEF d, to
  <2>4. d.at = to /\ Retained(c, d) /\ d.outcome = c.outcome
    BY <1>0, <2>3, SameErrand
  <2>5. Turn(c, d)
    BY <2>1, <2>2, <2>4 DEF Turn
  <2> QED BY <2>1, <2>5
<1>2. CASE Safety!Export(o)
  <2> DEFINE d == [c EXCEPT !.at = "stamp", !.read = store]
  <2>1. c.at = "export" /\ task' = [task EXCEPT ![o] = d]
    BY <1>2 DEF Safety!Export, Safety!At
  <2>2. d.at = "stamp" /\ Carried(c, d) /\ d.outcome = c.outcome /\ d.read = store
    BY <1>0 DEF Errand, Carried
  <2> HIDE DEF d
  <2>3. Turn(c, d)
    BY <2>1, <2>2 DEF Turn
  <2> QED BY <2>1, <2>3
<1>3. CASE Safety!Stamp(o)
  <2> DEFINE d == [c EXCEPT !.at = "place", !.stamp = clock]
  <2>1. c.at = "stamp" /\ task' = [task EXCEPT ![o] = d]
    BY <1>3 DEF Safety!Stamp, Safety!At
  <2>2. d.at = "place" /\ Carried(c, d) /\ d.outcome = c.outcome /\ d.read = c.read /\ d.stamp = clock
    BY <1>0 DEF Errand, Carried
  <2> HIDE DEF d
  <2>3. Turn(c, d)
    BY <2>1, <2>2 DEF Turn
  <2> QED BY <2>1, <2>3
<1>4. CASE Safety!Place(o)
  <2> DEFINE d == [c EXCEPT !.at = "list"]
  <2>1. c.at = "place" /\ task' = [task EXCEPT ![o] = d]
    BY <1>4 DEF Safety!Place, Safety!At, Safety!Goes
  <2>2. d = [c EXCEPT !.at = "list"]
    OBVIOUS
  <2> HIDE DEF d
  <2>3. d.at = "list" /\ Retained(c, d) /\ d.outcome = c.outcome
    BY <1>0, <2>2, SameErrand
  <2>4. Turn(c, d)
    BY <2>1, <2>3 DEF Turn
  <2> QED BY <2>1, <2>4
<1>5. CASE Safety!ListStale(o)
  <2> DEFINE stale == {f \in backups : Safety!Cardinality(Safety!Newer(f, backups)) >= Keep[Safety!Pool(f.kind)]}
             d == [c EXCEPT !.at = "unlink", !.stale = stale]
  <2>1. c.at = "list" /\ task' = [task EXCEPT ![o] = d]
    BY <1>5 DEF Safety!ListStale, Safety!At
  <2> HIDE DEF stale
  <2>2. d.at = "unlink" /\ Retained(c, d) /\ d.outcome = c.outcome
    BY <1>0 DEF Errand, Retained, Carried
  <2> HIDE DEF d
  <2>3. Turn(c, d)
    BY <2>1, <2>2 DEF Turn
  <2> QED BY <2>1, <2>3
<1>6. CASE Safety!Unlink(o)
  <2>1. CASE c.kind = "manual"
    BY <1>6, <1>a, <2>1 DEF Safety!Unlink, Safety!Ends
  <2>2. CASE c.kind # "manual"
    <3> DEFINE d == [c EXCEPT !.at = "act", !.outcome = "taken", !.stale = {}]
    <3>1. c.at = "unlink" /\ task' = [task EXCEPT ![o] = d]
      BY <1>6, <2>2 DEF Safety!Unlink, Safety!At
    <3>2. d.at = "act" /\ Retained(c, d) /\ d.outcome = "taken"
      BY <1>0 DEF Errand, Retained, Carried
    <3>3. d.kind # "manual"
      BY <2>2, <3>2 DEF Retained, Carried
    <3> HIDE DEF d
    <3>4. Turn(c, d)
      BY <3>1, <3>2, <3>3 DEF Turn
    <3> QED BY <3>1, <3>4
  <2> QED BY <2>1, <2>2
<1>7. CASE Safety!Fail(o)
  <2>1. CASE c.kind \in {"manual", "restore"}
    BY <1>7, <1>a, <2>1 DEF Safety!Fail, Safety!Ends
  <2>2. CASE c.kind \notin {"manual", "restore"}
    <3> DEFINE d == [c EXCEPT !.at = "act", !.outcome = "failed"]
    <3>1. c.at \in {"stamp", "place"} /\ task' = [task EXCEPT ![o] = d]
      BY <1>7, <2>2 DEF Safety!Fail
    <3>2. d.at = "act" /\ Retained(c, d) /\ d.outcome = "failed"
      BY <1>0 DEF Errand, Retained, Carried
    <3>3. d.kind \notin {"manual", "restore"}
      BY <2>2, <3>2 DEF Retained, Carried
    <3> HIDE DEF d
    <3>4. Turn(c, d)
      BY <3>1, <3>2, <3>3 DEF Turn
    <3> QED BY <3>1, <3>4
  <2> QED BY <2>1, <2>2
<1>8. CASE Safety!Update(o) \/ Safety!Remove(o) \/ Safety!Replace(o)
  BY <1>8, <1>a DEF Safety!Update, Safety!Remove, Safety!Replace, Safety!Ends
<1> QED BY <1>1, <1>2, <1>3, <1>4, <1>5, <1>6, <1>7, <1>8

LEMMA WorkspaceMoves == ASSUME BackupInv, [Safety!Next]_(Safety!bvars) PROVE StoreMoves
<1>0. born \in Nat /\ store \in Copy
  BY DEF BackupInv, BackupTypes
<1>1. ASSUME NEW content \in Safety!Contents, store # Safety!Absent, NEW w,
             w = [store EXCEPT !.content = content, !.version = @ + 1]
      PROVE  w # Safety!Absent /\ w.life = store.life /\ w.version = store.version + 1
  <2>1. w.life = store.life /\ w.version = store.version + 1
    <3> DEFINE v == store.version + 1
    <3>1. store \in Safety!Row /\ w = [store EXCEPT !.content = content, !.version = v]
      BY <1>0, <1>1 DEF Copy
    <3> HIDE DEF v
    <3>2. w.version = v /\ w.life = store.life
      BY <3>1 DEF Safety!Row
    <3> QED BY <3>2 DEF v
  <2>2. store.version \in Nat
    BY <1>0, <1>1 DEF Copy, Safety!Row
  <2>3. w.version # Safety!Absent.version
    BY <2>1, <2>2 DEF Safety!Absent
  <2> QED BY <2>1, <2>3
<1>2. ASSUME NEW content, NEW life
      PROVE  LET w == [content |-> content, version |-> 1, life |-> life]
             IN w # Safety!Absent /\ w.life = life /\ w.version = 1
  BY DEF Safety!Absent
<1>3. ASSUME NEW o \in Asker, Safety!Update(o) PROVE StoreMoves
  <2>1. task[o].want \in Safety!Contents
    BY <1>3, ErrandFacts DEF Safety!Update
  <2>2. CASE Safety!Accepts(o)
    <3>1. store' = [store EXCEPT !.content = task[o].want, !.version = @ + 1] /\ born' = born /\ store # Safety!Absent
      BY <1>3, <2>2 DEF Safety!Update, Safety!Accepts
    <3> QED BY <1>1, <2>1, <3>1, Zenon DEF StoreMoves
  <2>3. CASE ~Safety!Accepts(o)
    BY <1>3, <2>3 DEF Safety!Update, StoreMoves
  <2> QED BY <2>2, <2>3
<1>4. ASSUME NEW o \in Asker, Safety!Replace(o) PROVE StoreMoves
  <2>1. CASE task[o].want = "none"
    BY <1>4, <2>1 DEF Safety!Replace, StoreMoves
  <2>2. CASE task[o].want # "none" /\ store = Safety!Absent
    <3>1. store' = [content |-> task[o].want, version |-> 1, life |-> born + 1] /\ born' = born + 1
      BY <1>4, <2>2 DEF Safety!Replace
    <3> QED BY <1>2, <2>2, <3>1, Zenon DEF StoreMoves
  <2>3. CASE task[o].want # "none" /\ store # Safety!Absent
    <3>1. store' = [store EXCEPT !.content = task[o].want, !.version = @ + 1] /\ born' = born
      BY <1>4, <2>3 DEF Safety!Replace
    <3>2. task[o].want \in Safety!Contents
      BY <2>3, ErrandFacts
    <3> QED BY <1>1, <2>3, <3>1, <3>2, Zenon DEF StoreMoves
  <2> QED BY <2>1, <2>2, <2>3
<1>5. ASSUME NEW o \in Asker, Safety!Create(o) PROVE StoreMoves
  <2>1. PICK content \in Safety!Contents : store' = [content |-> content, version |-> 1, life |-> born']
    BY <1>5 DEF Safety!Create
  <2>2. store = Safety!Absent /\ born' = born + 1
    BY <1>5 DEF Safety!Create
  <2> QED BY <1>2, <2>1, <2>2, Zenon DEF StoreMoves
<1>6. ASSUME NEW o \in Asker, Safety!Remove(o) PROVE StoreMoves
  <2>1. store' = Safety!Absent /\ born' = born
    BY <1>6 DEF Safety!Remove
  <2> QED BY <2>1 DEF StoreMoves
<1>7. ASSUME NEW o \in Asker,
             \/ Safety!Ask(o) \/ Safety!AskRestore(o) \/ Safety!Guard(o) \/ Safety!Export(o) \/ Safety!Stamp(o)
             \/ Safety!Place(o) \/ Safety!ListStale(o) \/ Safety!Unlink(o) \/ Safety!Fail(o)
      PROVE  StoreMoves
  BY <1>7 DEF Safety!Ask, Safety!AskRestore, Safety!Guard, Safety!Export, Safety!Stamp, Safety!Place,
       Safety!ListStale, Safety!Unlink, Safety!Fail, StoreMoves
<1>8. CASE Safety!Die \/ UNCHANGED Safety!bvars
  BY <1>8 DEF Safety!Die, Safety!bvars, StoreMoves
<1> QED BY <1>3, <1>4, <1>5, <1>6, <1>7, <1>8 DEF Safety!Next

LEMMA TasksTurn ==
  ASSUME BackupInv, [Safety!Next]_(Safety!bvars), NEW q \in Asker
  PROVE  task'[q] = task[q] \/ Turn(task[q], task'[q])
<1>1. ASSUME NEW o \in Asker, NEW d, task' = [task EXCEPT ![o] = d], Turn(task[o], d)
      PROVE  task'[q] = task[q] \/ Turn(task[q], task'[q])
  BY <1>1 DEF BackupInv, BackupTypes
<1>2. ASSUME NEW o \in Asker, ~Safety!Create(o),
             \/ Safety!Ask(o) \/ Safety!AskRestore(o) \/ Safety!Create(o) \/ Safety!Guard(o)
             \/ Safety!Export(o) \/ Safety!Stamp(o) \/ Safety!Place(o) \/ Safety!ListStale(o) \/ Safety!Unlink(o) \/ Safety!Fail(o)
             \/ Safety!Update(o) \/ Safety!Remove(o) \/ Safety!Replace(o)
      PROVE  task'[q] = task[q] \/ Turn(task[q], task'[q])
  <2>1. PICK d : task' = [task EXCEPT ![o] = d] /\ Turn(task[o], d)
    BY <1>2, AskTurns, WorkTurns, Zenon
  <2> QED BY <1>1, <2>1
<1>3. ASSUME NEW o \in Asker, Safety!Create(o) PROVE task'[q] = task[q]
  BY <1>3 DEF Safety!Create
<1>4. CASE Safety!Die
  BY <1>4 DEF Safety!Die, Turn
<1>5. CASE UNCHANGED Safety!bvars
  BY <1>5 DEF Safety!bvars
<1> QED BY <1>2, <1>3, <1>4, <1>5, Zenon DEF Safety!Next

(* A life that is past, or a version of one, does not come back. *)
LEMMA PastStays ==
  ASSUME BackupInv, RowsArePast, StoreMoves, NEW life, NEW version, Past(life, version)
  PROVE  /\ Past(life, version)'
         /\ store' # Safety!Absent /\ store'.life = life /\ store'.version = version => UNCHANGED <<store, born>>
<1>1. born \in Nat /\ (store # Safety!Absent => store.version \in Nat /\ store.life = born)
  BY DEF BackupInv, BackupTypes, Copy, Safety!Row, RowsArePast
<1> QED BY <1>1 DEF StoreMoves, Past

LEMMA RowsStayPast ==
  ASSUME BackupInv, RowsArePast, [Safety!Next]_(Safety!bvars)
  PROVE  RowsArePast'
<1>1. StoreMoves
  BY WorkspaceMoves
<1>2. born \in Nat /\ (store # Safety!Absent => store.version \in Nat /\ store.life = born)
  BY DEF BackupInv, BackupTypes, Copy, Safety!Row, RowsArePast
<1>3. store' # Safety!Absent => store'.life = born'
  BY <1>1, <1>2 DEF StoreMoves
<1>4. Past(0, 0)
  BY <1>2 DEF Past
<1>5. store # Safety!Absent => Past(store.life, store.version) /\ Past(store.life, 0)
  BY <1>2 DEF Past
<1>6. store = Safety!Absent => store.life = 0 /\ store.version = 0
  BY DEF Safety!Absent
<1>7. ASSUME NEW q \in Asker
      PROVE  /\ Past(task'[q].life, task'[q].expected)
             /\ task'[q].read # Safety!Absent => Past(task'[q].read.life, task'[q].read.version)
  <2>1. CASE task'[q] = task[q]
    BY <2>1 DEF RowsArePast
  <2>2. CASE task'[q] = Safety!Idle
    BY <1>4, <2>2 DEF Safety!Idle
  <2>3. CASE /\ task'[q].read = Safety!Absent
             /\ task'[q].life \in {0, store.life} /\ task'[q].expected \in {0, store.version}
             /\ task'[q].expected # 0 => task'[q].life = store.life
    BY <1>4, <1>5, <1>6, <2>3
  <2>4. CASE /\ task'[q].life = task[q].life /\ task'[q].expected = task[q].expected
             /\ task'[q].read \in {task[q].read, store}
    BY <1>5, <2>4 DEF RowsArePast
  <2>5. Turn(task[q], task'[q]) \/ task'[q] = task[q]
    BY TasksTurn
  <2> QED BY <2>1, <2>2, <2>3, <2>4, <2>5 DEF Turn, Retained, Carried
<1>8. ASSUME NEW q \in Asker
      PROVE  /\ Past(task[q].life, task[q].expected)'
             /\ task'[q].read # Safety!Absent => Past(task[q].read.life, task[q].read.version)'
  <2>1. \A life, version : Past(life, version) => Past(life, version)'
    BY <1>1, PastStays
  <2> QED BY <1>7, <2>1 DEF Past
<1> QED BY <1>3, <1>8 DEF RowsArePast

(* What a request has read, or read before, was stored already if it is. *)
LEMMA StoreStays ==
  ASSUME BackupInv, RowsArePast, [Safety!Next]_(Safety!bvars), NEW q \in Asker, store' # Safety!Absent
  PROVE  /\ store' = task'[q].read => store' = store
         /\ Knows(task'[q], store') /\ task'[q] # Safety!Idle => store' = store
<1>1. StoreMoves /\ (task'[q] = task[q] \/ Turn(task[q], task'[q]))
  BY WorkspaceMoves, TasksTurn
<1>2. ASSUME store' = task[q].read PROVE store' = store
  BY <1>1, <1>2, PastStays DEF RowsArePast
<1>3. ASSUME store'.life = task[q].life, store'.version = task[q].expected PROVE store' = store
  BY <1>1, <1>3, PastStays DEF RowsArePast
<1>4. task'[q].read \in {task[q].read, store, Safety!Absent}
  BY <1>1 DEF Turn, Retained, Carried, Safety!Idle
<1>5. ASSUME Knows(task'[q], store'), task'[q] # Safety!Idle PROVE store' = store
  <2>1. CASE task'[q].life = task[q].life /\ task'[q].expected = task[q].expected
    BY <1>3, <1>5, <2>1 DEF Knows
  <2>2. CASE task'[q].life = store.life /\ task'[q].expected = store.version
    <3>1. store # Safety!Absent
      BY <1>5, <2>2 DEF Knows, Safety!Absent
    <3>2. Past(store.life, store.version)
      BY <3>1 DEF Past, RowsArePast, BackupInv, BackupTypes, Copy, Safety!Row
    <3> QED BY <1>1, <1>5, <2>2, <3>2, PastStays DEF Knows
  <2>3. task'[q].expected # 0
    BY <1>5 DEF Knows
  <2> QED BY <1>1, <1>5, <2>1, <2>2, <2>3 DEF Turn, Retained, Carried
<1> QED BY <1>2, <1>4, <1>5

LEMMA OutcomesStayTrue ==
  ASSUME BackupInv, RowsArePast, OutcomesAreTrue, [Safety!Next]_(Safety!bvars)
  PROVE  OutcomesAreTrue'
<1> SUFFICES ASSUME NEW q \in Asker PROVE OutcomeIsTrue(task'[q], store')
  BY DEF OutcomesAreTrue
<1> DEFINE c == task[q]
           d == task'[q]
<1>1. d = c \/ Turn(c, d)
  BY TasksTurn
<1>2. OutcomeIsTrue(c, store)
  BY DEF OutcomesAreTrue
<1>3. Knows(d, store') /\ d # Safety!Idle => store' = store
  BY StoreStays DEF Knows
<1>4. OutcomeIsTrue(Safety!Idle, store')
  BY DEF OutcomeIsTrue, Safety!Idle, Knows
<1> HIDE DEF c, d
<1>5. OutcomeIsTrue(d, store)
  <2>1. CASE d = c
    BY <1>2, <2>1
  <2>2. CASE Turn(c, d)
    BY <1>2, <2>2 DEF Turn, Retained, Carried, OutcomeIsTrue, Knows, Safety!Idle
  <2> QED BY <1>1, <2>1, <2>2
<1>6. OutcomeIsTrue(d, store')
  BY <1>3, <1>4, <1>5 DEF OutcomeIsTrue
<1> QED BY <1>6 DEF d

(* Nobody becomes able to place a rival of what he reads in the store. *)
LEMMA NoNewRivaling ==
  ASSUME BackupInv, [Safety!Next]_(Safety!bvars), NEW t, store # Safety!Absent, store = t.read
  PROVE  Rivaling(t, task') \subseteq Rivaling(t, task)
<1> SUFFICES ASSUME NEW p \in Asker, task'[p].at \in {"stamp", "place"}, ~Safety!Is(task'[p].read, t.read.content)
             PROVE  task[p].at \in {"stamp", "place"} /\ ~Safety!Is(task[p].read, t.read.content)
  BY DEF Rivaling
<1>1. task'[p] = task[p] \/ Turn(task[p], task'[p])
  BY TasksTurn
<1>2. task'[p].read # store
  BY DEF Safety!Is
<1> QED BY <1>1, <1>2 DEF Turn, Retained, Safety!Idle

(* A request whose backup is named now was named before, or is named now:  *)
(* no file is newer, and its own contents are no rival's.                  *)
LEMMA NamedTurn ==
  ASSUME BackupInv, OutcomesAreTrue, [Safety!Next]_(Safety!bvars), NEW q \in Asker, Named(task'[q])
  PROVE  \/ Retained(task[q], task'[q]) /\ Named(task[q]) /\ (task[q].at = "place" => task'[q].at \in {"place", "list"})
         \/ task'[q].at = "place" /\ task'[q].stamp = clock /\ task'[q].read = task[q].read /\ task[q].at = "stamp"
<1>1. task'[q] = task[q] \/ Turn(task[q], task'[q])
  BY TasksTurn
<1>2. OutcomeIsTrue(task[q], store)
  BY DEF OutcomesAreTrue
<1> QED BY <1>1, <1>2 DEF Turn, Retained, Carried, Named, OutcomeIsTrue, Safety!Idle

LEMMA FewAtFirst ==
  ASSUME BackupInv, QuotasOutnumber, NEW q \in Asker, store # Safety!Absent, NEW t, t.read = store, task[q].read = store,
         t.stamp = clock
  PROVE  Few(t, backups, task)
<1>1. Rivals(t, backups) = {}
  <2>1. \A g \in backups : g.stamp \in Nat /\ g.stamp < clock
    BY DEF BackupInv, BackupTypes, NamesAreFree
  <2>2. clock \in Nat
    BY DEF BackupInv, BackupTypes
  <2> QED BY <2>1, <2>2 DEF Rivals, Safety!Newer, Safety!Older
<1>2. Rivaling(t, task) \subseteq Asker \ {q}
  BY DEF Rivaling, Safety!Is
<1>3. IsFiniteSet(Asker \ {q}) /\ Cardinality(Asker \ {q}) = Cardinality(Asker) - 1
  BY FS_RemoveElement DEF QuotasOutnumber
<1>4. Cardinality(Rivaling(t, task)) <= Cardinality(Asker) - 1
  BY <1>2, <1>3, FS_Subset
<1>5. Cardinality(Rivals(t, backups)) = 0
  BY <1>1, FS_EmptySet
<1>6. Cardinality(Rivaling(t, task)) \in Nat /\ Cardinality(Asker) \in Nat
  BY RivalsAreFinite DEF BackupInv, BackupTypes
<1> QED BY <1>4, <1>5, <1>6 DEF Few

(* The same with the files and the requests of the next state *)
LEMMA FewStays ==
  ASSUME BackupSizes, QuotasOutnumber, ~SameName, BackupInv, [Safety!Next]_(Safety!bvars),
         NEW t, store # Safety!Absent, store = t.read, Few(t, backups, task)
  PROVE  Few(t, backups', task')
<1>0. IsFiniteSet(backups) /\ IsFiniteSet(backups') /\ BackupInv'
  BY BackupStepHolds DEF BackupInv, BackupTypes
<1>1. Rivaling(t, task') \subseteq Rivaling(t, task)
  BY NoNewRivaling
<1>2. CASE backups' \subseteq backups
  <2>1. Rivals(t, backups') \subseteq Rivals(t, backups)
    BY <1>2 DEF Rivals, Safety!Newer
  <2> QED BY <1>0, <1>1, <2>1, StillFew
<1>3. ASSUME NEW p \in Asker, Safety!Place(p) PROVE Few(t, backups', task')
  <2>1. PICK g \in File : g.holds = task[p].read /\ backups' = backups \cup {g}
    BY <1>3, PlaceAdds
  <2>2. CASE Safety!Is(g.holds, t.read.content)
    <3>1. Rivals(t, backups') \subseteq Rivals(t, backups)
      BY <2>1, <2>2 DEF Rivals, Safety!Newer
    <3> QED BY <1>0, <1>1, <3>1, StillFew
  <2>3. CASE ~Safety!Is(g.holds, t.read.content)
    <3>1. task[p].at = "place" /\ task'[p].at = "list"
      <4>1. task[p].at = "place" /\ task' = [task EXCEPT ![p].at = "list"]
        BY <1>3 DEF Safety!Place, Safety!At, Safety!Goes
      <4>2. task \in [Asker -> Errand]
        BY DEF BackupInv, BackupTypes
      <4> QED BY <4>1, <4>2 DEF Errand
    <3>2. p \in Rivaling(t, task) /\ p \notin Rivaling(t, task')
      BY <2>1, <2>3, <3>1 DEF Rivaling
    <3> QED BY <1>0, <1>1, <2>1, <3>2, FewByPlacing
  <2> QED BY <2>2, <2>3
<1>4. backups' \subseteq backups \/ \E p \in Asker : Safety!Place(p)
  BY DEF Safety!Next, Safety!bvars, Safety!Ask, Safety!AskRestore, Safety!Create, Safety!Guard, Safety!Export, Safety!Stamp,
     Safety!ListStale, Safety!Unlink, Safety!Fail, Safety!Update, Safety!Remove, Safety!Replace, Safety!Die
<1> QED BY <1>2, <1>3, <1>4

LEMMA FiledStays ==
  ASSUME BackupSizes, QuotasOutnumber, BackupInv, [Safety!Next]_(Safety!bvars),
         NEW t, t.stamp \in Nat, t.kind \in Safety!Kind \ {"manual"}, Few(t, backups, task),
         \E f \in backups : Filing(t, f)
  PROVE  \E f \in backups' : Filing(t, f)
<1>1. ASSUME NEW p \in Asker, Safety!Unlink(p) PROVE \E f \in backups' : Filing(t, f)
  <2>1. backups' = backups \ task[p].stale
    BY <1>1 DEF Safety!Unlink
  <2>2. backups \subseteq File /\ IsFiniteSet(backups) /\ \A g \in task[p].stale : OverQuota(g, backups)
    BY DEF BackupInv, BackupTypes, StaleIsOverQuota
  <2> QED BY <2>1, <2>2, StillFiled
<1>2. ASSUME NEW p \in Asker, Safety!Place(p) PROVE backups \subseteq backups'
  <2>1. PICK g : backups' = backups \cup {g}
    BY <1>2, PlaceAdds, Zenon
  <2> QED BY <2>1
<1>3. backups' = backups \/ \E p \in Asker : Safety!Place(p) \/ Safety!Unlink(p)
  BY DEF Safety!Next, Safety!bvars, Safety!Ask, Safety!AskRestore, Safety!Create, Safety!Guard, Safety!Export, Safety!Stamp,
     Safety!ListStale, Safety!Fail, Safety!Update, Safety!Remove, Safety!Replace, Safety!Die
<1> QED BY <1>1, <1>2, <1>3

LEMMA OnlyPlaceLists ==
  ASSUME BackupInv, [Safety!Next]_(Safety!bvars), NEW q \in Asker, task[q].at = "place", task'[q].at = "list"
  PROVE  Safety!Place(q)
<1>1. task \in [Asker -> Errand] /\ task' # task
  BY DEF BackupInv, BackupTypes
<1>2. ASSUME NEW o \in Asker, o # q, NEW d, task' = [task EXCEPT ![o] = d] PROVE FALSE
  BY <1>1, <1>2
<1>3. ASSUME NEW o \in Asker, ~Safety!Place(o),
             \/ Safety!Ask(o) \/ Safety!AskRestore(o) \/ Safety!Guard(o) \/ Safety!Export(o) \/ Safety!Stamp(o)
             \/ Safety!Place(o) \/ Safety!ListStale(o) \/ Safety!Unlink(o) \/ Safety!Fail(o)
             \/ Safety!Update(o) \/ Safety!Remove(o) \/ Safety!Replace(o)
      PROVE  FALSE
  <2>1. CASE o # q
    <3>1. PICK d : task' = [task EXCEPT ![o] = d]
      BY <1>3, AskTurns, WorkTurns, Zenon
    <3> QED BY <1>2, <2>1, <3>1
  <2>2. CASE o = q
    <3>1. Safety!Fail(q)
      BY <1>3, <2>2 DEF Safety!Ask, Safety!AskRestore, Safety!Guard, Safety!Export, Safety!Stamp, Safety!ListStale,
           Safety!Unlink, Safety!Update, Safety!Remove, Safety!Replace, Safety!At
    <3>2. task'[q].at \in {"idle", "act"}
      <4>1. \/ task' = [task EXCEPT ![q] = Safety!Idle]
            \/ task' = [task EXCEPT ![q].at = "act", ![q].outcome = "failed"]
        BY <3>1 DEF Safety!Fail, Safety!Ends
      <4> QED BY <1>1, <4>1 DEF Safety!Idle, Errand
    <3> QED BY <3>2
  <2> QED BY <2>1, <2>2
<1>4. ASSUME NEW o \in Asker, Safety!Place(o) PROVE o = q
  <2>1. PICK d : task' = [task EXCEPT ![o] = d]
    BY <1>4 DEF Safety!Place, Safety!Goes
  <2> QED BY <1>2, <2>1
<1>5. ASSUME Safety!Die PROVE FALSE
  BY <1>5 DEF Safety!Die, Safety!Idle
<1>6. \A o \in Asker : ~Safety!Create(o)
  BY <1>1 DEF Safety!Create
<1>7. PICK o \in Asker : Safety!Place(o)
  BY <1>1, <1>3, <1>5, <1>6 DEF Safety!Next, Safety!bvars
<1> QED BY <1>4, <1>7

LEMMA SecuredStays ==
  ASSUME BackupSizes, QuotasOutnumber, ~SameName, LossInv, [Safety!Next]_(Safety!bvars), NEW q \in Asker
  PROVE  Secured(task'[q], store', backups', task')
<1> SUFFICES ASSUME store' # Safety!Absent, store' = task'[q].read, Named(task'[q])
             PROVE  /\ Few(task'[q], backups', task')
                    /\ task'[q].at # "place" /\ task'[q].kind # "manual" => \E f \in backups' : Filing(task'[q], f)
  BY DEF Secured
<1>0. BackupInv /\ BackupInv' /\ RowsArePast /\ OutcomesAreTrue /\ Secured(task[q], store, backups, task)
  BY BackupStepHolds DEF LossInv
<1>1. store' = store
  BY <1>0, StoreStays
<1>2. CASE task'[q].at = "place" /\ task'[q].stamp = clock /\ task'[q].read = task[q].read /\ task[q].at = "stamp"
  <2>1. PICK t : t = task'[q]
    OBVIOUS
  <2>2. Few(t, backups, task)
    BY <1>0, <1>1, <1>2, <2>1, FewAtFirst
  <2>3. Few(t, backups', task')
    BY <1>0, <1>1, <2>1, <2>2, FewStays
  <2> QED BY <1>2, <2>1, <2>3
<1>3. CASE /\ Retained(task[q], task'[q]) /\ Named(task[q])
           /\ task[q].at = "place" => task'[q].at \in {"place", "list"}
  <2>1. PICK t : t = task'[q]
    OBVIOUS
  <2>2. /\ \A them, tasks : Few(task[q], them, tasks) => Few(t, them, tasks)
        /\ \A f : Filing(task[q], f) => Filing(t, f)
    BY <1>3, <2>1 DEF Retained, Carried, Few, Rivals, Rivaling, Filing, SameFile, Safety!Newer, Safety!Older
  <2>3. t.read = store /\ task[q].read = store /\ t.stamp = task[q].stamp /\ t.kind = task[q].kind
    BY <1>1, <1>3, <2>1 DEF Retained, Carried
  <2>4. Few(t, backups, task)
    BY <1>0, <1>1, <1>3, <2>2, <2>3 DEF Secured
  <2>5. Few(t, backups', task')
    BY <1>0, <1>1, <2>3, <2>4, FewStays
  <2>6. ASSUME t.at # "place", t.kind # "manual" PROVE \E f \in backups' : Filing(t, f)
    <3>1. t.stamp \in Nat /\ t.kind \in Safety!Kind \ {"manual"}
      BY <1>0, <2>3, <2>6, ErrandFacts
    <3>2. CASE task[q].at # "place"
      <4>1. \E f \in backups : Filing(t, f)
        BY <1>0, <1>1, <1>3, <2>2, <2>3, <2>6, <3>2 DEF Secured
      <4> QED BY <1>0, <2>4, <3>1, <4>1, FiledStays
    <3>3. CASE task[q].at = "place"
      <4>1. task'[q].at = "list"
        BY <1>3, <2>1, <2>6, <3>3
      <4>2. Safety!Place(q)
        BY <1>0, <3>3, <4>1, OnlyPlaceLists
      <4>3. PICK f \in File : /\ f.kind = task[q].kind /\ f.stamp = task[q].stamp /\ f.holds = task[q].read
                              /\ backups' = backups \cup {f}
        BY <1>0, <4>2, PlaceAdds
      <4>4. Filing(t, f)
        BY <1>1, <2>3, <4>3 DEF Filing, SameFile, Safety!Is
      <4> QED BY <4>3, <4>4
    <3> QED BY <3>2, <3>3
  <2> QED BY <2>1, <2>5, <2>6
<1> QED BY <1>0, <1>2, <1>3, NamedTurn

LEMMA LossInvHolds ==
  ASSUME BackupSizes, QuotasOutnumber, ~SameName
  PROVE  /\ Safety!Init => LossInv
         /\ LossInv /\ [Safety!Next]_(Safety!bvars) => LossInv'
<1>1. ASSUME Safety!Init PROVE LossInv
  <2>1. BackupInv
    BY <1>1, BackupInitHolds
  <2>2. /\ task = [o \in Asker |-> Safety!Idle] /\ born = 0
        /\ store.version = 1 /\ store.life = 0
    BY <1>1 DEF Safety!Init
  <2>3. RowsArePast
    BY <2>2 DEF RowsArePast, Past, Safety!Idle
  <2>4. OutcomesAreTrue
    BY <2>2 DEF OutcomesAreTrue, OutcomeIsTrue, Safety!Idle, Knows
  <2>5. \A o \in Asker : Secured(task[o], store, backups, task)
    BY <2>2 DEF Secured, Named, Safety!Idle
  <2> QED BY <2>1, <2>3, <2>4, <2>5 DEF LossInv
<1>2. ASSUME LossInv, [Safety!Next]_(Safety!bvars) PROVE LossInv'
  <2>1. BackupInv /\ RowsArePast /\ OutcomesAreTrue
    BY <1>2 DEF LossInv
  <2>2. BackupInv'
    BY <1>2, <2>1, BackupStepHolds
  <2>3. RowsArePast' /\ OutcomesAreTrue'
    BY <1>2, <2>1, RowsStayPast, OutcomesStayTrue
  <2>4. \A o \in Asker : Secured(task'[o], store', backups', task')
    BY <1>2, SecuredStays
  <2> QED BY <2>2, <2>3, <2>4 DEF LossInv
<1> QED BY <1>1, <1>2

(* What a request that acts takes away, it has on disk, or was told. *)
LEMMA ActsAreBackedUp ==
  ASSUME BackupInv, OutcomesAreTrue, NEW o \in Asker, Secured(task[o], store, backups, task), store # Safety!Absent,
         task[o].at = "act", task[o].outcome = "taken", task[o].read = store
  PROVE  Safety!BackedUp
<1>1. task[o].kind # "manual"
  BY DEF OutcomesAreTrue, OutcomeIsTrue
<1>2. PICK f \in backups : Filing(task[o], f)
  BY <1>1 DEF Secured, Named
<1>3. f.whole
  BY DEF BackupInv, BackupTypes, File
<1> QED BY <1>2, <1>3 DEF Filing, Safety!BackedUp

(* What a sharp save, a delete or a restore takes away is in a backup, or  *)
(* the operation was told that its backup failed, whatever overlaps and    *)
(* whenever the server dies (applyWorkspaceUpdateWithGuard, the delete and *)
(* restore routes, writeJsonBackup), as long as no pool has a quota below  *)
(* the number of requests under way at once.                               *)
THEOREM LossIsAlwaysBackedUp ==
  ASSUME BackupSizes, QuotasOutnumber, ~SameName PROVE MCSpec => LossIsBackedUp
<1>1. LossInv /\ [Safety!Next]_(Safety!bvars) =>
        [\A o \in Asker :
           LET told == task[o].outcome = "failed"
           IN store # Safety!Absent =>
              /\ (Safety!Update(o) /\ Safety!Accepts(o) /\ Safety!SharpDrop(store, task[o].want)
                    /\ task[o].expected # 0 /\ task[o].life = store.life) => Safety!BackedUp \/ told
              /\ (Safety!Remove(o) /\ task[o].read = store) => Safety!BackedUp \/ told
              /\ (Safety!Replace(o) /\ task[o].read = store) => Safety!BackedUp]_(Safety!bvars)
  <2> SUFFICES ASSUME LossInv, NEW o \in Asker, store # Safety!Absent
               PROVE  /\ (Safety!Update(o) /\ Safety!Accepts(o) /\ Safety!SharpDrop(store, task[o].want)
                            /\ task[o].expected # 0 /\ task[o].life = store.life)
                              => Safety!BackedUp \/ task[o].outcome = "failed"
                      /\ (Safety!Remove(o) /\ task[o].read = store) => Safety!BackedUp \/ task[o].outcome = "failed"
                      /\ (Safety!Replace(o) /\ task[o].read = store) => Safety!BackedUp
    BY Zenon
  <2>1. BackupInv /\ OutcomesAreTrue /\ Secured(task[o], store, backups, task)
    BY DEF LossInv
  <2>2. OutcomeIsTrue(task[o], store) /\ task[o].outcome \in {"none", "taken", "failed"}
    BY <2>1, ErrandFacts DEF OutcomesAreTrue, Errand
  <2>3. ASSUME task[o].at = "act", task[o].outcome = "taken", task[o].read = store PROVE Safety!BackedUp
    BY <2>1, <2>3, ActsAreBackedUp
  <2>4. ASSUME Safety!Update(o), Safety!Accepts(o), Safety!SharpDrop(store, task[o].want),
               task[o].expected # 0, task[o].life = store.life
        PROVE  Safety!BackedUp \/ task[o].outcome = "failed"
    <3>1. Knows(task[o], store) /\ task[o].at = "act" /\ task[o].kind = "save"
      BY <2>4 DEF Knows, Safety!Accepts, Safety!Update, Safety!At
    <3> QED BY <2>2, <2>3, <2>4, <3>1 DEF OutcomeIsTrue
  <2>5. ASSUME Safety!Remove(o), task[o].read = store PROVE Safety!BackedUp \/ task[o].outcome = "failed"
    BY <2>2, <2>3, <2>5 DEF OutcomeIsTrue, Safety!Remove, Safety!At
  <2>6. ASSUME Safety!Replace(o), task[o].read = store PROVE Safety!BackedUp
    BY <2>2, <2>3, <2>6 DEF OutcomeIsTrue, Safety!Replace, Safety!At
  <2> QED BY <2>4, <2>5, <2>6
<1> QED BY <1>1, LossInvHolds, SafetySteps, PTL DEF Safety!Spec, LossIsBackedUp, Safety!LossIsBackedUp
-----------------------------------------------------------------------------
(* The Optimize step, for any workspaces, edits and number of runs. *)

Undos == [ws : Workspace, patch : Optimize!Lineup, applied : Optimize!Lineup]
Jobs ==
  [at : {"unused", "running", "settled"}, posted : {"nothing", "result", "no start", "failure"}, ws : Workspace,
   input : Optimize!Lineup, moved : BOOLEAN, seen : BOOLEAN, other : BOOLEAN]
Flows == [phase : {"none", "pending", "settled"}, undo : Undos]
Summaries == [shown : BOOLEAN, undo : Undos]

OptimizeSizes == Workspace # {} /\ MaxApplied \in Nat

StepTypes ==
  /\ cached \in [Workspace -> Optimize!Lineup] /\ stored \in [Workspace -> Optimize!Lineup]
  /\ painted \in [Workspace -> Optimize!Lineup]
  /\ unsaved \subseteq Workspace /\ view \in Workspace
  /\ jobs \in [Optimize!Run -> Jobs]
  /\ summary \in Summaries /\ flow \in Flows /\ blocked \in BOOLEAN /\ claim \in Undos

(* A lineup is where it was made for, and no run that has not ended is in *)
(* it yet; `of` are the jobs.                                              *)
Sound(lineup, w, of) == lineup.home = w /\ \A i \in Optimize!Run : of[i].at # "settled" => lineup.run # i
LineupsAreSound ==
  /\ \A w \in Workspace : Sound(cached[w], w, jobs) /\ Sound(stored[w], w, jobs) /\ Sound(painted[w], w, jobs)
  /\ \A i \in Optimize!Run : Sound(jobs[i].input, jobs[i].ws, jobs)

(* An Undo is one of the view, and takes back the run of one job. *)
Genuine(u, v, of) ==
  u = Optimize!NoUndo \/
    /\ u.ws = v /\ Sound(u.patch, v, of)
    /\ \E i \in Optimize!Run : of[i].at = "settled" /\ u.patch.run # i /\ u.applied = [u.patch EXCEPT !.run = i]
UndosAreGenuine == Genuine(summary.undo, view, jobs) /\ Genuine(flow.undo, view, jobs) /\ Genuine(claim, view, jobs)

(* A run whose inputs have not moved would replace what it was started     *)
(* from, and one that has seen no move replaces what is on screen.         *)
InputsAreCurrent ==
  \A i \in Optimize!Run : jobs[i].at = "running" =>
    /\ jobs[i].moved \/ cached[jobs[i].ws] = jobs[i].input
    /\ jobs[i].seen \/ painted[jobs[i].ws] = jobs[i].input

(* An Undo that was announced is in reach again, or is watched while the   *)
(* lineup is as it was before the run; or another lineup came back with a  *)
(* failed save, and stays until the coach or a run changes it.             *)
ClaimIsWatched ==
  claim # Optimize!NoUndo =>
    \/ flow.phase = "pending" /\ flow.undo = claim /\ summary.shown /\ summary.undo = claim
    \/ /\ flow.phase = "settled" /\ flow.undo = claim /\ summary = Optimize!NoSummary
       /\ painted[view] = claim.patch
       /\ cached[view] = claim.patch \/ view \notin unsaved
    \/ /\ flow.phase = "none" /\ summary = Optimize!NoSummary
       /\ cached[view] = painted[view] /\ painted[view] # claim.applied /\ view \notin unsaved

OptimizeInv == StepTypes /\ LineupsAreSound /\ UndosAreGenuine /\ InputsAreCurrent /\ ClaimIsWatched

LEMMA FirstIsOne == OptimizeSizes => Optimize!First \in Workspace
  BY DEF OptimizeSizes, Optimize!First

LEMMA FreshFacts ==
  ASSUME OptimizeSizes, NEW w \in Workspace
  PROVE  Optimize!Fresh(w) \in Optimize!Lineup /\ Optimize!Fresh(w).home = w /\ Optimize!Fresh(w).run = 0
  BY DEF OptimizeSizes, Optimize!Fresh, Optimize!Lineup

LEMMA NothingYet ==
  ASSUME OptimizeSizes
  PROVE  /\ Optimize!NoUndo \in Undos
         /\ Optimize!NoSummary \in Summaries /\ Optimize!NoSummary.undo = Optimize!NoUndo
         /\ Optimize!NoFlow \in Flows /\ Optimize!NoFlow.phase = "none" /\ Optimize!NoFlow.undo = Optimize!NoUndo
         /\ Optimize!Unused \in Jobs /\ Optimize!Unused.at = "unused"
         /\ Optimize!Unused.ws = Optimize!First /\ Optimize!Unused.input = Optimize!Fresh(Optimize!First)
         /\ Optimize!Done \in Jobs /\ Optimize!Done.at = "settled"
         /\ Optimize!Done.ws = Optimize!First /\ Optimize!Done.input = Optimize!Fresh(Optimize!First)
<1>1. Optimize!First \in Workspace /\ Optimize!Fresh(Optimize!First) \in Optimize!Lineup
  BY FirstIsOne, FreshFacts
<1>2. Optimize!NoUndo \in Undos
  BY <1>1 DEF Optimize!NoUndo, Undos
<1>3. Optimize!NoSummary \in Summaries /\ Optimize!NoSummary.undo = Optimize!NoUndo
  BY <1>2 DEF Optimize!NoSummary, Summaries
<1>4. Optimize!NoFlow \in Flows /\ Optimize!NoFlow.phase = "none" /\ Optimize!NoFlow.undo = Optimize!NoUndo
  BY <1>2 DEF Optimize!NoFlow, Flows
<1>5. /\ Optimize!Unused \in Jobs /\ Optimize!Unused.at = "unused"
      /\ Optimize!Unused.ws = Optimize!First /\ Optimize!Unused.input = Optimize!Fresh(Optimize!First)
  BY <1>1 DEF Optimize!Unused, Jobs
<1>6. /\ Optimize!Done \in Jobs /\ Optimize!Done.at = "settled"
      /\ Optimize!Done.ws = Optimize!First /\ Optimize!Done.input = Optimize!Fresh(Optimize!First)
  BY <1>5 DEF Optimize!Done, Jobs
<1> QED BY <1>2, <1>3, <1>4, <1>5, <1>6

LEMMA RunsCount == ASSUME OptimizeSizes, NEW i \in Optimize!Run PROVE i \in Nat \ {0} /\ i \in 0 .. MaxApplied
  BY DEF OptimizeSizes, Optimize!Run

LEMMA StepInitHolds == ASSUME OptimizeSizes PROVE Optimize!Init => OptimizeInv
<1> SUFFICES ASSUME Optimize!Init PROVE OptimizeInv
  OBVIOUS
<1>1. /\ cached = [w \in Workspace |-> Optimize!Fresh(w)] /\ stored = cached /\ painted = cached
      /\ unsaved = {} /\ view = Optimize!First /\ jobs = [i \in Optimize!Run |-> Optimize!Unused]
      /\ summary = Optimize!NoSummary /\ flow = Optimize!NoFlow /\ blocked = FALSE /\ claim = Optimize!NoUndo
  BY DEF Optimize!Init
<1>2. \A w \in Workspace : cached[w] \in Optimize!Lineup /\ cached[w].home = w /\ cached[w].run = 0
  BY <1>1, FreshFacts
<1>3. StepTypes
  BY <1>1, <1>2, FirstIsOne, NothingYet DEF StepTypes
<1>4. \A i \in Optimize!Run : /\ jobs[i].at = "unused" /\ jobs[i].ws = Optimize!First
                              /\ jobs[i].input.home = Optimize!First /\ jobs[i].input.run = 0
  BY <1>1, NothingYet, FirstIsOne, FreshFacts
<1>5. \A w \in Workspace : Sound(cached[w], w, jobs)
  BY <1>2, RunsCount DEF Sound
<1>6. LineupsAreSound
  BY <1>1, <1>4, <1>5, RunsCount DEF LineupsAreSound, Sound
<1>7. UndosAreGenuine
  BY <1>1, NothingYet DEF UndosAreGenuine, Genuine
<1>8. InputsAreCurrent /\ ClaimIsWatched
  BY <1>1, <1>4 DEF InputsAreCurrent, ClaimIsWatched
<1> QED BY <1>3, <1>6, <1>7, <1>8 DEF OptimizeInv

(* Jobs that go on as they were, but for what they know of their inputs *)
SameJob(a, b) == a.at = b.at /\ a.posted = b.posted /\ a.ws = b.ws /\ a.input = b.input

LEMMA MarksJob == ASSUME NEW c \in Jobs PROVE [c EXCEPT !.moved = TRUE] \in Jobs
  BY DEF Jobs

LEMMA MovedJobs ==
  ASSUME NEW of \in [Optimize!Run -> Jobs], NEW w \in Workspace, NEW lineup,
         NEW m, m = Optimize!Moved(w, lineup, of)
  PROVE  /\ m \in [Optimize!Run -> Jobs]
         /\ \A i \in Optimize!Run :
              /\ SameJob(m[i], of[i]) /\ m[i].seen = of[i].seen
              /\ of[i].at = "running" /\ of[i].ws = w /\ lineup # cached[w] => m[i].moved = TRUE
              /\ m[i].moved = of[i].moved \/ m[i].moved = TRUE
<1>1. \A i \in Optimize!Run : of[i] \in Jobs
  OBVIOUS
<1>2. \A i \in Optimize!Run :
        m[i] = IF of[i].at = "running" /\ of[i].ws = w /\ lineup # cached[w]
               THEN [of[i] EXCEPT !.moved = TRUE] ELSE of[i]
  BY DEF Optimize!Moved
<1>3. \A i \in Optimize!Run : m[i] \in Jobs
  BY <1>1, <1>2, MarksJob
<1>4. m \in [Optimize!Run -> Jobs]
  BY <1>3 DEF Optimize!Moved
<1>5. ASSUME NEW i \in Optimize!Run
      PROVE  /\ SameJob(m[i], of[i]) /\ m[i].seen = of[i].seen
             /\ of[i].at = "running" /\ of[i].ws = w /\ lineup # cached[w] => m[i].moved = TRUE
             /\ m[i].moved = of[i].moved \/ m[i].moved = TRUE
  <2>1. CASE of[i].at = "running" /\ of[i].ws = w /\ lineup # cached[w]
    <3>1. m[i] = [of[i] EXCEPT !.moved = TRUE]
      BY <1>2, <2>1
    <3>2. SameJob(m[i], of[i]) /\ m[i].seen = of[i].seen /\ m[i].moved = TRUE
      BY <1>1, <3>1 DEF Jobs, SameJob
    <3> QED BY <3>2
  <2>2. CASE ~(of[i].at = "running" /\ of[i].ws = w /\ lineup # cached[w])
    BY <1>2, <2>2 DEF SameJob
  <2> QED BY <2>1, <2>2
<1> QED BY <1>4, <1>5

(* finish(), of every run: none is running, and what is left of one that   *)
(* was is settled.                                                         *)
LEMMA AbortedJobs ==
  ASSUME OptimizeSizes, StepTypes, NEW m, m = Optimize!Aborted
  PROVE  /\ m \in [Optimize!Run -> Jobs]
         /\ \A i \in Optimize!Run :
              /\ m[i].at # "running"
              /\ m[i].at = "settled" <=> jobs[i].at # "unused"
              /\ \/ m[i].ws = jobs[i].ws /\ m[i].input = jobs[i].input
                 \/ m[i].ws = Optimize!First /\ m[i].input = Optimize!Fresh(Optimize!First)
<1>1. \A i \in Optimize!Run : jobs[i] \in Jobs
  BY DEF StepTypes
<1>2. ASSUME NEW c \in Jobs, NEW d, d = Optimize!Settled(c)
      PROVE  /\ d \in Jobs /\ d.at = "settled"
             /\ \/ d.ws = c.ws /\ d.input = c.input
                \/ d.ws = Optimize!First /\ d.input = Optimize!Fresh(Optimize!First)
  <2>1. CASE c.posted = "nothing"
    BY <1>2, <2>1, NothingYet DEF Optimize!Settled
  <2>2. CASE c.posted # "nothing"
    <3>1. d = [c EXCEPT !.at = "settled", !.moved = FALSE, !.seen = FALSE, !.other = FALSE]
      BY <1>2, <2>2 DEF Optimize!Settled
    <3>2. d \in Jobs /\ d.at = "settled" /\ d.ws = c.ws /\ d.input = c.input
      BY <3>1 DEF Jobs
    <3> QED BY <3>2
  <2> QED BY <2>1, <2>2
<1>3. \A i \in Optimize!Run : m[i] = IF jobs[i].at = "running" THEN Optimize!Settled(jobs[i]) ELSE jobs[i]
  BY DEF Optimize!Aborted
<1>4. ASSUME NEW i \in Optimize!Run
      PROVE  /\ m[i] \in Jobs /\ m[i].at # "running"
             /\ m[i].at = "settled" <=> jobs[i].at # "unused"
             /\ \/ m[i].ws = jobs[i].ws /\ m[i].input = jobs[i].input
                \/ m[i].ws = Optimize!First /\ m[i].input = Optimize!Fresh(Optimize!First)
  <2>1. CASE jobs[i].at = "running"
    <3>1. m[i] = Optimize!Settled(jobs[i])
      BY <1>3, <2>1
    <3> QED BY <1>1, <1>2, <2>1, <3>1
  <2>2. CASE jobs[i].at # "running"
    <3>1. m[i] = jobs[i]
      BY <1>3, <2>2
    <3>2. jobs[i].at \in {"unused", "running", "settled"}
      BY <1>1 DEF Jobs
    <3> QED BY <1>1, <2>2, <3>1, <3>2
  <2> QED BY <2>1, <2>2
<1>5. m \in [Optimize!Run -> Jobs]
  BY <1>4 DEF Optimize!Aborted
<1> QED BY <1>4, <1>5

(* What the observer of an Undo makes of what it watched, the summary, and *)
(* the lineup.                                                             *)
Seen(f, s, lineup, ws, o) ==
  \/ f.phase = "none" /\ o.flow = f /\ o.summary = s /\ o.claim = claim
  \/ f.phase # "none" /\ f.undo.ws # ws /\ o.flow = Optimize!NoFlow /\ o.summary = s /\ o.claim = claim
  \/ /\ f.phase = "pending" /\ f.undo.ws = ws /\ lineup = f.undo.patch
     /\ o.flow = [f EXCEPT !.phase = "settled"] /\ o.summary = Optimize!NoSummary /\ o.claim = f.undo
  \/ /\ f.phase = "pending" /\ f.undo.ws = ws /\ lineup # f.undo.patch
     /\ o.flow = f /\ o.summary = s /\ o.claim = claim
  \/ /\ f.phase = "settled" /\ f.undo.ws = ws /\ lineup = f.undo.applied
     /\ o.flow = [f EXCEPT !.phase = "pending"] /\ o.summary = [shown |-> TRUE, undo |-> f.undo] /\ o.claim = claim
  \/ /\ f.phase = "settled" /\ f.undo.ws = ws /\ lineup # f.undo.applied /\ lineup = f.undo.patch
     /\ o.flow = f /\ o.summary = s /\ o.claim = claim
  \/ /\ f.phase = "settled" /\ f.undo.ws = ws /\ lineup # f.undo.applied /\ lineup # f.undo.patch
     /\ o.flow = Optimize!NoFlow /\ o.summary = s /\ o.claim = claim

LEMMA Observing ==
  ASSUME NEW f \in Flows, NEW s, NEW lineup, NEW ws, NEW o, o = Optimize!Observed(f, s, lineup, ws)
  PROVE  Seen(f, s, lineup, ws, o)
<1> USE DEF Seen
<1>1. f.phase \in {"none", "pending", "settled"}
  BY DEF Flows
<1>2. CASE f.phase = "none"
  <2>1. o = [flow |-> f, summary |-> s, claim |-> claim]
    BY <1>2 DEF Optimize!Observed
  <2> QED BY <1>2, <2>1
<1>3. CASE f.phase # "none" /\ f.undo.ws # ws
  <2>1. o = [flow |-> Optimize!NoFlow, summary |-> s, claim |-> claim]
    BY <1>3 DEF Optimize!Observed
  <2> QED BY <1>3, <2>1
<1>4. CASE f.phase = "pending" /\ f.undo.ws = ws
  <2>1. o = IF lineup = f.undo.patch
            THEN [flow |-> [f EXCEPT !.phase = "settled"], summary |-> Optimize!NoSummary, claim |-> f.undo]
            ELSE [flow |-> f, summary |-> s, claim |-> claim]
    BY <1>4 DEF Optimize!Observed, Optimize!Reached
  <2> QED BY <1>4, <2>1
<1>5. CASE f.phase = "settled" /\ f.undo.ws = ws
  <2>1. o = IF lineup = f.undo.applied
            THEN [flow |-> [f EXCEPT !.phase = "pending"], summary |-> [shown |-> TRUE, undo |-> f.undo], claim |-> claim]
            ELSE [flow |-> IF lineup = f.undo.patch THEN f ELSE Optimize!NoFlow, summary |-> s, claim |-> claim]
    BY <1>5 DEF Optimize!Observed, Optimize!Reached, Optimize!Clean
  <2>2. CASE lineup = f.undo.applied
    BY <1>5, <2>1, <2>2
  <2>3. CASE lineup # f.undo.applied
    BY <1>5, <2>1, <2>3
  <2> QED BY <2>2, <2>3
<1> QED BY <1>1, <1>2, <1>3, <1>4, <1>5

(* Runs only ever end: what was sound and genuine stays so. *)
Follows(to, of) == \A i \in Optimize!Run : to[i].at # "settled" => of[i].at # "settled"

LEMMA SoundStays ==
  ASSUME NEW of, NEW to, Follows(to, of)
  PROVE  /\ \A lineup, w : Sound(lineup, w, of) => Sound(lineup, w, to)
         /\ \A u, v : Genuine(u, v, of) => Genuine(u, v, to)
<1>1. \A lineup, w : Sound(lineup, w, of) => Sound(lineup, w, to)
  BY DEF Sound, Follows
<1>2. ASSUME NEW u, NEW v, Genuine(u, v, of) PROVE Genuine(u, v, to)
  <2>1. CASE u = Optimize!NoUndo
    BY <2>1 DEF Genuine
  <2>2. CASE u # Optimize!NoUndo
    <3>1. u.ws = v /\ Sound(u.patch, v, to)
      BY <1>1, <1>2, <2>2 DEF Genuine
    <3>2. PICK i \in Optimize!Run : of[i].at = "settled" /\ u.patch.run # i /\ u.applied = [u.patch EXCEPT !.run = i]
      BY <1>2, <2>2 DEF Genuine
    <3>3. to[i].at = "settled"
      BY <3>2 DEF Follows
    <3> QED BY <3>1, <3>2, <3>3 DEF Genuine
  <2> QED BY <2>1, <2>2
<1> QED BY <1>1, <1>2

LEMMA Rendering ==
  ASSUME NEW f \in Flows, NEW s \in Summaries, NEW of \in [Optimize!Run -> Jobs], NEW lineups,
         Optimize!Renders(f, s, of, lineups), blocked \in BOOLEAN
  PROVE  /\ painted' = lineups /\ blocked' \in BOOLEAN
         /\ jobs' \in [Optimize!Run -> Jobs]
         /\ \A i \in Optimize!Run : SameJob(jobs'[i], of[i]) /\ jobs'[i].moved = of[i].moved /\ jobs'[i].seen = of[i].moved
         /\ \E o : /\ o = Optimize!Observed(f, s, lineups[view], view)
                   /\ flow' = o.flow /\ summary' = o.summary /\ claim' = o.claim
<1>1. painted' = lineups
  BY DEF Optimize!Renders
<1>2. blocked' \in BOOLEAN
  <2>1. PICK o : blocked' = (blocked /\ o)
    BY DEF Optimize!Renders
  <2> QED BY <2>1
<1>3. \A i \in Optimize!Run : of[i] \in Jobs
  OBVIOUS
<1>4. jobs' = [i \in Optimize!Run |-> [of[i] EXCEPT !.seen = of[i].moved]]
  BY DEF Optimize!Renders
<1>5. ASSUME NEW c \in Jobs, NEW d, d = [c EXCEPT !.seen = c.moved]
      PROVE  d \in Jobs /\ SameJob(d, c) /\ d.moved = c.moved /\ d.seen = c.moved
  BY <1>5 DEF Jobs, SameJob
<1>6. \A i \in Optimize!Run : /\ jobs'[i] \in Jobs /\ SameJob(jobs'[i], of[i])
                              /\ jobs'[i].moved = of[i].moved /\ jobs'[i].seen = of[i].moved
  <2> SUFFICES ASSUME NEW i \in Optimize!Run
               PROVE  /\ jobs'[i] \in Jobs /\ SameJob(jobs'[i], of[i])
                      /\ jobs'[i].moved = of[i].moved /\ jobs'[i].seen = of[i].moved
    OBVIOUS
  <2>1. jobs'[i] = [of[i] EXCEPT !.seen = of[i].moved]
    BY <1>4
  <2> QED BY <1>3, <1>5, <2>1
<1>7. jobs' \in [Optimize!Run -> Jobs]
  BY <1>4, <1>6
<1>8. \E o : /\ o = Optimize!Observed(f, s, lineups[view], view)
             /\ flow' = o.flow /\ summary' = o.summary /\ claim' = o.claim
  BY DEF Optimize!Renders
<1> QED BY <1>1, <1>2, <1>6, <1>7, <1>8

(* The summary and the watch that a render leaves are typed and genuine. *)
LEMMA RenderedUndos ==
  ASSUME OptimizeSizes, StepTypes, NEW f \in Flows, NEW s \in Summaries, NEW lineup, NEW v, NEW to, NEW o,
         o = Optimize!Observed(f, s, lineup, v),
         Genuine(s.undo, v, to), Genuine(f.undo, v, to), Genuine(claim, v, to)
  PROVE  /\ o.flow \in Flows /\ o.summary \in Summaries /\ o.claim \in Undos
         /\ Genuine(o.flow.undo, v, to) /\ Genuine(o.summary.undo, v, to) /\ Genuine(o.claim, v, to)
<1>0. Seen(f, s, lineup, v, o)
  BY Observing
<1>1. f.undo \in Undos /\ claim \in Undos
  BY DEF Flows, StepTypes
<1>2. Genuine(Optimize!NoUndo, v, to)
  BY DEF Genuine
<1>3. ASSUME NEW phase \in {"none", "pending", "settled"}
      PROVE  [f EXCEPT !.phase = phase] \in Flows /\ [f EXCEPT !.phase = phase].undo = f.undo
  BY DEF Flows
<1>4. [shown |-> TRUE, undo |-> f.undo] \in Summaries
  BY <1>1 DEF Summaries
<1>5. \/ o.flow = f \/ o.flow = Optimize!NoFlow
      \/ o.flow = [f EXCEPT !.phase = "settled"] \/ o.flow = [f EXCEPT !.phase = "pending"]
  BY <1>0 DEF Seen
<1>6. o.summary = s \/ o.summary = Optimize!NoSummary \/ o.summary = [shown |-> TRUE, undo |-> f.undo]
  BY <1>0 DEF Seen
<1>7. o.claim = claim \/ o.claim = f.undo
  BY <1>0 DEF Seen
<1>8. o.flow \in Flows /\ Genuine(o.flow.undo, v, to)
  BY <1>2, <1>3, <1>5, NothingYet
<1>9. o.summary \in Summaries /\ Genuine(o.summary.undo, v, to)
  BY <1>2, <1>4, <1>6, NothingYet
<1>10. o.claim \in Undos /\ Genuine(o.claim, v, to)
  BY <1>1, <1>7
<1> QED BY <1>8, <1>9, <1>10

LEMMA RenderHolds ==
  ASSUME OptimizeSizes, OptimizeInv, NEW f \in Flows, NEW s \in Summaries, NEW of \in [Optimize!Run -> Jobs],
         Optimize!Renders(f, s, of, cached'),
         cached' \in [Workspace -> Optimize!Lineup], unsaved' \subseteq Workspace, UNCHANGED <<stored, view>>,
         Genuine(f.undo, view, jobs), Genuine(s.undo, view, jobs),
         \A w \in Workspace : Sound(cached'[w], w, jobs),
         \A i \in Optimize!Run : SameJob(of[i], jobs[i]),
         \A i \in Optimize!Run : of[i].at = "running" => of[i].moved \/ cached'[of[i].ws] = of[i].input
  PROVE  /\ StepTypes' /\ LineupsAreSound' /\ UndosAreGenuine' /\ InputsAreCurrent' /\ painted' = cached'
         /\ \E o : /\ Seen(f, s, cached'[view], view, o)
                   /\ flow' = o.flow /\ summary' = o.summary /\ claim' = o.claim
<1>1. /\ painted' = cached' /\ blocked' \in BOOLEAN
      /\ jobs' \in [Optimize!Run -> Jobs]
      /\ \A i \in Optimize!Run : SameJob(jobs'[i], of[i]) /\ jobs'[i].moved = of[i].moved /\ jobs'[i].seen = of[i].moved
      /\ \E o : /\ o = Optimize!Observed(f, s, cached'[view], view)
                /\ flow' = o.flow /\ summary' = o.summary /\ claim' = o.claim
  <2>1. blocked \in BOOLEAN
    BY DEF OptimizeInv, StepTypes
  <2> QED BY <2>1, Rendering
<1>2. PICK o : /\ o = Optimize!Observed(f, s, cached'[view], view)
               /\ flow' = o.flow /\ summary' = o.summary /\ claim' = o.claim
  BY <1>1
<1>3. Follows(jobs', jobs)
  BY <1>1 DEF Follows, SameJob
<1>4. /\ \A lineup, w : Sound(lineup, w, jobs) => Sound(lineup, w, jobs')
      /\ \A u, v : Genuine(u, v, jobs) => Genuine(u, v, jobs')
  BY <1>3, SoundStays
<1>5. Genuine(claim, view, jobs)
  BY DEF OptimizeInv, UndosAreGenuine
<1>6. /\ o.flow \in Flows /\ o.summary \in Summaries /\ o.claim \in Undos
      /\ Genuine(o.flow.undo, view, jobs) /\ Genuine(o.summary.undo, view, jobs) /\ Genuine(o.claim, view, jobs)
  BY <1>2, <1>5, RenderedUndos DEF OptimizeInv
<1>7. StepTypes'
  BY <1>1, <1>2, <1>6 DEF OptimizeInv, StepTypes
<1>8. UndosAreGenuine'
  BY <1>2, <1>4, <1>6 DEF UndosAreGenuine
<1>9. LineupsAreSound'
  <2>1. ASSUME NEW w \in Workspace
        PROVE  Sound(cached'[w], w, jobs') /\ Sound(stored'[w], w, jobs') /\ Sound(painted'[w], w, jobs')
    BY <1>1, <1>4 DEF OptimizeInv, LineupsAreSound
  <2>2. ASSUME NEW i \in Optimize!Run PROVE Sound(jobs'[i].input, jobs'[i].ws, jobs')
    <3>1. jobs'[i].input = jobs[i].input /\ jobs'[i].ws = jobs[i].ws
      BY <1>1 DEF SameJob
    <3> QED BY <1>4, <3>1 DEF OptimizeInv, LineupsAreSound
  <2> QED BY <2>1, <2>2 DEF LineupsAreSound
<1>10. InputsAreCurrent'
  <2> SUFFICES ASSUME NEW i \in Optimize!Run, jobs'[i].at = "running"
               PROVE  /\ jobs'[i].moved \/ cached'[jobs'[i].ws] = jobs'[i].input
                      /\ jobs'[i].seen \/ painted'[jobs'[i].ws] = jobs'[i].input
    BY DEF InputsAreCurrent
  <2>1. of[i].at = "running" /\ jobs'[i].ws = of[i].ws /\ jobs'[i].input = of[i].input
    BY <1>1 DEF SameJob
  <2>2. of[i].moved \/ cached'[of[i].ws] = of[i].input
    BY <2>1
  <2> QED BY <1>1, <2>1, <2>2
<1>11. Seen(f, s, cached'[view], view, o)
  BY <1>2, Observing
<1> QED BY <1>1, <1>2, <1>7, <1>8, <1>9, <1>10, <1>11

(* What was genuine is no NoUndo with other lineups in it. *)
LEMMA PatchIsNotTheRun ==
  ASSUME StepTypes, NEW u \in Undos, NEW v, NEW of, Genuine(u, v, of), u # Optimize!NoUndo
  PROVE  u.ws = v /\ u.patch # u.applied /\ u.applied.run # u.patch.run
         /\ u.patch.marks = u.applied.marks /\ u.patch.home = v /\ u.applied.home = v
<1>1. PICK i \in Optimize!Run : u.patch.run # i /\ u.applied = [u.patch EXCEPT !.run = i]
  BY DEF Genuine
<1>2. u.patch \in Optimize!Lineup
  BY DEF Undos
<1>3. u.applied.run = i /\ u.applied.marks = u.patch.marks /\ u.applied.home = u.patch.home
  BY <1>1, <1>2 DEF Optimize!Lineup
<1>4. u.ws = v /\ u.patch.home = v
  BY DEF Genuine, Sound
<1> QED BY <1>1, <1>3, <1>4

(* A render of what is cached by now *)
LEMMA PaintWatches ==
  ASSUME OptimizeSizes, OptimizeInv, NEW o, Seen(flow, summary, cached[view], view, o),
         flow' = o.flow, summary' = o.summary, claim' = o.claim,
         painted' = cached, UNCHANGED <<cached, unsaved, view>>
  PROVE  ClaimIsWatched'
<1> SUFFICES ASSUME claim' # Optimize!NoUndo PROVE ClaimIsWatched'
  BY DEF ClaimIsWatched
<1>0. flow \in Flows /\ flow.undo \in Undos /\ claim \in Undos
  BY DEF OptimizeInv, StepTypes, Flows
<1>1. CASE flow.phase = "pending" /\ flow.undo.ws = view /\ cached[view] = flow.undo.patch
  <2>1. flow' = [flow EXCEPT !.phase = "settled"] /\ summary' = Optimize!NoSummary /\ claim' = flow.undo
    BY <1>1 DEF Seen
  <2>2. flow'.phase = "settled" /\ flow'.undo = flow.undo
    BY <1>0, <2>1 DEF Flows
  <2> QED BY <1>1, <2>1, <2>2 DEF ClaimIsWatched
<1>2. CASE ~(flow.phase = "pending" /\ flow.undo.ws = view /\ cached[view] = flow.undo.patch)
  <2>1. claim' = claim /\ claim # Optimize!NoUndo
    BY <1>2 DEF Seen
  <2>2. Genuine(claim, view, jobs)
    BY DEF OptimizeInv, UndosAreGenuine
  <2>3. claim.ws = view /\ claim.patch # claim.applied
    BY <1>0, <2>1, <2>2, PatchIsNotTheRun DEF OptimizeInv
  <2>4. CASE flow.phase = "pending" /\ flow.undo = claim /\ summary.shown /\ summary.undo = claim
    <3>1. flow' = flow /\ summary' = summary
      BY <1>2, <2>3, <2>4 DEF Seen
    <3> QED BY <2>1, <2>4, <3>1 DEF ClaimIsWatched
  <2>5. CASE /\ flow.phase = "settled" /\ flow.undo = claim /\ summary = Optimize!NoSummary
             /\ painted[view] = claim.patch
             /\ cached[view] = claim.patch \/ view \notin unsaved
    <3>1. CASE cached[view] = claim.applied
      <4>1. flow' = [flow EXCEPT !.phase = "pending"] /\ summary' = [shown |-> TRUE, undo |-> claim]
        BY <2>3, <2>5, <3>1 DEF Seen
      <4>2. flow'.phase = "pending" /\ flow'.undo = claim
        BY <1>0, <2>5, <4>1 DEF Flows
      <4> QED BY <2>1, <4>1, <4>2 DEF ClaimIsWatched
    <3>2. CASE cached[view] # claim.applied /\ cached[view] = claim.patch
      <4>1. flow' = flow /\ summary' = summary
        BY <2>3, <2>5, <3>2 DEF Seen
      <4> QED BY <2>1, <2>5, <3>2, <4>1 DEF ClaimIsWatched
    <3>3. CASE cached[view] # claim.applied /\ cached[view] # claim.patch
      <4>1. flow' = Optimize!NoFlow /\ summary' = summary
        BY <2>3, <2>5, <3>3 DEF Seen
      <4> QED BY <2>1, <2>5, <3>3, <4>1, NothingYet DEF ClaimIsWatched
    <3> QED BY <3>1, <3>2, <3>3
  <2>6. CASE /\ flow.phase = "none" /\ summary = Optimize!NoSummary
             /\ cached[view] = painted[view] /\ painted[view] # claim.applied /\ view \notin unsaved
    <3>1. flow' = flow /\ summary' = summary
      BY <2>6 DEF Seen
    <3> QED BY <2>1, <2>6, <3>1 DEF ClaimIsWatched
  <2> QED BY <2>1, <2>4, <2>5, <2>6 DEF OptimizeInv, ClaimIsWatched
<1> QED BY <1>1, <1>2

LEMMA PaintHolds ==
  ASSUME OptimizeSizes, OptimizeInv, Optimize!Paint \/ \E i \in Optimize!Run : Optimize!PickMode(i)
  PROVE  OptimizeInv'
<1>1. UNCHANGED <<cached, stored, unsaved, view>>
  BY DEF Optimize!Paint, Optimize!PickMode
<1>2. jobs \in [Optimize!Run -> Jobs] /\ flow \in Flows /\ summary \in Summaries
  BY DEF OptimizeInv, StepTypes
<1>3. PICK of \in [Optimize!Run -> Jobs] :
        /\ Optimize!Renders(flow, summary, of, cached)
        /\ \A i \in Optimize!Run : SameJob(of[i], jobs[i]) /\ of[i].moved = jobs[i].moved
  <2>1. CASE Optimize!Paint
    BY <1>2, <2>1 DEF Optimize!Paint, SameJob
  <2>2. ASSUME NEW i \in Optimize!Run, Optimize!PickMode(i)
        PROVE  \E of \in [Optimize!Run -> Jobs] :
                 /\ Optimize!Renders(flow, summary, of, cached)
                 /\ \A j \in Optimize!Run : SameJob(of[j], jobs[j]) /\ of[j].moved = jobs[j].moved
    <3> DEFINE of == [jobs EXCEPT ![i].other = ~@]
               other == ~jobs[i].other
               d == [jobs[i] EXCEPT !.other = other]
    <3>1. jobs[i] \in Jobs
      BY <1>2
    <3>2. other \in BOOLEAN
      OBVIOUS
    <3>3. of = [jobs EXCEPT ![i] = d]
      OBVIOUS
    <3>4. d \in Jobs /\ SameJob(d, jobs[i]) /\ d.moved = jobs[i].moved
      <4> HIDE DEF other
      <4> QED BY <3>1, <3>2 DEF Jobs, SameJob
    <3>5. Optimize!Renders(flow, summary, of, cached)
      BY <2>2 DEF Optimize!PickMode
    <3> HIDE DEF of, d
    <3>6. of \in [Optimize!Run -> Jobs] /\ \A j \in Optimize!Run : SameJob(of[j], jobs[j]) /\ of[j].moved = jobs[j].moved
      BY <1>2, <3>3, <3>4 DEF SameJob
    <3> QED BY <3>5, <3>6
  <2> QED BY <2>1, <2>2
<1>4. Optimize!Renders(flow, summary, of, cached')
  BY <1>1, <1>3
<1>5. /\ cached' \in [Workspace -> Optimize!Lineup] /\ unsaved' \subseteq Workspace
      /\ Genuine(flow.undo, view, jobs) /\ Genuine(summary.undo, view, jobs)
      /\ \A w \in Workspace : Sound(cached'[w], w, jobs)
  BY <1>1 DEF OptimizeInv, StepTypes, UndosAreGenuine, LineupsAreSound
<1>6. \A i \in Optimize!Run : of[i].at = "running" => of[i].moved \/ cached'[of[i].ws] = of[i].input
  BY <1>1, <1>3 DEF OptimizeInv, InputsAreCurrent, SameJob
<1>7. /\ StepTypes' /\ LineupsAreSound' /\ UndosAreGenuine' /\ InputsAreCurrent' /\ painted' = cached'
      /\ \E o : /\ Seen(flow, summary, cached'[view], view, o)
                /\ flow' = o.flow /\ summary' = o.summary /\ claim' = o.claim
  BY <1>1, <1>2, <1>3, <1>4, <1>5, <1>6, RenderHolds
<1>8. ClaimIsWatched'
  BY <1>1, <1>7, PaintWatches
<1> QED BY <1>7, <1>8 DEF OptimizeInv

(* The parts of the invariant, from one state's lineups and jobs to the    *)
(* next's.                                                                 *)
LEMMA SoundOn ==
  ASSUME OptimizeInv, Follows(jobs', jobs),
         \A w \in Workspace : /\ Sound(cached'[w], w, jobs) \/ Sound(cached'[w], w, jobs')
                              /\ Sound(stored'[w], w, jobs) /\ Sound(painted'[w], w, jobs),
         \A i \in Optimize!Run : Sound(jobs'[i].input, jobs'[i].ws, jobs) \/ Sound(jobs'[i].input, jobs'[i].ws, jobs')
  PROVE  LineupsAreSound'
<1>1. \A lineup, w : Sound(lineup, w, jobs) => Sound(lineup, w, jobs')
  BY SoundStays
<1> QED BY <1>1 DEF LineupsAreSound

LEMMA GenuineOn ==
  ASSUME OptimizeInv, Follows(jobs', jobs), Genuine(summary'.undo, view', jobs), Genuine(flow'.undo, view', jobs),
         Genuine(claim', view', jobs)
  PROVE  UndosAreGenuine'
<1>1. \A u, v : Genuine(u, v, jobs) => Genuine(u, v, jobs')
  BY SoundStays
<1> QED BY <1>1 DEF UndosAreGenuine

LEMMA AbortFacts ==
  ASSUME OptimizeSizes, OptimizeInv, jobs' = Optimize!Aborted
  PROVE  /\ jobs' \in [Optimize!Run -> Jobs] /\ Follows(jobs', jobs) /\ InputsAreCurrent'
         /\ \A i \in Optimize!Run : Sound(jobs'[i].input, jobs'[i].ws, jobs')
<1>1. /\ jobs' \in [Optimize!Run -> Jobs]
      /\ \A i \in Optimize!Run :
           /\ jobs'[i].at # "running"
           /\ jobs'[i].at = "settled" <=> jobs[i].at # "unused"
           /\ \/ jobs'[i].ws = jobs[i].ws /\ jobs'[i].input = jobs[i].input
              \/ jobs'[i].ws = Optimize!First /\ jobs'[i].input = Optimize!Fresh(Optimize!First)
  BY AbortedJobs DEF OptimizeInv
<1>2. Follows(jobs', jobs) /\ InputsAreCurrent'
  BY <1>1 DEF Follows, InputsAreCurrent
<1>3. Sound(Optimize!Fresh(Optimize!First), Optimize!First, jobs')
  BY FirstIsOne, FreshFacts, RunsCount DEF Sound
<1>4. \A i \in Optimize!Run : Sound(jobs[i].input, jobs[i].ws, jobs')
  BY <1>2, SoundStays DEF OptimizeInv, LineupsAreSound
<1> QED BY <1>1, <1>2, <1>3, <1>4

LEMMA ShowHolds == ASSUME OptimizeSizes, OptimizeInv, NEW ws \in Workspace, Optimize!Show(ws) PROVE OptimizeInv'
<1>1. /\ view' = ws /\ painted' = cached /\ jobs' = Optimize!Aborted /\ summary' = Optimize!NoSummary
      /\ flow' = Optimize!NoFlow /\ blocked' = FALSE /\ claim' = Optimize!NoUndo /\ UNCHANGED <<cached, stored, unsaved>>
  BY DEF Optimize!Show
<1>2. /\ jobs' \in [Optimize!Run -> Jobs] /\ Follows(jobs', jobs) /\ InputsAreCurrent'
      /\ \A i \in Optimize!Run : Sound(jobs'[i].input, jobs'[i].ws, jobs')
  BY <1>1, AbortFacts
<1>3. StepTypes'
  BY <1>1, <1>2, NothingYet DEF OptimizeInv, StepTypes
<1>4. LineupsAreSound'
  BY <1>1, <1>2, SoundOn DEF OptimizeInv, LineupsAreSound
<1>5. UndosAreGenuine' /\ ClaimIsWatched'
  BY <1>1, NothingYet DEF UndosAreGenuine, Genuine, ClaimIsWatched
<1> QED BY <1>2, <1>3, <1>4, <1>5 DEF OptimizeInv

LEMMA CancelHolds == ASSUME OptimizeSizes, OptimizeInv, Optimize!Cancel PROVE OptimizeInv'
<1>1. /\ jobs' = Optimize!Aborted
      /\ UNCHANGED <<cached, stored, unsaved, painted, view, summary, flow, blocked, claim>>
  BY DEF Optimize!Cancel
<1>2. /\ jobs' \in [Optimize!Run -> Jobs] /\ Follows(jobs', jobs) /\ InputsAreCurrent'
      /\ \A i \in Optimize!Run : Sound(jobs'[i].input, jobs'[i].ws, jobs')
  BY <1>1, AbortFacts
<1>3. StepTypes' /\ ClaimIsWatched'
  BY <1>1, <1>2 DEF OptimizeInv, StepTypes, ClaimIsWatched
<1>4. LineupsAreSound'
  BY <1>1, <1>2, SoundOn DEF OptimizeInv, LineupsAreSound
<1>5. UndosAreGenuine'
  BY <1>1, <1>2, GenuineOn DEF OptimizeInv, UndosAreGenuine
<1> QED BY <1>2, <1>3, <1>4, <1>5 DEF OptimizeInv

LEMMA SavedHolds == ASSUME OptimizeSizes, OptimizeInv, NEW w \in Workspace, Optimize!Saved(w) PROVE OptimizeInv'
<1>1. /\ stored' = [stored EXCEPT ![w] = cached[w]] /\ unsaved' = unsaved \ {w}
      /\ UNCHANGED <<cached, painted, view, jobs, summary, flow, blocked, claim>>
  BY DEF Optimize!Saved
<1>2. StepTypes' /\ UndosAreGenuine' /\ InputsAreCurrent' /\ ClaimIsWatched'
  BY <1>1 DEF OptimizeInv, StepTypes, UndosAreGenuine, InputsAreCurrent, ClaimIsWatched
<1>3. \A v \in Workspace : stored'[v] = IF v = w THEN cached[v] ELSE stored[v]
  BY <1>1 DEF OptimizeInv, StepTypes
<1>4. LineupsAreSound'
  BY <1>1, <1>3 DEF OptimizeInv, LineupsAreSound
<1> QED BY <1>2, <1>4 DEF OptimizeInv

LEMMA DismissHolds == ASSUME OptimizeSizes, OptimizeInv, Optimize!Dismiss PROVE OptimizeInv'
<1>1. /\ summary' = Optimize!NoSummary /\ flow' = Optimize!NoFlow /\ blocked' = FALSE /\ claim' = Optimize!NoUndo
      /\ UNCHANGED <<cached, stored, unsaved, painted, view, jobs>>
  BY DEF Optimize!Dismiss
<1>2. StepTypes' /\ LineupsAreSound' /\ InputsAreCurrent'
  BY <1>1, NothingYet DEF OptimizeInv, StepTypes, LineupsAreSound, InputsAreCurrent
<1>3. UndosAreGenuine' /\ ClaimIsWatched'
  BY <1>1, NothingYet DEF UndosAreGenuine, Genuine, ClaimIsWatched
<1> QED BY <1>2, <1>3 DEF OptimizeInv

LEMMA PostHolds == ASSUME OptimizeSizes, OptimizeInv, NEW i \in Optimize!Run, Optimize!Post(i) PROVE OptimizeInv'
<1>1. /\ UNCHANGED <<cached, stored, unsaved, painted, view, summary, flow, blocked, claim>>
      /\ \E what \in {"result", "no start", "failure"} : jobs' = [jobs EXCEPT ![i].posted = what]
  BY DEF Optimize!Post
<1>2. PICK what \in {"result", "no start", "failure"} : jobs' = [jobs EXCEPT ![i].posted = what]
  BY <1>1
<1>3. jobs \in [Optimize!Run -> Jobs]
  BY DEF OptimizeInv, StepTypes
<1>4. ASSUME NEW c \in Jobs, NEW d, d = [c EXCEPT !.posted = what]
      PROVE  d \in Jobs /\ d.at = c.at /\ d.ws = c.ws /\ d.input = c.input /\ d.moved = c.moved /\ d.seen = c.seen
  BY <1>4 DEF Jobs
<1>5. ASSUME NEW j \in Optimize!Run
      PROVE  /\ jobs'[j] \in Jobs
             /\ jobs'[j].at = jobs[j].at /\ jobs'[j].ws = jobs[j].ws /\ jobs'[j].input = jobs[j].input
             /\ jobs'[j].moved = jobs[j].moved /\ jobs'[j].seen = jobs[j].seen
  <2>1. CASE j = i
    <3>1. jobs'[j] = [jobs[j] EXCEPT !.posted = what]
      BY <1>2, <1>3, <2>1
    <3> QED BY <1>3, <1>4, <3>1
  <2>2. CASE j # i
    BY <1>2, <1>3, <2>2
  <2> QED BY <2>1, <2>2
<1>6. jobs' \in [Optimize!Run -> Jobs]
  BY <1>2, <1>3, <1>5
<1>7. StepTypes' /\ ClaimIsWatched' /\ InputsAreCurrent'
  <2>1. StepTypes'
    BY <1>1, <1>6 DEF OptimizeInv, StepTypes
  <2>2. ClaimIsWatched'
    <3>1. UNCHANGED <<cached, unsaved, painted, view, summary, flow, claim>>
      BY <1>1, Zenon
    <3> QED BY <3>1, Zenon DEF OptimizeInv, ClaimIsWatched
  <2>3. InputsAreCurrent'
    <3> SUFFICES ASSUME NEW j \in Optimize!Run, jobs'[j].at = "running"
                 PROVE  /\ jobs'[j].moved \/ cached'[jobs'[j].ws] = jobs'[j].input
                        /\ jobs'[j].seen \/ painted'[jobs'[j].ws] = jobs'[j].input
      BY DEF InputsAreCurrent
    <3>1. jobs[j].at = "running" /\ InputsAreCurrent /\ UNCHANGED <<cached, painted>>
      BY <1>1, <1>5 DEF OptimizeInv
    <3> QED BY ONLY <1>5, <3>1 DEF InputsAreCurrent
  <2> QED BY <2>1, <2>2, <2>3
<1>8. Follows(jobs', jobs)
  BY <1>5 DEF Follows
<1>9. LineupsAreSound'
  BY <1>1, <1>5, <1>8, SoundOn DEF OptimizeInv, LineupsAreSound
<1>10. UndosAreGenuine'
  BY <1>1, <1>8, GenuineOn DEF OptimizeInv, UndosAreGenuine
<1> QED BY <1>7, <1>9, <1>10 DEF OptimizeInv

LEMMA StartHolds == ASSUME OptimizeSizes, OptimizeInv, NEW i \in Optimize!Run, Optimize!Start(i) PROVE OptimizeInv'
<1> DEFINE moved == painted[view] # cached[view]
           d == [Optimize!Unused EXCEPT !.at = "running", !.ws = view, !.input = painted[view], !.moved = moved]
<1>1. /\ jobs[i].at = "unused" /\ jobs' = [jobs EXCEPT ![i] = d]
      /\ UNCHANGED <<cached, stored, unsaved, painted, view, summary, flow, blocked, claim>>
  BY DEF Optimize!Start
<1>2. moved \in BOOLEAN /\ view \in Workspace /\ painted[view] \in Optimize!Lineup
  BY DEF OptimizeInv, StepTypes
<1>3. d \in Jobs /\ d.at = "running" /\ d.ws = view /\ d.input = painted[view] /\ d.moved = moved /\ d.seen = FALSE
  <2> HIDE DEF moved
  <2> QED BY <1>2, NothingYet DEF Optimize!Unused, Jobs
<1>4. jobs \in [Optimize!Run -> Jobs]
  BY DEF OptimizeInv, StepTypes
<1> HIDE DEF d
<1>5. \A j \in Optimize!Run : jobs'[j] = IF j = i THEN d ELSE jobs[j]
  BY <1>1, <1>4
<1>6. jobs' \in [Optimize!Run -> Jobs]
  BY <1>1, <1>3, <1>4
<1>7. StepTypes' /\ ClaimIsWatched'
  BY <1>1, <1>6 DEF OptimizeInv, StepTypes, ClaimIsWatched
<1>8. Follows(jobs', jobs)
  BY <1>1, <1>3, <1>5 DEF Follows
<1>9. \A j \in Optimize!Run : Sound(jobs'[j].input, jobs'[j].ws, jobs)
  BY <1>2, <1>3, <1>5 DEF OptimizeInv, LineupsAreSound
<1>10. LineupsAreSound'
  BY <1>1, <1>8, <1>9, SoundOn DEF OptimizeInv, LineupsAreSound
<1>11. UndosAreGenuine'
  BY <1>1, <1>8, GenuineOn DEF OptimizeInv, UndosAreGenuine
<1>12. InputsAreCurrent'
  <2> SUFFICES ASSUME NEW j \in Optimize!Run, jobs'[j].at = "running"
               PROVE  /\ jobs'[j].moved \/ cached[jobs'[j].ws] = jobs'[j].input
                      /\ jobs'[j].seen \/ painted[jobs'[j].ws] = jobs'[j].input
    BY <1>1 DEF InputsAreCurrent
  <2>1. CASE j = i
    <3>1. jobs'[j] = d
      BY <1>5, <2>1
    <3> QED BY <1>3, <3>1
  <2>2. CASE j # i
    <3>1. jobs'[j] = jobs[j]
      BY <1>5, <2>2
    <3> QED BY <3>1 DEF OptimizeInv, InputsAreCurrent
  <2> QED BY <2>1, <2>2
<1> QED BY <1>7, <1>10, <1>11, <1>12 DEF OptimizeInv

(* A write into the cache: of the jobs, those that go on are as they were. *)
LEMMA MoveFacts ==
  ASSUME OptimizeInv, NEW w \in Workspace, NEW lineup \in Optimize!Lineup, NEW of \in [Optimize!Run -> Jobs],
         \A i \in Optimize!Run : of[i].at = "running" => of[i] = jobs[i],
         jobs' = Optimize!Moved(w, lineup, of), cached' = [cached EXCEPT ![w] = lineup], painted' = painted
  PROVE  /\ jobs' \in [Optimize!Run -> Jobs] /\ \A i \in Optimize!Run : SameJob(jobs'[i], of[i])
         /\ cached' \in [Workspace -> Optimize!Lineup]
         /\ \A v \in Workspace : cached'[v] = IF v = w THEN lineup ELSE cached[v]
         /\ InputsAreCurrent'
<1>1. /\ jobs' \in [Optimize!Run -> Jobs]
      /\ \A i \in Optimize!Run :
           /\ SameJob(jobs'[i], of[i]) /\ jobs'[i].seen = of[i].seen
           /\ of[i].at = "running" /\ of[i].ws = w /\ lineup # cached[w] => jobs'[i].moved = TRUE
           /\ jobs'[i].moved = of[i].moved \/ jobs'[i].moved = TRUE
  <2> DEFINE m == Optimize!Moved(w, lineup, of)
  <2>1. /\ m \in [Optimize!Run -> Jobs]
        /\ \A i \in Optimize!Run :
             /\ SameJob(m[i], of[i]) /\ m[i].seen = of[i].seen
             /\ of[i].at = "running" /\ of[i].ws = w /\ lineup # cached[w] => m[i].moved = TRUE
             /\ m[i].moved = of[i].moved \/ m[i].moved = TRUE
    <3> HIDE DEF m
    <3> QED BY MovedJobs DEF m
  <2>2. jobs' = m
    OBVIOUS
  <2> HIDE DEF m
  <2> QED BY <2>1, <2>2
<1>2. /\ cached' \in [Workspace -> Optimize!Lineup]
      /\ \A v \in Workspace : cached'[v] = IF v = w THEN lineup ELSE cached[v]
  BY DEF OptimizeInv, StepTypes
<1>3. InputsAreCurrent'
  <2> SUFFICES ASSUME NEW i \in Optimize!Run, jobs'[i].at = "running"
               PROVE  /\ jobs'[i].moved \/ cached'[jobs'[i].ws] = jobs'[i].input
                      /\ jobs'[i].seen \/ painted'[jobs'[i].ws] = jobs'[i].input
    BY DEF InputsAreCurrent
  <2>1. of[i] = jobs[i] /\ jobs[i].at = "running" /\ jobs'[i].ws = jobs[i].ws /\ jobs'[i].input = jobs[i].input
    BY <1>1 DEF SameJob
  <2>2. /\ jobs[i].moved \/ cached[jobs[i].ws] = jobs[i].input
        /\ jobs[i].seen \/ painted[jobs[i].ws] = jobs[i].input
    BY <2>1 DEF OptimizeInv, InputsAreCurrent
  <2>3. jobs[i].ws \in Workspace
    BY DEF OptimizeInv, StepTypes, Jobs
  <2>4. jobs'[i].seen \/ painted'[jobs'[i].ws] = jobs'[i].input
    BY <1>1, <2>1, <2>2
  <2>5. CASE jobs[i].ws = w /\ lineup # cached[w]
    BY <1>1, <2>1, <2>4, <2>5
  <2>6. CASE ~(jobs[i].ws = w /\ lineup # cached[w])
    <3>1. cached'[jobs[i].ws] = cached[jobs[i].ws]
      BY <1>2, <2>3, <2>6
    <3>2. CASE jobs[i].moved
      <4>1. jobs'[i].moved = jobs[i].moved \/ jobs'[i].moved = TRUE
        BY <1>1, <2>1
      <4> QED BY <2>4, <3>2, <4>1
    <3>3. CASE ~jobs[i].moved
      BY <2>1, <2>2, <2>4, <3>1, <3>3
    <3> QED BY <3>2, <3>3
  <2> QED BY <2>5, <2>6
<1> QED BY <1>1, <1>2, <1>3

LEMMA EditHolds == ASSUME OptimizeSizes, OptimizeInv, NEW m \in Mark, Optimize!Edit(m) PROVE OptimizeInv'
<1> DEFINE edited == [cached[view] EXCEPT !.marks = @ \cup {m}]
<1>1. /\ cached' = [cached EXCEPT ![view] = edited] /\ unsaved' = unsaved \cup {view}
      /\ jobs' = Optimize!Moved(view, edited, jobs) /\ claim' = Optimize!NoUndo
      /\ UNCHANGED <<stored, painted, view, summary, flow, blocked>>
  BY DEF Optimize!Edit, Optimize!Writes
<1>2. view \in Workspace /\ cached[view] \in Optimize!Lineup /\ jobs \in [Optimize!Run -> Jobs]
  BY DEF OptimizeInv, StepTypes
<1>3. edited \in Optimize!Lineup /\ edited.home = cached[view].home /\ edited.run = cached[view].run
  BY <1>2 DEF Optimize!Lineup
<1> HIDE DEF edited
<1>4. /\ jobs' \in [Optimize!Run -> Jobs] /\ \A i \in Optimize!Run : SameJob(jobs'[i], jobs[i])
      /\ cached' \in [Workspace -> Optimize!Lineup]
      /\ \A v \in Workspace : cached'[v] = IF v = view THEN edited ELSE cached[v]
      /\ InputsAreCurrent'
  BY <1>1, <1>2, <1>3, MoveFacts
<1>5. Follows(jobs', jobs)
  BY <1>4 DEF Follows, SameJob
<1>6. StepTypes' /\ ClaimIsWatched'
  BY <1>1, <1>2, <1>4, NothingYet DEF OptimizeInv, StepTypes, ClaimIsWatched
<1>7. \A v \in Workspace : Sound(cached'[v], v, jobs)
  BY <1>3, <1>4 DEF OptimizeInv, LineupsAreSound, Sound
<1>8. LineupsAreSound'
  BY <1>1, <1>4, <1>5, <1>7, SoundOn DEF OptimizeInv, LineupsAreSound, SameJob
<1>9. Genuine(Optimize!NoUndo, view, jobs)
  BY DEF Genuine
<1>10. UndosAreGenuine'
  BY <1>1, <1>5, <1>9, GenuineOn DEF OptimizeInv, UndosAreGenuine
<1> QED BY <1>4, <1>6, <1>8, <1>10 DEF OptimizeInv

LEMMA SaveLostHolds == ASSUME OptimizeSizes, OptimizeInv, NEW w \in Workspace, Optimize!SaveLost(w) PROVE OptimizeInv'
<1>1. /\ cached' = [cached EXCEPT ![w] = stored[w]] /\ unsaved' = unsaved \ {w}
      /\ jobs' = Optimize!Moved(w, stored[w], jobs)
      /\ UNCHANGED <<stored, painted, view, summary, flow, blocked, claim>>
      /\ w \in unsaved
  BY DEF Optimize!SaveLost
<1>2. view \in Workspace /\ stored[w] \in Optimize!Lineup /\ jobs \in [Optimize!Run -> Jobs]
  BY DEF OptimizeInv, StepTypes
<1>3. /\ jobs' \in [Optimize!Run -> Jobs] /\ \A i \in Optimize!Run : SameJob(jobs'[i], jobs[i])
      /\ cached' \in [Workspace -> Optimize!Lineup]
      /\ \A v \in Workspace : cached'[v] = IF v = w THEN stored[w] ELSE cached[v]
      /\ InputsAreCurrent'
  BY <1>1, <1>2, MoveFacts
<1>4. Follows(jobs', jobs)
  BY <1>3 DEF Follows, SameJob
<1>5. StepTypes'
  BY <1>1, <1>3 DEF OptimizeInv, StepTypes
<1>6. ClaimIsWatched'
  <2>1. view = w => view \notin unsaved'
    BY <1>1
  <2>2. view # w => cached'[view] = cached[view] /\ (view \notin unsaved' <=> view \notin unsaved)
    BY <1>1, <1>2, <1>3
  <2> QED BY <1>1, <2>1, <2>2 DEF OptimizeInv, ClaimIsWatched
<1>7. LineupsAreSound'
  BY <1>1, <1>3, <1>4, SoundOn DEF OptimizeInv, LineupsAreSound, SameJob
<1>8. UndosAreGenuine'
  BY <1>1, <1>4, GenuineOn DEF OptimizeInv, UndosAreGenuine
<1> QED BY <1>3, <1>5, <1>6, <1>7, <1>8 DEF OptimizeInv

(* A job that has ended, and the lineup of its run *)
LEMMA EndedFacts ==
  ASSUME OptimizeSizes, OptimizeInv, NEW i \in Optimize!Run, NEW ended, ended = [jobs EXCEPT ![i] = Optimize!Done]
  PROVE  /\ ended \in [Optimize!Run -> Jobs] /\ ended[i].at = "settled" /\ Follows(ended, jobs)
         /\ \A j \in Optimize!Run : ended[j].at = "running" => ended[j] = jobs[j]
         /\ \A j \in Optimize!Run : Sound(ended[j].input, ended[j].ws, jobs)
<1>1. jobs \in [Optimize!Run -> Jobs]
  BY DEF OptimizeInv, StepTypes
<1>2. \A j \in Optimize!Run : ended[j] = IF j = i THEN Optimize!Done ELSE jobs[j]
  BY <1>1
<1>3. /\ Optimize!Done \in Jobs /\ Optimize!Done.at = "settled"
      /\ Optimize!Done.ws = Optimize!First /\ Optimize!Done.input = Optimize!Fresh(Optimize!First)
  BY NothingYet
<1>4. Sound(Optimize!Fresh(Optimize!First), Optimize!First, jobs)
  BY FirstIsOne, FreshFacts, RunsCount DEF Sound
<1>5. \A j \in Optimize!Run : Sound(ended[j].input, ended[j].ws, jobs)
  BY <1>2, <1>3, <1>4 DEF OptimizeInv, LineupsAreSound
<1> QED BY <1>1, <1>2, <1>3, <1>5 DEF Follows

LEMMA ResultFacts ==
  ASSUME OptimizeSizes, OptimizeInv, NEW i \in Optimize!Run, NEW u, u = Optimize!UndoOf(i),
         jobs[i].at = "running", jobs[i].ws = view
  PROVE  /\ u \in Undos /\ u.ws = view /\ u.patch = jobs[i].input
         /\ u.applied \in Optimize!Lineup /\ u.applied = [u.patch EXCEPT !.run = i]
         /\ u.applied.run = i /\ u.applied.home = view /\ u.applied.marks = u.patch.marks
         /\ Sound(u.patch, view, jobs) /\ u.patch.run # i
<1>1. jobs[i].input \in Optimize!Lineup /\ view \in Workspace
  BY DEF OptimizeInv, StepTypes, Jobs
<1>2. /\ u.ws = view /\ u.patch = jobs[i].input /\ u.applied = [jobs[i].input EXCEPT !.run = i]
      /\ u = [ws |-> view, patch |-> jobs[i].input, applied |-> [jobs[i].input EXCEPT !.run = i]]
  BY DEF Optimize!UndoOf
<1>3. Sound(jobs[i].input, view, jobs)
  BY DEF OptimizeInv, LineupsAreSound
<1>4. jobs[i].input.run # i /\ jobs[i].input.home = view
  BY <1>3 DEF Sound
<1>5. /\ u.applied \in Optimize!Lineup
      /\ u.applied.run = i /\ u.applied.home = view /\ u.applied.marks = u.patch.marks
  BY <1>1, <1>2, <1>4, RunsCount DEF Optimize!Lineup
<1>6. u \in Undos
  BY <1>1, <1>2, <1>5 DEF Undos
<1> QED BY <1>2, <1>3, <1>4, <1>5, <1>6

LEMMA DeliverHolds == ASSUME OptimizeSizes, OptimizeInv, NEW i \in Optimize!Run, Optimize!Deliver(i) PROVE OptimizeInv'
<1> DEFINE ended == [jobs EXCEPT ![i] = Optimize!Done]
           undo == Optimize!UndoOf(i)
<1>1. /\ ended \in [Optimize!Run -> Jobs] /\ ended[i].at = "settled" /\ Follows(ended, jobs)
      /\ \A j \in Optimize!Run : ended[j].at = "running" => ended[j] = jobs[j]
      /\ \A j \in Optimize!Run : Sound(ended[j].input, ended[j].ws, jobs)
  BY EndedFacts
<1>2. UNCHANGED <<stored, painted, view>> /\ jobs[i].at = "running"
  BY DEF Optimize!Deliver, Optimize!Listens
<1>3. Genuine(Optimize!NoUndo, view, jobs)
  BY DEF Genuine
<1>4. CASE jobs' = ended /\ UNCHANGED <<cached, unsaved, summary, flow, blocked, claim>>
  <2> HIDE DEF ended
  <2>1. StepTypes' /\ ClaimIsWatched' /\ InputsAreCurrent'
    BY <1>1, <1>2, <1>4 DEF OptimizeInv, StepTypes, ClaimIsWatched, InputsAreCurrent
  <2>2. LineupsAreSound'
    BY <1>1, <1>2, <1>4, SoundOn DEF OptimizeInv, LineupsAreSound
  <2>3. UndosAreGenuine'
    BY <1>1, <1>2, <1>4, GenuineOn DEF OptimizeInv, UndosAreGenuine
  <2> QED BY <2>1, <2>2, <2>3 DEF OptimizeInv
<1>5. CASE /\ jobs' = ended /\ UNCHANGED <<cached, unsaved>>
           /\ summary' = [shown |-> TRUE, undo |-> Optimize!NoUndo] /\ flow' = Optimize!NoFlow
           /\ claim' = Optimize!NoUndo /\ blocked' = FALSE
  <2> HIDE DEF ended
  <2>1. summary' \in Summaries /\ summary'.undo = Optimize!NoUndo
    BY <1>5, NothingYet DEF Summaries
  <2>2. StepTypes' /\ InputsAreCurrent' /\ ClaimIsWatched'
    BY <1>1, <1>2, <1>5, <2>1, NothingYet DEF OptimizeInv, StepTypes, ClaimIsWatched, InputsAreCurrent
  <2>3. LineupsAreSound'
    BY <1>1, <1>2, <1>5, SoundOn DEF OptimizeInv, LineupsAreSound
  <2>4. UndosAreGenuine'
    BY <1>2, <1>5, <2>1, NothingYet DEF UndosAreGenuine, Genuine
  <2> QED BY <2>2, <2>3, <2>4 DEF OptimizeInv
<1>6. CASE /\ ~Optimize!MovedOn(i)
           /\ summary' = [shown |-> TRUE, undo |-> undo] /\ flow' = Optimize!NoFlow
           /\ claim' = Optimize!NoUndo /\ blocked' = FALSE
           /\ Optimize!Writes(view, undo.applied) /\ jobs' = Optimize!Moved(view, undo.applied, ended)
  <2>1. jobs[i].ws = view
    BY <1>6 DEF Optimize!MovedOn
  <2>2. /\ undo \in Undos /\ undo.ws = view /\ undo.patch = jobs[i].input
        /\ undo.applied \in Optimize!Lineup /\ undo.applied = [undo.patch EXCEPT !.run = i]
        /\ undo.applied.run = i /\ undo.applied.home = view
        /\ Sound(undo.patch, view, jobs) /\ undo.patch.run # i
    BY <1>2, <2>1, ResultFacts
  <2> HIDE DEF ended, undo
  <2>3. cached' = [cached EXCEPT ![view] = undo.applied] /\ unsaved' = unsaved \cup {view}
    BY <1>6 DEF Optimize!Writes
  <2>4. view \in Workspace
    BY DEF OptimizeInv, StepTypes
  <2>5. /\ jobs' \in [Optimize!Run -> Jobs] /\ \A j \in Optimize!Run : SameJob(jobs'[j], ended[j])
        /\ cached' \in [Workspace -> Optimize!Lineup]
        /\ \A v \in Workspace : cached'[v] = IF v = view THEN undo.applied ELSE cached[v]
        /\ InputsAreCurrent'
    BY <1>1, <1>2, <1>6, <2>2, <2>3, <2>4, MoveFacts
  <2>6. Follows(jobs', jobs) /\ jobs'[i].at = "settled"
    BY <1>1, <2>5 DEF Follows, SameJob
  <2>7. summary' \in Summaries /\ summary'.undo = undo
    BY <1>6, <2>2 DEF Summaries
  <2>8. StepTypes' /\ ClaimIsWatched'
    BY <1>2, <1>6, <2>3, <2>4, <2>5, <2>7, NothingYet DEF OptimizeInv, StepTypes, ClaimIsWatched
  <2>9. Sound(undo.applied, view, jobs')
    BY <2>2, <2>6 DEF Sound
  <2>10. LineupsAreSound'
    BY <1>1, <1>2, <2>5, <2>6, <2>9, SoundOn DEF OptimizeInv, LineupsAreSound, SameJob
  <2>11. Genuine(undo, view, jobs')
    <3>1. Sound(undo.patch, view, jobs')
      BY <2>2, <2>6, SoundStays
    <3> QED BY <2>2, <2>6, <3>1 DEF Genuine
  <2>12. UndosAreGenuine'
    BY <1>2, <1>6, <2>7, <2>11, NothingYet DEF UndosAreGenuine, Genuine
  <2> QED BY <2>5, <2>8, <2>10, <2>12 DEF OptimizeInv
<1> QED BY <1>4, <1>5, <1>6 DEF Optimize!Deliver

LEMMA UndoHolds == ASSUME OptimizeSizes, OptimizeInv, Optimize!Undo PROVE OptimizeInv'
<1> DEFINE undo == summary.undo
           to == undo.patch
           watch == [phase |-> "pending", undo |-> undo]
           of == Optimize!Moved(view, to, jobs)
           write == [cached EXCEPT ![view] = to]
<1>1. undo # Optimize!NoUndo /\ UNCHANGED <<stored, view>>
  BY DEF Optimize!Undo
<1>2. /\ undo \in Undos /\ summary \in Summaries /\ view \in Workspace /\ jobs \in [Optimize!Run -> Jobs]
      /\ cached \in [Workspace -> Optimize!Lineup] /\ StepTypes
  BY DEF OptimizeInv, StepTypes, Summaries
<1>3. Genuine(undo, view, jobs)
  BY DEF OptimizeInv, UndosAreGenuine
<1>4. undo.ws = view /\ to \in Optimize!Lineup /\ Sound(to, view, jobs)
  BY <1>1, <1>2, <1>3 DEF Genuine, Undos
<1>5. CASE /\ Optimize!Writes(view, to)
           /\ Optimize!Renders(watch, summary, Optimize!Moved(view, to, jobs), [cached EXCEPT ![view] = to])
  <2>1. cached' = write /\ unsaved' = unsaved \cup {view}
    BY <1>5 DEF Optimize!Writes
  <2>2. /\ watch \in Flows /\ watch.phase = "pending" /\ watch.undo = undo
        /\ [watch EXCEPT !.phase = "settled"].phase = "settled" /\ [watch EXCEPT !.phase = "settled"].undo = undo
    <3> HIDE DEF undo
    <3> QED BY <1>2 DEF Flows
  <2>3. Optimize!Renders(watch, summary, of, cached')
    BY <1>5, <2>1
  <2>4. /\ of \in [Optimize!Run -> Jobs]
        /\ \A i \in Optimize!Run :
             /\ SameJob(of[i], jobs[i]) /\ of[i].seen = jobs[i].seen
             /\ jobs[i].at = "running" /\ jobs[i].ws = view /\ to # cached[view] => of[i].moved = TRUE
             /\ of[i].moved = jobs[i].moved \/ of[i].moved = TRUE
    <3> HIDE DEF of, to
    <3> QED BY <1>2, MovedJobs DEF of
  <2> HIDE DEF undo, to, watch, of, write
  <2>5. /\ cached' \in [Workspace -> Optimize!Lineup] /\ unsaved' \subseteq Workspace
        /\ \A w \in Workspace : cached'[w] = IF w = view THEN to ELSE cached[w]
    BY <1>2, <1>4, <2>1 DEF write, StepTypes
  <2>6. \A w \in Workspace : Sound(cached'[w], w, jobs)
    BY <1>4, <2>5 DEF OptimizeInv, LineupsAreSound
  <2>7. ASSUME NEW i \in Optimize!Run, of[i].at = "running" PROVE of[i].moved \/ cached'[of[i].ws] = of[i].input
    <3>1. jobs[i].at = "running" /\ of[i].ws = jobs[i].ws /\ of[i].input = jobs[i].input
      BY <2>4, <2>7 DEF SameJob
    <3>2. jobs[i].moved \/ cached[jobs[i].ws] = jobs[i].input
      BY <3>1 DEF OptimizeInv, InputsAreCurrent
    <3>3. jobs[i].ws \in Workspace
      BY <1>2 DEF Jobs
    <3>4. CASE jobs[i].ws = view /\ to # cached[view]
      BY <2>4, <3>1, <3>4
    <3>5. CASE ~(jobs[i].ws = view /\ to # cached[view])
      <4>1. cached'[jobs[i].ws] = cached[jobs[i].ws]
        BY <2>5, <3>3, <3>5
      <4>2. of[i].moved = jobs[i].moved \/ of[i].moved = TRUE
        BY <2>4
      <4> QED BY <3>1, <3>2, <4>1, <4>2
    <3> QED BY <3>4, <3>5
  <2>8. Genuine(watch.undo, view, jobs) /\ Genuine(summary.undo, view, jobs)
    BY <1>3, <2>2 DEF undo
  <2>9. /\ StepTypes' /\ LineupsAreSound' /\ UndosAreGenuine' /\ InputsAreCurrent' /\ painted' = cached'
        /\ \E o : /\ Seen(watch, summary, cached'[view], view, o)
                  /\ flow' = o.flow /\ summary' = o.summary /\ claim' = o.claim
    BY <1>1, <1>2, <2>2, <2>3, <2>4, <2>5, <2>6, <2>7, <2>8, RenderHolds
  <2>10. PICK o : /\ Seen(watch, summary, cached'[view], view, o)
                  /\ flow' = o.flow /\ summary' = o.summary /\ claim' = o.claim
    BY <2>9
  <2>11. cached'[view] = undo.patch
    BY <1>2, <2>5 DEF to
  <2>12. flow' = [watch EXCEPT !.phase = "settled"] /\ summary' = Optimize!NoSummary /\ claim' = undo
    BY <1>4, <2>2, <2>10, <2>11 DEF Seen
  <2>13. ClaimIsWatched'
    BY <1>1, <2>2, <2>9, <2>11, <2>12 DEF ClaimIsWatched
  <2> QED BY <2>9, <2>13 DEF OptimizeInv
<1>6. CASE blocked' = TRUE /\ UNCHANGED <<cached, unsaved, painted, jobs, summary, flow, claim>>
  BY <1>1, <1>6 DEF OptimizeInv, StepTypes, LineupsAreSound, UndosAreGenuine, InputsAreCurrent, ClaimIsWatched
<1> QED BY <1>4, <1>5, <1>6 DEF Optimize!Undo

LEMMA StepStepHolds == ASSUME OptimizeSizes, OptimizeInv, [Optimize!Next]_optimize PROVE OptimizeInv'
<1>1. CASE UNCHANGED optimize
  BY <1>1 DEF optimize, OptimizeInv, StepTypes, LineupsAreSound, UndosAreGenuine, InputsAreCurrent, ClaimIsWatched
<1>2. CASE Optimize!Next
  BY <1>2, PaintHolds, CancelHolds, UndoHolds, DismissHolds, ShowHolds, EditHolds, SavedHolds, SaveLostHolds, StartHolds,
     PostHolds, DeliverHolds DEF Optimize!Next
<1> QED BY <1>1, <1>2

(* What changes a lineup: an edit, the loss of a save, a result that is    *)
(* heard where it was asked for, and an Undo.                              *)
Applies(i) ==
  /\ Optimize!Deliver(i)
  /\ jobs[i].at = "running" /\ ~jobs[i].seen /\ jobs[i].ws = view /\ ~jobs[i].other
  /\ cached' = [cached EXCEPT ![view] = Optimize!UndoOf(i).applied]
TakesBack ==
  /\ Optimize!Undo /\ summary.undo # Optimize!NoUndo
  /\ blocked \/ Optimize!Clean(summary.undo, painted[view])
  /\ cached' = [cached EXCEPT ![view] = summary.undo.patch]

LEMMA Changes ==
  ASSUME [Optimize!Next]_optimize
  PROVE  \/ UNCHANGED cached
         \/ \E m \in Mark : cached' = [cached EXCEPT ![view] = [cached[view] EXCEPT !.marks = @ \cup {m}]]
         \/ \E v \in Workspace : Optimize!SaveLost(v) /\ cached' = [cached EXCEPT ![v] = stored[v]]
         \/ \E i \in Optimize!Run : Applies(i)
         \/ TakesBack
<1>1. CASE UNCHANGED optimize
  BY <1>1 DEF optimize
<1>2. CASE Optimize!Paint \/ Optimize!Cancel \/ Optimize!Dismiss
  BY <1>2 DEF Optimize!Paint, Optimize!Cancel, Optimize!Dismiss
<1>3. ASSUME NEW i \in Optimize!Run, Optimize!Start(i) \/ Optimize!PickMode(i) \/ Optimize!Post(i)
      PROVE  UNCHANGED cached
  BY <1>3 DEF Optimize!Start, Optimize!PickMode, Optimize!Post
<1>4. ASSUME NEW w \in Workspace, Optimize!Show(w) \/ Optimize!Saved(w) PROVE UNCHANGED cached
  BY <1>4 DEF Optimize!Show, Optimize!Saved
<1>5. ASSUME NEW m \in Mark, Optimize!Edit(m)
      PROVE  cached' = [cached EXCEPT ![view] = [cached[view] EXCEPT !.marks = @ \cup {m}]]
  BY <1>5 DEF Optimize!Edit, Optimize!Writes
<1>6. ASSUME NEW v \in Workspace, Optimize!SaveLost(v) PROVE cached' = [cached EXCEPT ![v] = stored[v]]
  BY <1>6 DEF Optimize!SaveLost
<1>7. ASSUME NEW i \in Optimize!Run, Optimize!Deliver(i) PROVE UNCHANGED cached \/ Applies(i)
  BY <1>7 DEF Optimize!Deliver, Optimize!Listens, Optimize!MovedOn, Optimize!Writes, Applies
<1>8. CASE Optimize!Undo
  <2> DEFINE undo == summary.undo
  <2>1. CASE undo.ws # view
    BY <1>8, <2>1 DEF Optimize!Undo
  <2>2. CASE undo.ws = view /\ Optimize!MayUndo(undo)
    <3>1. undo # Optimize!NoUndo /\ Optimize!Writes(view, undo.patch)
      BY <1>8, <2>2 DEF Optimize!Undo
    <3> QED BY <1>8, <2>2, <3>1 DEF TakesBack, Optimize!Writes, Optimize!MayUndo
  <2>3. CASE undo.ws = view /\ ~Optimize!MayUndo(undo)
    BY <1>8, <2>3 DEF Optimize!Undo
  <2> QED BY <2>1, <2>2, <2>3
<1> QED BY <1>1, <1>2, <1>3, <1>4, <1>5, <1>6, <1>7, <1>8 DEF Optimize!Next

LEMMA EditsAreKept == ASSUME OptimizeSizes, OptimizeInv, [Optimize!Next]_optimize PROVE Optimize!EditsOutliveRuns
<1> SUFFICES ASSUME NEW w \in Workspace, ~Optimize!SaveLost(w), ~(Optimize!Undo /\ blocked),
                    cached[w].marks \ cached'[w].marks # {}
             PROVE  /\ w = view /\ (cached[w].marks \ cached'[w].marks) \cap painted[w].marks = {}
                    /\ \/ Optimize!Undo
                       \/ \E i \in Optimize!Run : Optimize!Deliver(i) /\ jobs[i].moved /\ ~jobs[i].seen
  BY DEF Optimize!EditsOutliveRuns
<1>0. /\ cached \in [Workspace -> Optimize!Lineup] /\ view \in Workspace /\ summary.undo \in Undos /\ StepTypes
  BY DEF OptimizeInv, StepTypes, Summaries
<1>1. ~UNCHANGED cached
  OBVIOUS
<1>2. ASSUME NEW m \in Mark, cached' = [cached EXCEPT ![view] = [cached[view] EXCEPT !.marks = @ \cup {m}]]
      PROVE  cached[w].marks \subseteq cached'[w].marks
  BY <1>0, <1>2 DEF Optimize!Lineup
<1>3. ASSUME NEW v \in Workspace, Optimize!SaveLost(v), cached' = [cached EXCEPT ![v] = stored[v]]
      PROVE  cached'[w] = cached[w]
  <2>1. v # w
    BY <1>3
  <2> QED BY <1>0, <1>3, <2>1
<1>4. ASSUME NEW lineup, lineup.marks = painted[view].marks, cached' = [cached EXCEPT ![view] = lineup]
      PROVE  w = view /\ cached'[w].marks = painted[w].marks
  BY <1>0, <1>1, <1>4
<1>5. ASSUME NEW i \in Optimize!Run, Applies(i)
      PROVE  /\ w = view /\ cached'[w].marks = painted[w].marks
             /\ Optimize!Deliver(i) /\ jobs[i].moved /\ ~jobs[i].seen
  <2>1. Optimize!Deliver(i) /\ jobs[i].at = "running" /\ ~jobs[i].seen /\ jobs[i].ws = view
    BY <1>5 DEF Applies
  <2>2. painted[view] = jobs[i].input /\ (jobs[i].moved \/ cached[view] = jobs[i].input)
    BY <2>1 DEF OptimizeInv, InputsAreCurrent
  <2>3. Optimize!UndoOf(i).applied.marks = painted[view].marks
    <3> DEFINE u == Optimize!UndoOf(i)
    <3>1. u.patch = jobs[i].input /\ u.applied.marks = u.patch.marks
      <4> HIDE DEF u
      <4> QED BY <2>1, ResultFacts DEF u
    <3> HIDE DEF u
    <3>2. u.applied.marks = painted[view].marks
      BY <2>2, <3>1
    <3> QED BY <3>2 DEF u
  <2>4. cached' = [cached EXCEPT ![view] = Optimize!UndoOf(i).applied]
    BY <1>5 DEF Applies
  <2>5. w = view /\ cached'[w].marks = painted[w].marks
    BY <1>4, <2>3, <2>4
  <2>6. jobs[i].moved
    BY <2>2, <2>5
  <2> QED BY <2>1, <2>5, <2>6
<1>6. CASE TakesBack
  <2>1. /\ Optimize!Undo /\ Optimize!Clean(summary.undo, painted[view]) /\ summary.undo # Optimize!NoUndo
        /\ cached' = [cached EXCEPT ![view] = summary.undo.patch]
    BY <1>6 DEF TakesBack
  <2>2. painted[view] = summary.undo.applied
    BY <2>1 DEF Optimize!Clean
  <2>3. summary.undo.patch.marks = painted[view].marks
    BY <1>0, <2>1, <2>2, PatchIsNotTheRun DEF OptimizeInv, UndosAreGenuine
  <2>4. w = view /\ cached'[w].marks = painted[w].marks
    BY <1>4, <2>1, <2>3
  <2> QED BY <2>1, <2>4
<1>7. CASE \E i \in Optimize!Run : Applies(i)
  BY <1>5, <1>7
<1> QED BY <1>1, <1>2, <1>3, <1>6, <1>7, Changes

LEMMA RunsAreAsked == ASSUME OptimizeSizes, OptimizeInv, [Optimize!Next]_optimize PROVE Optimize!RunsAreApplied
<1> SUFFICES ASSUME NEW w \in Workspace, NEW i \in Optimize!Run,
                    cached'[w].run = i, cached[w].run # i, ~Optimize!SaveLost(w), ~Optimize!Undo
             PROVE  jobs[i].at = "running" /\ jobs[i].ws = w /\ w = view /\ ~jobs[i].other
  BY DEF Optimize!RunsAreApplied
<1>0. /\ cached \in [Workspace -> Optimize!Lineup] /\ view \in Workspace
  BY DEF OptimizeInv, StepTypes
<1>1. ~UNCHANGED cached
  OBVIOUS
<1>2. ASSUME NEW m \in Mark, cached' = [cached EXCEPT ![view] = [cached[view] EXCEPT !.marks = @ \cup {m}]]
      PROVE  cached'[w].run = cached[w].run
  BY <1>0, <1>2 DEF Optimize!Lineup
<1>3. ASSUME NEW v \in Workspace, Optimize!SaveLost(v), cached' = [cached EXCEPT ![v] = stored[v]]
      PROVE  cached'[w] = cached[w]
  <2>1. v # w
    BY <1>3
  <2> QED BY <1>0, <1>3, <2>1
<1>4. PICK j \in Optimize!Run : Applies(j)
  BY <1>1, <1>2, <1>3, Changes DEF TakesBack
<1>5. /\ jobs[j].at = "running" /\ jobs[j].ws = view /\ ~jobs[j].other
      /\ cached' = [cached EXCEPT ![view] = Optimize!UndoOf(j).applied]
  BY <1>4 DEF Applies
<1>6. Optimize!UndoOf(j).applied.run = j
  <2>1. jobs[j].input \in Optimize!Lineup
    BY DEF OptimizeInv, StepTypes, Jobs
  <2> QED BY <2>1 DEF Optimize!UndoOf, Optimize!Lineup
<1>7. w = view /\ i = j
  BY <1>0, <1>5, <1>6
<1> QED BY <1>5, <1>7

LEMMA UndoIsInReach == ASSUME OptimizeSizes, OptimizeInv PROVE Optimize!UndoneOrInReach
<1> SUFFICES ASSUME claim # Optimize!NoUndo, painted[view] = claim.applied
             PROVE  summary = [shown |-> TRUE, undo |-> claim]
  BY DEF Optimize!UndoneOrInReach, Optimize!Clean
<1>1. claim \in Undos /\ summary \in Summaries /\ StepTypes /\ Genuine(claim, view, jobs)
  BY DEF OptimizeInv, StepTypes, UndosAreGenuine
<1>2. claim.patch # claim.applied
  BY <1>1, PatchIsNotTheRun
<1>3. summary.shown /\ summary.undo = claim
  BY <1>2 DEF OptimizeInv, ClaimIsWatched
<1>4. summary.shown = TRUE
  BY <1>1, <1>3 DEF Summaries
<1> QED BY <1>1, <1>3, <1>4 DEF Summaries

LEMMA OptimizeSteps == MCSpec => Optimize!Spec
<1>1. MCInit => Optimize!Init
  BY DEF MCInit
<1>2. [MCNext]_all => [Optimize!Next]_(Optimize!ovars)
  BY DEF MCNext, all, optimize, Optimize!ovars
<1> QED BY <1>1, <1>2, PTL DEF MCSpec, Optimize!Spec

(* What the Optimize step does to a lineup, the coach asked for: the edits *)
(* he has on screen outlive every run and every Undo he did not insist on, *)
(* a run writes once and only where it was asked and while it is, an Undo  *)
(* that was announced stays in reach if its save fails, and no workspace   *)
(* gets the lineup of another - for any workspaces, edits and number of    *)
(* runs.  An edit that is cached and not painted yet has no such promise:  *)
(* a result or an Undo that comes just then may take it, since both look   *)
(* at the last render (the live view of RosterOptimizeStep).               *)
THEOREM LineupIsAlwaysTheCoachs == ASSUME OptimizeSizes PROVE MCSpec => LineupIsTheCoachs
<1>1. Optimize!Init => OptimizeInv
  BY StepInitHolds
<1>2. OptimizeInv /\ [Optimize!Next]_(Optimize!ovars) => OptimizeInv'
  BY StepStepHolds DEF optimize, Optimize!ovars
<1>3. OptimizeInv /\ OptimizeInv' /\ [Optimize!Next]_(Optimize!ovars) =>
        [/\ Optimize!EditsOutliveRuns /\ Optimize!RunsAreApplied /\ Optimize!UndoneOrInReach
         /\ \A w \in Workspace : cached'[w].home = w]_(Optimize!ovars)
  <2> SUFFICES ASSUME OptimizeInv, OptimizeInv', [Optimize!Next]_(Optimize!ovars)
               PROVE  /\ Optimize!EditsOutliveRuns /\ Optimize!RunsAreApplied /\ Optimize!UndoneOrInReach
                      /\ \A w \in Workspace : cached'[w].home = w
    OBVIOUS
  <2>1. [Optimize!Next]_optimize
    BY DEF optimize, Optimize!ovars
  <2>2. \A w \in Workspace : cached'[w].home = w
    BY DEF OptimizeInv, LineupsAreSound, Sound
  <2> QED BY <2>1, <2>2, EditsAreKept, RunsAreAsked, UndoIsInReach
<1> QED BY <1>1, <1>2, <1>3, OptimizeSteps, PTL DEF Optimize!Spec, LineupIsTheCoachs, Optimize!LineupIsTheCoachs
-----------------------------------------------------------------------------
LEMMA BackupsAreTyped == ASSUME BackupSizes, BackupInv PROVE Safety!TypeOK
<1>1. store \in Safety!Row \cup {Safety!Absent}
  BY DEF BackupInv, BackupTypes, Copy
<1>2. \A f \in backups : f.kind \in Safety!Kind /\ f.stamp \in 1 .. clock /\ f.holds \in Safety!Row \cup {Safety!Absent} /\ f.whole \in BOOLEAN
  <2> SUFFICES ASSUME NEW f \in backups
               PROVE  f.kind \in Safety!Kind /\ f.stamp \in 1 .. clock /\ f.holds \in Safety!Row \cup {Safety!Absent} /\ f.whole \in BOOLEAN
    OBVIOUS
  <2>1. f \in File /\ clock \in Nat /\ f.stamp \in 1 .. clock - 1
    BY DEF BackupInv, BackupTypes, NamesAreFree
  <2>2. f.kind \in Safety!Kind /\ f.holds \in Safety!Row \cup {Safety!Absent} /\ f.whole \in BOOLEAN
    BY <2>1 DEF File, Copy
  <2>3. f.stamp \in 1 .. clock
    BY <2>1
  <2> QED BY <2>2, <2>3
<1>3. clock \in Nat /\ born \in Nat /\ asked \in 0 .. MaxAsked /\ died \in 0 .. MaxCrashes
  BY DEF BackupInv, BackupTypes
<1>4. ASSUME NEW o \in Asker
      PROVE  /\ task[o].at \in {"idle", "queued", "export", "stamp", "place", "list", "unlink", "act"}
             /\ task[o].kind \in Safety!Kind /\ task[o].want \in Safety!Contents \cup {"none"}
             /\ task[o].expected \in Nat /\ task[o].read \in Safety!Row \cup {Safety!Absent}
             /\ task[o].outcome \in {"none", "taken", "failed"}
  BY <1>4 DEF BackupInv, BackupTypes, Errand, Await, Copy
<1> QED BY <1>1, <1>2, <1>3, <1>4 DEF Safety!TypeOK

LEMMA StepsAreTyped == ASSUME OptimizeSizes, OptimizeInv PROVE Optimize!TypeOK
  BY DEF OptimizeInv, StepTypes, Jobs, Summaries, Flows, Optimize!TypeOK

LEMMA CrawlSteps == MCSpec => Spec
<1>1. MCInit => Init
  BY DEF MCInit
<1>2. [MCNext]_all => [Next]_vars
  BY DEF MCNext, all
<1> QED BY <1>1, <1>2, PTL DEF MCSpec, Spec

LEMMA ScoringSteps == MCSpec => ScoringSpec
<1>1. MCInit => ScoringInit
  BY DEF MCInit
<1>2. [MCNext]_all => [ScoringNext]_scoringVars
  BY DEF MCNext, all
<1> QED BY <1>1, <1>2, PTL DEF MCSpec, ScoringSpec

(* Every machine stays in its types, for any teams, lanes, pages, requests *)
(* and runs; a slot that a lane of the pool waits for is never further off *)
(* than a stagger for each lane (nextStartSlot), and a backup is never     *)
(* named for a time to come (writeJsonBackup).                             *)
THEOREM TypesAreAlwaysOK ==
  ASSUME PoolSizes, IsFiniteSet(Lane), FallbackBounds, BackupSizes, ~SameName, OptimizeSizes
  PROVE  MCSpec => []TypesOK
<1>1. MCSpec => []Pool!TypeOK
  <2>1. Pool!Init => PoolInv /\ FewInv
    BY PoolInitHolds, FewInitHolds
  <2>2. PoolInv /\ FewInv /\ [Pool!Next]_(Pool!vars) => (PoolInv /\ FewInv)'
    BY PoolStepHolds, FewStepHolds
  <2>3. PoolInv /\ FewInv => Pool!TypeOK
    BY FewSlotsAreTyped
  <2> QED BY <2>1, <2>2, <2>3, PoolSteps, PTL DEF Pool!Spec
<1>2. MCSpec => []Fallback!TypeOK
  <2>1. Fallback!Init => FallbackInv
    BY FallbackInitHolds
  <2>2. FallbackInv /\ [Fallback!Next]_(Fallback!vars) => FallbackInv'
    BY FallbackStepHolds
  <2>3. FallbackInv => Fallback!TypeOK
    BY DEF FallbackInv
  <2> QED BY <2>1, <2>2, <2>3, FallbackSteps, PTL DEF Fallback!Spec
<1>3. MCSpec => []Safety!TypeOK
  <2>1. Safety!Init => BackupInv
    BY BackupInitHolds
  <2>2. BackupInv /\ [Safety!Next]_(Safety!bvars) => BackupInv'
    BY BackupStepHolds
  <2>3. BackupInv => Safety!TypeOK
    BY BackupsAreTyped
  <2> QED BY <2>1, <2>2, <2>3, SafetySteps, PTL DEF Safety!Spec
<1>4. MCSpec => []Optimize!TypeOK
  <2>1. Optimize!Init => OptimizeInv
    BY StepInitHolds
  <2>2. OptimizeInv /\ [Optimize!Next]_(Optimize!ovars) => OptimizeInv'
    BY StepStepHolds DEF optimize, Optimize!ovars
  <2>3. OptimizeInv => Optimize!TypeOK
    BY StepsAreTyped
  <2> QED BY <2>1, <2>2, <2>3, OptimizeSteps, PTL DEF Optimize!Spec
<1>5. MCSpec => []TypeOK
  BY CrawlSteps, TypeCorrect, PTL
<1>6. MCSpec => []ScoringTypeOK
  BY ScoringSteps, ScoringTypeCorrect, PTL
<1> QED BY <1>1, <1>2, <1>3, <1>4, <1>5, <1>6, PTL DEF TypesOK
=============================================================================
