---------------------------- MODULE Server_proofs ----------------------------
(***************************************************************************)
(* Proofs about the save sequencer, the JSON store and the start on a      *)
(* SQLite file, as MCServer runs them.                                     *)
(***************************************************************************)
EXTENDS MCServer, Integers, Sequences, FiniteSetTheorems, WellFoundedInduction, TLAPS

(* The sequencer, for any number of calls, keys and clients.  The promise  *)
(* chain orders the calls of a key by arrival, and a call starts only when *)
(* all earlier calls of its key have settled.  So at most one call of a    *)
(* key is inside `apply`, and nothing can raise the record between a       *)
(* call's check and its own write.                                         *)

(* The history numbers tell calls apart and give their order. *)
ArrivalsOK ==
    /\ \A c \in Call : Made(c) => key[c] \in Key /\ arrival[c] \in 1 .. arrivals
    /\ \A c, d \in Call : Made(c) /\ Made(d) /\ arrival[c] = arrival[d] => c = d

(* A call is chained behind the call of its key that arrived just before   *)
(* it, or behind nothing because all earlier ones had settled.             *)
PredOK ==
    \A c \in Call : Made(c) =>
        /\ pred[c] # None =>
             /\ Made(pred[c]) /\ key[pred[c]] = key[c]
             /\ arrival[pred[c]] < arrival[c]
             /\ \A d \in Call : Made(d) /\ key[d] = key[c] /\ arrival[d] < arrival[c]
                    => arrival[d] <= arrival[pred[c]]
        /\ pred[c] = None =>
             \A d \in Call : Made(d) /\ key[d] = key[c] /\ arrival[d] < arrival[c]
                    => phase[d] = "settled"

(* The stored tail belongs to the latest call; no tail, nothing unsettled. *)
TailsOK ==
    \A k \in Key :
        /\ tails[k] # None =>
             /\ Made(tails[k]) /\ key[tails[k]] = k
             /\ \A d \in Call : Made(d) /\ key[d] = k
                    => arrival[d] <= arrival[tails[k]]
        /\ tails[k] = None =>
             \A d \in Call : Made(d) /\ key[d] = k => phase[d] = "settled"

(* A started call has every earlier call of its key settled behind it. *)
StartedOK ==
    \A c, d \in Call :
        /\ Started(c) /\ Made(d)
        /\ key[d] = key[c] /\ arrival[d] < arrival[c]
        => phase[d] = "settled"

ChainInv == TypeOK /\ ArrivalsOK /\ PredOK /\ TailsOK /\ StartedOK

-----------------------------------------------------------------------------
(* Evicting or forgetting only removes records. *)
LEMMA EvictedOnlyRemoves ==
    ASSUME NEW la \in [Key -> Record \cup {NoRecord}]
    PROVE  /\ Evicted(la) \in [Key -> Record \cup {NoRecord}]
           /\ \A k \in Key : Evicted(la)[k] \in {la[k], NoRecord}
  BY DEF Evicted

(* Writing a record keeps the map's type. *)
LEMMA PutRecord ==
    ASSUME NEW la \in [Key -> Record \cup {NoRecord}], NEW k, NEW r \in Record
    PROVE  [la EXCEPT ![k] = r] \in [Key -> Record \cup {NoRecord}]
  OBVIOUS

(* The state stays well typed under every step. *)
LEMMA TypeStep == TypeOK /\ [Next]_vars => TypeOK'
  <1> SUFFICES ASSUME TypeOK, [Next]_vars PROVE TypeOK'
    OBVIOUS
  <1> USE NoneAssumption, BoundAssumption
  <1>1. ASSUME NEW c \in Call, NEW k \in Key, NEW t \in SaveToken \cup {NoToken},
               Run(c, k, t)
        PROVE  TypeOK'
    BY <1>1 DEF TypeOK, Run, records
  <1>2. ASSUME NEW c \in Call, RefuseStale(c) PROVE TypeOK'
    BY <1>2 DEF TypeOK, RefuseStale, calls, records
  <1>3. ASSUME NEW c \in Call, StartApply(c) PROVE TypeOK'
    BY <1>3 DEF TypeOK, StartApply, calls, records
  <1>4. ASSUME NEW c \in Call, ApplyWrote(c) PROVE TypeOK'
    <2> USE <1>4 DEF ApplyWrote, calls
    <2>1. CASE token[c] = NoToken
      BY <2>1 DEF TypeOK, records
    <2>2. CASE token[c] # NoToken
      <3> DEFINE r == [client |-> token[c].client, seq |-> token[c].seq, stamp |-> clock + 1]
      <3>1. r \in Record
        <4>1. token[c] \in SaveToken /\ clock + 1 \in Nat \ {0}
          BY <2>2 DEF TypeOK
        <4> QED
          BY <4>1 DEF SaveToken, Record
      <3>2. lastApplied' = Evicted([lastApplied EXCEPT ![key[c]] = r])
        BY <2>2 DEF RecordToken
      <3> HIDE DEF r
      <3>3. lastApplied' \in [Key -> Record \cup {NoRecord}]
        BY <3>1, <3>2, PutRecord, EvictedOnlyRemoves DEF TypeOK
      <3>4. clock' \in Nat
        BY <2>2 DEF RecordToken, TypeOK
      <3>5. wroteAt' \in [Key -> Nat]
        BY <2>2 DEF TypeOK
      <3> QED
        BY <3>3, <3>4, <3>5 DEF TypeOK
    <2> QED
      BY <2>1, <2>2
  <1>5. ASSUME NEW c \in Call, ApplyWroteNothing(c) PROVE TypeOK'
    BY <1>5, FailuresAssumption DEF TypeOK, ApplyWroteNothing, calls, records
  <1>6. ASSUME NEW c \in Call, DropTail(c) PROVE TypeOK'
    BY <1>6 DEF TypeOK, DropTail, calls, records
  <1>7. ASSUME NEW k \in Key, Forget(k) PROVE TypeOK'
    BY <1>7 DEF TypeOK, Forget, calls
  <1>8. CASE UNCHANGED vars
    BY <1>8 DEF TypeOK, vars
  <1> QED
    BY <1>1, <1>2, <1>3, <1>4, <1>5, <1>6, <1>7, <1>8 DEF Next, Step

LEMMA TypeInit == Init => TypeOK
  BY NoneAssumption, BoundAssumption DEF Init, TypeOK

-----------------------------------------------------------------------------
(* The chain.  Its parts speak of phases, keys, predecessors, tails and    *)
(* arrival numbers only, so the two steps that move records or tokens are  *)
(* covered by what they do to `phase`.                                     *)

LEMMA ChainInit == Init => ChainInv
  BY TypeInit, NoneAssumption
  DEF Init, ChainInv, ArrivalsOK, PredOK, TailsOK, StartedOK, Made, Started

(* A new call joins behind the stored tail, which is the latest call. *)
LEMMA RunChain ==
    ASSUME ChainInv, TypeOK',
           NEW c \in Call, NEW k \in Key, NEW t \in SaveToken \cup {NoToken},
           Run(c, k, t)
    PROVE  ChainInv'
  <1> USE NoneAssumption
  <1> USE DEF Made, Started
  <1>1. phase' = [phase EXCEPT ![c] = "queued"] /\ phase[c] = "idle"
    BY DEF Run
  <1>2. /\ key' = [key EXCEPT ![c] = k] /\ pred' = [pred EXCEPT ![c] = tails[k]]
        /\ tails' = [tails EXCEPT ![k] = c] /\ arrivals' = arrivals + 1
        /\ arrival' = [arrival EXCEPT ![c] = arrivals + 1]
    BY DEF Run
  <1>3. ArrivalsOK'
    BY <1>1, <1>2 DEF ChainInv, TypeOK, ArrivalsOK
  <1>4. \A d \in Call : Made(d) => arrival[d] < arrival'[c] /\ d # c
    BY <1>1, <1>2 DEF ChainInv, TypeOK, ArrivalsOK
  <1>5. PredOK'
    <2> SUFFICES ASSUME NEW e \in Call, Made(e)'
                 PROVE  PredOK!(e)!2'
      BY DEF PredOK
    <2>1. CASE e = c
      BY <2>1, <1>1, <1>2, <1>4 DEF ChainInv, TypeOK, TailsOK
    <2>2. CASE e # c
      BY <2>2, <1>1, <1>2, <1>4 DEF ChainInv, TypeOK, PredOK, ArrivalsOK
    <2> QED
      BY <2>1, <2>2
  <1>6. TailsOK'
    BY <1>1, <1>2, <1>4 DEF ChainInv, TypeOK, TailsOK, ArrivalsOK
  <1>7. StartedOK'
    <2>1. phase \in [Call -> {"idle", "queued", "applying", "settled"}]
          /\ key \in [Call -> Key \cup {None}] /\ arrival \in [Call -> Nat]
      BY DEF ChainInv, TypeOK
    <2>2. arrival'[c] = arrivals + 1 /\ phase'[c] = "queued"
      BY <1>1, <1>2, <2>1
    <2> SUFFICES ASSUME NEW a \in Call, NEW d \in Call, Started(a)', Made(d)',
                        key'[d] = key'[a], arrival'[d] < arrival'[a]
                 PROVE  phase'[d] = "settled"
      BY DEF StartedOK
    <2>3. a # c /\ phase'[a] = phase[a] /\ key'[a] = key[a] /\ arrival'[a] = arrival[a]
      BY <1>1, <1>2, <2>1, <2>2
    <2>4. d # c
      <3>1. arrival[a] < arrival'[c]
        BY <1>4, <2>3
      <3>2. arrival[a] \in Nat /\ arrival'[c] \in Nat
        BY <2>1, <2>2 DEF ChainInv, TypeOK
      <3> QED
        BY <3>1, <3>2, <2>3
    <2>5. phase'[d] = phase[d] /\ key'[d] = key[d] /\ arrival'[d] = arrival[d]
      BY <1>1, <1>2, <2>1, <2>4
    <2> QED
      BY <2>3, <2>5 DEF ChainInv, StartedOK
  <1> QED
    BY <1>3, <1>5, <1>6, <1>7 DEF ChainInv

(* A call advances only from queued to started, when its turn came, or     *)
(* from applying to settled; nothing else about the chain moves.           *)
LEMMA AdvanceChain ==
    ASSUME ChainInv, TypeOK', UNCHANGED <<calls, tails>>,
           NEW c \in Call, NEW p \in {"applying", "settled"},
           phase' = [phase EXCEPT ![c] = p],
           \/ phase[c] = "queued" /\ TurnCame(c)
           \/ phase[c] = "applying" /\ p = "settled"
    PROVE  ChainInv'
  <1> USE DEF Made, Started, calls
  <1>1. ArrivalsOK'
    BY DEF ChainInv, TypeOK, ArrivalsOK
  <1>2. PredOK'
    BY DEF ChainInv, TypeOK, PredOK
  <1>3. TailsOK'
    BY DEF ChainInv, TypeOK, TailsOK
  <1>4. StartedOK'
    <2> SUFFICES ASSUME NEW a \in Call, NEW d \in Call,
                        Started(a)', Made(d)', key[d] = key[a], arrival[d] < arrival[a]
                 PROVE  phase'[d] = "settled"
      BY DEF StartedOK
    <2>1. Made(d) /\ Made(a)
      BY DEF ChainInv, TypeOK
    <2>2. CASE Started(a)
      BY <2>1, <2>2 DEF ChainInv, TypeOK, StartedOK
    <2>3. CASE ~Started(a)
      <3>1. a = c /\ phase[c] = "queued" /\ TurnCame(c) /\ d # c
        BY <2>1, <2>3 DEF ChainInv, TypeOK, ArrivalsOK
      <3>2. phase[d] = "settled"
        <4>1. CASE pred[c] = None
          BY <3>1, <4>1, <2>1 DEF ChainInv, PredOK
        <4>2. CASE pred[c] # None
          <5>1. /\ pred[c] \in Call /\ phase[pred[c]] = "settled"
                /\ key[pred[c]] = key[c] /\ arrival[d] <= arrival[pred[c]]
            BY <3>1, <4>2, <2>1 DEF ChainInv, TypeOK, PredOK, TurnCame
          <5>2. CASE arrival[d] = arrival[pred[c]]
            BY <5>1, <5>2, <2>1 DEF ChainInv, ArrivalsOK
          <5>3. CASE arrival[d] < arrival[pred[c]]
            BY <5>1, <5>3, <2>1, <3>1 DEF ChainInv, StartedOK
          <5>4. arrival[d] \in Nat /\ arrival[pred[c]] \in Nat
            BY <5>1 DEF ChainInv, TypeOK
          <5> QED
            BY <5>1, <5>2, <5>3, <5>4
        <4> QED
          BY <4>1, <4>2
      <3> QED
        BY <3>1, <3>2 DEF ChainInv, TypeOK
    <2> QED
      BY <2>2, <2>3
  <1> QED
    BY <1>1, <1>2, <1>3, <1>4 DEF ChainInv

(* Removing the tail of a settled latest call leaves nothing unsettled. *)
LEMMA DropTailChain ==
    ASSUME ChainInv, TypeOK', NEW c \in Call, DropTail(c)
    PROVE  ChainInv'
  <1> USE NoneAssumption
  <1> USE DEF Made, Started, calls, DropTail
  <1>1. ArrivalsOK' /\ PredOK' /\ StartedOK'
    BY DEF ChainInv, ArrivalsOK, PredOK, StartedOK
  <1>2. TailsOK'
    <2> DEFINE k == key[c]
    <2>1. k \in Key /\ tails[k] = c /\ tails' = [tails EXCEPT ![k] = None]
      BY DEF ChainInv, ArrivalsOK
    <2>2. ASSUME NEW d \in Call, Made(d), key[d] = k
          PROVE  phase[d] = "settled"
      <3>1. arrival[d] <= arrival[c]
        BY <2>1, <2>2 DEF ChainInv, TailsOK
      <3>2. CASE arrival[d] = arrival[c]
        BY <3>2, <2>2 DEF ChainInv, ArrivalsOK
      <3>3. CASE arrival[d] < arrival[c]
        BY <3>3, <2>2 DEF ChainInv, StartedOK
      <3>4. arrival[d] \in Nat /\ arrival[c] \in Nat
        BY DEF ChainInv, TypeOK
      <3> QED
        BY <3>1, <3>2, <3>3, <3>4
    <2> QED
      BY <2>1, <2>2 DEF ChainInv, TypeOK, TailsOK
  <1> QED
    BY <1>1, <1>2 DEF ChainInv

LEMMA ChainStep == ChainInv /\ [Next]_vars => ChainInv'
  <1> SUFFICES ASSUME ChainInv, [Next]_vars PROVE ChainInv'
    OBVIOUS
  <1>0. TypeOK'
    BY TypeStep DEF ChainInv
  <1>1. ASSUME NEW c \in Call, NEW k \in Key, NEW t \in SaveToken \cup {NoToken},
               Run(c, k, t)
        PROVE  ChainInv'
    BY <1>0, <1>1, RunChain
  <1>2. ASSUME NEW c \in Call, RefuseStale(c) PROVE ChainInv'
    BY <1>0, <1>2, AdvanceChain DEF RefuseStale
  <1>3. ASSUME NEW c \in Call, StartApply(c) PROVE ChainInv'
    BY <1>0, <1>3, AdvanceChain DEF StartApply
  <1>4. ASSUME NEW c \in Call, ApplyWrote(c) PROVE ChainInv'
    BY <1>0, <1>4, AdvanceChain DEF ApplyWrote
  <1>5. ASSUME NEW c \in Call, ApplyWroteNothing(c) PROVE ChainInv'
    BY <1>0, <1>5, AdvanceChain DEF ApplyWroteNothing
  <1>6. ASSUME NEW c \in Call, DropTail(c) PROVE ChainInv'
    BY <1>0, <1>6, DropTailChain
  <1>7. ASSUME NEW k \in Key, Forget(k) PROVE ChainInv'
    BY <1>0, <1>7
    DEF Forget, calls, ChainInv, ArrivalsOK, PredOK, TailsOK, StartedOK, Made, Started
  <1>8. CASE UNCHANGED vars
    BY <1>0, <1>8
    DEF vars, ChainInv, ArrivalsOK, PredOK, TailsOK, StartedOK, Made, Started
  <1> QED
    BY <1>1, <1>2, <1>3, <1>4, <1>5, <1>6, <1>7, <1>8 DEF Next, Step

(* The inductive invariant holds in every run. *)
THEOREM ChainHolds == Spec => []ChainInv
  BY ChainInit, ChainStep, PTL DEF Spec

(* The state is always well typed. *)
THEOREM TypeCorrect == Spec => []TypeOK
  <1>1. ChainInv => TypeOK
    BY DEF ChainInv
  <1> QED
    BY <1>1, ChainHolds, PTL

(* Rule 1 of saveSequencer.ts: saves of one key never overlap in `apply`,  *)
(* whatever the number of calls, keys and clients, deletes included.       *)
LEMMA ChainGivesOne == ChainInv => OneAtATime
  <1> SUFFICES ASSUME ChainInv, NEW a \in Call, NEW b \in Call,
                      phase[a] = "applying", phase[b] = "applying", key[a] = key[b]
               PROVE  a = b
    BY DEF OneAtATime
  <1>1. /\ ~(arrival[a] < arrival[b]) /\ ~(arrival[b] < arrival[a])
    BY DEF ChainInv, StartedOK, Started, Made
  <1>2. arrival[a] \in Nat /\ arrival[b] \in Nat
    BY DEF ChainInv, TypeOK
  <1> QED
    BY <1>1, <1>2 DEF ChainInv, ArrivalsOK, Made

THEOREM MutualExclusion == Spec => []OneAtATime
  BY ChainGivesOne, ChainHolds, PTL

(* The other half of rule 1: a call never starts while an earlier call of  *)
(* its key is unsettled.                                                   *)
LEMMA ChainGivesOrder == ChainInv => ArrivalOrder
  <1> SUFFICES ASSUME ChainInv, NEW a \in Call, NEW b \in Call,
                      phase[a] \in {"applying", "settled"},
                      phase[b] \in {"queued", "applying"},
                      key[a] = key[b], arrival[b] <= arrival[a]
               PROVE  a = b
    BY DEF ArrivalOrder
  <1>1. ~(arrival[b] < arrival[a])
    BY DEF ChainInv, StartedOK, Started, Made
  <1>2. arrival[a] \in Nat /\ arrival[b] \in Nat
    BY DEF ChainInv, TypeOK
  <1> QED
    BY <1>1, <1>2 DEF ChainInv, ArrivalsOK, Made

THEOREM StartsInArrivalOrder == Spec => []ArrivalOrder
  BY ChainGivesOrder, ChainHolds, PTL

-----------------------------------------------------------------------------
(* A call inside `apply` is still ahead of its key's record, although the  *)
(* comparison was made before the await.                                   *)
AheadOK ==
    \A c \in Call :
        /\ phase[c] = "applying" /\ token[c] # NoToken
        /\ lastApplied[key[c]].client = token[c].client
        => token[c].seq > lastApplied[key[c]].seq

(* Dropping records cannot put an applying call behind. *)
LEMMA AheadAfterDrop ==
    ASSUME ChainInv, AheadOK, UNCHANGED calls,
           \A c \in Call : phase'[c] = "applying" => phase[c] = "applying",
           \A k \in Key : lastApplied'[k] \in {lastApplied[k], NoRecord}
    PROVE  AheadOK'
  <1> SUFFICES ASSUME NEW c \in Call, phase'[c] = "applying", token[c] # NoToken,
                      lastApplied'[key[c]].client = token[c].client
               PROVE  token[c].seq > lastApplied'[key[c]].seq
    BY DEF AheadOK, calls
  <1>1. phase[c] = "applying" /\ key[c] \in Key
    BY DEF ChainInv, ArrivalsOK, Made
  <1>2. token[c].client \in Client
    BY DEF ChainInv, TypeOK, SaveToken
  <1>3. lastApplied'[key[c]] = lastApplied[key[c]]
    BY <1>1, <1>2, NoneAssumption DEF NoRecord
  <1> QED
    BY <1>1, <1>3 DEF AheadOK

(* A write changes the record of its own key, which no other applying call *)
(* has, and may evict other records.                                       *)
LEMMA WriteEffect ==
    ASSUME ChainInv, NEW c \in Call, ApplyWrote(c), token[c] # NoToken
    PROVE  \A k \in Key :
             \/ lastApplied'[k] \in {lastApplied[k], NoRecord}
             \/ /\ k = key[c]
                /\ lastApplied'[k].client = token[c].client
                /\ lastApplied'[k].seq = token[c].seq
  <1> DEFINE la == [lastApplied EXCEPT ![key[c]] =
                      [client |-> token[c].client, seq |-> token[c].seq,
                       stamp |-> clock + 1]]
  <1>1. token[c].client \in Client /\ token[c].seq \in Seqs /\ clock + 1 \in Nat \ {0}
    BY DEF ChainInv, TypeOK, SaveToken
  <1>2. la \in [Key -> Record \cup {NoRecord}]
    BY <1>1 DEF ChainInv, TypeOK, Record
  <1>3. lastApplied' = Evicted(la)
    BY DEF ApplyWrote, RecordToken
  <1>4. \A k \in Key : lastApplied'[k] \in {la[k], NoRecord}
    <2> HIDE DEF la
    <2> QED
      BY <1>2, <1>3, EvictedOnlyRemoves
  <1>5. \A k \in Key : k # key[c] => la[k] = lastApplied[k]
    BY DEF ChainInv, TypeOK
  <1>6. key[c] \in Key => la[key[c]].client = token[c].client /\ la[key[c]].seq = token[c].seq
    BY DEF ChainInv, TypeOK
  <1> HIDE DEF la
  <1> QED
    BY <1>4, <1>5, <1>6

LEMMA AheadStep == ChainInv /\ AheadOK /\ [Next]_vars => AheadOK'
  <1> SUFFICES ASSUME ChainInv, AheadOK, [Next]_vars PROVE AheadOK'
    OBVIOUS
  <1> USE NoneAssumption
  <1>1. ASSUME NEW c \in Call, NEW k \in Key, NEW t \in SaveToken \cup {NoToken},
               Run(c, k, t)
        PROVE  AheadOK'
    BY <1>1 DEF Run, records, AheadOK, ChainInv, TypeOK
  <1>2. ASSUME NEW c \in Call, RefuseStale(c) PROVE AheadOK'
    BY <1>2, AheadAfterDrop DEF RefuseStale, records, ChainInv, TypeOK
  <1>3. ASSUME NEW c \in Call, StartApply(c) PROVE AheadOK'
    <2> SUFFICES ASSUME NEW d \in Call, phase'[d] = "applying", token[d] # NoToken,
                        lastApplied[key[d]].client = token[d].client
                 PROVE  token[d].seq > lastApplied[key[d]].seq
      BY <1>3 DEF StartApply, AheadOK, calls, records
    <2>1. CASE d = c
      <3>1. token[c].seq \in Nat /\ token[c] \in SaveToken /\ key[c] \in Key
        BY <1>3, <2>1 DEF StartApply, ChainInv, TypeOK, SaveToken, Seqs, ArrivalsOK, Made
      <3>2. lastApplied[key[c]] \in Record
        BY <3>1, <2>1 DEF ChainInv, TypeOK, SaveToken, NoRecord
      <3>3. lastApplied[key[c]].seq \in Nat
        BY <3>2 DEF Record, Seqs
      <3>4. ~(token[c].seq <= lastApplied[key[c]].seq)
        BY <1>3, <2>1 DEF StartApply, Refuses
      <3> QED
        BY <2>1, <3>1, <3>3, <3>4
    <2>2. CASE d # c
      BY <1>3, <2>2 DEF StartApply, records, AheadOK, ChainInv, TypeOK
    <2> QED
      BY <2>1, <2>2
  <1>4. ASSUME NEW c \in Call, ApplyWrote(c) PROVE AheadOK'
    <2>1. CASE token[c] = NoToken
      BY <1>4, <2>1, AheadAfterDrop DEF ApplyWrote, records, ChainInv, TypeOK
    <2>2. CASE token[c] # NoToken
      <3> SUFFICES ASSUME NEW d \in Call, phase'[d] = "applying", token[d] # NoToken,
                          lastApplied'[key[d]].client = token[d].client
                   PROVE  token[d].seq > lastApplied'[key[d]].seq
        BY <1>4 DEF ApplyWrote, AheadOK, calls
      <3>1. d # c /\ phase[d] = "applying" /\ phase[c] = "applying"
        BY <1>4 DEF ApplyWrote, ChainInv, TypeOK
      <3>2. key[d] \in Key /\ key[d] # key[c]
        BY <3>1, ChainGivesOne DEF OneAtATime, ChainInv, ArrivalsOK, Made
      <3>3. token[d].client \in Client
        BY DEF ChainInv, TypeOK, SaveToken
      <3>4. lastApplied'[key[d]] = lastApplied[key[d]]
        BY <1>4, <2>2, <3>2, <3>3, WriteEffect DEF NoRecord
      <3> QED
        BY <3>1, <3>4 DEF AheadOK
    <2> QED
      BY <2>1, <2>2
  <1>5. ASSUME NEW c \in Call, ApplyWroteNothing(c) PROVE AheadOK'
    BY <1>5, AheadAfterDrop DEF ApplyWroteNothing, records, ChainInv, TypeOK
  <1>6. ASSUME NEW c \in Call, DropTail(c) PROVE AheadOK'
    BY <1>6, AheadAfterDrop DEF DropTail, records, ChainInv, TypeOK
  <1>7. ASSUME NEW k \in Key, Forget(k) PROVE AheadOK'
    BY <1>7, AheadAfterDrop DEF Forget, ChainInv, TypeOK
  <1>8. CASE UNCHANGED vars
    BY <1>8, AheadAfterDrop DEF vars, calls, ChainInv, TypeOK
  <1> QED
    BY <1>1, <1>2, <1>3, <1>4, <1>5, <1>6, <1>7, <1>8 DEF Next, Step

LEMMA AheadInit == Init => AheadOK
  BY DEF Init, AheadOK

(* Rule 2 of saveSequencer.ts as the code keeps it: a recorded number is   *)
(* only ever replaced, within one client, by a higher one.                 *)
LEMMA WriteRises ==
    ASSUME ChainInv, AheadOK, [Next]_vars, NEW k \in Key,
           lastApplied'[k] # lastApplied[k],
           lastApplied[k] # NoRecord, lastApplied'[k] # NoRecord,
           lastApplied'[k].client = lastApplied[k].client
    PROVE  lastApplied'[k].seq > lastApplied[k].seq
  <1>1. PICK c \in Call : ApplyWrote(c) /\ token[c] # NoToken
    BY DEF Next, Step, vars, calls, records, Run, RefuseStale, StartApply, ApplyWrote,
           ApplyWroteNothing, DropTail, Forget, ChainInv, TypeOK
  <1>2. /\ k = key[c] /\ lastApplied'[k].client = token[c].client
        /\ lastApplied'[k].seq = token[c].seq
    BY <1>1, WriteEffect
  <1> QED
    BY <1>1, <1>2 DEF AheadOK, ApplyWrote

THEOREM RecordsRise == Spec => RecordRises
  <1>1. ChainInv /\ AheadOK /\ [Next]_vars =>
          [\A k \in Key :
             (lastApplied'[k] # lastApplied[k]
                /\ lastApplied[k] # NoRecord /\ lastApplied'[k] # NoRecord
                /\ lastApplied'[k].client = lastApplied[k].client)
             => lastApplied'[k].seq > lastApplied[k].seq]_vars
    BY WriteRises
  <1> QED
    BY <1>1, AheadInit, AheadStep, ChainHolds, PTL DEF Spec, RecordRises

-----------------------------------------------------------------------------
(* The bound on memory.  A record carries the number of the insertion that *)
(* made it, insertions are numbered apart, and there are never more than   *)
(* MaxKeys records; so the one dropped is the one written first.           *)

Dated(la, at, n) ==
    /\ \A k \in Recorded(la) : la[k].stamp = at[k] /\ at[k] \in 1 .. n
    /\ \A j, k \in Recorded(la) : at[j] = at[k] => j = k

Fits(la) == IsFiniteSet(Recorded(la)) /\ Cardinality(Recorded(la)) <= MaxKeys

AgesOK == Dated(lastApplied, wroteAt, clock) /\ Fits(lastApplied)

Put(f, k, v) == [f EXCEPT ![k] = v]

(* Among finitely many records there is an oldest one. *)
LEMMA OldestIsOldest ==
    ASSUME NEW la \in [Key -> Record \cup {NoRecord}],
           IsFiniteSet(Recorded(la)), Recorded(la) # {}
    PROVE  /\ Oldest(la) \in Recorded(la)
           /\ \A j \in Recorded(la) : la[Oldest(la)].stamp <= la[j].stamp
  <1> DEFINE R == Recorded(la)
             Older(k) == {j \in R : la[j].stamp < la[k].stamp}
             sets == {Older(k) : k \in R}
  <1>1. \A k \in R : la[k].stamp \in Nat
    BY NoneAssumption DEF Recorded, Record
  <1>2. IsWellFoundedOn(StrictSubsetOrdering(R), FiniteSubsetsOf(R))
    BY FS_StrictSubsetOrderingWellFounded
  <1>3. sets \subseteq FiniteSubsetsOf(R) /\ sets # {}
    <2>1. ASSUME NEW k \in R PROVE Older(k) \in FiniteSubsetsOf(R)
      <3>1. Older(k) \in SUBSET R
        OBVIOUS
      <3> QED
        BY <3>1, FS_Subset DEF FiniteSubsetsOf
    <2>2. PICK k \in R : TRUE
      OBVIOUS
    <2>3. Older(k) \in sets
      OBVIOUS
    <2> HIDE DEF Older
    <2> QED
      BY <2>1, <2>3
  <1>4. PICK x \in sets : \A y \in sets : ~(<<y, x>> \in StrictSubsetOrdering(R))
    <2> HIDE DEF sets
    <2> QED
      BY <1>2, <1>3, WFMin
  <1>5. PICK k \in R : x = Older(k)
    OBVIOUS
  <1>6. \A j \in R : la[k].stamp <= la[j].stamp
    <2> SUFFICES ASSUME NEW j \in R, la[j].stamp < la[k].stamp PROVE FALSE
      BY <1>1
    <2>1. Older(j) \subseteq Older(k)
      BY <1>1
    <2>2. j \in Older(k) /\ j \notin Older(j)
      BY <1>1
    <2>3. Older(j) \subseteq R /\ Older(k) \subseteq R /\ Older(j) # Older(k)
      BY <2>2
    <2>4. Older(j) \in sets
      OBVIOUS
    <2> HIDE DEF Older, sets
    <2>5. <<Older(j), Older(k)>> \in StrictSubsetOrdering(R)
      BY <2>1, <2>3 DEF StrictSubsetOrdering
    <2> QED
      BY <1>4, <1>5, <2>4, <2>5
  <1> QED
    BY <1>6 DEF Oldest

(* Fewer records are still dated and still fit. *)
LEMMA DropKeepsAges ==
    ASSUME NEW la, NEW lb, NEW at, NEW n, Dated(la, at, n), Fits(la),
           \A k \in Key : lb[k] \in {la[k], NoRecord}
    PROVE  Dated(lb, at, n) /\ Fits(lb)
  <1>1. Recorded(lb) \in SUBSET Recorded(la) /\ \A k \in Recorded(lb) : lb[k] = la[k]
    BY DEF Recorded
  <1>2. Dated(lb, at, n)
    BY <1>1 DEF Dated
  <1>3. IsFiniteSet(Recorded(lb)) /\ Cardinality(Recorded(lb)) <= Cardinality(Recorded(la))
    BY <1>1, FS_Subset DEF Fits
  <1>4. Cardinality(Recorded(lb)) \in Nat /\ Cardinality(Recorded(la)) \in Nat
    BY <1>3, FS_CardinalityType DEF Fits
  <1> QED
    BY <1>2, <1>3, <1>4, BoundAssumption DEF Fits

(* One insertion: the record of `key` is the newest, and with one record   *)
(* too many the oldest of the others goes.                                 *)
LEMMA InsertKeepsAges ==
    ASSUME NEW la \in [Key -> Record \cup {NoRecord}], NEW at \in [Key -> Nat], NEW n \in Nat,
           Dated(la, at, n), Fits(la),
           NEW k \in Key, NEW r \in Record, r.stamp = n + 1
    PROVE  /\ Dated(Evicted(Put(la, k, r)), Put(at, k, n + 1), n + 1) /\ Fits(Evicted(Put(la, k, r)))
           /\ \A j \in Key : la[j] # NoRecord /\ Evicted(Put(la, k, r))[j] = NoRecord =>
                /\ Cardinality(Recorded(la)) = MaxKeys
                /\ \A i \in Recorded(Evicted(Put(la, k, r))) : at[j] < Put(at, k, n + 1)[i]
  <1> DEFINE lb == Put(la, k, r)
             bt == Put(at, k, n + 1)
  <1>1. lb \in [Key -> Record \cup {NoRecord}] /\ r # NoRecord
    BY NoneAssumption DEF Put, Record, NoRecord
  <1>2. /\ \A j \in Key : lb[j] = IF j = k THEN r ELSE la[j]
        /\ \A j \in Key : bt[j] = IF j = k THEN n + 1 ELSE at[j]
    BY DEF Put
  <1> HIDE DEF lb, bt
  <1>3. Recorded(lb) = Recorded(la) \cup {k}
    BY <1>1, <1>2 DEF Recorded
  <1>4. Recorded(la) \subseteq Key
    BY DEF Recorded
  <1>5. Dated(lb, bt, n + 1)
    <2>1. ASSUME NEW j \in Recorded(lb) PROVE lb[j].stamp = bt[j] /\ bt[j] \in 1 .. n + 1
      <3>1. CASE j = k
        BY <1>2, <3>1
      <3>2. CASE j # k
        <4>1. j \in Recorded(la) /\ j \in Key
          BY <1>3, <1>4, <3>2
        <4>2. la[j].stamp = at[j] /\ at[j] \in 1 .. n
          BY <4>1 DEF Dated
        <4> QED
          BY <1>2, <3>2, <4>1, <4>2
      <3> QED
        BY <3>1, <3>2
    <2>2. ASSUME NEW i \in Recorded(lb), NEW j \in Recorded(lb), bt[i] = bt[j] PROVE i = j
      <3>1. \A m \in Recorded(la) : at[m] \in 1 .. n
        BY DEF Dated
      <3>2. ASSUME NEW m \in Recorded(lb), m # k
            PROVE  m \in Recorded(la) /\ bt[m] = at[m] /\ bt[m] \in 1 .. n /\ bt[m] # bt[k]
        <4>1. m \in Recorded(la) /\ m \in Key
          BY <1>3, <1>4, <3>2
        <4>2. bt[m] = at[m] /\ bt[k] = n + 1
          BY <1>2, <3>2, <4>1
        <4>3. at[m] \in 1 .. n
          BY <3>1, <4>1
        <4> QED
          BY <4>1, <4>2, <4>3
      <3>3. CASE i = k \/ j = k
        BY <2>2, <3>2, <3>3
      <3>4. CASE i # k /\ j # k
        BY <2>2, <3>2, <3>4 DEF Dated
      <3> QED
        BY <3>3, <3>4
    <2> QED
      BY <2>1, <2>2 DEF Dated
  <1>6. /\ IsFiniteSet(Recorded(lb))
        /\ Cardinality(Recorded(lb)) =
             IF k \in Recorded(la) THEN Cardinality(Recorded(la)) ELSE Cardinality(Recorded(la)) + 1
    <2>1. IsFiniteSet(Recorded(la))
      BY DEF Fits
    <2>2. /\ IsFiniteSet(Recorded(la) \cup {k})
          /\ Cardinality(Recorded(la) \cup {k}) =
               IF k \in Recorded(la) THEN Cardinality(Recorded(la)) ELSE Cardinality(Recorded(la)) + 1
      BY <2>1, FS_AddElement
    <2> QED
      BY <1>3, <2>2
  <1>7. Cardinality(Recorded(lb)) \in Nat /\ Cardinality(Recorded(la)) \in Nat
    BY <1>6, FS_CardinalityType DEF Fits
  <1> HIDE DEF Dated
  <1>8. CASE Cardinality(Recorded(lb)) <= MaxKeys
    <2>1. Evicted(lb) = lb
      BY <1>7, <1>8, BoundAssumption DEF Evicted
    <2>2. \A j \in Key : la[j] # NoRecord => lb[j] # NoRecord
      BY <1>1, <1>2
    <2> QED
      BY <1>5, <1>6, <1>8, <2>1, <2>2 DEF Fits, lb, bt
  <1>9. CASE Cardinality(Recorded(lb)) > MaxKeys
    <2> DEFINE o == Oldest(lb)
    <2>1. k \notin Recorded(la) /\ Cardinality(Recorded(la)) = MaxKeys
      BY <1>6, <1>7, <1>9, BoundAssumption DEF Fits
    <2>2. o \in Recorded(lb) /\ \A j \in Recorded(lb) : lb[o].stamp <= lb[j].stamp
      BY <1>1, <1>3, <1>6, OldestIsOldest
    <2> HIDE DEF o
    <2>3. Evicted(lb) = [lb EXCEPT ![o] = NoRecord]
      BY <1>9 DEF Evicted, o
    <2>4. o \in Key
      BY <2>2 DEF Recorded
    <2>5. \A j \in Key : Evicted(lb)[j] = IF j = o THEN NoRecord ELSE lb[j]
      BY <1>1, <2>3, <2>4
    <2>6. Recorded(Evicted(lb)) = Recorded(lb) \ {o}
      BY <2>5 DEF Recorded
    <2>7. Fits(Evicted(lb))
      <3>1. IsFiniteSet(Recorded(lb) \ {o}) /\ Cardinality(Recorded(lb) \ {o}) = Cardinality(Recorded(lb)) - 1
        BY <1>6, <2>2, FS_RemoveElement
      <3>2. Cardinality(Recorded(lb)) = MaxKeys + 1
        BY <1>6, <2>1
      <3>3. Cardinality(Recorded(lb)) - 1 <= MaxKeys
        BY <3>2, BoundAssumption
      <3> QED
        BY <2>6, <3>1, <3>3 DEF Fits
    <2>8. Dated(Evicted(lb), bt, n + 1)
      <3>1. \A j \in Recorded(Evicted(lb)) : j \in Recorded(lb) /\ Evicted(lb)[j] = lb[j]
        BY <2>5, <2>6 DEF Recorded
      <3> QED
        BY <1>5, <3>1 DEF Dated
    <2>9. ASSUME NEW j \in Key, la[j] # NoRecord, Evicted(lb)[j] = NoRecord,
                 NEW i \in Recorded(Evicted(lb))
          PROVE  at[j] < bt[i]
      <3>1. j # k /\ j = o
        BY <1>2, <2>1, <2>5, <2>9 DEF Recorded
      <3>2. i \in Recorded(lb) /\ i # o /\ lb[o].stamp <= lb[i].stamp
        BY <2>2, <2>6
      <3>3. /\ lb[o].stamp = bt[o] /\ lb[i].stamp = bt[i] /\ bt[o] # bt[i]
            /\ bt[o] \in 1 .. n + 1 /\ bt[i] \in 1 .. n + 1
        <4>1. \A m \in Recorded(lb) : lb[m].stamp = bt[m] /\ bt[m] \in 1 .. n + 1
          BY <1>5 DEF Dated
        <4>2. bt[o] # bt[i]
          BY <1>5, <2>2, <3>2 DEF Dated
        <4> QED
          BY <2>2, <3>2, <4>1, <4>2
      <3>4. bt[o] = at[j]
        BY <1>2, <3>1
      <3> QED
        BY <3>2, <3>3, <3>4
    <2> QED
      BY <2>1, <2>7, <2>8, <2>9 DEF lb, bt
  <1>10. Cardinality(Recorded(lb)) <= MaxKeys \/ Cardinality(Recorded(lb)) > MaxKeys
    BY <1>7, BoundAssumption
  <1> QED
    BY <1>8, <1>9, <1>10, Zenon

(* A recorded write is one insertion. *)
LEMMA WriteInserts ==
    ASSUME ChainInv, AgesOK, NEW c \in Call, ApplyWrote(c), token[c] # NoToken
    PROVE  /\ AgesOK'
           /\ \A k \in Key : lastApplied[k] # NoRecord /\ lastApplied'[k] = NoRecord =>
                /\ Cardinality(Recorded(lastApplied)) = MaxKeys
                /\ \A j \in Recorded(lastApplied') : wroteAt[k] < wroteAt'[j]
  <1> DEFINE r == [client |-> token[c].client, seq |-> token[c].seq, stamp |-> clock + 1]
  <1>1. /\ lastApplied \in [Key -> Record \cup {NoRecord}] /\ wroteAt \in [Key -> Nat]
        /\ clock \in Nat /\ key[c] \in Key /\ token[c] \in SaveToken
    BY DEF ChainInv, TypeOK, ArrivalsOK, Made, ApplyWrote
  <1>2. r \in Record /\ r.stamp = clock + 1
    BY <1>1 DEF SaveToken, Record
  <1>3. /\ lastApplied' = Evicted(Put(lastApplied, key[c], r)) /\ clock' = clock + 1
        /\ wroteAt' = Put(wroteAt, key[c], clock + 1)
    BY DEF ApplyWrote, RecordToken, Put
  <1> HIDE DEF r
  <1>4. Dated(lastApplied, wroteAt, clock) /\ Fits(lastApplied)
    BY DEF AgesOK
  <1> QED
    BY <1>1, <1>2, <1>3, <1>4, InsertKeepsAges DEF AgesOK

(* Any other step writes no record and moves no date. *)
LEMMA OthersInsertNothing ==
    ASSUME ChainInv, [Next]_vars, ~(\E c \in Call : ApplyWrote(c) /\ token[c] # NoToken)
    PROVE  /\ UNCHANGED <<clock, wroteAt>>
           /\ \A k \in Key : lastApplied'[k] \in {lastApplied[k], NoRecord}
  <1>1. ASSUME NEW k \in Key, Forget(k)
        PROVE  /\ UNCHANGED <<clock, wroteAt>>
               /\ \A j \in Key : lastApplied'[j] \in {lastApplied[j], NoRecord}
    BY <1>1 DEF Forget, ChainInv, TypeOK
  <1>2. ASSUME ~\E k \in Key : Forget(k)
        PROVE  UNCHANGED records
    BY <1>2 DEF Next, Step, vars, records, Run, RefuseStale, StartApply, ApplyWrote,
                ApplyWroteNothing, DropTail
  <1> QED
    BY <1>1, <1>2 DEF records

LEMMA AgesStep == ChainInv /\ AgesOK /\ [Next]_vars => AgesOK'
  <1> SUFFICES ASSUME ChainInv, AgesOK, [Next]_vars PROVE AgesOK'
    OBVIOUS
  <1>1. CASE \E c \in Call : ApplyWrote(c) /\ token[c] # NoToken
    BY <1>1, WriteInserts
  <1>2. CASE ~(\E c \in Call : ApplyWrote(c) /\ token[c] # NoToken)
    <2>1. /\ clock' = clock /\ wroteAt' = wroteAt
          /\ \A k \in Key : lastApplied'[k] \in {lastApplied[k], NoRecord}
      BY <1>2, OthersInsertNothing
    <2>2. Dated(lastApplied', wroteAt, clock) /\ Fits(lastApplied')
      BY <2>1, DropKeepsAges DEF AgesOK
    <2> QED
      BY <2>1, <2>2 DEF AgesOK
  <1> QED
    BY <1>1, <1>2

LEMMA AgesInit == Init => AgesOK
  <1> SUFFICES ASSUME Init PROVE AgesOK
    OBVIOUS
  <1>1. Recorded(lastApplied) = {}
    BY DEF Init, Recorded
  <1> QED
    BY <1>1, FS_EmptySet, BoundAssumption DEF AgesOK, Dated, Fits

(* The record that an insertion pushes out is the least recently written   *)
(* of a full map (`record` in saveSequencer.ts, which reinserts a key to   *)
(* make it the newest), for any number of keys and any maxKeys.            *)
THEOREM EvictionsTakeTheOldest == Spec => EvictsLeastRecent
  <1>1. ChainInv /\ AgesOK /\ [Next]_vars =>
          [\A k \in Key :
             (lastApplied[k] # NoRecord /\ lastApplied'[k] = NoRecord /\ clock' # clock)
             => /\ Cardinality(Recorded(lastApplied)) = MaxKeys
                /\ \A j \in Recorded(lastApplied') : wroteAt[k] < wroteAt'[j]]_vars
    <2> SUFFICES ASSUME ChainInv, AgesOK, [Next]_vars, NEW k \in Key,
                        lastApplied[k] # NoRecord, lastApplied'[k] = NoRecord, clock' # clock
                 PROVE  /\ Cardinality(Recorded(lastApplied)) = MaxKeys
                        /\ \A j \in Recorded(lastApplied') : wroteAt[k] < wroteAt'[j]
      OBVIOUS
    <2>1. PICK c \in Call : ApplyWrote(c) /\ token[c] # NoToken
      BY OthersInsertNothing
    <2> QED
      BY <2>1, WriteInserts
  <1> QED
    BY <1>1, AgesInit, AgesStep, ChainHolds, PTL DEF Spec, EvictsLeastRecent
-----------------------------------------------------------------------------
(* The JSON file, for any workspaces, callers, calls and restarts. *)

JsonSizes == Workspace # {} /\ MaxVersion \in Nat

Files == [Workspace -> Int]
Ats == {"idle", "queued", "read", "written", "renamed", "over"}
Changes ==
  [at : Ats, op : Json!Promise!Op, seen : Files, outcome : {"none", "ok", "refused", "failed"}, version : Int]

JsonTypes ==
  /\ list \in Files /\ temp \in Files /\ queue \in Seq(Caller)
  /\ job \in [Caller -> Changes]

(* A change is under way at the head of the queue, and no other is: what   *)
(* it read is the file, and what it wrote follows from that.               *)
UnderWay(r) == job[r].at \in {"read", "written", "renamed"}
TurnsAreTaken ==
  \A r \in Caller :
    /\ UnderWay(r) => queue # <<>> /\ Head(queue) = r
    /\ job[r].at # "over" => job[r].outcome = "none"
    /\ job[r].at \in {"idle", "queued", "read"} => job[r].version = 0
    /\ job[r].at \in {"read", "written"} => job[r].seen = list
    /\ job[r].at = "written" =>
         /\ ~Json!Promise!Refused(job[r].op, list) /\ temp = Json!Promise!After(job[r].op, list)
         /\ job[r].version = Json!Promise!Answer(job[r].op, list)

JsonInv == JsonTypes /\ TurnsAreTaken

(* Reads that fail are the only trouble with reads. *)
ReadsAreSafe == \A t \in Troubles : "read fails" \in t => t = {"read fails"}

(* Where reads fail, the server has the list of the file, but for the      *)
(* moment between a rename and its return.                                 *)
CacheIsCurrent ==
  "read fails" \in trouble =>
    /\ trouble = {"read fails"} /\ look = Json!NoFile
    /\ cache = list \/ \E r \in Caller : job[r].at = "renamed"

LEMMA OpFacts ==
  ASSUME JsonSizes, NEW op \in Json!Promise!Op
  PROVE  op.kind \in {"create", "remove", "update", "restore"} /\ op.ws \in Workspace /\ op.from \in Files
<1>1. Json!Promise!Nothing \in Files
  BY DEF Json!Promise!Nothing, Files
<1>2. CASE op \in Json!Promise!Change
  BY <1>1, <1>2 DEF Json!Promise!Change
<1>3. CASE op \in Json!Promise!Update
  BY <1>1, <1>3 DEF Json!Promise!Update
<1>4. CASE op \in Json!Promise!Restore
  <2>1. Saved \subseteq Files
    BY DEF Saved, Files
  <2>2. (CHOOSE w \in Workspace : TRUE) \in Workspace
    BY DEF JsonSizes
  <2> QED BY <1>4, <2>1, <2>2 DEF Json!Promise!Restore
<1> QED BY <1>2, <1>3, <1>4 DEF Json!Promise!Op

LEMMA NoChange ==
  ASSUME JsonSizes
  PROVE  /\ Json!Promise!NoCall.op \in Json!Promise!Op /\ Json!NoFile \in Files
         /\ Json!NoJob = [at |-> "idle", op |-> Json!Promise!NoCall.op, seen |-> Json!NoFile, outcome |-> "none", version |-> 0]
         /\ Json!NoJob \in Changes
<1>1. Json!Promise!Change # {}
  <2>1. PICK w \in Workspace : TRUE
    BY DEF JsonSizes
  <2>2. [kind |-> "create", ws |-> w, expected |-> 0, from |-> Json!Promise!Nothing] \in Json!Promise!Change
    BY DEF Json!Promise!Change
  <2> QED BY <2>2
<1>2. (CHOOSE op \in Json!Promise!Change : TRUE) \in Json!Promise!Op
  BY <1>1 DEF Json!Promise!Op
<1>3. Json!Promise!NoCall.op \in Json!Promise!Op
  BY <1>2 DEF Json!Promise!NoCall
<1>4. Json!NoFile \in Files
  BY DEF Json!NoFile, Files
<1>5. Json!NoJob = [at |-> "idle", op |-> Json!Promise!NoCall.op, seen |-> Json!NoFile, outcome |-> "none", version |-> 0]
  BY DEF Json!NoJob
<1> QED BY <1>3, <1>4, <1>5 DEF Changes, Ats

LEMMA AfterTyped ==
  ASSUME JsonSizes, NEW op \in Json!Promise!Op, NEW l \in Files
  PROVE  Json!Promise!After(op, l) \in Files /\ Json!Promise!Answer(op, l) \in Int
<1>1. op.kind \in {"create", "remove", "update", "restore"} /\ op.ws \in Workspace /\ op.from \in Files
  BY OpFacts
<1>2. \A a \in Int : Json!Promise!Updated(a) \in Int
  BY DEF Json!Promise!Updated
<1>3. \A a, b \in Int : Json!Promise!Restored(a, b) \in Int
  BY DEF Json!Promise!Restored
<1>4. Json!Promise!After(op, l) \in Files
  <2>1. CASE op.kind = "create"
    <3>1. Json!Promise!After(op, l) = [l EXCEPT ![op.ws] = 1]
      BY <2>1 DEF Json!Promise!After
    <3> QED BY <1>1, <3>1 DEF Files
  <2>2. CASE op.kind = "update"
    <3>1. Json!Promise!After(op, l) = [l EXCEPT ![op.ws] = Json!Promise!Updated(l[op.ws])]
      BY <2>2 DEF Json!Promise!After
    <3> QED BY <1>1, <1>2, <3>1 DEF Files
  <2>3. CASE op.kind = "remove"
    <3>1. Json!Promise!After(op, l) = [l EXCEPT ![op.ws] = 0]
      BY <2>3 DEF Json!Promise!After
    <3> QED BY <1>1, <3>1 DEF Files
  <2>4. CASE op.kind = "restore"
    <3>1. Json!Promise!After(op, l) = [w \in Workspace |-> Json!Promise!Restored(l[w], op.from[w])]
      BY <2>4 DEF Json!Promise!After
    <3>2. \A w \in Workspace : l[w] \in Int /\ op.from[w] \in Int
      BY <1>1 DEF Files
    <3> QED BY <1>3, <3>1, <3>2 DEF Files
  <2> QED BY <1>1, <2>1, <2>2, <2>3, <2>4
<1>5. Json!Promise!Answer(op, l) \in Int
  BY <1>1, <1>4 DEF Json!Promise!Answer, Files
<1> QED BY <1>4, <1>5

LEMMA JsonInitHolds == ASSUME JsonSizes PROVE Json!Init => JsonInv
<1> SUFFICES ASSUME Json!Init PROVE JsonInv
  OBVIOUS
<1>1. /\ list \in Begun /\ temp = Json!NoFile /\ queue = <<>> /\ job = [r \in Caller |-> Json!NoJob]
  BY DEF Json!Init
<1>2. Begun \subseteq Files
  BY DEF Begun, Files
<1>3. \A r \in Caller : job[r].at = "idle" /\ job[r].outcome = "none" /\ job[r].version = 0
  BY <1>1, NoChange
<1>4. JsonTypes
  BY <1>1, <1>2, NoChange DEF JsonTypes
<1>5. TurnsAreTaken
  BY <1>3 DEF TurnsAreTaken, UnderWay
<1> QED BY <1>4, <1>5 DEF JsonInv

(* What is told of a change *)
Told == [at : {"idle", "asked", "done", "over"}, op : Json!Promise!Op, outcome : {"none", "ok", "refused", "failed"}, version : Int]

LEMMA Telling ==
  ASSUME NEW j \in Changes
  PROVE  Json!Told(j) =
           [at |-> IF j.at \in {"queued", "read", "written"} THEN "asked" ELSE IF j.at = "renamed" THEN "done" ELSE j.at,
            op |-> j.op, outcome |-> j.outcome, version |-> IF j.at = "written" THEN 0 ELSE j.version]
<1>1. j.at \in Ats
  BY DEF Changes
<1>2. Json!Stage(j.at) = IF j.at \in {"queued", "read", "written"} THEN "asked" ELSE IF j.at = "renamed" THEN "done" ELSE j.at
  BY <1>1 DEF Ats, Json!Stage
<1> QED BY <1>2 DEF Json!Told

LEMMA JobMoves ==
  ASSUME JsonInv, NEW r \in Caller, NEW d \in Changes, job' = [job EXCEPT ![r] = d]
  PROVE  /\ job' \in [Caller -> Changes] /\ job'[r] = d /\ \A o \in Caller \ {r} : job'[o] = job[o]
         /\ Json!Calls' = [Json!Calls EXCEPT ![r] = Json!Told(d)]
<1>1. job \in [Caller -> Changes]
  BY DEF JsonInv, JsonTypes
<1>2. Json!Calls' = [Json!Calls EXCEPT ![r] = Json!Told(d)]
  BY <1>1 DEF Json!Calls
<1> QED BY <1>1, <1>2

LEMMA CallOf == ASSUME JsonInv, NEW r \in Caller PROVE Json!Calls[r] = Json!Told(job[r]) /\ job[r] \in Changes
  BY DEF JsonInv, JsonTypes, Json!Calls

LEMMA OnlyOne == ASSUME JsonInv, NEW r \in Caller, NEW o \in Caller, UnderWay(r), UnderWay(o) PROVE o = r
  BY DEF JsonInv, TurnsAreTaken

(* A call that nobody has made, as the promise has it *)
LEMMA NoCallIs ==
  ASSUME JsonSizes
  PROVE  /\ Json!Promise!NoCall = [at |-> "idle", op |-> Json!Promise!NoCall.op, outcome |-> "none", version |-> 0]
         /\ Json!Told(Json!NoJob) = Json!Promise!NoCall
<1>1. Json!Promise!NoCall = [at |-> "idle", op |-> Json!Promise!NoCall.op, outcome |-> "none", version |-> 0]
  BY DEF Json!Promise!NoCall
<1>2. Json!Told(Json!NoJob) = [at |-> "idle", op |-> Json!Promise!NoCall.op, outcome |-> "none", version |-> 0]
  BY Telling, NoChange
<1> QED BY <1>1, <1>2

LEMMA JsonAskHolds ==
  ASSUME JsonSizes, JsonInv, NEW r \in Caller, NEW op \in Json!Promise!Op, Json!Ask(r, op)
  PROVE  JsonInv' /\ Json!Promise!Ask(r, op)
<1> DEFINE d == [Json!NoJob EXCEPT !.at = "queued", !.op = op]
           asked == [Json!Promise!NoCall EXCEPT !.at = "asked", !.op = op]
<1>1. /\ job[r].at \in {"idle", "over"} /\ queue' = Append(queue, r) /\ UNCHANGED <<list, temp>>
      /\ job' = [job EXCEPT ![r] = [Json!NoJob EXCEPT !.at = "queued", !.op = op]]
  BY DEF Json!Ask
<1>2. /\ d \in Changes /\ d.at = "queued" /\ d.op = op /\ d.outcome = "none" /\ d.version = 0
  BY NoChange DEF Json!NoJob, Changes, Ats
<1>3. /\ asked \in Told /\ asked.at = "asked" /\ asked.op = op /\ asked.outcome = "none" /\ asked.version = 0
  <2>1. Json!Promise!NoCall \in Told /\ Json!Promise!NoCall.outcome = "none" /\ Json!Promise!NoCall.version = 0
    BY NoChange DEF Json!Promise!NoCall, Told
  <2> QED BY <2>1 DEF Told
<1>4. job' = [job EXCEPT ![r] = d] /\ Json!Calls[r] = Json!Told(job[r])
  BY <1>1, CallOf
<1> HIDE DEF d, asked
<1>5. /\ job' \in [Caller -> Changes] /\ job'[r] = d /\ \A o \in Caller \ {r} : job'[o] = job[o]
      /\ Json!Calls' = [Json!Calls EXCEPT ![r] = Json!Told(d)]
  BY <1>2, <1>4, JobMoves
<1>6. queue \in Seq(Caller)
  BY DEF JsonInv, JsonTypes
<1>7. queue' \in Seq(Caller) /\ (queue # <<>> => queue' # <<>> /\ Head(queue') = Head(queue))
  BY <1>1, <1>6
<1>8. JsonTypes'
  BY <1>1, <1>5, <1>7 DEF JsonInv, JsonTypes
<1>9. TurnsAreTaken'
  <2>1. \A o \in Caller : o # r /\ UnderWay(o)' => queue' # <<>> /\ Head(queue') = o
    BY <1>5, <1>7 DEF JsonInv, TurnsAreTaken, UnderWay
  <2> QED BY <1>1, <1>2, <1>5, <2>1 DEF JsonInv, TurnsAreTaken, UnderWay
<1>10. Json!Calls[r].at \in {"idle", "over"}
  BY <1>1, CallOf, Telling
<1>11. Json!Told(d) = asked
  BY <1>2, <1>3, Telling DEF Told
<1>12. Json!Promise!Ask(r, op)
  BY <1>1, <1>5, <1>10, <1>11 DEF asked, Json!Promise!Ask
<1> QED BY <1>8, <1>9, <1>12 DEF JsonInv

(* A change that has its turn gets the file, also when its read fails. *)
LEMMA TurnGetsTheFile ==
  ASSUME JsonInv, CacheIsCurrent, NEW r \in Caller, job[r].at = "queued", Json!Turn(r)
  PROVE  Json!Got = {list}
<1>1. CASE "read fails" \in trouble
  <2>1. \A o \in Caller : job[o].at # "renamed"
    BY DEF JsonInv, TurnsAreTaken, UnderWay, Json!Turn
  <2>2. cache = list
    BY <1>1, <2>1 DEF CacheIsCurrent
  <2> QED BY <1>1, <2>2 DEF Json!Got
<1>2. CASE "read fails" \notin trouble
  BY <1>2 DEF Json!Got
<1> QED BY <1>1, <1>2

LEMMA JsonReadHolds ==
  ASSUME JsonSizes, JsonInv, CacheIsCurrent, NEW r \in Caller, Json!Read(r)
  PROVE  JsonInv' /\ UNCHANGED <<list, Json!Calls>>
<1> DEFINE d == [job[r] EXCEPT !.at = "read", !.seen = list]
<1>1. /\ job[r].at = "queued" /\ queue # <<>> /\ Head(queue) = r /\ UNCHANGED <<list, temp, queue>>
  BY DEF Json!Read, Json!Turn
<1>2. job \in [Caller -> Changes] /\ job[r] \in Changes /\ list \in Files
  BY DEF JsonInv, JsonTypes
<1>3. job' = [job EXCEPT ![r] = d]
  <2>1. PICK l \in Json!Got : job' = [job EXCEPT ![r].at = "read", ![r].seen = l]
    BY DEF Json!Read
  <2>2. l = list
    BY <2>1, TurnGetsTheFile DEF Json!Read
  <2> QED BY <1>2, <2>1, <2>2
<1>4. /\ d \in Changes /\ d.at = "read" /\ d.seen = list /\ d.op = job[r].op
      /\ d.outcome = job[r].outcome /\ d.version = job[r].version
  BY <1>2 DEF Changes, Ats
<1> HIDE DEF d
<1>5. /\ job' \in [Caller -> Changes] /\ job'[r] = d /\ \A o \in Caller \ {r} : job'[o] = job[o]
      /\ Json!Calls' = [Json!Calls EXCEPT ![r] = Json!Told(d)]
  BY <1>3, <1>4, JobMoves
<1>6. Json!Told(d) = Json!Told(job[r])
  BY <1>1, <1>2, <1>4, Telling
<1>7. UNCHANGED Json!Calls
  BY <1>2, <1>5, <1>6 DEF Json!Calls
<1>8. JsonTypes'
  BY <1>1, <1>5 DEF JsonInv, JsonTypes
<1>9. TurnsAreTaken'
  BY <1>1, <1>4, <1>5 DEF JsonInv, TurnsAreTaken, UnderWay
<1> QED BY <1>1, <1>7, <1>8, <1>9 DEF JsonInv

LEMMA JsonWriteHolds ==
  ASSUME JsonSizes, JsonInv, NEW r \in Caller, Json!Write(r)
  PROVE  JsonInv' /\ UNCHANGED <<list, Json!Calls>>
<1> DEFINE version == Json!Promise!Answer(job[r].op, job[r].seen)
           d == [job[r] EXCEPT !.at = "written", !.version = version]
<1>1. /\ job[r].at = "read" /\ UNCHANGED <<list, queue>>
      /\ ~Json!Promise!Refused(job[r].op, job[r].seen)
      /\ temp' = Json!Promise!After(job[r].op, job[r].seen)
  BY DEF Json!Write
<1>2. job \in [Caller -> Changes] /\ job[r] \in Changes /\ job[r].op \in Json!Promise!Op /\ job[r].seen = list /\ list \in Files
  BY <1>1 DEF JsonInv, JsonTypes, TurnsAreTaken, Changes
<1>3. job' = [job EXCEPT ![r] = d]
  BY <1>2 DEF Json!Write
<1>4. version \in Int /\ temp' \in Files /\ version = Json!Promise!Answer(job[r].op, list)
  BY <1>1, <1>2, AfterTyped
<1>5. /\ d \in Changes /\ d.at = "written" /\ d.seen = job[r].seen /\ d.op = job[r].op
      /\ d.outcome = job[r].outcome /\ d.version = version
  <2> HIDE DEF version
  <2> QED BY <1>2, <1>4 DEF Changes, Ats
<1> HIDE DEF d, version
<1>6. /\ job' \in [Caller -> Changes] /\ job'[r] = d /\ \A o \in Caller \ {r} : job'[o] = job[o]
      /\ Json!Calls' = [Json!Calls EXCEPT ![r] = Json!Told(d)]
  BY <1>3, <1>5, JobMoves
<1>7. job[r].version = 0
  BY <1>1 DEF JsonInv, TurnsAreTaken
<1>8. Json!Told(d) = Json!Told(job[r])
  BY <1>1, <1>2, <1>5, <1>7, Telling
<1>9. UNCHANGED Json!Calls
  BY <1>2, <1>6, <1>8 DEF Json!Calls
<1>10. JsonTypes'
  BY <1>1, <1>4, <1>6 DEF JsonInv, JsonTypes
<1>11. TurnsAreTaken'
  <2>1. ASSUME NEW o \in Caller \ {r} PROVE ~UnderWay(o) /\ job'[o] = job[o]
    BY <1>1, <1>6, OnlyOne DEF UnderWay
  <2>2. queue # <<>> /\ Head(queue) = r
    BY <1>1 DEF JsonInv, TurnsAreTaken, UnderWay
  <2>3. ~Json!Promise!Refused(job[r].op, list) /\ temp' = Json!Promise!After(job[r].op, list)
    BY <1>1, <1>2
  <2> QED BY <1>1, <1>2, <1>4, <1>5, <1>6, <2>1, <2>2, <2>3 DEF JsonInv, TurnsAreTaken, UnderWay
<1> QED BY <1>1, <1>9, <1>10, <1>11 DEF JsonInv

(* The rename is where a change takes effect, on the list it was worked    *)
(* out from.                                                               *)
LEMMA JsonRenameHolds ==
  ASSUME JsonSizes, JsonInv, NEW r \in Caller, Json!Rename(r)
  PROVE  JsonInv' /\ Json!Promise!TakeEffect(r)
<1> DEFINE d == [job[r] EXCEPT !.at = "renamed"]
           done == [Json!Calls[r] EXCEPT !.at = "done", !.version = Json!Promise!Answer(Json!Calls[r].op, list)]
<1>1. job[r].at = "written" /\ list' = temp /\ temp' = Json!NoFile /\ UNCHANGED queue
  BY DEF Json!Rename
<1>2. /\ job \in [Caller -> Changes] /\ job[r] \in Changes /\ job[r].op \in Json!Promise!Op
      /\ list \in Files /\ temp \in Files /\ job[r].outcome \in {"none", "ok", "refused", "failed"} /\ job[r].version \in Int
  BY DEF JsonInv, JsonTypes, Changes
<1>3. /\ ~Json!Promise!Refused(job[r].op, list) /\ temp = Json!Promise!After(job[r].op, list)
      /\ job[r].version = Json!Promise!Answer(job[r].op, list)
      /\ queue # <<>> /\ Head(queue) = r
  BY <1>1 DEF JsonInv, TurnsAreTaken, UnderWay
<1>4. job' = [job EXCEPT ![r] = d]
  BY <1>2 DEF Json!Rename
<1>5. /\ d \in Changes /\ d.at = "renamed" /\ d.op = job[r].op /\ d.outcome = job[r].outcome /\ d.version = job[r].version
  BY <1>2 DEF Changes, Ats
<1>6. Json!Calls[r] = [at |-> "asked", op |-> job[r].op, outcome |-> job[r].outcome, version |-> 0]
  BY <1>1, <1>2, CallOf, Telling
<1>7. Json!Calls[r] \in Told /\ Json!Calls[r].at = "asked" /\ Json!Calls[r].op = job[r].op /\ Json!Calls[r].outcome = job[r].outcome
  BY <1>2, <1>6 DEF Told
<1>8. Json!Promise!Answer(Json!Calls[r].op, list) = job[r].version
  BY <1>3, <1>7
<1>9. /\ done \in Told /\ done.at = "done" /\ done.op = job[r].op /\ done.outcome = job[r].outcome
      /\ done.version = job[r].version
  <2> DEFINE c == Json!Calls[r]
             v == Json!Promise!Answer(c.op, list)
  <2>1. done = [c EXCEPT !.at = "done", !.version = v]
    OBVIOUS
  <2>2. c \in Told /\ v = job[r].version /\ c.op = job[r].op /\ c.outcome = job[r].outcome
    BY <1>7, <1>8
  <2> HIDE DEF c, v, done
  <2> QED BY <1>2, <2>1, <2>2 DEF Told
<1> HIDE DEF d, done
<1>10. /\ job' \in [Caller -> Changes] /\ job'[r] = d /\ \A o \in Caller \ {r} : job'[o] = job[o]
       /\ Json!Calls' = [Json!Calls EXCEPT ![r] = Json!Told(d)]
  BY <1>4, <1>5, JobMoves
<1>11. Json!Told(d) = done
  BY <1>5, <1>9, Telling DEF Told
<1>12. Json!Promise!TakeEffect(r)
  <2>1. Json!Calls' = [Json!Calls EXCEPT ![r] = done]
    BY <1>10, <1>11
  <2>2. Json!Calls' = [Json!Calls EXCEPT ![r].at = "done", ![r].version = Json!Promise!Answer(Json!Calls[r].op, list)]
    BY <1>2, <2>1 DEF done, Json!Calls
  <2>3. ~Json!Promise!Refused(Json!Calls[r].op, list) /\ list' = Json!Promise!After(Json!Calls[r].op, list)
    BY <1>1, <1>3, <1>7
  <2> QED BY <1>7, <2>2, <2>3 DEF Json!Promise!TakeEffect
<1>13. JsonTypes'
  BY <1>1, <1>2, <1>10, NoChange DEF JsonInv, JsonTypes
<1>14. TurnsAreTaken'
  <2>1. ASSUME NEW o \in Caller \ {r} PROVE ~UnderWay(o) /\ job'[o] = job[o]
    BY <1>1, <1>10, OnlyOne DEF UnderWay
  <2>2. d.outcome = "none"
    BY <1>1, <1>5 DEF JsonInv, TurnsAreTaken
  <2> QED BY <1>1, <1>3, <1>5, <1>10, <2>1, <2>2 DEF JsonInv, TurnsAreTaken, UnderWay
<1> QED BY <1>12, <1>13, <1>14 DEF JsonInv

(* A change settles: nothing of it is under way any more. *)
LEMMA JsonEndHolds ==
  ASSUME JsonSizes, JsonInv, NEW r \in Caller, UnderWay(r), NEW result \in {"ok", "refused", "failed"},
         Json!End(r, result), UNCHANGED <<list, temp>>
  PROVE  /\ JsonInv'
         /\ Json!Calls' = [Json!Calls EXCEPT ![r] =
              [at |-> "over", op |-> Json!Promise!NoCall.op, outcome |-> result,
               version |-> IF result = "ok" THEN job[r].version ELSE 0]]
<1> DEFINE version == IF result = "ok" THEN job[r].version ELSE 0
           d == [Json!NoJob EXCEPT !.at = "over", !.outcome = result, !.version = version]
<1>1. job \in [Caller -> Changes] /\ job[r] \in Changes /\ queue \in Seq(Caller)
  BY DEF JsonInv, JsonTypes
<1>2. version \in Int
  BY <1>1 DEF Changes
<1>3. job' = [job EXCEPT ![r] = d] /\ queue' = Tail(queue)
  BY DEF Json!End, Json!Over
<1>4. queue # <<>>
  BY DEF JsonInv, TurnsAreTaken
<1>5. queue' \in Seq(Caller)
  BY <1>1, <1>3, <1>4
<1>6. /\ d \in Changes /\ d.at = "over" /\ d.op = Json!Promise!NoCall.op /\ d.outcome = result /\ d.version = version
  <2> HIDE DEF version
  <2> QED BY <1>2, NoChange DEF Json!NoJob, Changes, Ats
<1> HIDE DEF d
<1>7. /\ job' \in [Caller -> Changes] /\ job'[r] = d /\ \A o \in Caller \ {r} : job'[o] = job[o]
      /\ Json!Calls' = [Json!Calls EXCEPT ![r] = Json!Told(d)]
  BY <1>3, <1>6, JobMoves
<1>8. Json!Told(d) = [at |-> "over", op |-> Json!Promise!NoCall.op, outcome |-> result, version |-> version]
  BY <1>6, Telling
<1>9. JsonTypes'
  BY <1>5, <1>7 DEF JsonInv, JsonTypes
<1>10. TurnsAreTaken'
  <2>1. ASSUME NEW o \in Caller \ {r} PROVE ~UnderWay(o) /\ job'[o] = job[o]
    BY <1>7, OnlyOne
  <2> QED BY <1>6, <1>7, <2>1 DEF JsonInv, TurnsAreTaken, UnderWay
<1> QED BY <1>7, <1>8, <1>9, <1>10 DEF JsonInv

(* What the promise has of a call that is over *)
LEMMA NoCallOver ==
  ASSUME JsonSizes, NEW result \in {"ok", "refused", "failed"}
  PROVE  [Json!Promise!NoCall EXCEPT !.at = "over", !.outcome = result] =
           [at |-> "over", op |-> Json!Promise!NoCall.op, outcome |-> result, version |-> 0]
<1> DEFINE c == Json!Promise!NoCall
           b == [c EXCEPT !.at = "over", !.outcome = result]
           y == [at |-> "over", op |-> c.op, outcome |-> result, version |-> 0]
<1>1. c \in Told /\ c.version = 0 /\ c.op \in Json!Promise!Op
  BY NoChange DEF Json!Promise!NoCall, Told
<1> HIDE DEF c
<1>2. b \in Told /\ b.at = "over" /\ b.op = c.op /\ b.outcome = result /\ b.version = 0
  BY <1>1 DEF Told
<1>3. y \in Told /\ y.at = "over" /\ y.op = c.op /\ y.outcome = result /\ y.version = 0
  BY <1>1 DEF Told
<1>4. b = y
  <2> HIDE DEF b, y
  <2> QED BY <1>2, <1>3 DEF Told
<1> QED BY <1>4 DEF c

LEMMA NoCallAnswered ==
  ASSUME JsonSizes, NEW v \in Int
  PROVE  [Json!Promise!NoCall EXCEPT !.at = "over", !.outcome = "ok", !.version = v] =
           [at |-> "over", op |-> Json!Promise!NoCall.op, outcome |-> "ok", version |-> v]
<1> DEFINE c == Json!Promise!NoCall
           a == [c EXCEPT !.at = "over", !.outcome = "ok", !.version = v]
           x == [at |-> "over", op |-> c.op, outcome |-> "ok", version |-> v]
<1>1. c \in Told /\ c.op \in Json!Promise!Op
  BY NoChange DEF Json!Promise!NoCall, Told
<1> HIDE DEF c
<1>2. a \in Told /\ a.at = "over" /\ a.op = c.op /\ a.outcome = "ok" /\ a.version = v
  BY <1>1 DEF Told
<1>3. x \in Told /\ x.at = "over" /\ x.op = c.op /\ x.outcome = "ok" /\ x.version = v
  BY <1>1 DEF Told
<1>4. a = x
  <2> HIDE DEF a, x
  <2> QED BY <1>2, <1>3 DEF Told
<1> QED BY <1>4 DEF c

LEMMA JsonSettles ==
  ASSUME JsonSizes, JsonInv, NEW r \in Caller, Json!Refuse(r) \/ Json!Fail(r) \/ Json!Tell(r)
  PROVE  JsonInv' /\ (Json!Promise!Refuse(r) \/ Json!Promise!Fail(r) \/ Json!Promise!Tell(r))
<1>1. job[r] \in Changes /\ Json!Calls[r] = Json!Told(job[r])
  BY CallOf
<1>2. CASE Json!Refuse(r)
  <2>1. job[r].at = "read" /\ Json!Promise!Refused(job[r].op, job[r].seen) /\ Json!End(r, "refused") /\ UNCHANGED <<list, temp>>
    BY <1>2 DEF Json!Refuse
  <2>2. UnderWay(r) /\ Json!Promise!Refused(job[r].op, list)
    BY <2>1 DEF UnderWay, JsonInv, TurnsAreTaken
  <2>3. /\ JsonInv'
        /\ Json!Calls' = [Json!Calls EXCEPT ![r] = [at |-> "over", op |-> Json!Promise!NoCall.op, outcome |-> "refused", version |-> 0]]
    BY <2>1, <2>2, JsonEndHolds
  <2>4. Json!Calls' = [Json!Calls EXCEPT ![r] = [Json!Promise!NoCall EXCEPT !.at = "over", !.outcome = "refused"]]
    BY <2>3, NoCallOver
  <2>5. Json!Calls[r].at = "asked" /\ Json!Calls[r].op = job[r].op
    BY <1>1, <2>1, Telling
  <2> QED BY <2>1, <2>2, <2>3, <2>4, <2>5 DEF Json!Promise!Refuse
<1>3. CASE Json!Fail(r)
  <2>1. job[r].at \in {"read", "written"} /\ Json!End(r, "failed") /\ UNCHANGED <<list, temp>>
    BY <1>3 DEF Json!Fail
  <2>2. UnderWay(r)
    BY <2>1 DEF UnderWay
  <2>3. /\ JsonInv'
        /\ Json!Calls' = [Json!Calls EXCEPT ![r] = [at |-> "over", op |-> Json!Promise!NoCall.op, outcome |-> "failed", version |-> 0]]
    BY <2>1, <2>2, JsonEndHolds
  <2>4. Json!Calls' = [Json!Calls EXCEPT ![r] = [Json!Promise!NoCall EXCEPT !.at = "over", !.outcome = "failed"]]
    BY <2>3, NoCallOver
  <2>5. Json!Calls[r].at = "asked"
    BY <1>1, <2>1, Telling
  <2> QED BY <2>1, <2>3, <2>4, <2>5 DEF Json!Promise!Fail
<1>4. CASE Json!Tell(r)
  <2>1. job[r].at = "renamed" /\ Json!End(r, "ok") /\ UNCHANGED <<list, temp>>
    BY <1>4 DEF Json!Tell
  <2>2. UnderWay(r) /\ job[r].version \in Int
    BY <1>1, <2>1 DEF UnderWay, Changes
  <2>3. /\ JsonInv'
        /\ Json!Calls' = [Json!Calls EXCEPT ![r] = [at |-> "over", op |-> Json!Promise!NoCall.op, outcome |-> "ok", version |-> job[r].version]]
    BY <2>1, <2>2, JsonEndHolds
  <2>4. Json!Calls[r].at = "done" /\ Json!Calls[r].version = job[r].version
    BY <1>1, <2>1, Telling
  <2>5. Json!Calls' = [Json!Calls EXCEPT ![r] = [Json!Promise!NoCall EXCEPT !.at = "over", !.outcome = "ok", !.version = Json!Calls[r].version]]
    BY <2>2, <2>3, <2>4, NoCallAnswered
  <2> QED BY <2>1, <2>3, <2>4, <2>5 DEF Json!Promise!Tell
<1> QED BY <1>2, <1>3, <1>4

LEMMA JsonDieHolds == ASSUME JsonSizes, JsonInv, Json!Die PROVE JsonInv' /\ Json!Promise!Lose
<1>1. queue' = <<>> /\ job' = [r \in Caller |-> Json!NoJob] /\ UNCHANGED <<list, temp>>
  BY DEF Json!Die
<1>2. JsonTypes'
  BY <1>1, NoChange DEF JsonInv, JsonTypes
<1>3. \A r \in Caller : job'[r].at = "idle" /\ job'[r].outcome = "none" /\ job'[r].version = 0
  BY <1>1, NoChange
<1>4. TurnsAreTaken'
  BY <1>3 DEF TurnsAreTaken, UnderWay
<1>5. Json!Calls' = [r \in Caller |-> Json!Promise!NoCall]
  BY <1>1, NoCallIs DEF Json!Calls
<1> QED BY <1>1, <1>2, <1>4, <1>5 DEF JsonInv, Json!Promise!Lose

(* A list request changes nothing but what the server has of the file. *)
LEMMA JsonLookHolds == ASSUME JsonInv, Json!Look \/ Json!LookEnds PROVE JsonInv' /\ UNCHANGED <<list, Json!Calls>>
<1>1. UNCHANGED <<list, temp, queue, job>>
  BY DEF Json!Look, Json!LookEnds
<1>2. JsonInv'
  BY <1>1 DEF JsonInv, JsonTypes, TurnsAreTaken, UnderWay
<1> QED BY <1>1, <1>2 DEF Json!Calls

LEMMA CacheBegins == ASSUME ReadsAreSafe PROVE Json!Init => CacheIsCurrent
  BY DEF ReadsAreSafe, Json!Init, Json!Started, CacheIsCurrent

LEMMA CacheStaysCurrent ==
  ASSUME JsonInv, CacheIsCurrent, Json!Next PROVE CacheIsCurrent'
<1> SUFFICES ASSUME "read fails" \in trouble' PROVE CacheIsCurrent'
  BY DEF CacheIsCurrent
<1>1. trouble' = trouble
  BY DEF Json!Next, Json!Step, Json!Ask, Json!Read, Json!Refuse, Json!Write, Json!Rename, Json!Fail, Json!Tell,
         Json!Look, Json!LookEnds, Json!Die
<1>2. /\ trouble = {"read fails"} /\ look = Json!NoFile
      /\ cache = list \/ \E r \in Caller : job[r].at = "renamed"
  BY <1>1 DEF CacheIsCurrent
<1>3. job \in [Caller -> Changes]
  BY DEF JsonInv, JsonTypes
<1>4. ASSUME NEW r \in Caller, NEW d, job[r].at # "renamed", job' = [job EXCEPT ![r] = d], UNCHANGED <<list, cache, look>>
      PROVE  CacheIsCurrent'
  <2>1. \A o \in Caller : job[o].at = "renamed" => job'[o].at = "renamed"
    BY <1>3, <1>4
  <2> QED BY <1>1, <1>2, <1>4, <2>1 DEF CacheIsCurrent
<1>5. ASSUME NEW r \in Caller, NEW op \in Json!Promise!Op, Json!Ask(r, op) PROVE CacheIsCurrent'
  BY <1>4, <1>5 DEF Json!Ask
<1>6. ASSUME NEW r \in Caller, Json!Refuse(r) \/ Json!Fail(r) PROVE CacheIsCurrent'
  BY <1>4, <1>6 DEF Json!Refuse, Json!Fail, Json!End
<1>7. ASSUME NEW r \in Caller, Json!Write(r) PROVE CacheIsCurrent'
  <2> DEFINE d == [job[r] EXCEPT !.at = "written", !.version = Json!Promise!Answer(job[r].op, job[r].seen)]
  <2>1. job' = [job EXCEPT ![r] = d]
    BY <1>3, <1>7 DEF Json!Write
  <2> HIDE DEF d
  <2> QED BY <1>4, <1>7, <2>1 DEF Json!Write
<1>8. ASSUME NEW r \in Caller, Json!Rename(r) PROVE CacheIsCurrent'
  <2>1. job'[r].at = "renamed" /\ look' = look
    BY <1>3, <1>8 DEF Json!Rename, Changes
  <2> QED BY <1>1, <1>2, <2>1 DEF CacheIsCurrent
<1>9. ASSUME NEW r \in Caller, Json!Read(r) PROVE CacheIsCurrent'
  <2>1. Json!Got = {list}
    BY <1>9, TurnGetsTheFile DEF Json!Read
  <2> QED BY <1>1, <1>2, <1>9, <2>1 DEF Json!Read, CacheIsCurrent
<1>10. CASE (\E r \in Caller : Json!Tell(r)) \/ Json!Look \/ Json!LookEnds \/ Json!Die
  BY <1>1, <1>2, <1>10 DEF Json!Tell, Json!Look, Json!LookEnds, Json!Die, Json!Started, CacheIsCurrent
<1> QED BY <1>5, <1>6, <1>7, <1>8, <1>9, <1>10 DEF Json!Next, Json!Step

LEMMA JsonStepHolds ==
  ASSUME JsonSizes, JsonInv, CacheIsCurrent, Json!Next PROVE JsonInv' /\ [Json!Promise!Next]_<<list, Json!Calls>>
<1>1. ASSUME NEW r \in Caller, Json!Read(r) \/ Json!Write(r) PROVE JsonInv' /\ UNCHANGED <<list, Json!Calls>>
  BY <1>1, JsonReadHolds, JsonWriteHolds
<1>2. ASSUME NEW r \in Caller,
             Json!Refuse(r) \/ Json!Rename(r) \/ Json!Fail(r) \/ Json!Tell(r) \/ \E op \in Json!Promise!Op : Json!Ask(r, op)
      PROVE  JsonInv' /\ Json!Promise!Next
  BY <1>2, JsonAskHolds, JsonRenameHolds, JsonSettles DEF Json!Promise!Next
<1>3. CASE Json!Die
  BY <1>3, JsonDieHolds DEF Json!Promise!Next
<1>4. CASE Json!Look \/ Json!LookEnds
  BY <1>4, JsonLookHolds
<1> QED BY <1>1, <1>2, <1>3, <1>4 DEF Json!Next, Json!Step

LEMMA JsonBegins == ASSUME JsonSizes PROVE Json!Init => Json!Promise!Init
  BY NoCallIs DEF Json!Init, Json!Promise!Init, Json!Calls

(* The machines of MCServer side by side, without its fairness *)
ServerSpec == MCInit /\ [][MCNext]_<<part, vars, json, sqlite>>

LEMMA ServerSafety == MCFairSpec => ServerSpec
  BY PTL DEF MCFairSpec, ServerSpec

(* What the JSON store promises of its file: a change is worked out from   *)
(* the list it replaces and takes effect whole, at its rename, or not at   *)
(* all, whatever overlaps, fails or dies (JsonStore.mutate, atomicWrite):  *)
(* a read that fails included, unless the first one of a server fails as   *)
(* well or a late list has left an older list in the cache.  Then it does  *)
(* not hold.                                                               *)
THEOREM FileIsOneList == ASSUME JsonSizes, ReadsAreSafe PROVE MCFairSpec => ListSpec
<1>1. MCInit => JsonInv /\ CacheIsCurrent /\ Json!Promise!Init
  BY JsonInitHolds, CacheBegins, JsonBegins DEF MCInit
<1>2. JsonInv /\ CacheIsCurrent /\ [MCNext]_<<part, vars, json, sqlite>> =>
        JsonInv' /\ CacheIsCurrent' /\ [part = "json" => Json!Promise!Next]_<<list, Json!Calls>>
  <2> SUFFICES ASSUME JsonInv, CacheIsCurrent, [MCNext]_<<part, vars, json, sqlite>>
               PROVE  JsonInv' /\ CacheIsCurrent' /\ [part = "json" => Json!Promise!Next]_<<list, Json!Calls>>
    OBVIOUS
  <2>1. CASE UNCHANGED json
    <3>1. UNCHANGED <<trouble, list, cache, look, temp, queue, job>>
      BY <2>1 DEF json
    <3>2. JsonInv' /\ CacheIsCurrent'
      BY <3>1 DEF JsonInv, JsonTypes, TurnsAreTaken, UnderWay, CacheIsCurrent
    <3>3. UNCHANGED <<list, Json!Calls>>
      BY <3>1 DEF Json!Calls
    <3> QED BY <3>2, <3>3
  <2>2. CASE Json!Next
    BY <2>2, JsonStepHolds, CacheStaysCurrent
  <2> QED BY <2>1, <2>2 DEF MCNext
<1> QED BY <1>1, <1>2, ServerSafety, PTL DEF ServerSpec, ListSpec
-----------------------------------------------------------------------------
(* The start on a SQLite file, for any servers, tables and rows. *)

Keys == [Table -> {"absent", "id", "pair"}]
RowSets == [Table -> SUBSET Row]
DbFiles == [stamp : Startup!Stamp, key : Keys, rows : RowSets]
Copies == [Startup!Name -> DbFiles \cup Server \cup {None}]
Txns == [key : Keys, rows : RowSets, next : {None} \cup [of : Table, rows : SUBSET Row]]
Starts ==
  [at : {"off", "create", "check", "name", "copy", "copying", "begin", "rebuild", "stamp", "serving"},
   seen : RowSets, name : Startup!Name \cup {None}, snap : DbFiles \cup {None}]

StartTypes ==
  /\ db \in DbFiles /\ copies \in Copies /\ lock \in Server \cup {None} /\ txn \in Txns
  /\ server \in [Server -> Starts]

(* A copy to go back to, of what a start saw: f is the file by now. *)
Holds(copy, seen, f) ==
  \A t \in Table : (f.key[t] = "id" => copy.key[t] = "id") /\ seen[t] \subseteq copy.rows[t]

(* What the start s of p may rely on, with the copies c beside the file f *)
Relies(p, s, c, f) ==
  /\ f.stamp = "newer" => s.at = "off"
  /\ s.at \in {"name", "copy", "copying", "begin", "rebuild"} => \A t \in Table : s.seen[t] \subseteq f.rows[t]
  /\ s.at \notin {"off", "create"} => \A t \in Table : f.key[t] # "absent"
  /\ s.at \in {"copy", "copying", "begin", "rebuild"} => s.name \in Startup!Name
  /\ s.at = "copying" => c[s.name] = p /\ s.snap \in DbFiles /\ Holds(s.snap, s.seen, f)
  /\ s.at \in {"begin", "rebuild"} => c[s.name] \in DbFiles /\ Holds(c[s.name], s.seen, f)
  /\ s.at \in {"stamp", "serving"} => \A t \in Table : f.key[t] = "pair"

(* No two starts under way have one name for their copies. *)
NamesDiffer ==
  \A p, q \in Server : p # q /\ server[p].name \in Startup!Name => server[q].name # server[p].name

(* The transaction x has every row of the file f, in its table or in the   *)
(* one that is to replace it.                                              *)
Carries(x, f) ==
  \A t \in Table :
    /\ f.key[t] = "pair" => x.key[t] = "pair"
    /\ x.key[t] # "absent" => x.rows[t] = f.rows[t]
    /\ x.key[t] = "absent" => x.next # None /\ x.next.of = t
    /\ x.next # None /\ x.next.of = t => x.next.rows = f.rows[t]

StartInv ==
  /\ StartTypes
  /\ \A p \in Server : Relies(p, server[p], copies, db) /\ (server[p].at = "rebuild" <=> lock = p)
  /\ NamesDiffer
  /\ lock # None => Carries(txn, db)

(* A file only ever grows, and its tables only come to have the new key. *)
Grows(f, g) ==
  /\ g.stamp = "newer" => g.stamp = f.stamp
  /\ \A t \in Table : f.rows[t] \subseteq g.rows[t] /\ (g.key[t] = f.key[t] \/ g.key[t] = "pair")

LEMMA ReliesStill ==
  ASSUME NEW p, NEW s, NEW c, NEW d, NEW f, NEW g, Relies(p, s, c, f), Grows(f, g),
         s.name \in Startup!Name => d[s.name] = c[s.name]
  PROVE  Relies(p, s, d, g)
<1>1. \A copy : Holds(copy, s.seen, f) => Holds(copy, s.seen, g)
  BY DEF Holds, Grows
<1>2. /\ g.stamp = "newer" => s.at = "off"
      /\ s.at \in {"name", "copy", "copying", "begin", "rebuild"} => \A t \in Table : s.seen[t] \subseteq g.rows[t]
      /\ s.at \notin {"off", "create"} => \A t \in Table : g.key[t] # "absent"
      /\ s.at \in {"stamp", "serving"} => \A t \in Table : g.key[t] = "pair"
  BY DEF Relies, Grows
<1> QED BY <1>1, <1>2 DEF Relies

(* A start that keeps its name, gives it up or takes one that nobody has *)
NamesOneself(p, d) ==
  \/ d.name = server[p].name \/ d.name = None
  \/ \A q \in Server : server[q].name # d.name

(* What a start does to the copies, it does to the one of its name. *)
TouchesItsOwn(p) ==
  /\ copies' \in Copies
  /\ \A o \in Server \ {p} : server[o].name \in Startup!Name => copies'[server[o].name] = copies[server[o].name]

(* One start moves; the others rely on what they relied on. *)
LEMMA StartMoves ==
  ASSUME None \notin Startup!Name, StartInv, NEW p \in Server, NEW d \in Starts, server' = [server EXCEPT ![p] = d],
         db' \in DbFiles, Grows(db, db'), TouchesItsOwn(p), NamesOneself(p, d),
         Relies(p, d, copies', db'), lock' \in Server \cup {None}, d.at = "rebuild" <=> lock' = p,
         \A o \in Server \ {p} : lock' = o <=> lock = o,
         txn' \in Txns, lock' # None => Carries(txn', db')
  PROVE  StartInv'
<1>1. server \in [Server -> Starts]
  BY DEF StartInv, StartTypes
<1>2. /\ server' \in [Server -> Starts] /\ server'[p] = d
      /\ \A o \in Server \ {p} : server'[o] = server[o]
  BY <1>1
<1>3. ASSUME NEW o \in Server PROVE Relies(o, server'[o], copies', db') /\ (server'[o].at = "rebuild" <=> lock' = o)
  <2>1. CASE o = p
    BY <1>2, <2>1
  <2>2. CASE o # p
    <3>1. Relies(o, server[o], copies, db) /\ (server[o].at = "rebuild" <=> lock = o)
      BY DEF StartInv
    <3>2. Relies(o, server[o], copies', db')
      BY <2>2, <3>1, ReliesStill DEF TouchesItsOwn
    <3> QED BY <1>2, <2>2, <3>1, <3>2
  <2> QED BY <2>1, <2>2
<1>4. StartTypes'
  BY <1>2 DEF StartTypes, TouchesItsOwn
<1>5. NamesDiffer'
  <2>1. NamesDiffer
    BY DEF StartInv
  <2> QED BY <1>2, <2>1 DEF NamesDiffer, NamesOneself
<1> QED BY <1>3, <1>4, <1>5 DEF StartInv

(* What leaves the copies alone touches none of the others'. *)
LEMMA SameCopies ==
  ASSUME StartInv, copies' = copies
  PROVE  \A p \in Server : TouchesItsOwn(p)
  BY DEF StartInv, StartTypes, TouchesItsOwn

(* A name is one start's alone. *)
LEMMA OwnCopy ==
  ASSUME StartInv, NEW p \in Server, server[p].name \in Startup!Name, NEW c \in DbFiles \cup Server \cup {None},
         copies' = [copies EXCEPT ![server[p].name] = c]
  PROVE  TouchesItsOwn(p) /\ copies'[server[p].name] = c
<1>1. copies \in Copies /\ NamesDiffer
  BY DEF StartInv, StartTypes
<1>2. copies' \in Copies /\ copies'[server[p].name] = c
      /\ \A n \in Startup!Name : n # server[p].name => copies'[n] = copies[n]
  BY <1>1 DEF Copies
<1>3. \A o \in Server \ {p} : server[o].name \in Startup!Name => server[o].name # server[p].name
  BY <1>1 DEF NamesDiffer
<1> QED BY <1>2, <1>3 DEF TouchesItsOwn

(* What a step does to the file *)
StepKeeps ==
  /\ db.stamp = "newer" => db' = db
  /\ \A t \in Table :
       /\ db.rows[t] \subseteq db'.rows[t]
       /\ db.key[t] # db'.key[t] => db'.key[t] = "pair" /\ (db.key[t] = "id" => Startup!HasCopy(t))
  /\ db'.stamp # db.stamp => Startup!AllPaired(db')

LEMMA SameFile == ASSUME db' = db PROVE StepKeeps /\ Grows(db, db')
  BY DEF StepKeeps, Grows

LEMMA StartInitHolds == ASSUME None \notin Server \cup Startup!Name PROVE Startup!Init => StartInv
<1> SUFFICES ASSUME Startup!Init PROVE StartInv
  OBVIOUS
<1>1. /\ db \in Startup!Files /\ copies = [n \in Startup!Name |-> None] /\ lock = None /\ txn = Startup!NoTxn /\ server = [p \in Server |-> Startup!Off]
  BY DEF Startup!Init
<1>2. db \in DbFiles
  BY <1>1 DEF Startup!Files, Startup!Shape, DbFiles, Keys, RowSets
<1>3. Startup!NoRows \in RowSets
  BY DEF Startup!NoRows, RowSets
<1>4. Startup!NoTxn \in Txns
  BY <1>3 DEF Startup!NoTxn, Txns, Keys
<1>5. Startup!Off \in Starts /\ Startup!Off.at = "off"
  BY <1>3 DEF Startup!Off, Starts
<1>6. StartTypes
  BY <1>1, <1>2, <1>4, <1>5 DEF StartTypes, Copies
<1>7. \A p \in Server : server[p].at = "off" /\ server[p].name = None
  BY <1>1, <1>5 DEF Startup!Off
<1> QED BY <1>1, <1>6, <1>7 DEF StartInv, Relies, NamesDiffer

LEMMA OffFacts ==
  Startup!NoTxn \in Txns /\ Startup!Off \in Starts /\ Startup!Off.at = "off" /\ Startup!Off.name = None
  /\ \A p, c, f : Relies(p, Startup!Off, c, f)
<1>1. Startup!NoRows \in RowSets
  BY DEF Startup!NoRows, RowSets
<1>2. Startup!NoTxn \in Txns
  BY <1>1 DEF Startup!NoTxn, Txns, Keys
<1>3. Startup!Off \in Starts /\ Startup!Off.at = "off" /\ Startup!Off.name = None
  BY <1>1 DEF Startup!Off, Starts
<1> QED BY <1>2, <1>3 DEF Relies

LEMMA StartFacts ==
  ASSUME StartInv, NEW p \in Server
  PROVE  /\ server \in [Server -> Starts] /\ server[p] \in Starts /\ Relies(p, server[p], copies, db)
         /\ server[p].at = "rebuild" <=> lock = p
         /\ db \in DbFiles /\ db.key \in Keys /\ db.rows \in RowSets /\ db.stamp \in Startup!Stamp
         /\ copies \in Copies /\ txn \in Txns /\ txn.key \in Keys /\ txn.rows \in RowSets
         /\ lock \in Server \cup {None}
  BY DEF StartInv, StartTypes, DbFiles, Txns

(* A start goes on to another place, and remembers no more and no less. *)
LEMMA GoesFacts ==
  ASSUME StartInv, NEW p \in Server, NEW place \in {"off", "create", "check", "name", "copy", "copying", "begin", "rebuild", "stamp", "serving"},
         Startup!Goes(p, place)
  PROVE  \E d \in Starts : /\ server' = [server EXCEPT ![p] = d]
                           /\ d.at = place /\ d.seen = server[p].seen /\ d.name = server[p].name /\ d.snap = server[p].snap
<1> DEFINE d == [server[p] EXCEPT !.at = place]
<1>1. server[p] \in Starts /\ server \in [Server -> Starts]
  BY StartFacts
<1>2. d \in Starts /\ d.at = place /\ d.seen = server[p].seen /\ d.name = server[p].name /\ d.snap = server[p].snap
  BY <1>1 DEF Starts
<1>3. server' = [server EXCEPT ![p] = d]
  BY <1>1 DEF Startup!Goes
<1> QED BY <1>2, <1>3

LEMMA OpenHolds == ASSUME None \notin Server \cup Startup!Name, StartInv, NEW p \in Server, Startup!Open(p) PROVE StartInv' /\ StepKeeps
<1> DEFINE place == IF Startup!Refused(db.stamp) THEN "off" ELSE "create"
<1>1. server[p].at = "off" /\ Startup!Goes(p, place) /\ UNCHANGED <<db, copies, lock, txn>>
  BY DEF Startup!Open
<1>2. PICK d \in Starts : server' = [server EXCEPT ![p] = d] /\ d.at = place /\ d.name = server[p].name
  BY <1>1, GoesFacts
<1>3. Relies(p, d, copies, db)
  BY <1>2 DEF Relies, Startup!Refused
<1>4. StepKeeps /\ Grows(db, db')
  BY <1>1, SameFile
<1>5. lock # p /\ d.at # "rebuild"
  BY <1>1, <1>2, StartFacts
<1>6. StartInv'
  <2> HIDE DEF place
  <2>1. TouchesItsOwn(p) /\ NamesOneself(p, d)
    BY <1>1, <1>2, SameCopies DEF NamesOneself
  <2> QED BY <1>1, <1>2, <1>3, <1>4, <1>5, <2>1, StartFacts, StartMoves DEF StartInv
<1> QED BY <1>4, <1>6

LEMMA CreateTablesHolds ==
  ASSUME None \notin Server \cup Startup!Name, StartInv, NEW p \in Server, Startup!CreateTables(p) PROVE StartInv' /\ StepKeeps
<1> DEFINE keys == [t \in Table |-> IF db.key[t] = "absent" THEN "pair" ELSE db.key[t]]
<1>1. /\ server[p].at = "create" /\ lock = None /\ db' = [db EXCEPT !.key = keys] /\ Startup!Goes(p, "check")
      /\ UNCHANGED <<copies, lock, txn>>
  BY DEF Startup!CreateTables
<1>2. PICK d \in Starts : server' = [server EXCEPT ![p] = d] /\ d.at = "check" /\ d.name = server[p].name
  BY <1>1, GoesFacts
<1>3. db \in DbFiles /\ db.key \in Keys /\ Relies(p, server[p], copies, db)
  BY StartFacts
<1>4. keys \in Keys /\ \A t \in Table : keys[t] # "absent" /\ (keys[t] = db.key[t] \/ keys[t] = "pair") /\ (db.key[t] = "id" => keys[t] = "id")
  BY <1>3 DEF Keys
<1> HIDE DEF keys
<1>5. db' \in DbFiles /\ db'.key = keys /\ db'.rows = db.rows /\ db'.stamp = db.stamp
  BY <1>1, <1>3, <1>4 DEF DbFiles
<1>6. db.stamp # "newer"
  BY <1>1, <1>3 DEF Relies
<1>7. Grows(db, db') /\ StepKeeps
  BY <1>4, <1>5, <1>6 DEF Grows, StepKeeps
<1>8. Relies(p, d, copies, db')
  BY <1>2, <1>4, <1>5, <1>6 DEF Relies
<1>9. TouchesItsOwn(p) /\ NamesOneself(p, d)
  BY <1>1, <1>2, SameCopies DEF NamesOneself
<1>10. StartInv'
  BY <1>1, <1>2, <1>5, <1>7, <1>8, <1>9, StartFacts, StartMoves
<1> QED BY <1>7, <1>10

LEMMA CheckHolds == ASSUME None \notin Server \cup Startup!Name, StartInv, NEW p \in Server, Startup!Check(p) PROVE StartInv' /\ StepKeeps
<1> DEFINE place == IF Startup!Pending(db) = {} THEN "stamp" ELSE IF Startup!Blocked(db) THEN "off" ELSE "name"
           rows == db.rows
           d == [server[p] EXCEPT !.seen = rows, !.at = place]
<1>1. server[p].at = "check" /\ UNCHANGED <<db, copies, lock, txn>>
  BY DEF Startup!Check
<1>2. /\ server \in [Server -> Starts] /\ server[p] \in Starts /\ Relies(p, server[p], copies, db)
      /\ rows \in RowSets /\ db.key \in Keys
  BY StartFacts
<1>3. server' = [server EXCEPT ![p] = d]
  BY <1>2 DEF Startup!Check
<1>4. /\ place \in {"stamp", "off", "name"}
      /\ place = "stamp" => \A t \in Table : db.key[t] # "id"
  BY DEF Startup!Pending
<1>5. d \in Starts /\ d.at = place /\ d.seen = rows /\ d.name = server[p].name
  <2> HIDE DEF place, rows
  <2> QED BY <1>2, <1>4 DEF Starts
<1> HIDE DEF d, place
<1>6. db.stamp # "newer" /\ \A t \in Table : db.key[t] \in {"id", "pair"}
  BY <1>1, <1>2 DEF Relies, Keys
<1>7. Relies(p, d, copies, db)
  BY <1>4, <1>5, <1>6 DEF Relies
<1>8. StepKeeps /\ Grows(db, db')
  BY <1>1, SameFile
<1>9. lock # p /\ d.at # "rebuild"
  BY <1>1, <1>4, <1>5, StartFacts
<1>10. TouchesItsOwn(p) /\ NamesOneself(p, d)
  BY <1>1, <1>5, SameCopies DEF NamesOneself
<1>11. StartInv'
  BY <1>1, <1>3, <1>5, <1>7, <1>8, <1>9, <1>10, StartFacts, StartMoves DEF StartInv
<1> QED BY <1>8, <1>11

(* Within a second, no two starts choose one name. *)
LEMMA NameCopyHolds ==
  ASSUME None \notin Server \cup Startup!Name, ~SameSecond, StartInv, NEW p \in Server, Startup!NameCopy(p)
  PROVE  StartInv' /\ StepKeeps
<1>1. /\ server[p].at = "name" /\ UNCHANGED <<db, copies, lock, txn>>
      /\ \E n \in Startup!Name :
           Startup!Free(n) /\ server' = [server EXCEPT ![p].at = "copy", ![p].name = n]
  BY DEF Startup!NameCopy
<1>2. PICK n \in Startup!Name : Startup!Free(n) /\ server' = [server EXCEPT ![p].at = "copy", ![p].name = n]
  BY <1>1
<1> DEFINE d == [server[p] EXCEPT !.at = "copy", !.name = n]
<1>3. server \in [Server -> Starts] /\ server[p] \in Starts /\ Relies(p, server[p], copies, db)
  BY StartFacts
<1>4. server' = [server EXCEPT ![p] = d]
  BY <1>2, <1>3
<1>5. d \in Starts /\ d.at = "copy" /\ d.name = n /\ d.seen = server[p].seen
  BY <1>3 DEF Starts
<1> HIDE DEF d
<1>6. TouchesItsOwn(p) /\ NamesOneself(p, d)
  BY <1>1, <1>2, <1>5, SameCopies DEF NamesOneself, Startup!Free
<1>7. Relies(p, d, copies, db)
  BY <1>1, <1>3, <1>5 DEF Relies
<1>8. StepKeeps /\ Grows(db, db')
  BY <1>1, SameFile
<1>9. lock # p /\ d.at # "rebuild"
  BY <1>1, <1>5, StartFacts
<1>10. StartInv'
  BY <1>1, <1>4, <1>5, <1>6, <1>7, <1>8, <1>9, StartFacts, StartMoves DEF StartInv
<1> QED BY <1>8, <1>10

LEMMA BeginCopyHolds ==
  ASSUME None \notin Server \cup Startup!Name, StartInv, NEW p \in Server, Startup!BeginCopy(p)
  PROVE  StartInv' /\ StepKeeps
<1> DEFINE d == [server[p] EXCEPT !.at = "copying", !.snap = db]
<1>1. /\ server[p].at = "copy" /\ copies' = [copies EXCEPT ![server[p].name] = p]
      /\ UNCHANGED <<db, lock, txn>>
  BY DEF Startup!BeginCopy
<1>2. /\ server \in [Server -> Starts] /\ server[p] \in Starts /\ Relies(p, server[p], copies, db) /\ db \in DbFiles
  BY StartFacts
<1>3. server' = [server EXCEPT ![p] = d]
  BY <1>2 DEF Startup!BeginCopy
<1>4. d \in Starts /\ d.at = "copying" /\ d.seen = server[p].seen /\ d.name = server[p].name /\ d.snap = db
  BY <1>2 DEF Starts
<1> HIDE DEF d
<1>5. TouchesItsOwn(p) /\ copies'[server[p].name] = p /\ server[p].name \in Startup!Name
  BY <1>1, <1>2, OwnCopy DEF Relies
<1>6. Relies(p, d, copies', db)
  BY <1>1, <1>2, <1>4, <1>5 DEF Relies, Holds
<1>7. StepKeeps /\ Grows(db, db')
  BY <1>1, SameFile
<1>8. lock # p /\ d.at # "rebuild" /\ NamesOneself(p, d)
  BY <1>1, <1>4, StartFacts DEF NamesOneself
<1>9. StartInv'
  BY <1>1, <1>3, <1>4, <1>5, <1>6, <1>7, <1>8, StartFacts, StartMoves DEF StartInv
<1> QED BY <1>7, <1>9

LEMMA CopyWrittenHolds ==
  ASSUME None \notin Server \cup Startup!Name, StartInv, NEW p \in Server, Startup!CopyWritten(p)
  PROVE  StartInv' /\ StepKeeps
<1> DEFINE d == [server[p] EXCEPT !.at = "begin", !.snap = None]
<1>1. server[p].at = "copying" /\ UNCHANGED <<db, lock, txn>>
  BY DEF Startup!CopyWritten
<1>2. /\ server \in [Server -> Starts] /\ server[p] \in Starts /\ Relies(p, server[p], copies, db)
      /\ copies \in Copies
  BY StartFacts
<1>3. server' = [server EXCEPT ![p] = d]
  BY <1>2 DEF Startup!CopyWritten
<1>4. d \in Starts /\ d.at = "begin" /\ d.seen = server[p].seen /\ d.name = server[p].name
  BY <1>2 DEF Starts
<1> HIDE DEF d
<1>5. /\ server[p].snap \in DbFiles /\ Holds(server[p].snap, server[p].seen, db)
      /\ server[p].name \in Startup!Name /\ copies[server[p].name] = p
  BY <1>1, <1>2 DEF Relies
<1>6. copies' = [copies EXCEPT ![server[p].name] = server[p].snap]
  BY <1>2, <1>5 DEF Startup!CopyWritten, Copies
<1>7. TouchesItsOwn(p) /\ copies'[server[p].name] = server[p].snap
  BY <1>5, <1>6, OwnCopy
<1>8. Relies(p, d, copies', db)
  BY <1>1, <1>2, <1>4, <1>5, <1>7 DEF Relies
<1>9. StepKeeps /\ Grows(db, db')
  BY <1>1, SameFile
<1>10. lock # p /\ d.at # "rebuild" /\ NamesOneself(p, d)
  BY <1>1, <1>4, StartFacts DEF NamesOneself
<1>11. StartInv'
  BY <1>1, <1>3, <1>4, <1>7, <1>8, <1>9, <1>10, StartFacts, StartMoves DEF StartInv
<1> QED BY <1>9, <1>11

(* What it removes has its own name. *)
LEMMA CopyFailsHolds ==
  ASSUME None \notin Server \cup Startup!Name, StartInv, NEW p \in Server, Startup!CopyFails(p)
  PROVE  StartInv' /\ StepKeeps
<1>1. /\ server[p].at \in {"copy", "copying"} /\ server' = [server EXCEPT ![p] = Startup!Off]
      /\ copies' = copies \/ copies' = [copies EXCEPT ![server[p].name] = None]
      /\ UNCHANGED <<db, lock, txn>>
  BY DEF Startup!CopyFails
<1>2. Relies(p, server[p], copies, db)
  BY StartFacts
<1>3. server[p].name \in Startup!Name
  BY <1>1, <1>2 DEF Relies
<1>4. TouchesItsOwn(p)
  BY <1>1, <1>3, SameCopies, OwnCopy
<1>5. StepKeeps /\ Grows(db, db')
  BY <1>1, SameFile
<1>6. lock # p /\ NamesOneself(p, Startup!Off)
  BY <1>1, StartFacts, OffFacts DEF NamesOneself
<1>7. StartInv'
  BY <1>1, <1>4, <1>5, <1>6, OffFacts, StartFacts, StartMoves DEF StartInv
<1> QED BY <1>5, <1>7

LEMMA BeginMigrationHolds ==
  ASSUME None \notin Server \cup Startup!Name, StartInv, NEW p \in Server, Startup!BeginMigration(p) PROVE StartInv' /\ StepKeeps
<1>1. /\ server[p].at = "begin" /\ lock = None /\ lock' = p /\ Startup!Goes(p, "rebuild")
      /\ txn' = [key |-> db.key, rows |-> db.rows, next |-> None] /\ UNCHANGED <<db, copies>>
  BY DEF Startup!BeginMigration
<1>2. PICK d \in Starts : server' = [server EXCEPT ![p] = d] /\ d.at = "rebuild" /\ d.seen = server[p].seen /\ d.name = server[p].name
  BY <1>1, GoesFacts
<1>3. Relies(p, server[p], copies, db) /\ db.key \in Keys /\ db.rows \in RowSets
  BY StartFacts
<1>4. Relies(p, d, copies, db)
  BY <1>1, <1>2, <1>3 DEF Relies
<1>5. txn' \in Txns
  BY <1>1, <1>3 DEF Txns
<1>6. Carries(txn', db)
  <2>1. txn'.key = db.key /\ txn'.rows = db.rows /\ txn'.next = None
    BY <1>1
  <2>2. \A t \in Table : db.key[t] # "absent"
    BY <1>1, <1>3 DEF Relies
  <2> QED BY <2>1, <2>2 DEF Carries
<1>7. StepKeeps /\ Grows(db, db')
  BY <1>1, SameFile
<1>8. TouchesItsOwn(p) /\ NamesOneself(p, d)
  BY <1>1, <1>2, SameCopies DEF NamesOneself
<1>9. StartInv'
  BY <1>1, <1>2, <1>4, <1>5, <1>6, <1>7, <1>8, StartFacts, StartMoves
<1> QED BY <1>7, <1>9

(* A statement inside the transaction *)
LEMMA StatementHolds ==
  ASSUME StartInv, UNCHANGED <<db, copies, lock, server>>, txn' \in Txns, Carries(txn', db)
  PROVE  StartInv' /\ StepKeeps
  BY SameFile DEF StartInv, StartTypes, NamesDiffer

LEMMA RebuildFacts ==
  ASSUME None \notin Server \cup Startup!Name, StartInv, NEW p \in Server, server[p].at = "rebuild"
  PROVE  /\ lock = p /\ Carries(txn, db) /\ txn \in Txns /\ txn.key \in Keys /\ txn.rows \in RowSets
         /\ txn.next # None => txn.next \in [of : Table, rows : SUBSET Row]
<1>1. lock = p /\ lock # None /\ txn \in Txns
  BY DEF StartInv, StartTypes
<1> QED BY <1>1 DEF StartInv, Txns

LEMMA FillHolds ==
  ASSUME None \notin Server \cup Startup!Name, StartInv, NEW p \in Server, NEW t \in Table, Startup!Fill(p, t) PROVE StartInv' /\ StepKeeps
<1> DEFINE carried == [of |-> t, rows |-> txn.rows[t]]
<1>1. /\ server[p].at = "rebuild" /\ txn.key[t] = "id" /\ txn.next = None /\ UNCHANGED <<db, copies, lock, server>>
      /\ txn' = [txn EXCEPT !.next = carried]
  BY DEF Startup!Fill, Startup!Written, Startup!Carried
<1>2. Carries(txn, db) /\ txn \in Txns /\ txn.rows \in RowSets
  BY <1>1, RebuildFacts
<1>3. carried \in [of : Table, rows : SUBSET Row] /\ carried.of = t /\ carried.rows = txn.rows[t]
  BY <1>2 DEF RowSets
<1>4. txn.rows[t] = db.rows[t]
  BY <1>1, <1>2 DEF Carries
<1> HIDE DEF carried
<1>5. txn' \in Txns /\ txn'.key = txn.key /\ txn'.rows = txn.rows /\ txn'.next = carried
  BY <1>1, <1>2, <1>3 DEF Txns
<1>6. Carries(txn', db)
  BY <1>1, <1>2, <1>3, <1>4, <1>5 DEF Carries
<1> QED BY <1>1, <1>5, <1>6, StatementHolds

LEMMA DropHolds ==
  ASSUME None \notin Server \cup Startup!Name, StartInv, NEW p \in Server, NEW t \in Table, Startup!Drop(p, t) PROVE StartInv' /\ StepKeeps
<1> DEFINE keys == [txn.key EXCEPT ![t] = "absent"]
           rows == [txn.rows EXCEPT ![t] = {}]
<1>1. /\ server[p].at = "rebuild" /\ txn.key[t] = "id" /\ txn.next # None /\ txn.next.of = t
      /\ UNCHANGED <<db, copies, lock, server>>
      /\ txn' = [txn EXCEPT !.key[t] = "absent", !.rows[t] = {}]
  BY DEF Startup!Drop, Startup!Written
<1>2. Carries(txn, db) /\ txn \in Txns /\ txn.key \in Keys /\ txn.rows \in RowSets
  BY <1>1, RebuildFacts
<1>3. /\ keys \in Keys /\ keys[t] = "absent" /\ \A u \in Table \ {t} : keys[u] = txn.key[u]
      /\ rows \in RowSets /\ \A u \in Table \ {t} : rows[u] = txn.rows[u]
  BY <1>2 DEF Keys, RowSets
<1>4. txn' = [txn EXCEPT !.key = keys, !.rows = rows]
  BY <1>1, <1>2 DEF Txns
<1> HIDE DEF keys, rows
<1>5. txn' \in Txns /\ txn'.key = keys /\ txn'.rows = rows /\ txn'.next = txn.next
  BY <1>2, <1>3, <1>4 DEF Txns
<1>6. Carries(txn', db)
  <2>1. ASSUME NEW u \in Table \ {t}
        PROVE  /\ db.key[u] = "pair" => txn'.key[u] = "pair"
               /\ txn'.key[u] # "absent" => txn'.rows[u] = db.rows[u]
               /\ txn'.key[u] = "absent" => txn'.next # None /\ txn'.next.of = u
               /\ txn'.next # None /\ txn'.next.of = u => txn'.next.rows = db.rows[u]
    BY <1>2, <1>3, <1>5 DEF Carries
  <2>2. db.key[t] # "pair" /\ txn'.key[t] = "absent" /\ txn.next.rows = db.rows[t]
    BY <1>1, <1>2, <1>3, <1>5 DEF Carries
  <2> QED BY <1>1, <1>5, <2>1, <2>2 DEF Carries
<1> QED BY <1>1, <1>5, <1>6, StatementHolds

LEMMA RenameHolds ==
  ASSUME None \notin Server \cup Startup!Name, StartInv, NEW p \in Server, NEW t \in Table, Startup!Rename(p, t) PROVE StartInv' /\ StepKeeps
<1> DEFINE keys == [txn.key EXCEPT ![t] = "pair"]
           rows == [txn.rows EXCEPT ![t] = txn.next.rows]
<1>1. /\ server[p].at = "rebuild" /\ txn.key[t] = "absent" /\ txn.next # None /\ txn.next.of = t
      /\ UNCHANGED <<db, copies, lock, server>>
      /\ txn' = [key |-> keys, rows |-> rows, next |-> None]
  BY DEF Startup!Rename, Startup!Written
<1>2. /\ Carries(txn, db) /\ txn \in Txns /\ txn.key \in Keys /\ txn.rows \in RowSets
      /\ txn.next \in [of : Table, rows : SUBSET Row]
  BY <1>1, RebuildFacts
<1>3. /\ keys \in Keys /\ keys[t] = "pair" /\ \A u \in Table \ {t} : keys[u] = txn.key[u]
      /\ rows \in RowSets /\ rows[t] = txn.next.rows /\ \A u \in Table \ {t} : rows[u] = txn.rows[u]
  BY <1>2 DEF Keys, RowSets
<1> HIDE DEF keys, rows
<1>4. txn' \in Txns /\ txn'.key = keys /\ txn'.rows = rows /\ txn'.next = None
  BY <1>1, <1>3 DEF Txns
<1>5. Carries(txn', db)
  BY <1>1, <1>2, <1>3, <1>4 DEF Carries
<1> QED BY <1>1, <1>4, <1>5, StatementHolds

(* The commit has every table under its new key, and every row. *)
LEMMA CommitHolds == ASSUME None \notin Server \cup Startup!Name, StartInv, NEW p \in Server, Startup!Commit(p) PROVE StartInv' /\ StepKeeps
<1>1. /\ server[p].at = "rebuild" /\ txn.next = None /\ \A t \in Table : txn.key[t] # "id"
      /\ db' = [db EXCEPT !.key = txn.key, !.rows = txn.rows]
      /\ lock' = None /\ txn' = Startup!NoTxn /\ Startup!Goes(p, "stamp") /\ UNCHANGED copies
  BY DEF Startup!Commit
<1>2. Carries(txn, db) /\ txn.key \in Keys /\ txn.rows \in RowSets /\ lock = p
  BY <1>1, RebuildFacts
<1>3. db \in DbFiles /\ db.key \in Keys /\ db.rows \in RowSets /\ Relies(p, server[p], copies, db)
  BY StartFacts
<1>4. db' \in DbFiles /\ db'.key = txn.key /\ db'.rows = txn.rows /\ db'.stamp = db.stamp
  BY <1>1, <1>2, <1>3 DEF DbFiles
<1>5. \A t \in Table : txn.key[t] = "pair" /\ txn.rows[t] = db.rows[t]
  BY <1>1, <1>2 DEF Carries, Keys
<1>6. PICK d \in Starts : server' = [server EXCEPT ![p] = d] /\ d.at = "stamp" /\ d.name = server[p].name
  BY <1>1, GoesFacts
<1>7. db.stamp # "newer" /\ copies[server[p].name] \in DbFiles /\ Holds(copies[server[p].name], server[p].seen, db)
  BY <1>1, <1>3 DEF Relies
<1>8. Relies(p, d, copies, db') /\ Grows(db, db')
  BY <1>4, <1>5, <1>6, <1>7 DEF Relies, Grows
<1>9. StepKeeps
  <2>1. \A t \in Table : db.key[t] = "id" => Startup!HasCopy(t)
    BY <1>2, <1>7 DEF Startup!HasCopy, Startup!Shape, DbFiles, Keys, RowSets, Holds
  <2> QED BY <1>4, <1>5, <1>7, <2>1 DEF StepKeeps
<1>10. TouchesItsOwn(p) /\ NamesOneself(p, d)
  BY <1>1, <1>6, SameCopies DEF NamesOneself
<1>11. StartInv'
  BY <1>1, <1>2, <1>4, <1>6, <1>8, <1>10, OffFacts, StartFacts, StartMoves
<1> QED BY <1>9, <1>11

LEMMA StampFileHolds ==
  ASSUME None \notin Server \cup Startup!Name, StartInv, NEW p \in Server, Startup!StampFile(p) PROVE StartInv' /\ StepKeeps
<1> DEFINE d == [Startup!Off EXCEPT !.at = "serving"]
<1>1. /\ server[p].at = "stamp" /\ lock = None /\ db' = [db EXCEPT !.stamp = "this"]
      /\ server' = [server EXCEPT ![p] = d] /\ UNCHANGED <<copies, lock, txn>>
  BY DEF Startup!StampFile
<1>2. db \in DbFiles /\ Relies(p, server[p], copies, db)
  BY StartFacts
<1>3. db' \in DbFiles /\ db'.key = db.key /\ db'.rows = db.rows /\ db'.stamp = "this"
  BY <1>1, <1>2 DEF DbFiles, Startup!Stamp
<1>4. d \in Starts /\ d.at = "serving" /\ d.name = None
  BY OffFacts DEF Starts
<1> HIDE DEF d
<1>5. db.stamp # "newer" /\ \A t \in Table : db.key[t] = "pair"
  BY <1>1, <1>2 DEF Relies
<1>6. Relies(p, d, copies, db') /\ Grows(db, db')
  BY <1>3, <1>4, <1>5 DEF Relies, Grows
<1>7. StepKeeps
  BY <1>3, <1>5 DEF StepKeeps, Startup!AllPaired
<1>8. TouchesItsOwn(p) /\ NamesOneself(p, d)
  BY <1>1, <1>4, SameCopies DEF NamesOneself
<1>9. StartInv'
  BY <1>1, <1>3, <1>4, <1>6, <1>8, StartFacts, StartMoves
<1> QED BY <1>7, <1>9

LEMMA StopHolds == ASSUME None \notin Server \cup Startup!Name, StartInv, NEW p \in Server, Startup!Stop(p) PROVE StartInv' /\ StepKeeps
<1>1. /\ server' = [server EXCEPT ![p] = Startup!Off] /\ UNCHANGED <<db, copies>>
      /\ lock' = (IF lock = p THEN None ELSE lock) /\ txn' = (IF lock = p THEN Startup!NoTxn ELSE txn)
  BY DEF Startup!Stop
<1>2. StepKeeps /\ Grows(db, db')
  BY <1>1, SameFile
<1>3. lock' # p /\ (lock' # None => lock' = lock /\ txn' = txn)
  BY <1>1
<1>4. lock' # None => Carries(txn', db')
  BY <1>1, <1>3 DEF StartInv
<1>5. TouchesItsOwn(p) /\ NamesOneself(p, Startup!Off)
  BY <1>1, OffFacts, SameCopies DEF NamesOneself
<1>6. StartInv'
  BY <1>1, <1>2, <1>3, <1>4, <1>5, OffFacts, StartFacts, StartMoves
<1> QED BY <1>2, <1>6

LEMMA SaveHolds ==
  ASSUME None \notin Server \cup Startup!Name, StartInv, NEW t \in Table, NEW row \in Row, Startup!Saves(t, row) \/ Startup!OlderSaves(t, row)
  PROVE  StartInv' /\ StepKeeps
<1> DEFINE rows == [db.rows EXCEPT ![t] = db.rows[t] \cup {row}]
<1>1. Startup!Save(t, row) /\ db.stamp # "newer"
  <2>1. CASE Startup!Saves(t, row)
    <3>1. PICK p \in Server : server[p].at = "serving"
      BY <2>1 DEF Startup!Saves
    <3> QED BY <2>1, <3>1, StartFacts DEF Startup!Saves, Relies
  <2>2. CASE Startup!OlderSaves(t, row)
    BY <2>2 DEF Startup!OlderSaves, Startup!Refused
  <2> QED BY <2>1, <2>2
<1>2. db \in DbFiles /\ db.rows \in RowSets
  BY DEF StartInv, StartTypes, DbFiles
<1>3. lock = None /\ db' = [db EXCEPT !.rows = rows] /\ UNCHANGED <<copies, lock, txn, server>>
  BY <1>1, <1>2 DEF Startup!Save, DbFiles
<1>4. rows \in RowSets /\ \A u \in Table : db.rows[u] \subseteq rows[u]
  BY <1>2 DEF RowSets
<1> HIDE DEF rows
<1>5. db' \in DbFiles /\ db'.rows = rows /\ db'.key = db.key /\ db'.stamp = db.stamp
  BY <1>2, <1>3, <1>4 DEF DbFiles
<1>6. Grows(db, db') /\ StepKeeps
  BY <1>1, <1>4, <1>5 DEF Grows, StepKeeps
<1>7. \A p \in Server : Relies(p, server[p], copies, db')
  BY <1>6, ReliesStill DEF StartInv
<1>8. StartInv'
  BY <1>3, <1>5, <1>7 DEF StartInv, StartTypes, NamesDiffer
<1> QED BY <1>6, <1>8

LEMMA StartStepHolds ==
  ASSUME None \notin Server \cup Startup!Name, ~SameSecond, StartInv, Startup!Next PROVE StartInv' /\ StepKeeps
<1>1. ASSUME NEW p \in Server, NEW t \in Table, Startup!Fill(p, t) \/ Startup!Drop(p, t) \/ Startup!Rename(p, t)
      PROVE  StartInv' /\ StepKeeps
  BY <1>1, FillHolds, DropHolds, RenameHolds
<1>2. ASSUME NEW p \in Server,
             \/ Startup!Open(p) \/ Startup!CreateTables(p) \/ Startup!Check(p) \/ Startup!NameCopy(p)
             \/ Startup!BeginCopy(p) \/ Startup!CopyWritten(p) \/ Startup!CopyFails(p) \/ Startup!BeginMigration(p)
      PROVE  StartInv' /\ StepKeeps
  BY <1>2, OpenHolds, CreateTablesHolds, CheckHolds, NameCopyHolds, BeginCopyHolds, CopyWrittenHolds, CopyFailsHolds,
     BeginMigrationHolds
<1>3. ASSUME NEW p \in Server, Startup!Commit(p) \/ Startup!StampFile(p) \/ Startup!Stop(p)
      PROVE  StartInv' /\ StepKeeps
  BY <1>3, CommitHolds, StampFileHolds, StopHolds
<1>4. ASSUME NEW t \in Table, NEW row \in Row, Startup!Saves(t, row) \/ Startup!OlderSaves(t, row)
      PROVE  StartInv' /\ StepKeeps
  BY <1>4, SaveHolds
<1> QED BY <1>1, <1>2, <1>3, <1>4 DEF Startup!Next

(* However starts on one SQLite file overlap, fail and are killed, and     *)
(* while others save: no start loses a row, a table is rekeyed whole or    *)
(* not at all and only while its copy can be gone back to, a file of a     *)
(* newer build is not touched, and none is stamped or served before every  *)
(* table has its new key (WorkspaceService's constructor,                  *)
(* childKeyMigration.ts).  It takes that no two starts choose the names of *)
(* their copies in one second: if they do, the one whose copy fails        *)
(* removes the other's, which migrates without.                            *)
THEOREM StartsAlwaysKeepTheRows ==
  ASSUME None \notin Server \cup Startup!Name, ~SameSecond PROVE MCFairSpec => Startup!StartsKeepTheRows
<1> DEFINE Keeps ==
             /\ db.stamp = "newer" => db' = db
             /\ \A t \in Table :
                  /\ db.rows[t] \subseteq db'.rows[t]
                  /\ db.key[t] # db'.key[t] => db'.key[t] = "pair" /\ (db.key[t] = "id" => Startup!HasCopy(t))
             /\ db'.stamp # db.stamp => Startup!AllPaired(db')
             /\ \A p \in Server : server'[p].at = "serving" => Startup!AllPaired(db')
<1>1. MCInit => StartInv
  BY StartInitHolds DEF MCInit
<1>2. StartInv /\ [MCNext]_<<part, vars, json, sqlite>> => StartInv' /\ [Keeps]_(Startup!svars)
  <2> SUFFICES ASSUME StartInv, [MCNext]_<<part, vars, json, sqlite>> PROVE StartInv' /\ [Keeps]_(Startup!svars)
    OBVIOUS
  <2>1. CASE UNCHANGED sqlite
    <3>1. UNCHANGED <<db, copies, lock, txn, server>> /\ UNCHANGED Startup!svars
      BY <2>1 DEF sqlite, Startup!svars
    <3> QED BY <3>1 DEF StartInv, StartTypes, NamesDiffer
  <2>2. CASE Startup!Next
    <3>1. StartInv' /\ StepKeeps
      BY <2>2, StartStepHolds
    <3>2. \A p \in Server : server'[p].at = "serving" => Startup!AllPaired(db')
      BY <3>1 DEF StartInv, Relies, Startup!AllPaired
    <3> QED BY <3>1, <3>2 DEF StepKeeps
  <2> QED BY <2>1, <2>2 DEF MCNext
<1> QED BY <1>1, <1>2, ServerSafety, PTL DEF ServerSpec, Startup!StartsKeepTheRows

(* What is stored stands, whatever overlaps, fails or dies, under what the *)
(* two halves take (jsonStore.ts, WorkspaceService.ts).                    *)
THEOREM StoredDataAlwaysStands ==
  ASSUME JsonSizes, ReadsAreSafe, None \notin Server \cup Startup!Name, ~SameSecond PROVE MCFairSpec => StoredDataStands
  BY FileIsOneList, StartsAlwaysKeepTheRows, PTL DEF StoredDataStands
=============================================================================
