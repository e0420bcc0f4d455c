--------------------------- MODULE SaveSequencer ---------------------------
(***************************************************************************)
(* The out-of-order save detector behind PUT /api/workspaces/:id           *)
(* (apps/shell/lib/saveSequencer.ts).                                      *)
(*                                                                         *)
(* Every call of `run` for one key is chained behind the key's current     *)
(* tail promise, so calls of a key run one at a time in arrival order.     *)
(* When its turn comes, a call is refused if the key's record names the    *)
(* same client at or above its number; otherwise it awaits `apply` and, if *)
(* that wrote, replaces the record.  `forget` is called by the DELETE      *)
(* route, outside the chain.  All of it is process memory.                 *)
(***************************************************************************)
EXTENDS Naturals, FiniteSets

CONSTANTS
    Call,      \* calls of `run`, one per request that reaches the server
    Key,       \* user-and-workspace keys
    Client,    \* client ids of save tokens
    MaxSeq,    \* highest save number a client sends (bound)
    MaxKeys,   \* the constructor's maxKeys: records kept before eviction
    MayForget, \* whether the DELETE route runs in this instance
    Failures,  \* the ways `apply` may end without writing in this instance
    None       \* stands for `undefined`

ASSUME NoneAssumption == None \notin Call \cup Key \cup Client
ASSUME FailuresAssumption == Failures \subseteq {"missed", "threw"}
ASSUME BoundAssumption == MaxSeq \in Nat /\ MaxKeys \in Nat \ {0}

Seqs == 1 .. MaxSeq
SaveToken == [client : Client, seq : Seqs]
NoToken   == [client |-> None, seq |-> 0]

(* A record is the last token written for a key; `stamp` is its place in   *)
(* the Map's insertion order.                                              *)
Record   == [client : Client, seq : Seqs, stamp : Nat \ {0}]
NoRecord == [client |-> None, seq |-> 0, stamp |-> 0]

VARIABLES
    phase,        \* per call: idle, queued, applying, settled
    key,          \* per call: the key it was made for
    token,        \* per call: its save token, or NoToken
    pred,         \* per call: the call it is chained behind, or None
    tails,        \* per key: the call whose tail promise is stored, or None
    lastApplied,  \* per key: the record, or NoRecord
    outcome,      \* per call: how its promise settled
    clock,        \* insertions into lastApplied so far
    arrivals,     \* history: how many calls were made
    arrival,      \* history: per call, its place in arrival order
    wroteAt       \* history: per key, when its last recorded write happened

vars == <<phase, key, token, pred, tails, lastApplied, outcome, clock,
          arrivals, arrival, wroteAt>>
calls == <<key, token, pred, arrivals, arrival>>
records == <<lastApplied, clock, wroteAt>>

TypeOK ==
    /\ phase \in [Call -> {"idle", "queued", "applying", "settled"}]
    /\ key \in [Call -> Key \cup {None}]
    /\ token \in [Call -> SaveToken \cup {NoToken}]
    /\ pred \in [Call -> Call \cup {None}]
    /\ tails \in [Key -> Call \cup {None}]
    /\ lastApplied \in [Key -> Record \cup {NoRecord}]
    /\ outcome \in [Call -> {"pending", "stale", "wrote", "missed", "threw"}]
    /\ clock \in Nat
    /\ arrivals \in Nat
    /\ arrival \in [Call -> Nat]
    /\ wroteAt \in [Key -> Nat]

Init ==
    /\ phase = [c \in Call |-> "idle"]
    /\ key = [c \in Call |-> None]
    /\ token = [c \in Call |-> NoToken]
    /\ pred = [c \in Call |-> None]
    /\ tails = [k \in Key |-> None]
    /\ lastApplied = [k \in Key |-> NoRecord]
    /\ outcome = [c \in Call |-> "pending"]
    /\ clock = 0
    /\ arrivals = 0
    /\ arrival = [c \in Call |-> 0]
    /\ wroteAt = [k \in Key |-> 0]

-----------------------------------------------------------------------------
Made(c)    == phase[c] # "idle"
Started(c) == phase[c] \in {"applying", "settled"}

(* The lastApplied map *)

Recorded(la) == {k \in Key : la[k] # NoRecord}

Oldest(la) == CHOOSE k \in Recorded(la) :
                 \A j \in Recorded(la) : la[k].stamp <= la[j].stamp

Evicted(la) ==
    IF Cardinality(Recorded(la)) > MaxKeys
    THEN [la EXCEPT ![Oldest(la)] = NoRecord]
    ELSE la

(* A plausible bug: an equal number passes. *)
RefusesBelowOnly(k, t) ==
    /\ t # NoToken
    /\ lastApplied[k].client = t.client
    /\ t.seq < lastApplied[k].seq

Refuses(k, t) ==
    /\ t # NoToken
    /\ lastApplied[k].client = t.client
    /\ t.seq <= lastApplied[k].seq

(* A plausible bug: the key keeps its old place in the map. *)
RecordTokenInPlace(k, t) ==
    /\ clock' = clock + 1
    /\ lastApplied' = Evicted([lastApplied EXCEPT
           ![k] = [client |-> t.client, seq |-> t.seq,
                   stamp |-> IF @ = NoRecord THEN clock + 1 ELSE @.stamp]])

(* `record`: reinsert the key as the newest, then drop the oldest over the *)
(* limit.  One insertion, so at most one record is over.                   *)
RecordToken(k, t) ==
    /\ clock' = clock + 1
    /\ lastApplied' = Evicted([lastApplied EXCEPT
           ![k] = [client |-> t.client, seq |-> t.seq, stamp |-> clock + 1]])

-----------------------------------------------------------------------------
(* The promise chain of `exclusive` *)

(* A plausible bug: the stored tail rejects when `apply` threw. *)
TurnCameIfResolved(c) ==
    pred[c] # None => phase[pred[c]] = "settled" /\ outcome[pred[c]] # "threw"

(* `prev` is resolved when there is none, or when the call it belongs to   *)
(* has settled either way: the stored tail swallows a rejection.           *)
TurnCame(c) == pred[c] # None => phase[pred[c]] = "settled"

(* run(key, token, ...): chain behind the stored tail and become it. *)
Run(c, k, t) ==
    /\ phase[c] = "idle"
    /\ phase' = [phase EXCEPT ![c] = "queued"]
    /\ key' = [key EXCEPT ![c] = k]
    /\ token' = [token EXCEPT ![c] = t]
    /\ pred' = [pred EXCEPT ![c] = tails[k]]
    /\ tails' = [tails EXCEPT ![k] = c]
    /\ arrivals' = arrivals + 1
    /\ arrival' = [arrival EXCEPT ![c] = arrivals + 1]
    /\ UNCHANGED <<outcome, records>>

(* The call's turn comes and its number is not above the recorded one. *)
RefuseStale(c) ==
    /\ phase[c] = "queued" /\ TurnCame(c)
    /\ Refuses(key[c], token[c])
    /\ phase' = [phase EXCEPT ![c] = "settled"]
    /\ outcome' = [outcome EXCEPT ![c] = "stale"]
    /\ UNCHANGED <<calls, tails, records>>

(* The call's turn comes and `apply` is started; it is awaited. *)
StartApply(c) ==
    /\ phase[c] = "queued" /\ TurnCame(c)
    /\ ~Refuses(key[c], token[c])
    /\ phase' = [phase EXCEPT ![c] = "applying"]
    /\ UNCHANGED <<calls, tails, outcome, records>>

(* `apply` wrote: didApply holds and a token is recorded. *)
ApplyWrote(c) ==
    /\ phase[c] = "applying"
    /\ phase' = [phase EXCEPT ![c] = "settled"]
    /\ outcome' = [outcome EXCEPT ![c] = "wrote"]
    /\ IF token[c] # NoToken
       THEN /\ RecordToken(key[c], token[c])
            /\ wroteAt' = [wroteAt EXCEPT ![key[c]] = clock + 1]
       ELSE UNCHANGED records
    /\ UNCHANGED <<calls, tails>>

(* `apply` found no workspace, or threw: nothing is recorded. *)
ApplyWroteNothing(c) ==
    /\ phase[c] = "applying"
    /\ phase' = [phase EXCEPT ![c] = "settled"]
    /\ \E o \in Failures : outcome' = [outcome EXCEPT ![c] = o]
    /\ UNCHANGED <<calls, tails, records>>

(* A plausible bug: the entry is removed whoever owns it. *)
DropTailOfAnyone(c) ==
    /\ phase[c] = "settled"
    /\ tails[key[c]] # None
    /\ tails' = [tails EXCEPT ![key[c]] = None]
    /\ UNCHANGED <<phase, calls, outcome, records>>

(* The settled tail removes itself, unless a later call replaced it. *)
DropTail(c) ==
    /\ phase[c] = "settled"
    /\ tails[key[c]] = c
    /\ tails' = [tails EXCEPT ![key[c]] = None]
    /\ UNCHANGED <<phase, calls, outcome, records>>

(* `forget`: the workspace was deleted, so its numbers start again. *)
Forget(k) ==
    /\ MayForget
    /\ lastApplied[k] # NoRecord
    /\ lastApplied' = [lastApplied EXCEPT ![k] = NoRecord]
    /\ UNCHANGED <<phase, calls, tails, outcome, clock, wroteAt>>

Step(c) ==
    \/ RefuseStale(c)
    \/ StartApply(c)
    \/ ApplyWrote(c)
    \/ ApplyWroteNothing(c)
    \/ DropTail(c)

Next ==
    \/ \E c \in Call, k \in Key, t \in SaveToken \cup {NoToken} : Run(c, k, t)
    \/ \E c \in Call : Step(c)
    \/ \E k \in Key : Forget(k)

Spec == Init /\ [][Next]_vars

(* The event loop keeps running callbacks, and `apply` (a store write) is  *)
(* assumed to settle one way or the other.                                 *)
FairSpec == Spec /\ \A c \in Call : WF_vars(Step(c))

-----------------------------------------------------------------------------
(* Properties *)

(* Rule 1: two saves of one key are never inside `apply` together, so      *)
(* "check the number, then write" is not a race.                           *)
OneAtATime ==
    \A a, b \in Call :
        /\ phase[a] = "applying" /\ phase[b] = "applying"
        /\ key[a] = key[b]
        => a = b

(* Rule 1, the order: a call does not start while an earlier call of the   *)
(* same key is unsettled.                                                  *)
ArrivalOrder ==
    \A a, b \in Call :
        /\ phase[a] \in {"applying", "settled"}
        /\ phase[b] \in {"queued", "applying"}
        /\ key[a] = key[b]
        /\ arrival[b] <= arrival[a]
        => a = b

(* What rule 2 does guarantee: a record is never replaced by one of the    *)
(* same client at or below it, although the check and the replacement are  *)
(* separated by an await.                                                  *)
RecordRises ==
    [][\A k \in Key :
          (lastApplied'[k] # lastApplied[k]
             /\ lastApplied[k] # NoRecord /\ lastApplied'[k] # NoRecord
             /\ lastApplied'[k].client = lastApplied[k].client)
          => lastApplied'[k].seq > lastApplied[k].seq]_vars

(* The bound on memory forgets the least recently written key: a record    *)
(* that a write to another key drops was older than all that remain.       *)
EvictsLeastRecent ==
    [][\A k \in Key :
          (lastApplied[k] # NoRecord /\ lastApplied'[k] = NoRecord /\ clock' # clock)
          => /\ Cardinality(Recorded(lastApplied)) = MaxKeys
             /\ \A j \in Recorded(lastApplied') : wroteAt[k] < wroteAt'[j]]_vars

(* Every call settles, even behind one whose `apply` threw. *)
EverySaveSettles == \A c \in Call : phase[c] = "queued" ~> phase[c] = "settled"

=============================================================================
