------------------------------ MODULE MCServer ------------------------------
(***************************************************************************)
(* Three machines of the server side by side for TLC: the save sequencer,  *)
(* the JSON store, and the opening of the SQLite file.  They do not share  *)
(* state: a behaviour is one of a single machine, the one `part` names.    *)
(*                                                                         *)
(* Calls and keys of the sequencer are numbers and are used in their       *)
(* order, which stands for every order: neither is told from another of    *)
(* its kind.  So are the callers of the JSON store.  Either some calls of  *)
(* two clients meet on one key, or the saves of one client, in their own   *)
(* order, go to several.                                                   *)
(***************************************************************************)
EXTENDS SaveSequencer

CONSTANTS
  MaxMeeting,   \* bound: calls that meet on one key
  MaxSpread,    \* bound: calls over several keys
  MaxBesideLists,   \* bound: changes of the JSON file beside late lists
  Workspace, Caller, Troubles, MaxVersion, MaxCalls, MaxRestarts,   \* of JsonStore
  Server, Table, Row, Bad, SameSecond, MaxStarts, MaxSaves          \* of SqliteStart

VARIABLES
  part,
  trouble, list, cache, look, temp, queue, job, asks, restarts,
  db, copies, lock, txn, server, starts, saves

(* A store with one of two workspaces at version 2, and a backup that holds *)
(* the one at version 1 and the other at 3.                                 *)
First == CHOOSE w \in Workspace : TRUE
Begun == {[w \in Workspace |-> IF w = First THEN 2 ELSE 0]}
Saved == {[w \in Workspace |-> IF w = First THEN 1 ELSE 3]}

(* A new installation has the other one. *)
New == [w \in Workspace |-> IF w = First THEN 0 ELSE 1]

Json == INSTANCE JsonStore WITH FirstLists <- Begun, Seed <- New, Restorable <- Saved, calls <- asks
Startup == INSTANCE SqliteStart

json == <<trouble, list, cache, look, temp, queue, job, asks, restarts>>
sqlite == <<db, copies, lock, txn, server, starts, saves>>

InOrder ==
    \A c \in Call : Made(c) =>
        /\ arrival[c] = c
        /\ \A k \in 1 .. key[c] - 1 : \E d \in 1 .. c - 1 : key[d] = k

Meeting == arrivals <= MaxMeeting /\ \A c \in Call : Made(c) => key[c] = 1

Spread ==
    /\ arrivals <= MaxSpread
    /\ \A c, d \in Call : Made(c) /\ Made(d) =>
         /\ token[c] # NoToken /\ token[c].client = token[d].client
         /\ key[c] = key[d] /\ c < d => token[c].seq < token[d].seq
    /\ \A c \in Call : outcome[c] \in {"pending", "wrote"}

(* A caller of the JSON store comes after those before it. *)
CallersInOrder == \A r, q \in Caller : r < q /\ job[r].at = "idle" => job[q].at = "idle"

MCInit ==
    /\ part \in {"sequencer", "json", "sqlite"}
    /\ Init /\ Json!Init /\ (part # "json" => trouble = CHOOSE t \in Troubles : TRUE)
    /\ Startup!Init /\ (part # "sqlite" => db = CHOOSE f \in Startup!Files : TRUE)

MCNext ==
    /\ UNCHANGED part
    /\ \/ /\ part = "sequencer" /\ Next /\ InOrder' /\ (Meeting' \/ Spread')
          /\ UNCHANGED <<json, sqlite>>
       \/ /\ part = "json" /\ Json!Next /\ CallersInOrder' /\ ("list is late" \in trouble => asks' <= MaxBesideLists)
          /\ UNCHANGED <<vars, sqlite>>
       \/ part = "sqlite" /\ Startup!Next /\ UNCHANGED <<vars, json>>

MCFairSpec ==
    /\ MCInit /\ [][MCNext]_<<part, vars, json, sqlite>>
    /\ \A c \in Call : WF_vars(part = "sequencer" /\ Step(c))
    /\ \A r \in Caller : WF_json(part = "json" /\ Json!Step(r))
-----------------------------------------------------------------------------
(* JsonStore: the file is one list, on which every change takes effect at  *)
(* one moment or not at all.                                               *)
ListSpec == Json!Promise!Init /\ [][part = "json" => Json!Promise!Next]_<<list, Json!Calls>>

(* What is stored stands, whatever overlaps, fails or dies: a change of    *)
(* the JSON file is worked out from the list it replaces and takes effect  *)
(* whole or not at all (ListSpec), and a start on a SQLite file loses no   *)
(* row and rekeys the tables whole, with a copy to go back to.             *)
StoredDataStands == ListSpec /\ Startup!StartsKeepTheRows

(* Every save and every change of the list is answered, behind failed ones *)
(* too, unless the server dies.                                            *)
EveryCallSettles == EverySaveSettles /\ Json!EveryCallEnds
=============================================================================
