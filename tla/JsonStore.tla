----------------------------- MODULE JsonStore -----------------------------
(***************************************************************************)
(* The JSON file behind the workspaces where SQLite cannot be loaded       *)
(* (jsonStore.ts: mutate, atomicWrite; workspaceRepo.ts: JsonRepo).        *)
(*                                                                         *)
(* A change waits for its turn, reads the file, works out the new list,    *)
(* writes it to a temporary file and renames that over the file.  Each of  *)
(* these is an await, at which other calls move; each may fail, and the    *)
(* server may die between any two.                                         *)
(*                                                                         *)
(* A read that fails, or whose file does not parse, is not an error: it    *)
(* gives what the server last had of the file, and the change is worked    *)
(* out from that and written.  A server reads the file for its start-up    *)
(* backup, and begins with the seed where that read fails.  Lists are read *)
(* outside the queue and leave what they read behind, however late.        *)
(*                                                                         *)
(* The backup that a restore writes first is part of module Backups.       *)
(***************************************************************************)
EXTENDS Integers, Sequences

CONSTANTS
  Workspace, Caller, Restorable, FirstLists,
  Seed,             \* the list of a new installation
  Troubles,      \* the sets of troubles a behaviour may have with reads
  MaxVersion,    \* bound: versions a caller may hold
  MaxCalls,      \* bound: calls in a behaviour
  MaxRestarts    \* bound: deaths of the server

(* The troubles: the read of a change fails; the first read of a server    *)
(* does; a list is read before a change ends and kept after it.            *)

VARIABLES
  trouble,  \* what may go wrong in this behaviour
  list,     \* the file
  cache,    \* what the server last had of it
  look,     \* what a list request has read and not yet left in the cache
  temp,     \* the temporary file, one per process
  queue,    \* the chain of changes: the first is under way
  job,      \* where each caller's change is
  calls, restarts

jvars == <<trouble, list, cache, look, temp, queue, job, calls, restarts>>

(* What has taken effect is told later; what has not is still asked for. *)
Stage(at) ==
  CASE at \in {"queued", "read", "written"} -> "asked"
    [] at = "renamed" -> "done"
    [] OTHER -> at
Told(j) ==
  [at |-> Stage(j.at), op |-> j.op, outcome |-> j.outcome,
   version |-> IF j.at = "written" THEN 0 ELSE j.version]

Calls == [r \in Caller |-> Told(job[r])]

Promise == INSTANCE WorkspaceList WITH call <- Calls

NoFile == [w \in Workspace |-> -1]
NoJob == [at |-> "idle", op |-> Promise!NoCall.op, seen |-> NoFile, outcome |-> "none", version |-> 0]

(* What the read at the start of a server leaves it with *)
Started(file) == {file} \cup (IF "first read fails" \in trouble THEN {Seed} ELSE {})

Init ==
  /\ trouble \in Troubles
  /\ list \in FirstLists /\ cache \in Started(list) /\ look = NoFile /\ temp = NoFile /\ queue = <<>>
  /\ job = [r \in Caller |-> NoJob] /\ calls = 0 /\ restarts = 0

(* A plausible bug: changes that do not wait for each other. *)
TurnOfAny(r) == \E i \in DOMAIN queue : queue[i] = r

(* mutate: this.queue.then(...) *)
Turn(r) == queue # <<>> /\ Head(queue) = r

Over(r, outcome) ==
  [NoJob EXCEPT !.at = "over", !.outcome = outcome, !.version = IF outcome = "ok" THEN job[r].version ELSE 0]

(* A plausible bug: a failed change leaves the chain rejected. *)
EndStuck(r, outcome) ==
  /\ job' = [job EXCEPT ![r] = Over(r, outcome)]
  /\ queue' = IF outcome = "ok" THEN Tail(queue) ELSE queue

(* The change settles, and whether it failed or not the next one follows. *)
End(r, outcome) ==
  /\ job' = [job EXCEPT ![r] = Over(r, outcome)]
  /\ queue' = Tail(queue)

Ask(r, op) ==
  /\ job[r].at \in {"idle", "over"} /\ calls < MaxCalls
  /\ queue' = Append(queue, r)
  /\ job' = [job EXCEPT ![r] = [NoJob EXCEPT !.at = "queued", !.op = op]]
  /\ calls' = calls + 1
  /\ UNCHANGED <<trouble, list, cache, look, temp, restarts>>

(* A plausible bug: a read that fails gives the seed. *)
GotOrSeed == {list} \cup (IF "read fails" \in trouble THEN {Seed} ELSE {})

(* What a read gives: the file, or what the server last had of it *)
Got == {list} \cup (IF "read fails" \in trouble THEN {cache} ELSE {})

Read(r) ==
  /\ job[r].at = "queued" /\ Turn(r)
  /\ \E l \in Got : cache' = l /\ job' = [job EXCEPT ![r].at = "read", ![r].seen = l]
  /\ UNCHANGED <<trouble, list, look, temp, queue, calls, restarts>>

(* A list is asked for, or a backup made: read() outside the queue. *)
Look ==
  /\ \/ cache' = list /\ UNCHANGED look
     \/ "list is late" \in trouble /\ look = NoFile /\ look' = list /\ UNCHANGED cache
  /\ UNCHANGED <<trouble, list, temp, queue, job, calls, restarts>>

LookEnds ==
  /\ look # NoFile /\ cache' = look /\ look' = NoFile
  /\ UNCHANGED <<trouble, list, temp, queue, job, calls, restarts>>

(* The mutator throws: nothing is written. *)
Refuse(r) ==
  /\ job[r].at = "read" /\ Promise!Refused(job[r].op, job[r].seen)
  /\ End(r, "refused")
  /\ UNCHANGED <<trouble, list, cache, look, temp, calls, restarts>>

(* A plausible bug: the file written in place. *)
WriteInPlace(r) ==
  /\ job[r].at = "read" /\ ~Promise!Refused(job[r].op, job[r].seen)
  /\ temp' = Promise!After(job[r].op, job[r].seen)
  /\ list' = NoFile
  /\ job' = [job EXCEPT ![r].at = "written", ![r].version = Promise!Answer(job[r].op, job[r].seen)]
  /\ UNCHANGED <<trouble, cache, look, queue, calls, restarts>>

(* The mutator and the write of the temporary file *)
Write(r) ==
  /\ job[r].at = "read" /\ ~Promise!Refused(job[r].op, job[r].seen)
  /\ temp' = Promise!After(job[r].op, job[r].seen)
  /\ job' = [job EXCEPT ![r].at = "written", ![r].version = Promise!Answer(job[r].op, job[r].seen)]
  /\ UNCHANGED <<trouble, list, cache, look, queue, calls, restarts>>

Rename(r) ==
  /\ job[r].at = "written" /\ temp # NoFile
  /\ list' = temp /\ temp' = NoFile
  /\ job' = [job EXCEPT ![r].at = "renamed"]
  /\ UNCHANGED <<trouble, cache, look, queue, calls, restarts>>

(* The disk is full, or the rename fails: the file is as it was. *)
Fail(r) ==
  /\ \/ job[r].at = "read" /\ ~Promise!Refused(job[r].op, job[r].seen)
     \/ job[r].at = "written"
  /\ End(r, "failed")
  /\ UNCHANGED <<trouble, list, cache, look, temp, calls, restarts>>

(* A plausible bug: the list that was written is not kept. *)
TellUncached(r) ==
  /\ job[r].at = "renamed"
  /\ End(r, "ok")
  /\ UNCHANGED <<trouble, list, cache, look, temp, calls, restarts>>

(* The write has returned; nobody else has written since. *)
Tell(r) ==
  /\ job[r].at = "renamed"
  /\ End(r, "ok")
  /\ cache' = list
  /\ UNCHANGED <<trouble, list, look, temp, calls, restarts>>

(* The server dies and starts again; what it had in memory is gone, and a  *)
(* half-written temporary file is never read.                              *)
Die ==
  /\ restarts < MaxRestarts
  /\ cache' \in Started(list) /\ look' = NoFile
  /\ queue' = <<>> /\ job' = [r \in Caller |-> NoJob] /\ restarts' = restarts + 1
  /\ UNCHANGED <<trouble, list, temp, calls>>

Step(r) == Read(r) \/ Refuse(r) \/ Write(r) \/ Rename(r) \/ Fail(r) \/ Tell(r)

Next ==
  \/ \E r \in Caller : (\E op \in Promise!Op : Ask(r, op)) \/ Step(r)
  \/ Look \/ LookEnds \/ Die

Spec == Init /\ [][Next]_jvars
FairSpec == Spec /\ \A r \in Caller : WF_jvars(Step(r))

TypeOK ==
  /\ list \in [Workspace -> Nat] /\ cache \in [Workspace -> Nat] /\ look \in [Workspace -> Nat] \cup {NoFile}
  /\ temp \in [Workspace -> Nat] \cup {NoFile}
  /\ queue \in Seq(Caller)
  /\ \A r \in Caller :
       /\ job[r].at \in {"idle", "queued", "read", "written", "renamed", "over"}
       /\ job[r].outcome \in {"none", "ok", "refused", "failed"}
       /\ job[r].version \in Nat
-----------------------------------------------------------------------------
(* The file is one list: a change is worked out from the list it replaces, *)
(* however the calls overlap, and a failure or a death of the server       *)
(* leaves the list as it was before the change or after it, never between. *)
(* It holds where reads fail, if the first one of each server does not and *)
(* lists are not late.  Otherwise the change whose read fails is worked    *)
(* out from the seed or from an older list, and what was stored is lost.   *)
ListSpec == Promise!Spec

(* What the code says of it (jsonStore.ts, mutate: "The mutator receives   *)
(* the freshest on-disk value"); it fails in the same environments.        *)
MutatorGetsTheFile == \A r \in Caller : job[r].at = "read" => job[r].seen = list

(* Every call is answered, unless the server dies: a change that is        *)
(* refused or fails does not hold up those behind it.                      *)
EveryCallEnds == \A r \in Caller : (job[r].at # "idle") ~> (job[r].at \in {"idle", "over"})
=============================================================================
