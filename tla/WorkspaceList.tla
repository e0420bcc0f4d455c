--------------------------- MODULE WorkspaceList ---------------------------
(***************************************************************************)
(* What a store of workspaces promises: one list, on which every call that *)
(* changes it takes effect at one moment between its request and its       *)
(* answer, or not at all.  The operations are those of JsonRepo            *)
(* (workspaceRepo.ts); a workspace is its version, 0 where there is none.  *)
(***************************************************************************)
EXTENDS Integers

CONSTANTS
  Workspace, Caller,
  Restorable,      \* the lists that backup files hold
  FirstLists,      \* the lists a store may begin with
  MaxVersion       \* bound: versions a caller may hold

VARIABLES
  list,    \* version of each workspace
  call     \* what each caller is about, and what it was last told

Nothing == [w \in Workspace |-> 0]
Change == [kind : {"create", "remove"}, ws : Workspace, expected : {0}, from : {Nothing}]
Update == [kind : {"update"}, ws : Workspace, expected : 0..MaxVersion, from : {Nothing}]
Restore == [kind : {"restore"}, ws : {CHOOSE w \in Workspace : TRUE}, expected : {0}, from : Restorable]
Op == Change \cup Update \cup Restore

(* A create of an id that exists, an update of another version than asked. *)
Refused(op, l) ==
  \/ op.kind = "create" /\ l[op.ws] # 0
  \/ op.kind = "update" /\ l[op.ws] # 0 /\ op.expected \notin {0, l[op.ws]}

(* A restore moves what is there forward, so that who holds an older       *)
(* version is refused; what is not in the backup goes.                     *)
Restored(version, saved) ==
  IF saved = 0 THEN 0 ELSE IF version = 0 THEN saved ELSE (IF version > saved THEN version ELSE saved) + 1

Updated(version) == IF version = 0 THEN 0 ELSE version + 1

After(op, l) ==
  CASE op.kind = "create" -> [l EXCEPT ![op.ws] = 1]
    [] op.kind = "update" -> [l EXCEPT ![op.ws] = Updated(@)]
    [] op.kind = "remove" -> [l EXCEPT ![op.ws] = 0]
    [] op.kind = "restore" -> [w \in Workspace |-> Restored(l[w], op.from[w])]

(* The version a caller is told of: 0 where there is no such workspace. *)
Answer(op, l) == IF op.kind \in {"create", "update"} THEN After(op, l)[op.ws] ELSE 0

NoCall == [at |-> "idle", op |-> CHOOSE op \in Change : TRUE, outcome |-> "none", version |-> 0]

Init == list \in FirstLists /\ call = [r \in Caller |-> NoCall]

Ask(r, op) ==
  /\ call[r].at \in {"idle", "over"}
  /\ call' = [call EXCEPT ![r] = [NoCall EXCEPT !.at = "asked", !.op = op]]
  /\ UNCHANGED list

TakeEffect(r) ==
  /\ call[r].at = "asked" /\ ~Refused(call[r].op, list)
  /\ list' = After(call[r].op, list)
  /\ call' = [call EXCEPT ![r].at = "done", ![r].version = Answer(call[r].op, list)]

Tell(r) ==
  /\ call[r].at = "done"
  /\ call' = [call EXCEPT ![r] = [NoCall EXCEPT !.at = "over", !.outcome = "ok", !.version = call[r].version]]
  /\ UNCHANGED list

Refuse(r) ==
  /\ call[r].at = "asked" /\ Refused(call[r].op, list)
  /\ call' = [call EXCEPT ![r] = [NoCall EXCEPT !.at = "over", !.outcome = "refused"]]
  /\ UNCHANGED list

Fail(r) ==
  /\ call[r].at = "asked"
  /\ call' = [call EXCEPT ![r] = [NoCall EXCEPT !.at = "over", !.outcome = "failed"]]
  /\ UNCHANGED list

(* The server dies: nobody is told anything, and what took effect stays. *)
Lose == call' = [r \in Caller |-> NoCall] /\ UNCHANGED list

Next ==
  \/ \E r \in Caller : (\E op \in Op : Ask(r, op)) \/ TakeEffect(r) \/ Tell(r) \/ Refuse(r) \/ Fail(r)
  \/ Lose

Spec == Init /\ [][Next]_<<list, call>>
=============================================================================
