------------------------------ MODULE Backups ------------------------------
(***************************************************************************)
(* The backups the server takes of its workspaces, and the operations that *)
(* rely on them: a save that shrinks a workspace sharply (dataLossGuard),  *)
(* a delete, a restore, and a backup the user asks for (workspaceRoutes,   *)
(* workspaceRepo: SqliteRepo, writeJsonBackup, pruneGeneratedBackups).     *)
(*                                                                         *)
(* One workspace, whose contents are one of a few: Full ones hold many     *)
(* results, Trimmed ones sharply fewer.  A request runs from one await to  *)
(* the next; saves pass the sequencer one at a time, nothing orders the    *)
(* rest.  Backups are files named by kind and millisecond.  The copies in  *)
(* OMNI_BACKUP_DIR are left out: they never change what is kept here.      *)
(***************************************************************************)
EXTENDS Integers, FiniteSets

CONSTANTS
  Full, Trimmed,  \* contents a save may bring
  Request,        \* requests in flight
  Keep,           \* the quota of each pool
  SameName,       \* may two backups under way get one file name?
  MaxAsked,       \* bound: requests asked in a behaviour
  MaxDied         \* bound: deaths of the server

VARIABLES
  store,    \* the workspace in the database
  backups,  \* the files under data/backups
  clock,    \* milliseconds, as far as file names can tell them apart
  task,     \* what each request is about to do
  born,     \* how often the workspace was created anew
  asked, died

bvars == <<store, backups, clock, task, born, asked, died>>

Kind == {"save", "delete", "restore", "manual"}
Contents == Full \cup Trimmed
Absent == [content |-> "none", version |-> 0, life |-> 0]
Row == [content : Contents, version : Nat \ {0}, life : Nat]

Is(w, content) == w # Absent /\ w.content = content

Idle == [at |-> "idle", kind |-> "manual", want |-> "none", expected |-> 0, life |-> 0,
         read |-> Absent, stamp |-> 0, outcome |-> "none", stale |-> {}]

Init ==
  /\ store = [content |-> CHOOSE c \in Full : TRUE, version |-> 1, life |-> 0]
  /\ backups = {} /\ clock = 1 /\ born = 0 /\ asked = 0 /\ died = 0
  /\ task = [o \in Request |-> Idle]

(* A plausible bug: one pool for all, as before the quotas were split. *)
PoolOfAll(kind) == "other"

(* quotaFor *)
Pool(kind) == IF kind \in {"manual", "restore"} THEN kind ELSE "other"

(* isSharpDrop: at least 20 rows before, and none or less than half after. *)
SharpDrop(w, content) == w # Absent /\ w.content \in Full /\ content \in Trimmed

(* Files by their stamp, and by their name where the stamps are equal; of  *)
(* one pool only "pre-delete" and "pre-shrink" differ in name.             *)
Older(f, g) == f.stamp < g.stamp \/ (f.stamp = g.stamp /\ f.kind = "delete" /\ g.kind = "save")
Newer(f, all) == {g \in all : Pool(g.kind) = Pool(f.kind) /\ Older(f, g)}

At(o, place) == task[o].at = place
Goes(o, place) == task' = [task EXCEPT ![o].at = place]
Ends(o) == task' = [task EXCEPT ![o] = Idle]
-----------------------------------------------------------------------------
(* A PUT, DELETE or POST /backup arrives; a PUT carries the version its    *)
(* tab knows, or none.                                                     *)
Ask(o) ==
  /\ At(o, "idle") /\ asked < MaxAsked
  /\ asked' = asked + 1
  /\ \/ \E content \in Contents, expected \in {0, store.version} :
          task' = [task EXCEPT ![o] = [Idle EXCEPT !.at = "queued", !.kind = "save", !.want = content,
                                                   !.expected = expected, !.life = store.life]]
     \/ \E kind \in {"delete", "manual"} :
          task' = [task EXCEPT ![o] = [Idle EXCEPT !.at = "export", !.kind = kind]]
  /\ UNCHANGED <<store, backups, clock, born, died>>

(* POST /restore: the backup is read and validated first. *)
AskRestore(o) ==
  /\ At(o, "idle") /\ asked < MaxAsked
  /\ asked' = asked + 1
  /\ \E f \in backups :
       /\ f.whole
       /\ task' = [task EXCEPT ![o] = [Idle EXCEPT !.at = "export", !.kind = "restore", !.want = f.holds.content]]
  /\ UNCHANGED <<store, backups, clock, born, died>>

(* POST /api/workspaces with the id, once it is free. *)
Create(o) ==
  /\ At(o, "idle") /\ asked < MaxAsked /\ store = Absent
  /\ asked' = asked + 1 /\ born' = born + 1
  /\ \E content \in Contents : store' = [content |-> content, version |-> 1, life |-> born']
  /\ UNCHANGED <<backups, clock, task, died>>

(* applyWorkspaceUpdateWithGuard, in the sequencer's turn: the workspace   *)
(* as stored is compared with what the patch would leave.                  *)
Guard(o) ==
  /\ At(o, "queued") /\ \A p \in Request \ {o} : task[p].kind = "save" => At(p, "idle") \/ At(p, "queued")
  /\ Goes(o, IF SharpDrop(store, task[o].want) THEN "export" ELSE "act")
  /\ UNCHANGED <<store, backups, clock, born, asked, died>>

(* exportAll: what the backup will hold. *)
Export(o) ==
  /\ At(o, "export")
  /\ task' = [task EXCEPT ![o].at = "stamp", ![o].read = store]
  /\ UNCHANGED <<store, backups, clock, born, asked, died>>

(* The name is chosen after the directory was made, and another request    *)
(* may or may not get the same millisecond.                                *)
Stamp(o) ==
  /\ At(o, "stamp")
  /\ SameName \/ \A p \in Request :
       At(p, "place") => task[p].kind # task[o].kind \/ task[p].stamp # clock
  /\ task' = [task EXCEPT ![o].at = "place", ![o].stamp = clock]
  /\ clock' \in {clock, clock + 1}
  /\ UNCHANGED <<store, backups, born, asked, died>>

(* A plausible bug: the file is written under its final name. *)
PlaceInPlace(o) ==
  LET name == [kind |-> task[o].kind, stamp |-> task[o].stamp]
      others == {f \in backups : f.kind # name.kind \/ f.stamp # name.stamp}
  IN /\ At(o, "place")
     /\ \E whole \in BOOLEAN :
          /\ backups' = others \cup {[kind |-> name.kind, stamp |-> name.stamp,
                                      holds |-> task[o].read, whole |-> whole]}
          /\ Goes(o, IF whole THEN "list" ELSE "place")
     /\ clock' = IF clock = name.stamp THEN clock + 1 ELSE clock
     /\ UNCHANGED <<store, born, asked, died>>

(* The whole file gets its name at once, in place of one of the same name. *)
(* Writing it took more than the millisecond it is named after.            *)
Place(o) ==
  LET name == [kind |-> task[o].kind, stamp |-> task[o].stamp]
      others == {f \in backups : f.kind # name.kind \/ f.stamp # name.stamp}
  IN /\ At(o, "place")
     /\ backups' = others \cup {[kind |-> name.kind, stamp |-> name.stamp, holds |-> task[o].read, whole |-> TRUE]}
     /\ Goes(o, "list")
     /\ clock' = IF clock = name.stamp THEN clock + 1 ELSE clock
     /\ UNCHANGED <<store, born, asked, died>>

(* pruneGeneratedBackups: reads the directory ...                          *)
ListStale(o) ==
  /\ At(o, "list")
  /\ task' = [task EXCEPT ![o].at = "unlink",
       ![o].stale = {f \in backups : Cardinality(Newer(f, backups)) >= Keep[Pool(f.kind)]}]
  /\ UNCHANGED <<store, backups, clock, born, asked, died>>

(* ... and removes what was over the quotas then; the backup is taken.     *)
Unlink(o) ==
  /\ At(o, "unlink")
  /\ backups' = backups \ task[o].stale
  /\ IF task[o].kind = "manual" THEN Ends(o)
     ELSE task' = [task EXCEPT ![o].at = "act", ![o].outcome = "taken", ![o].stale = {}]
  /\ UNCHANGED <<store, clock, born, asked, died>>

(* A plausible bug: a restore goes on without its backup. *)
FailAndGoOn(o) ==
  /\ task[o].at \in {"stamp", "place"}
  /\ IF task[o].kind = "manual" THEN Ends(o)
     ELSE task' = [task EXCEPT ![o].at = "act", ![o].outcome = "failed"]
  /\ UNCHANGED <<store, backups, clock, born, asked, died>>

(* The disk refuses.  A save or a delete goes on and says so; a restore    *)
(* and the user's own backup are refused.                                  *)
Fail(o) ==
  /\ task[o].at \in {"stamp", "place"}
  /\ IF task[o].kind \in {"manual", "restore"} THEN Ends(o)
     ELSE task' = [task EXCEPT ![o].at = "act", ![o].outcome = "failed"]
  /\ UNCHANGED <<store, backups, clock, born, asked, died>>

(* updateWorkspace finds the workspace, at the version expected of it. *)
Accepts(o) == store # Absent /\ task[o].expected \in {0, store.version}

Update(o) ==
  /\ At(o, "act") /\ task[o].kind = "save"
  /\ store' = IF Accepts(o) THEN [store EXCEPT !.content = task[o].want, !.version = @ + 1] ELSE store
  /\ Ends(o)
  /\ UNCHANGED <<backups, clock, born, asked, died>>

Remove(o) ==
  /\ At(o, "act") /\ task[o].kind = "delete"
  /\ store' = Absent
  /\ Ends(o)
  /\ UNCHANGED <<backups, clock, born, asked, died>>

(* replaceAll: the workspace as the backup had it, at a later version. *)
Replace(o) ==
  /\ At(o, "act") /\ task[o].kind = "restore"
  /\ store' = IF task[o].want = "none" THEN Absent
              ELSE IF store = Absent THEN [content |-> task[o].want, version |-> 1, life |-> born + 1]
              ELSE [store EXCEPT !.content = task[o].want, !.version = @ + 1]
  /\ born' = IF task[o].want # "none" /\ store = Absent THEN born + 1 ELSE born
  /\ Ends(o)
  /\ UNCHANGED <<backups, clock, asked, died>>

(* The server dies; the files and the database stay as they are. *)
Die ==
  /\ died < MaxDied /\ \E o \in Request : ~At(o, "idle")
  /\ died' = died + 1
  /\ task' = [o \in Request |-> Idle]
  /\ UNCHANGED <<store, backups, clock, born, asked>>

Next ==
  \/ \E o \in Request :
       \/ Ask(o) \/ AskRestore(o) \/ Create(o) \/ Guard(o)
       \/ Export(o) \/ Stamp(o) \/ Place(o) \/ ListStale(o) \/ Unlink(o) \/ Fail(o)
       \/ Update(o) \/ Remove(o) \/ Replace(o)
  \/ Die

Spec == Init /\ [][Next]_bvars
-----------------------------------------------------------------------------
TypeOK ==
  /\ store \in Row \cup {Absent}
  /\ \A f \in backups :
       f.kind \in Kind /\ f.stamp \in 1 .. clock /\ f.holds \in Row \cup {Absent} /\ f.whole \in BOOLEAN
  /\ clock \in Nat /\ born \in Nat /\ asked \in 0 .. MaxAsked /\ died \in 0 .. MaxDied
  /\ \A o \in Request :
       /\ task[o].at \in {"idle", "queued", "export", "stamp", "place", "list", "unlink", "act"}
       /\ task[o].kind \in Kind /\ task[o].want \in Contents \cup {"none"}
       /\ task[o].expected \in Nat /\ task[o].read \in Row \cup {Absent}
       /\ task[o].outcome \in {"none", "taken", "failed"}

BackedUp == \E f \in backups : f.whole /\ Is(f.holds, store.content)

(* What an operation takes away is in a backup, or the operation was told  *)
(* that its backup failed: the full contents that a save shrinks, if the   *)
(* save carries a version learnt in this life of the workspace; and what a *)
(* delete or a restore removes, if nothing was saved while it ran.  A      *)
(* restore whose backup failed replaces nothing.                           *)
LossIsBackedUp ==
  [][\A o \in Request :
       LET told == task[o].outcome = "failed"
       IN store # Absent =>
          /\ (Update(o) /\ Accepts(o) /\ SharpDrop(store, task[o].want)
                /\ task[o].expected # 0 /\ task[o].life = store.life) => BackedUp \/ told
          /\ (Remove(o) /\ task[o].read = store) => BackedUp \/ told
          /\ (Replace(o) /\ task[o].read = store) => BackedUp]_bvars

AlikeKinds(f, g) == f.kind = g.kind \/ {f.kind, g.kind} \subseteq {"save", "delete"}

(* A backup is whole from the moment it has its name, and leaves its pool  *)
(* only for as many later ones of the same pool: automatic backups never   *)
(* cost the user one of his own.                                           *)
BackupsStand ==
  [][/\ \A f \in backups' : f.whole
     /\ \A f \in backups \ backups' :
          Cardinality({g \in backups' : AlikeKinds(f, g) /\ ~Older(g, f)}) >= Keep[Pool(f.kind)]]_bvars
=============================================================================
