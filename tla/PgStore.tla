------------------------------ MODULE PgStore ------------------------------
(***************************************************************************)
(* The PostgreSQL store of one workspace, packages/db/src/                 *)
(* PgWorkspaceService.ts, as several sessions use it at once: two members  *)
(* of a team, two server processes, a script.  The save sequencer does not *)
(* order them (its key holds the user), so only the store's own            *)
(* transactions do.  Isolation is READ COMMITTED.                          *)
(*                                                                         *)
(* A workspace is a row of `workspaces` and rows of twelve child tables;   *)
(* Part stands for the places its data is kept in, RowPart for the columns *)
(* of the row.  Every read takes the row first and the child tables after  *)
(* it, one query each, with no transaction around them; every write        *)
(* rewrites all parts in one transaction, and so becomes visible at once.  *)
(***************************************************************************)
EXTENDS Naturals, FiniteSets

CONSTANTS
  Session,        \* callers whose calls overlap
  Part, RowPart,  \* where the data of the workspace is kept
  Val,            \* what a part can be set to
  Empty,          \* a part without data
  Keep,           \* a part that a patch leaves alone
  Nobody,         \* no session
  MaxVersion,     \* bound: no save begins at or above this version
  MaxUpheavals,   \* bound: deletes and restores of a whole backup
  MaxSnapshots    \* bound: stored snapshots

ASSUME PartAssumption == RowPart \in Part
ASSUME NobodyAssumption == Nobody \notin Session
ASSUME KeepAssumption == Keep \notin Val \cup {Empty} /\ Empty \notin Val
ASSUME BoundAssumption == MaxVersion \in Nat /\ MaxUpheavals \in Nat /\ MaxSnapshots \in Nat

VARIABLES
  doc,        \* the committed workspace; version 0 when there is no row
  lives,      \* history: how often the row was put in anew
  lock,       \* the session that holds the row's lock
  snapshots,  \* contents of workspace_snapshots
  call,       \* what each session is executing
  known,      \* the copy a session was last answered with
  upheavals   \* deletes and whole restores so far

vars == <<doc, lives, lock, snapshots, call, known, upheavals>>
----------------------------------------------------------------------------
Contents == [Part -> Val \cup {Empty}]
Patches == [Part -> Val \cup {Empty, Keep}]
NoContents == [p \in Part |-> Empty]
NoPatch == [p \in Part |-> Keep]

(* A save sets one part; a patch that sets more is a snapshot's. *)
Edits == {[NoPatch EXCEPT ![p] = v] : p \in Part, v \in Val \cup {Empty}}

(* `life` and `blind` are history: the number of times the row was put in  *)
(* anew, and whether a transaction that found no row to lock wrote into    *)
(* this life.                                                              *)
Doc == [version : Nat, life : Nat, parts : Contents, blind : BOOLEAN]
NoDoc == [version |-> 0, life |-> 0, parts |-> NoContents, blind |-> FALSE]

Copy == [version : Nat, life : Nat, parts : Contents]
NoCopy == [version |-> 0, life |-> 0, parts |-> NoContents]

(* kind says what a call does once it has read the workspace; "answer"     *)
(* returns the copy.  stored is the version a writer bases its own on.     *)
Call == [kind : {"none", "save", "create", "replace", "answer", "snapshot"},
         pc : {"idle", "row", "children", "taken", "insert", "wipe", "waiting", "write"},
         got : Copy, todo : SUBSET Part,
         patch : Patches, expected : Nat, stored : Nat]

NewCall(kind, pc, patch, expected, stored) ==
  [kind |-> kind, pc |-> pc, got |-> NoCopy, todo |-> {},
   patch |-> patch, expected |-> expected, stored |-> stored]

IdleCall == NewCall("none", "idle", NoPatch, 0, 0)
AnswerCall == NewCall("answer", "row", NoPatch, 0, 0)

(* A call that has read part of the workspace; one that goes on with pc. *)
Reading(c, got, todo) ==
  [kind |-> c.kind, pc |-> "children", got |-> got, todo |-> todo,
   patch |-> c.patch, expected |-> c.expected, stored |-> c.stored]
GoesOn(c, pc, stored) ==
  [kind |-> c.kind, pc |-> pc, got |-> c.got, todo |-> c.todo,
   patch |-> c.patch, expected |-> c.expected, stored |-> stored]

(* { ...existing, ...patch } *)
Merge(parts, patch) == [p \in Part |-> IF patch[p] = Keep THEN parts[p] ELSE patch[p]]

Present == doc.version > 0
Children == Part \ {RowPart}
ReadIsOver(s) == call[s].pc = "children" /\ call[s].todo = {}
MayLock(s) == lock \in {Nobody, s}
Unlocked(s) == IF lock = s THEN Nobody ELSE lock

Init ==
  /\ doc = [version |-> 1, life |-> 1, parts |-> NoContents, blind |-> FALSE]
  /\ lives = 1
  /\ lock = Nobody
  /\ snapshots = {}
  /\ call = [s \in Session |-> IdleCall]
  /\ known = [s \in Session |-> [version |-> 1, life |-> 1, parts |-> NoContents]]
  /\ upheavals = 0
----------------------------------------------------------------------------
(* Calls begin *)

Begin(s, new) ==
  /\ call[s].pc = "idle"
  /\ call' = [call EXCEPT ![s] = new]
  /\ UNCHANGED <<doc, lives, lock, snapshots, known>>

(* updateWorkspace: a patch, with the version the caller last saw or       *)
(* without one (expected 0).                                               *)
BeginSave(s) ==
  /\ doc.version < MaxVersion
  /\ \E patch \in Edits, expected \in {0, known[s].version} :
       Begin(s, NewCall("save", "row", patch, expected, 0))
  /\ UNCHANGED upheavals

(* restoreSnapshot: the whole stored copy is the patch, no version is      *)
(* checked; the row must be visible to the caller.                         *)
BeginRestoreSnapshot(s) ==
  /\ Present
  /\ doc.version < MaxVersion
  /\ \E parts \in snapshots :
       Begin(s, NewCall("save", "row", parts, 0, 0))
  /\ UNCHANGED upheavals

(* createWorkspace: a copy the caller holds comes back (Undo of a delete). *)
BeginCreate(s) ==
  /\ Begin(s, NewCall("create", "taken", known[s].parts, 0, 0))
  /\ UNCHANGED upheavals

(* getWorkspace, listWorkspaces *)
BeginRead(s) ==
  /\ Begin(s, AnswerCall)
  /\ UNCHANGED upheavals

BeginSnapshot(s) ==
  /\ Cardinality(snapshots) < MaxSnapshots
  /\ Begin(s, NewCall("snapshot", "row", NoPatch, 0, 0))
  /\ UNCHANGED upheavals

(* replaceAll: BEGIN and the SELECT of the versions, before any row is     *)
(* locked.                                                                 *)
BeginReplace(s) ==
  /\ upheavals < MaxUpheavals
  /\ \E v \in Val \cup {Empty} :
       Begin(s, NewCall("replace", "wipe", [p \in Part |-> v], 0, doc.version))
  /\ upheavals' = upheavals + 1
----------------------------------------------------------------------------
(* getWorkspace, one query after another *)

Finish(s) == call' = [call EXCEPT ![s] = IdleCall]

(* SELECT * FROM workspaces; without a row the call is over: undefined, or *)
(* a 404.                                                                  *)
ReadRow(s) ==
  /\ call[s].pc = "row"
  /\ \/ /\ Present
        /\ LET got == [version |-> doc.version, life |-> doc.life,
                       parts |-> [NoContents EXCEPT ![RowPart] = doc.parts[RowPart]]]
           IN  call' = [call EXCEPT ![s] = Reading(call[s], got, Children)]
        /\ UNCHANGED known
     \/ /\ ~Present
        /\ Finish(s)
        /\ known' = [known EXCEPT ![s] = IF call[s].kind = "answer" THEN NoCopy ELSE known[s]]
  /\ UNCHANGED <<doc, lives, lock, snapshots, upheavals>>

(* A plausible bug in getWorkspace: the row is read after the child tables. *)
ReadChildThenVersion(s) ==
  /\ call[s].pc = "children"
  /\ \E p \in call[s].todo :
       LET got == [version |-> doc.version, life |-> doc.life,
                   parts |-> [call[s].got.parts EXCEPT ![p] = doc.parts[p]]]
       IN  call' = [call EXCEPT ![s] = Reading(call[s], got, call[s].todo \ {p})]
  /\ UNCHANGED <<doc, lives, lock, snapshots, known, upheavals>>

(* The next child table; it has no rows for a workspace that is gone.      *)
ReadChild(s) ==
  /\ call[s].pc = "children"
  /\ \E p \in call[s].todo :
       LET got == [version |-> call[s].got.version, life |-> call[s].got.life,
                   parts |-> [call[s].got.parts EXCEPT ![p] = doc.parts[p]]]
       IN  call' = [call EXCEPT ![s] = Reading(call[s], got, call[s].todo \ {p})]
  /\ UNCHANGED <<doc, lives, lock, snapshots, known, upheavals>>

Answer(s) ==
  /\ ReadIsOver(s)
  /\ call[s].kind = "answer"
  /\ known' = [known EXCEPT ![s] = call[s].got]
  /\ Finish(s)
  /\ UNCHANGED <<doc, lives, lock, snapshots, upheavals>>

(* createSnapshot inserts what it read.  The insert refers to the row, and *)
(* so waits for its lock and fails when the row is gone.                   *)
StoreSnapshot(s) ==
  /\ ReadIsOver(s)
  /\ call[s].kind = "snapshot"
  /\ MayLock(s)
  /\ snapshots' = IF Present THEN snapshots \cup {call[s].got.parts} ELSE snapshots
  /\ Finish(s)
  /\ UNCHANGED <<doc, lives, lock, known, upheavals>>
----------------------------------------------------------------------------
(* The transaction of updateWorkspace *)

(* A plausible bug, and the code as it was: the version compared, or      *)
(* counted on, is the one read before the transaction.                     *)
VersionMovedAtRead(s) == call[s].expected # 0 /\ call[s].got.version # call[s].expected
StoredAtRead(s) == call[s].got.version

VersionMoved(s) == call[s].expected # 0 /\ doc.version # call[s].expected
Stored(s) == IF Present THEN doc.version ELSE 1

(* BEGIN; SELECT version FOR UPDATE; the comparison.  With no row nothing  *)
(* is compared or locked, and the version counts from 1.                   *)
LockRow(s) ==
  /\ ReadIsOver(s)
  /\ call[s].kind = "save"
  /\ MayLock(s)
  /\ \/ /\ Present
        /\ VersionMoved(s)
        /\ Finish(s)
        /\ UNCHANGED lock
     \/ /\ Present
        /\ ~VersionMoved(s)
        /\ lock' = s
        /\ call' = [call EXCEPT ![s] = GoesOn(call[s], "write", Stored(s))]
     \/ /\ ~Present
        /\ call' = [call EXCEPT ![s] = GoesOn(call[s], "write", Stored(s))]
        /\ UNCHANGED lock
  /\ UNCHANGED <<doc, lives, snapshots, known, upheavals>>

(* writeWorkspaceUnsafe and COMMIT: the row is upserted and every child    *)
(* table rewritten from the copy read before the lock.  Without a lock the *)
(* upsert waits for whoever has it.  Then the workspace is read back.      *)
CommitSave(s) ==
  /\ call[s].kind = "save"
  /\ call[s].pc = "write"
  /\ MayLock(s)
  /\ doc' = [version |-> call[s].stored + 1,
             life |-> IF Present THEN doc.life ELSE lives + 1,
             parts |-> Merge(call[s].got.parts, call[s].patch),
             blind |-> Present /\ (doc.blind \/ lock # s)]
  /\ lives' = IF Present THEN lives ELSE lives + 1
  /\ lock' = Unlocked(s)
  /\ call' = [call EXCEPT ![s] = AnswerCall]
  /\ UNCHANGED <<snapshots, known, upheavals>>
----------------------------------------------------------------------------
(* createWorkspace *)

(* BEGIN, the advisory lock, SELECT 1: a taken id is refused.  The lock    *)
(* keeps another create of the id out until this one commits.              *)
CheckTaken(s) ==
  /\ call[s].pc = "taken"
  /\ \A o \in Session : call[o].pc # "insert"
  /\ \/ /\ Present
        /\ Finish(s)
     \/ /\ ~Present
        /\ call' = [call EXCEPT ![s] = GoesOn(call[s], "insert", 0)]
  /\ UNCHANGED <<doc, lives, lock, snapshots, known, upheavals>>

(* The upsert at version 1, over a row if one has come since, and COMMIT;  *)
(* then the workspace is read back.                                        *)
CommitCreate(s) ==
  /\ call[s].pc = "insert"
  /\ MayLock(s)
  /\ doc' = [version |-> 1, life |-> IF Present THEN doc.life ELSE lives + 1,
             parts |-> Merge(NoContents, call[s].patch), blind |-> Present]
  /\ lives' = IF Present THEN lives ELSE lives + 1
  /\ call' = [call EXCEPT ![s] = AnswerCall]
  /\ UNCHANGED <<lock, snapshots, known, upheavals>>

(* deleteWorkspace: one statement.  Snapshots go with the row.             *)
Delete(s) ==
  /\ call[s].pc = "idle"
  /\ upheavals < MaxUpheavals
  /\ Present
  /\ lock = Nobody
  /\ doc' = NoDoc
  /\ snapshots' = {}
  /\ upheavals' = upheavals + 1
  /\ UNCHANGED <<lives, lock, call, known>>
----------------------------------------------------------------------------
(* replaceAll *)

(* DELETE FROM workspaces locks the row that is there until COMMIT.        *)
Wipe(s) ==
  /\ call[s].kind = "replace"
  /\ call[s].pc = "wipe"
  /\ MayLock(s)
  /\ lock' = IF Present THEN s ELSE lock
  /\ call' = [call EXCEPT ![s] = GoesOn(call[s], "write", call[s].stored)]
  /\ UNCHANGED <<doc, lives, snapshots, known, upheavals>>

(* A statement that waits for a row which replaceAll has deleted: the row  *)
(* it waits for will not come back, another is inserted in its place.      *)
WaitForReplace(s) ==
  /\ lock \notin {Nobody, s}
  /\ call[lock].kind = "replace"
  /\ call[s].pc = "wipe" \/ (ReadIsOver(s) /\ call[s].kind = "save")
  /\ call' = [call EXCEPT ![s] = GoesOn(call[s], "waiting", call[s].stored)]
  /\ UNCHANGED <<doc, lives, lock, snapshots, known, upheavals>>

(* After COMMIT the waiting statement finds no row; after ROLLBACK it is   *)
(* as if it had not waited.                                                *)
Woken(c) == GoesOn(c, "write", IF c.kind = "save" THEN 1 ELSE c.stored)
Unwoken(c) == GoesOn(c, IF c.kind = "save" THEN "children" ELSE "wipe", c.stored)
AfterRelease(s, result, Wake(_)) ==
  [o \in Session |-> IF o = s THEN result
                     ELSE IF lock = s /\ call[o].pc = "waiting" THEN Wake(call[o])
                     ELSE call[o]]

(* The inserts, one version above the one selected at the beginning, and   *)
(* COMMIT.  Snapshots of the deleted row are gone.                         *)
CommitReplace(s) ==
  /\ call[s].kind = "replace"
  /\ call[s].pc = "write"
  /\ MayLock(s)
  /\ doc' = [version |-> call[s].stored + 1, life |-> lives + 1,
             parts |-> Merge(NoContents, call[s].patch), blind |-> Present /\ lock # s]
  /\ lives' = lives + 1
  /\ snapshots' = IF lock = s THEN {} ELSE snapshots
  /\ lock' = Unlocked(s)
  /\ call' = AfterRelease(s, IdleCall, Woken)
  /\ UNCHANGED <<known, upheavals>>

(* A plausible bug in the error path: no ROLLBACK on a failed transaction. *)
UnlockedOnlyByCommit(s) == lock

UnlockedByRollback(s) == Unlocked(s)

(* A query fails, or the server process ends: ROLLBACK, and the caller     *)
(* hears an error or nothing.                                              *)
Fail(s) ==
  /\ call[s].pc # "idle"
  /\ lock' = UnlockedByRollback(s)
  /\ call' = AfterRelease(s, IdleCall, Unwoken)
  /\ UNCHANGED <<doc, lives, snapshots, known, upheavals>>
----------------------------------------------------------------------------
Next ==
  \E s \in Session :
    \/ BeginSave(s) \/ BeginRestoreSnapshot(s) \/ BeginCreate(s) \/ BeginRead(s)
    \/ BeginSnapshot(s) \/ BeginReplace(s) \/ Delete(s)
    \/ ReadRow(s) \/ ReadChild(s) \/ Answer(s) \/ StoreSnapshot(s)
    \/ LockRow(s) \/ CommitSave(s)
    \/ CheckTaken(s) \/ CommitCreate(s)
    \/ Wipe(s) \/ WaitForReplace(s) \/ CommitReplace(s)
    \/ Fail(s)

Spec == Init /\ [][Next]_vars
----------------------------------------------------------------------------
(* The state has its types: a lock is on a row that is there, and its      *)
(* holder has a write to commit.                                           *)
TypeOK ==
  /\ doc \in Doc
  /\ lives \in Nat
  /\ lock \in Session \cup {Nobody}
  /\ snapshots \subseteq Contents
  /\ call \in [Session -> Call]
  /\ known \in [Session -> Copy]
  /\ upheavals \in Nat

(* Only a call that has a write to commit holds the row's lock, and the    *)
(* row it locked is still the committed one: its version is the one the    *)
(* holder counts on, however long the holder takes (FOR UPDATE in          *)
(* updateWorkspace).                                                       *)
LockedRowStands ==
  lock # Nobody =>
    /\ Present
    /\ call[lock].pc = "write"
    /\ call[lock].kind = "save" => call[lock].stored = doc.version

(* A session whose copy carries the stored version has the stored data in  *)
(* every part, although getWorkspace reads the parts at different moments: *)
(* a copy whose parts are of different versions is always behind, and its  *)
(* next save is refused.  It holds in each life of the row, until a save   *)
(* that found no row to lock writes into it.                               *)
CurrentCopyIsWhole ==
  \A s \in Session :
    (Present /\ ~doc.blind /\ known[s].life = doc.life /\ known[s].version = doc.version)
    => known[s].parts = doc.parts

(* A save that carries a version its session learnt in this life of the    *)
(* row changes what its patch sets and nothing else, although it writes    *)
(* the whole workspace from a copy read before the lock.                   *)
CheckedSaveKeepsOthers ==
  [][\A s \in Session :
       (CommitSave(s) /\ lock = s /\ call[s].expected # 0
          /\ ~doc.blind /\ known[s].life = doc.life)
       => doc'.parts = Merge(doc.parts, call[s].patch)]_vars

(* Within one life of the row, other contents come with a higher version:  *)
(* two saves that nothing orders never write the same next version.        *)
NewContentsNewVersion ==
  [][(Present /\ doc'.life = doc.life /\ ~doc'.blind)
       => doc'.version > doc.version \/ doc' = doc]_vars

(* replaceAll: "its revision counter moves forward, so a restore neither   *)
(* orphans a tenant's data nor lets a tab holding the old revision         *)
(* overwrite what was just restored."                                      *)
RestoreMovesForward ==
  [][\A s \in Session : (CommitReplace(s) /\ Present) => doc'.version > doc.version]_vars
=============================================================================
