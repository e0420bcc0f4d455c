---------------------------- MODULE SqliteStart ----------------------------
(***************************************************************************)
(* A server opens its SQLite file (WorkspaceService's constructor,         *)
(* schemaGuard.ts, childKeyMigration.ts): it refuses a file that a newer   *)
(* build stamped, adds the tables that are missing, and moves the child    *)
(* tables from the key "id" to the pair (workspace_id, id), each by        *)
(* create, copy, drop and rename, in one transaction and after a copy of   *)
(* the whole file; then it stamps the file and serves.  A copy is a file   *)
(* named by the second it is made in, or the next such name that is free.  *)
(*                                                                         *)
(* A start is synchronous in its process, and other processes move between *)
(* its statements: a second start, a server of this build that saves, one  *)
(* of an older build that still runs.  Any statement may fail, SQLITE_BUSY *)
(* included, and the process may be killed; both end it.  SQLite gives     *)
(* readers the last commit, one writer at a time, and rollback on death.   *)
(***************************************************************************)
EXTENDS Integers

CONSTANTS
  Server, Table, Row,
  Bad,          \* those of them the new key cannot carry: no id, or no workspace
  None,
  SameSecond,   \* two starts may choose the name of their copies in one second
  MaxStarts,    \* bound: starts in a behaviour
  MaxSaves      \* bound: rows saved in a behaviour

VARIABLES
  db,        \* the file: its stamp, and the key and the rows of each table
  copies,    \* the copies beside it: whole, or still the server's that writes it
  lock,      \* who writes
  txn,       \* the tables as the open transaction has them
  server,    \* where each start is, and what it saw
  starts, saves

svars == <<db, copies, lock, txn, server, starts, saves>>

(* By the build of the guard, one before it or none, or one after it or    *)
(* something that is no number                                             *)
Stamp == {"this", "older", "newer"}
Shape == [stamp : Stamp, key : [Table -> {"absent", "id", "pair"}], rows : [Table -> SUBSET Row]]
Files ==
  {f \in Shape :
     \A t \in Table : /\ f.key[t] = "absent" => f.rows[t] = {}
                      /\ f.key[t] = "pair" => f.rows[t] \cap Bad = {}}

NoRows == [t \in Table |-> {}]
NoTxn == [key |-> [t \in Table |-> "absent"], rows |-> NoRows, next |-> None]
Off == [at |-> "off", seen |-> NoRows, name |-> None, snap |-> None]

(* Names for copies, in the order they are tried *)
Name == 1 .. MaxStarts

Init ==
  /\ db \in Files /\ copies = [n \in Name |-> None] /\ lock = None /\ txn = NoTxn
  /\ server = [p \in Server |-> Off] /\ starts = 0 /\ saves = 0

Goes(p, at) == server' = [server EXCEPT ![p].at = at]

(* assertSchemaNotNewer *)
Refused(stamp) == stamp = "newer"

Open(p) ==
  /\ server[p].at = "off" /\ starts < MaxStarts /\ starts' = starts + 1
  /\ Goes(p, IF Refused(db.stamp) THEN "off" ELSE "create")
  /\ UNCHANGED <<db, copies, lock, txn, saves>>

(* CREATE TABLE IF NOT EXISTS: a missing table comes with the new key. *)
CreateTables(p) ==
  /\ server[p].at = "create" /\ lock = None
  /\ db' = [db EXCEPT !.key = [t \in Table |-> IF @[t] = "absent" THEN "pair" ELSE @[t]]]
  /\ Goes(p, "check")
  /\ UNCHANGED <<copies, lock, txn, starts, saves>>

(* A plausible bug: the stamp decides and not the key the tables have. *)
PendingByStamp(f) == IF f.stamp = "this" THEN {} ELSE {t \in Table : f.key[t] = "id"}

(* sqliteKeyedOnIdAlone *)
Pending(f) == {t \in Table : f.key[t] = "id"}

(* sqliteBlockers: a table to rebuild has rows it cannot carry over. *)
Blocked(f) == \E t \in Pending(f) : f.rows[t] \cap Bad # {}

Check(p) ==
  /\ server[p].at = "check"
  /\ server' = [server EXCEPT ![p].seen = db.rows,
                              ![p].at = IF Pending(db) = {} THEN "stamp" ELSE IF Blocked(db) THEN "off" ELSE "name"]
  /\ UNCHANGED <<db, copies, lock, txn, starts, saves>>

(* preMigrationCopyPath: a name that no file has *)
Free(n) == copies[n] = None /\ (SameSecond \/ \A q \in Server : server[q].name # n)

NameCopy(p) ==
  /\ server[p].at = "name"
  /\ \E n \in Name :
       /\ Free(n) /\ \A m \in 1 .. n - 1 : ~Free(m)
       /\ server' = [server EXCEPT ![p].at = "copy", ![p].name = n]
  /\ UNCHANGED <<db, copies, lock, txn, starts, saves>>

(* VACUUM INTO takes no file that is there, and reads one state of the     *)
(* database, the one it begins with.                                       *)
BeginCopy(p) ==
  /\ server[p].at = "copy" /\ copies[server[p].name] = None
  /\ copies' = [copies EXCEPT ![server[p].name] = p]
  /\ server' = [server EXCEPT ![p].at = "copying", ![p].snap = db]
  /\ UNCHANGED <<db, lock, txn, starts, saves>>

(* It is written, and a file of that name is there. *)
CopyWritten(p) ==
  /\ server[p].at = "copying" /\ copies[server[p].name] # None
  /\ copies' = [copies EXCEPT ![server[p].name] = IF @ = p THEN server[p].snap ELSE @]
  /\ server' = [server EXCEPT ![p].at = "begin", ![p].snap = None]
  /\ UNCHANGED <<db, lock, txn, starts, saves>>

(* A plausible bug: no copy is a warning. *)
CopyIsOptional(p) ==
  /\ server[p].at \in {"copy", "copying"}
  /\ server' = [server EXCEPT ![p].at = "begin", ![p].snap = None]
  /\ UNCHANGED <<db, copies, lock, txn, starts, saves>>

(* No copy, no migration: whatever has its name is removed, if that works. *)
CopyFails(p) ==
  /\ server[p].at \in {"copy", "copying"}
  /\ copies' \in {copies, [copies EXCEPT ![server[p].name] = None]}
  /\ server' = [server EXCEPT ![p] = Off]
  /\ UNCHANGED <<db, lock, txn, starts, saves>>

BeginMigration(p) ==
  /\ server[p].at = "begin" /\ lock = None
  /\ lock' = p
  /\ txn' = [key |-> db.key, rows |-> db.rows, next |-> None]
  /\ Goes(p, "rebuild")
  /\ UNCHANGED <<db, copies, starts, saves>>

(* A plausible bug: each statement commits by itself. *)
WrittenAtOnce(tables) ==
  /\ txn' = tables
  /\ db' = [db EXCEPT !.key = tables.key, !.rows = tables.rows]

(* What a statement inside the transaction writes *)
Written(tables) == txn' = tables /\ UNCHANGED db

(* A plausible bug: INSERT OR IGNORE, and rows left behind. *)
CarriedIfFit(rows) == {rows \ Bad}

(* INSERT ... SELECT of every row, or an error *)
Carried(rows) == IF rows \cap Bad = {} THEN {rows} ELSE {}

Fill(p, t) ==
  /\ server[p].at = "rebuild" /\ txn.key[t] = "id" /\ txn.next = None
  /\ \E rows \in Carried(txn.rows[t]) : Written([txn EXCEPT !.next = [of |-> t, rows |-> rows]])
  /\ UNCHANGED <<copies, lock, server, starts, saves>>

Drop(p, t) ==
  /\ server[p].at = "rebuild" /\ txn.key[t] = "id" /\ txn.next # None /\ txn.next.of = t
  /\ Written([txn EXCEPT !.key[t] = "absent", !.rows[t] = {}])
  /\ UNCHANGED <<copies, lock, server, starts, saves>>

Rename(p, t) ==
  /\ server[p].at = "rebuild" /\ txn.key[t] = "absent" /\ txn.next # None /\ txn.next.of = t
  /\ Written([key |-> [txn.key EXCEPT ![t] = "pair"], rows |-> [txn.rows EXCEPT ![t] = txn.next.rows], next |-> None])
  /\ UNCHANGED <<copies, lock, server, starts, saves>>

Commit(p) ==
  /\ server[p].at = "rebuild" /\ txn.next = None /\ \A t \in Table : txn.key[t] # "id"
  /\ db' = [db EXCEPT !.key = txn.key, !.rows = txn.rows]
  /\ lock' = None /\ txn' = NoTxn
  /\ Goes(p, "stamp")
  /\ UNCHANGED <<copies, starts, saves>>

StampFile(p) ==
  /\ server[p].at = "stamp" /\ lock = None
  /\ db' = [db EXCEPT !.stamp = "this"]
  /\ server' = [server EXCEPT ![p] = [Off EXCEPT !.at = "serving"]]
  /\ UNCHANGED <<copies, lock, txn, starts, saves>>

(* A statement fails or the process is killed: its transaction is rolled back. *)
Stop(p) ==
  /\ server[p].at # "off"
  /\ server' = [server EXCEPT ![p] = Off]
  /\ lock' = IF lock = p THEN None ELSE lock
  /\ txn' = IF lock = p THEN NoTxn ELSE txn
  /\ UNCHANGED <<db, copies, starts, saves>>

Save(t, row) ==
  /\ lock = None /\ saves < MaxSaves /\ row \notin db.rows[t]
  /\ db' = [db EXCEPT !.rows[t] = @ \cup {row}]
  /\ saves' = saves + 1
  /\ UNCHANGED <<copies, lock, txn, server, starts>>

Saves(t, row) == (\E p \in Server : server[p].at = "serving") /\ db.key[t] = "pair" /\ row \notin Bad /\ Save(t, row)

(* A server of the build before still runs on the file. *)
OlderSaves(t, row) == ~Refused(db.stamp) /\ db.key[t] = "id" /\ Save(t, row)

Next ==
  \/ \E p \in Server :
       \/ Open(p) \/ CreateTables(p) \/ Check(p) \/ NameCopy(p) \/ BeginCopy(p) \/ CopyWritten(p) \/ CopyFails(p)
       \/ BeginMigration(p) \/ (\E t \in Table : Fill(p, t) \/ Drop(p, t) \/ Rename(p, t))
       \/ Commit(p) \/ StampFile(p) \/ Stop(p)
  \/ \E t \in Table, row \in Row : Saves(t, row) \/ OlderSaves(t, row)

Spec == Init /\ [][Next]_svars

TypeOK ==
  /\ db \in Files /\ copies \in [Name -> Files \cup Server \cup {None}] /\ lock \in Server \cup {None}
  /\ \A p \in Server :
       /\ server[p].at \in {"off", "create", "check", "name", "copy", "copying", "begin", "rebuild", "stamp", "serving"}
       /\ server[p].seen \in [Table -> SUBSET Row] /\ server[p].name \in Name \cup {None} /\ server[p].snap \in Files \cup {None}
  /\ (txn = NoTxn) = (lock = None)
-----------------------------------------------------------------------------
AllPaired(f) == \A t \in Table : f.key[t] = "pair"

(* A whole copy, where the start that writes made it, of what it saw.      *)
HasCopy(t) ==
  \E p \in Server : LET c == copies[server[p].name] IN
    /\ lock = p /\ c \in Shape /\ c.key[t] = "id"
    /\ \A u \in Table : server[p].seen[u] \subseteq c.rows[u]

(* However starts overlap, fail and are killed, and while others save: no  *)
(* start loses a row; a table is rekeyed whole or not at all, and only     *)
(* when a copy of the file before can be gone back to; a file of a newer   *)
(* build is not touched; and no file is stamped, and no server serves,     *)
(* before every table has its new key (childKeyMigration.ts:20, :132).     *)
(* With SameSecond a start that fails to copy removes the copy of another, *)
(* which then migrates without.                                            *)
StartsKeepTheRows ==
  [][/\ db.stamp = "newer" => db' = db
     /\ \A t \in Table : /\ db.rows[t] \subseteq db'.rows[t]
                         /\ db.key[t] # db'.key[t] => db'.key[t] = "pair" /\ (db.key[t] = "id" => HasCopy(t))
     /\ db'.stamp # db.stamp => AllPaired(db')
     /\ \A p \in Server : server'[p].at = "serving" => AllPaired(db')]_svars
=============================================================================
