--------------------------- MODULE PgStore_proofs ---------------------------
(***************************************************************************)
(* Proofs about PgStore, for any sessions, parts, values and bounds.       *)
(* The argument: every statement that writes the row waits until nobody    *)
(* else holds its lock, and every way out of a transaction - COMMIT or     *)
(* ROLLBACK - gives the lock back.  So a row that is locked is still the   *)
(* one its holder looked at.                                               *)
(***************************************************************************)
EXTENDS PgStore, TLAPS

LEMMA NewCallType ==
  ASSUME NEW kind \in {"none", "save", "create", "replace", "answer", "snapshot"},
         NEW pc \in {"idle", "row", "children", "taken", "insert", "wipe", "waiting", "write"},
         NEW patch \in Patches, NEW expected \in Nat, NEW stored \in Nat
  PROVE  NewCall(kind, pc, patch, expected, stored) \in Call
  <1>1. NoCopy \in Copy
    BY DEF NoCopy, Copy, NoContents, Contents
  <1> QED BY <1>1 DEF NewCall, Call

LEMMA StandardCalls ==
  /\ NoPatch \in Patches
  /\ IdleCall \in Call /\ IdleCall.pc = "idle"
  /\ AnswerCall \in Call /\ AnswerCall.pc = "row"
  <1>1. NoPatch \in Patches
    BY DEF NoPatch, Patches
  <1>2. IdleCall \in Call /\ AnswerCall \in Call
    BY <1>1, NewCallType DEF IdleCall, AnswerCall
  <1>3. IdleCall.pc = "idle" /\ AnswerCall.pc = "row"
    BY DEF IdleCall, AnswerCall, NewCall
  <1> QED BY <1>1, <1>2, <1>3

LEMMA GoesOnType ==
  ASSUME NEW c \in Call, NEW stored \in Nat,
         NEW pc \in {"idle", "row", "children", "taken", "insert", "wipe", "waiting", "write"}
  PROVE  /\ GoesOn(c, pc, stored) \in Call
         /\ GoesOn(c, pc, stored).pc = pc
         /\ GoesOn(c, pc, stored).kind = c.kind
         /\ GoesOn(c, pc, stored).stored = stored
  BY DEF GoesOn, Call

LEMMA ReadingType ==
  ASSUME NEW c \in Call, NEW got \in Copy, NEW todo \in SUBSET Part
  PROVE  Reading(c, got, todo) \in Call /\ Reading(c, got, todo).pc = "children"
  BY DEF Reading, Call

(* A patch over contents gives contents. *)
LEMMA MergeType ==
  ASSUME NEW parts \in Contents, NEW patch \in Patches
  PROVE  Merge(parts, patch) \in Contents
  BY DEF Merge, Contents, Patches

(* Waking or not waking the sessions that wait for a replaced row. *)
LEMMA ReleaseType ==
  ASSUME NEW s \in Session, call \in [Session -> Call]
  PROVE  /\ AfterRelease(s, IdleCall, Woken) \in [Session -> Call]
         /\ AfterRelease(s, IdleCall, Unwoken) \in [Session -> Call]
  <1>1. \A o \in Session : Woken(call[o]) \in Call /\ Unwoken(call[o]) \in Call
    <2> SUFFICES ASSUME NEW o \in Session
                 PROVE  Woken(call[o]) \in Call /\ Unwoken(call[o]) \in Call
      OBVIOUS
    <2>1. call[o] \in Call /\ call[o].stored \in Nat
      BY DEF Call
    <2>2. (IF call[o].kind = "save" THEN 1 ELSE call[o].stored) \in Nat
      BY <2>1
    <2>3. Woken(call[o]) \in Call
      BY <2>1, <2>2, GoesOnType DEF Woken
    <2>4. Unwoken(call[o]) \in Call
      BY <2>1, GoesOnType DEF Unwoken
    <2> QED BY <2>3, <2>4
  <1> QED BY <1>1, StandardCalls DEF AfterRelease

-----------------------------------------------------------------------------
(* Type correctness *)

LEMMA InitType == Init => TypeOK
  <1> SUFFICES ASSUME Init PROVE TypeOK
    OBVIOUS
  <1>1. NoContents \in Contents
    BY DEF NoContents, Contents
  <1>2. doc \in Doc
    BY <1>1 DEF Init, Doc
  <1>3. known \in [Session -> Copy]
    BY <1>1 DEF Init, Copy
  <1> QED BY <1>2, <1>3, StandardCalls DEF Init, TypeOK

LEMMA TypeStep == TypeOK /\ [Next]_vars => TypeOK'
  <1> SUFFICES ASSUME TypeOK, [Next]_vars PROVE TypeOK'
    OBVIOUS
  <1> USE PartAssumption, StandardCalls
  <1>a. NoContents \in Contents /\ NoCopy \in Copy /\ NoDoc \in Doc
    BY DEF NoContents, Contents, NoCopy, Copy, NoDoc, Doc
  <1>b. Contents \subseteq Patches
    BY DEF Contents, Patches
  <1>c. /\ doc.version \in Nat /\ doc.life \in Nat
        /\ doc.parts \in Contents /\ doc.blind \in BOOLEAN
    BY DEF TypeOK, Doc
  <1>d. ASSUME NEW s \in Session
        PROVE  /\ call[s] \in Call /\ call[s].got \in Copy /\ call[s].todo \subseteq Part
               /\ call[s].patch \in Patches /\ call[s].stored \in Nat
               /\ known[s] \in Copy /\ known[s].version \in Nat /\ known[s].parts \in Contents
    BY DEF TypeOK, Call, Copy
  <1>e. ASSUME NEW s \in Session, NEW new \in Call, Begin(s, new), upheavals' \in Nat
        PROVE  TypeOK'
    BY <1>e DEF Begin, TypeOK
  <1>1. ASSUME NEW s \in Session, BeginSave(s) PROVE TypeOK'
    <2>1. Edits \subseteq Patches
      BY DEF Edits, NoPatch, Patches
    <2>2. PICK patch \in Edits, expected \in {0, known[s].version} :
             Begin(s, NewCall("save", "row", patch, expected, 0))
      BY <1>1 DEF BeginSave
    <2>3. NewCall("save", "row", patch, expected, 0) \in Call
      BY <2>1, <1>d, NewCallType
    <2> QED BY <2>2, <2>3, <1>1, <1>e DEF BeginSave, TypeOK
  <1>2. ASSUME NEW s \in Session, BeginRestoreSnapshot(s) PROVE TypeOK'
    <2>1. PICK parts \in snapshots : Begin(s, NewCall("save", "row", parts, 0, 0))
      BY <1>2 DEF BeginRestoreSnapshot
    <2>2. NewCall("save", "row", parts, 0, 0) \in Call
      BY <1>b, NewCallType DEF TypeOK
    <2> QED BY <2>1, <2>2, <1>2, <1>e DEF BeginRestoreSnapshot, TypeOK
  <1>3. ASSUME NEW s \in Session, BeginCreate(s) PROVE TypeOK'
    <2>1. NewCall("create", "taken", known[s].parts, 0, 0) \in Call
      BY <1>b, <1>d, NewCallType
    <2> QED BY <2>1, <1>3, <1>e DEF BeginCreate, TypeOK
  <1>4. ASSUME NEW s \in Session, BeginRead(s) PROVE TypeOK'
    BY <1>4, <1>e DEF BeginRead, TypeOK
  <1>5. ASSUME NEW s \in Session, BeginSnapshot(s) PROVE TypeOK'
    <2>1. NewCall("snapshot", "row", NoPatch, 0, 0) \in Call
      BY NewCallType
    <2> QED BY <2>1, <1>5, <1>e DEF BeginSnapshot, TypeOK
  <1>6. ASSUME NEW s \in Session, BeginReplace(s) PROVE TypeOK'
    <2>1. PICK v \in Val \cup {Empty} :
             Begin(s, NewCall("replace", "wipe", [p \in Part |-> v], 0, doc.version))
      BY <1>6 DEF BeginReplace
    <2>2. [p \in Part |-> v] \in Patches
      BY DEF Patches
    <2>3. NewCall("replace", "wipe", [p \in Part |-> v], 0, doc.version) \in Call
      BY <2>2, <1>c, NewCallType
    <2>4. upheavals' \in Nat
      BY <1>6 DEF BeginReplace, TypeOK
    <2> QED BY <2>1, <2>3, <2>4, <1>e
  <1>7. ASSUME NEW s \in Session, ReadRow(s) PROVE TypeOK'
    <2> DEFINE got == [version |-> doc.version, life |-> doc.life,
                       parts |-> [NoContents EXCEPT ![RowPart] = doc.parts[RowPart]]]
    <2>1. [NoContents EXCEPT ![RowPart] = doc.parts[RowPart]] \in Contents
      BY <1>a, <1>c DEF Contents
    <2>2. got \in Copy
      BY <2>1, <1>c DEF Copy
    <2>3. Reading(call[s], got, Children) \in Call
      BY <2>2, <1>d, ReadingType DEF Children
    <2> HIDE DEF got
    <2>4. CASE call' = [call EXCEPT ![s] = Reading(call[s], got, Children)] /\ UNCHANGED known
      BY <2>3, <2>4, <1>7 DEF ReadRow, TypeOK
    <2>5. CASE /\ Finish(s)
               /\ known' = [known EXCEPT ![s] =
                              IF call[s].kind = "answer" THEN NoCopy ELSE known[s]]
      BY <2>5, <1>7, <1>a, <1>d DEF ReadRow, Finish, TypeOK
    <2> QED BY <1>7, <2>4, <2>5 DEF ReadRow, got
  <1>8. ASSUME NEW s \in Session, ReadChild(s) PROVE TypeOK'
    <2>1. PICK p \in call[s].todo :
             call' = [call EXCEPT ![s] =
               Reading(call[s], [version |-> call[s].got.version, life |-> call[s].got.life,
                                 parts |-> [call[s].got.parts EXCEPT ![p] = doc.parts[p]]],
                       call[s].todo \ {p})]
      BY <1>8 DEF ReadChild
    <2> DEFINE got == [version |-> call[s].got.version, life |-> call[s].got.life,
                       parts |-> [call[s].got.parts EXCEPT ![p] = doc.parts[p]]]
    <2>2. p \in Part
      BY <1>d
    <2>3. [call[s].got.parts EXCEPT ![p] = doc.parts[p]] \in Contents
      <3>1. call[s].got.parts \in Contents
        BY <1>d DEF Copy
      <3> QED BY <3>1, <2>2, <1>c DEF Contents
    <2>4. got \in Copy
      BY <2>3, <1>d DEF Copy
    <2>5. Reading(call[s], got, call[s].todo \ {p}) \in Call
      BY <2>4, <1>d, ReadingType
    <2>6. call' = [call EXCEPT ![s] = Reading(call[s], got, call[s].todo \ {p})]
      BY <2>1
    <2> HIDE DEF got
    <2> QED BY <2>5, <2>6, <1>8 DEF ReadChild, TypeOK
  <1>9. ASSUME NEW s \in Session, Answer(s) PROVE TypeOK'
    BY <1>9, <1>d DEF Answer, Finish, TypeOK
  <1>10. ASSUME NEW s \in Session, StoreSnapshot(s) PROVE TypeOK'
    <2>1. call[s].got.parts \in Contents
      BY <1>d DEF Copy
    <2> QED BY <2>1, <1>10 DEF StoreSnapshot, Finish, TypeOK
  <1>11. ASSUME NEW s \in Session, LockRow(s) PROVE TypeOK'
    <2>1. Stored(s) \in Nat
      BY <1>c DEF Stored
    <2>2. GoesOn(call[s], "write", Stored(s)) \in Call
      BY <2>1, <1>d, GoesOnType
    <2> QED BY <2>2, <1>11 DEF LockRow, Finish, TypeOK
  <1>12. ASSUME NEW s \in Session, CommitSave(s) PROVE TypeOK'
    <2>1. call[s].got.parts \in Contents
      BY <1>d DEF Copy
    <2>2. Merge(call[s].got.parts, call[s].patch) \in Contents
      BY <2>1, <1>d, MergeType
    <2>3. doc' \in Doc /\ lives' \in Nat
      BY <2>2, <1>12, <1>c, <1>d DEF CommitSave, Doc, TypeOK
    <2>4. lock' \in Session \cup {Nobody}
      BY <1>12 DEF CommitSave, Unlocked, TypeOK
    <2> QED BY <2>3, <2>4, <1>12 DEF CommitSave, TypeOK
  <1>13. ASSUME NEW s \in Session, CheckTaken(s) PROVE TypeOK'
    <2>1. GoesOn(call[s], "insert", 0) \in Call
      BY <1>d, GoesOnType
    <2> QED BY <2>1, <1>13 DEF CheckTaken, Finish, TypeOK
  <1>14. ASSUME NEW s \in Session, CommitCreate(s) PROVE TypeOK'
    <2>1. Merge(NoContents, call[s].patch) \in Contents
      BY <1>a, <1>d, MergeType
    <2>2. doc' \in Doc /\ lives' \in Nat
      BY <2>1, <1>14, <1>c DEF CommitCreate, Doc, Present, TypeOK
    <2> QED BY <2>2, <1>14 DEF CommitCreate, TypeOK
  <1>15. ASSUME NEW s \in Session, Delete(s) PROVE TypeOK'
    BY <1>15, <1>a DEF Delete, TypeOK
  <1>16. ASSUME NEW s \in Session, Wipe(s) PROVE TypeOK'
    <2>1. GoesOn(call[s], "write", call[s].stored) \in Call
      BY <1>d, GoesOnType
    <2> QED BY <2>1, <1>16 DEF Wipe, TypeOK
  <1>17. ASSUME NEW s \in Session, WaitForReplace(s) PROVE TypeOK'
    <2>1. GoesOn(call[s], "waiting", call[s].stored) \in Call
      BY <1>d, GoesOnType
    <2> QED BY <2>1, <1>17 DEF WaitForReplace, TypeOK
  <1>18. ASSUME NEW s \in Session, CommitReplace(s) PROVE TypeOK'
    <2>1. Merge(NoContents, call[s].patch) \in Contents
      BY <1>a, <1>d, MergeType
    <2>2. doc' \in Doc /\ lives' \in Nat
      BY <2>1, <1>18, <1>c, <1>d DEF CommitReplace, Doc, TypeOK
    <2>3. call' \in [Session -> Call]
      BY <1>18, ReleaseType DEF CommitReplace, TypeOK
    <2>4. lock' \in Session \cup {Nobody} /\ snapshots' \subseteq Contents
      BY <1>18 DEF CommitReplace, Unlocked, TypeOK
    <2> QED BY <2>2, <2>3, <2>4, <1>18 DEF CommitReplace, TypeOK
  <1>19. ASSUME NEW s \in Session, Fail(s) PROVE TypeOK'
    <2>1. call' \in [Session -> Call]
      BY <1>19, ReleaseType DEF Fail, TypeOK
    <2>2. lock' \in Session \cup {Nobody}
      BY <1>19 DEF Fail, UnlockedByRollback, Unlocked, TypeOK
    <2> QED BY <2>1, <2>2, <1>19 DEF Fail, TypeOK
  <1>20. CASE UNCHANGED vars
    BY <1>20 DEF vars, TypeOK
  <1> QED
    BY <1>1, <1>2, <1>3, <1>4, <1>5, <1>6, <1>7, <1>8, <1>9, <1>10, <1>11, <1>12,
       <1>13, <1>14, <1>15, <1>16, <1>17, <1>18, <1>19, <1>20 DEF Next

(* In every run the store's state has its types. *)
THEOREM TypeCorrect == Spec => []TypeOK
  <1>1. Init => TypeOK
    BY InitType
  <1>2. TypeOK /\ [Next]_vars => TypeOK'
    BY TypeStep
  <1> QED BY <1>1, <1>2, PTL DEF Spec

-----------------------------------------------------------------------------
(* A locked row stands *)

(* A step of a session that lets go of the lock, or never had it, and      *)
(* leaves the row and the other sessions alone.                            *)
LEMMA LockKept ==
  ASSUME TypeOK, LockedRowStands, NEW s \in Session,
         lock # s, lock' = lock, doc' = doc,
         \A o \in Session \ {s} : call'[o] = call[o]
  PROVE  LockedRowStands'
  BY NobodyAssumption DEF TypeOK, LockedRowStands, Present

LEMMA LockStep == TypeOK /\ LockedRowStands /\ [Next]_vars => LockedRowStands'
  <1> SUFFICES ASSUME TypeOK, LockedRowStands, [Next]_vars PROVE LockedRowStands'
    OBVIOUS
  <1> USE NobodyAssumption
  (* Only the session at the end of its transaction has the lock. *)
  <1>a. ASSUME NEW s \in Session, call[s].pc # "write" PROVE lock # s
    BY <1>a DEF LockedRowStands
  <1>b. ASSUME NEW s \in Session, NEW new, call' = [call EXCEPT ![s] = new]
        PROVE  \A o \in Session \ {s} : call'[o] = call[o]
    BY <1>b DEF TypeOK
  <1>c. ASSUME NEW s \in Session, NEW new, Begin(s, new) PROVE LockedRowStands'
    <2>1. lock # s
      BY <1>c, <1>a DEF Begin
    <2> QED BY <2>1, <1>c, <1>b, LockKept DEF Begin
  <1>1. ASSUME NEW s \in Session,
               \/ BeginSave(s) \/ BeginRestoreSnapshot(s) \/ BeginCreate(s)
               \/ BeginRead(s) \/ BeginSnapshot(s) \/ BeginReplace(s)
        PROVE  LockedRowStands'
    BY <1>1, <1>c DEF BeginSave, BeginRestoreSnapshot, BeginCreate, BeginRead,
                      BeginSnapshot, BeginReplace
  <1>2. ASSUME NEW s \in Session, ReadRow(s) PROVE LockedRowStands'
    BY <1>2, <1>a, <1>b, LockKept DEF ReadRow, Finish
  <1>3. ASSUME NEW s \in Session, ReadChild(s) PROVE LockedRowStands'
    BY <1>3, <1>a, <1>b, LockKept DEF ReadChild
  <1>4. ASSUME NEW s \in Session, Answer(s) \/ StoreSnapshot(s) PROVE LockedRowStands'
    BY <1>4, <1>a, <1>b, LockKept DEF Answer, StoreSnapshot, ReadIsOver, Finish
  <1>5. ASSUME NEW s \in Session, LockRow(s) PROVE LockedRowStands'
    <2>1. lock # s
      BY <1>5, <1>a DEF LockRow, ReadIsOver
    <2>2. lock = Nobody /\ doc' = doc
      BY <2>1, <1>5 DEF LockRow, MayLock
    <2>3. CASE lock' = lock
      BY <2>2, <2>3 DEF LockedRowStands
    <2>4. CASE /\ Present /\ lock' = s
               /\ call' = [call EXCEPT ![s] = GoesOn(call[s], "write", Stored(s))]
      <3>1. call'[s] = GoesOn(call[s], "write", Stored(s)) /\ Stored(s) = doc.version
        BY <2>4 DEF TypeOK, Stored
      <3>2. call'[s].pc = "write" /\ call'[s].stored = doc.version
        BY <3>1 DEF GoesOn
      <3> QED BY <3>2, <2>2, <2>4 DEF LockedRowStands, Present
    <2> QED BY <1>5, <2>3, <2>4 DEF LockRow
  <1>6. ASSUME NEW s \in Session, CommitSave(s) PROVE LockedRowStands'
    BY <1>6 DEF CommitSave, MayLock, Unlocked, LockedRowStands
  <1>7. ASSUME NEW s \in Session, CheckTaken(s) PROVE LockedRowStands'
    BY <1>7, <1>a, <1>b, LockKept DEF CheckTaken, Finish
  <1>8. ASSUME NEW s \in Session, CommitCreate(s) PROVE LockedRowStands'
    BY <1>8, <1>a DEF CommitCreate, MayLock, LockedRowStands
  <1>9. ASSUME NEW s \in Session, Delete(s) PROVE LockedRowStands'
    BY <1>9 DEF Delete, LockedRowStands
  <1>10. ASSUME NEW s \in Session, Wipe(s) PROVE LockedRowStands'
    <2>1. lock = Nobody /\ doc' = doc
      BY <1>10, <1>a DEF Wipe, MayLock
    <2>2. call'[s] = GoesOn(call[s], "write", call[s].stored)
      BY <1>10 DEF Wipe, TypeOK
    <2>3. call'[s].pc = "write" /\ call'[s].kind = call[s].kind
      BY <2>2 DEF GoesOn
    <2> QED BY <2>1, <2>3, <1>10 DEF Wipe, LockedRowStands, Present
  <1>11. ASSUME NEW s \in Session, WaitForReplace(s) PROVE LockedRowStands'
    BY <1>11, <1>b, LockKept DEF WaitForReplace
  <1>12. ASSUME NEW s \in Session, CommitReplace(s) PROVE LockedRowStands'
    BY <1>12 DEF CommitReplace, MayLock, Unlocked, LockedRowStands
  <1>13. ASSUME NEW s \in Session, Fail(s) PROVE LockedRowStands'
    <2>1. CASE lock = s
      BY <2>1, <1>13 DEF Fail, UnlockedByRollback, Unlocked, LockedRowStands
    <2>2. CASE lock # s
      <3>1. \A o \in Session \ {s} : call'[o] = call[o]
        BY <2>2, <1>13 DEF Fail, AfterRelease
      <3> QED BY <3>1, <2>2, <1>13, LockKept DEF Fail, UnlockedByRollback, Unlocked
    <2> QED BY <2>1, <2>2
  <1>14. CASE UNCHANGED vars
    BY <1>14 DEF vars, LockedRowStands, Present
  <1> QED
    BY <1>1, <1>2, <1>3, <1>4, <1>5, <1>6, <1>7, <1>8, <1>9, <1>10, <1>11, <1>12,
       <1>13, <1>14 DEF Next

(* Whatever other sessions do, however long a transaction takes and        *)
(* wherever it fails: the row that is locked stays as its holder saw it,   *)
(* and the holder is about to commit.                                      *)
THEOREM LockedRowIsSafe == Spec => []LockedRowStands
  <1>1. Init => LockedRowStands
    BY DEF Init, LockedRowStands
  <1>2. TypeOK /\ LockedRowStands /\ [Next]_vars => LockedRowStands'
    BY LockStep
  <1> QED BY <1>1, <1>2, TypeCorrect, PTL DEF Spec

-----------------------------------------------------------------------------
(* The copies that sessions hold                                           *)
(*                                                                         *)
(* Within one life of the row that no save wrote into blindly, versions    *)
(* only rise and other contents come with another version.  So a copy that *)
(* was read piece by piece, and whose version is still the stored one, was *)
(* read while nothing changed.                                             *)

(* A copy of the life the row is in, which nobody has written blindly. *)
Comparable(copy) == Present /\ ~doc.blind /\ copy.life = doc.life

(* A copy but for the parts still to be read: it is not ahead of the row,  *)
(* and where it is not behind either it is the row.                        *)
CopyOK(copy, todo) ==
  /\ copy.life <= lives
  /\ Comparable(copy) =>
       /\ copy.version <= doc.version
       /\ copy.version = doc.version => \A p \in Part \ todo : copy.parts[p] = doc.parts[p]

LivesOK == Present => doc.life = lives /\ lives > 0

(* What a save that carries a version has found: it read the row after the *)
(* copy its session holds, it is at its write with all parts read, and     *)
(* with the lock it counts on the version it carries.                      *)
SaveOK(s) ==
  (call[s].kind = "save" /\ call[s].expected # 0) =>
    /\ call[s].expected = known[s].version
    /\ call[s].pc # "wipe"
    /\ call[s].pc \in {"children", "waiting", "write"} =>
         /\ known[s].life <= call[s].got.life
         /\ (known[s].life = call[s].got.life /\ Comparable(call[s].got))
              => known[s].version <= call[s].got.version
    /\ call[s].pc \in {"waiting", "write"} => call[s].todo = {}
    /\ (call[s].pc = "write" /\ lock = s) => call[s].stored = call[s].expected

SessionOK(s) ==
  CopyOK(known[s], {}) /\ CopyOK(call[s].got, call[s].todo) /\ SaveOK(s)

IInv == TypeOK /\ LockedRowStands /\ LivesOK /\ \A s \in Session : SessionOK(s)

(* How a step may change the row: not at all, away, into a new life, or,   *)
(* within a life, upwards or blindly.                                      *)
Moves ==
  \/ doc' = doc /\ lives' = lives
  \/ doc' = NoDoc /\ lives' = lives
  \/ doc'.life = lives + 1 /\ lives' = lives + 1
  \/ /\ Present /\ doc'.life = doc.life /\ lives' = lives
     /\ doc'.blind \/ (doc'.version > doc.version /\ ~doc.blind)

LEMMA NextMoves == ASSUME IInv, [Next]_vars PROVE Moves
  <1> USE NobodyAssumption
  <1>a. TypeOK /\ LockedRowStands /\ LivesOK /\ lives \in Nat /\ doc.version \in Nat /\ doc.life \in Nat
    BY DEF IInv, TypeOK, Doc
  <1>1. ASSUME NEW s \in Session, CommitSave(s) PROVE Moves
    <2>1. doc'.version = call[s].stored + 1 /\ doc'.blind = (Present /\ (doc.blind \/ lock # s))
          /\ doc'.life = (IF Present THEN doc.life ELSE lives + 1)
          /\ lives' = (IF Present THEN lives ELSE lives + 1)
      BY <1>1 DEF CommitSave
    <2>2. CASE ~Present
      BY <2>1, <2>2 DEF Moves
    <2>3. CASE Present /\ lock # s
      BY <2>1, <2>3 DEF Moves
    <2>4. CASE Present /\ lock = s
      <3>1. call[s].stored = doc.version
        BY <2>4, <1>1, <1>a DEF LockedRowStands, CommitSave
      <3>2. doc'.version > doc.version
        BY <3>1, <2>1, <1>a
      <3>3. doc'.blind \/ ~doc.blind
        BY <2>1, <2>4
      <3> QED BY <2>1, <2>4, <3>2, <3>3 DEF Moves
    <2> QED BY <2>2, <2>3, <2>4
  <1>2. ASSUME NEW s \in Session, CommitCreate(s) PROVE Moves
    <2>1. doc'.blind = Present
          /\ doc'.life = (IF Present THEN doc.life ELSE lives + 1)
          /\ lives' = (IF Present THEN lives ELSE lives + 1)
      BY <1>2 DEF CommitCreate
    <2> QED BY <2>1 DEF Moves
  <1>3. ASSUME NEW s \in Session, CommitReplace(s) PROVE Moves
    BY <1>3 DEF CommitReplace, Moves
  <1>4. ASSUME NEW s \in Session, Delete(s) PROVE Moves
    BY <1>4 DEF Delete, Moves
  <1>5. CASE doc' = doc /\ lives' = lives
    BY <1>5 DEF Moves
  <1> QED BY <1>1, <1>2, <1>3, <1>4, <1>5 DEF Next, vars, BeginSave, BeginRestoreSnapshot, BeginCreate,
       BeginRead, BeginSnapshot, BeginReplace, Begin, ReadRow, ReadChild, Answer, StoreSnapshot, LockRow,
       CheckTaken, Wipe, WaitForReplace, Fail

LEMMA LivesStep == ASSUME IInv, [Next]_vars PROVE LivesOK'
  <1>1. Moves
    BY NextMoves
  <1>2. TypeOK' /\ lives \in Nat /\ doc.life \in Nat /\ LivesOK
    BY TypeStep DEF IInv, TypeOK, Doc
  <1> QED BY <1>1, <1>2 DEF Moves, LivesOK, Present, NoDoc

(* A copy keeps its standing, whatever the row does. *)
LEMMA CopyKept ==
  ASSUME IInv, [Next]_vars, NEW copy \in Copy, NEW todo, CopyOK(copy, todo)
  PROVE  CopyOK(copy, todo)' /\ (Comparable(copy)' => Comparable(copy))
  <1>1. Moves
    BY NextMoves
  <1>2. /\ lives \in Nat /\ doc.life \in Nat /\ doc.version \in Nat /\ doc'.version \in Nat
        /\ copy.life \in Nat /\ copy.version \in Nat /\ copy.life <= lives
    BY TypeStep DEF IInv, TypeOK, Doc, Copy, CopyOK
  <1>3. CASE doc' = doc /\ lives' = lives
    BY <1>3 DEF CopyOK, Comparable, Present
  <1>4. CASE doc' = NoDoc /\ lives' = lives
    BY <1>4, <1>2 DEF CopyOK, Comparable, Present, NoDoc
  <1>5. CASE doc'.life = lives + 1 /\ lives' = lives + 1
    BY <1>5, <1>2 DEF CopyOK, Comparable
  <1>6. CASE /\ Present /\ doc'.life = doc.life /\ lives' = lives
             /\ doc'.blind \/ (doc'.version > doc.version /\ ~doc.blind)
    BY <1>6, <1>2 DEF CopyOK, Comparable
  <1> QED BY <1>1, <1>3, <1>4, <1>5, <1>6 DEF Moves

(* The same of a copy that is held, or being read, and stays as it is. *)
LEMMA HeldCopyKept ==
  ASSUME IInv, [Next]_vars, NEW s \in Session
  PROVE  /\ (known[s] \in Copy /\ CopyOK(known[s], {}) /\ known'[s] = known[s]) => CopyOK(known[s], {})'
         /\ (/\ call[s].got \in Copy /\ CopyOK(call[s].got, call[s].todo)
             /\ call'[s].got = call[s].got /\ call'[s].todo = call[s].todo)
            => /\ CopyOK(call[s].got, call[s].todo)'
               /\ Comparable(call[s].got)' => Comparable(call[s].got)
  <1>1. \A copy \in Copy : \A todo : CopyOK(copy, todo) =>
           CopyOK(copy, todo)' /\ (Comparable(copy)' => Comparable(copy))
    BY CopyKept
  <1>2. ASSUME known[s] \in Copy, CopyOK(known[s], {}), known'[s] = known[s]
        PROVE  CopyOK(known[s], {})'
    <2>1. PICK copy \in Copy : copy = known[s]
      BY <1>2
    <2>2. CopyOK(copy, {})'
      BY <1>1, <1>2, <2>1 DEF CopyOK, Comparable
    <2> QED BY <1>2, <2>1, <2>2 DEF CopyOK, Comparable
  <1>3. ASSUME call[s].got \in Copy, CopyOK(call[s].got, call[s].todo),
               call'[s].got = call[s].got, call'[s].todo = call[s].todo
        PROVE  /\ CopyOK(call[s].got, call[s].todo)'
               /\ Comparable(call[s].got)' => Comparable(call[s].got)
    <2>1. PICK copy \in Copy : copy = call[s].got
      BY <1>3
    <2>2. PICK todo : todo = call[s].todo
      OBVIOUS
    <2>3. CopyOK(copy, todo)' /\ (Comparable(copy)' => Comparable(copy))
      BY <1>1, <1>3, <2>1, <2>2 DEF CopyOK, Comparable
    <2> QED BY <1>3, <2>1, <2>2, <2>3 DEF CopyOK, Comparable
  <1> QED BY <1>2, <1>3

(* No copy at all is one of no life. *)
LEMMA NoCopyOK == ASSUME TypeOK', LivesOK', NEW todo PROVE CopyOK(NoCopy, todo)'
  <1>1. lives' \in Nat
    BY DEF TypeOK
  <1> QED BY <1>1 DEF CopyOK, Comparable, LivesOK, NoCopy

(* A session whose copies and call stay, or whose call only waits or wakes. *)
LEMMA SessionKept ==
  ASSUME IInv, [Next]_vars, NEW s \in Session, known'[s] = known[s],
         call'[s].got = call[s].got, call'[s].todo = call[s].todo,
         call'[s].kind = call[s].kind, call'[s].expected = call[s].expected,
         \/ call'[s].pc = call[s].pc /\ call'[s].stored = call[s].stored /\ (lock' = s => lock = s)
         \/ call[s].pc = "waiting" /\ call'[s].pc \in {"write", "children"} /\ lock' # s
  PROVE  SessionOK(s)'
  <1>1. known[s] \in Copy /\ call[s].got \in Copy /\ SessionOK(s)
    BY DEF IInv, TypeOK, Call
  <1>2. CopyOK(known[s], {})'
    BY <1>1, HeldCopyKept DEF SessionOK
  <1>3. /\ CopyOK(call[s].got, call[s].todo)'
        /\ Comparable(call[s].got)' => Comparable(call[s].got)
    BY <1>1, HeldCopyKept DEF SessionOK
  <1>4. SaveOK(s)'
    BY <1>1, <1>3 DEF SaveOK, SessionOK
  <1> QED BY <1>2, <1>3, <1>4 DEF SessionOK

(* A session whose call begins or is over, with nothing read. *)
LEMMA SessionFresh ==
  ASSUME IInv, [Next]_vars, NEW s \in Session, known'[s] \in {known[s], NoCopy},
         call'[s].got = NoCopy, call'[s].pc \notin {"children", "waiting", "write"},
         \/ call'[s].kind # "save" \/ call'[s].expected = 0
         \/ known'[s] = known[s] /\ call'[s].expected = known[s].version /\ call'[s].pc # "wipe"
  PROVE  SessionOK(s)'
  <1>1. known[s] \in Copy /\ SessionOK(s) /\ TypeOK' /\ LivesOK'
    BY TypeStep, LivesStep DEF IInv, TypeOK
  <1>2. CopyOK(known[s], {})'
    <2>1. CASE known'[s] = known[s]
      BY <1>1, <2>1, HeldCopyKept DEF SessionOK
    <2>2. CASE known'[s] = NoCopy
      BY <1>1, <2>2, NoCopyOK DEF CopyOK, Comparable
    <2> QED BY <2>1, <2>2
  <1>3. CopyOK(call[s].got, call[s].todo)'
    BY <1>1, NoCopyOK DEF CopyOK, Comparable
  <1>4. SaveOK(s)'
    BY DEF SaveOK
  <1> QED BY <1>2, <1>3, <1>4 DEF SessionOK

-----------------------------------------------------------------------------
(* The parts of a call that the steps leave or set *)

LEMMA CallFields ==
  /\ IdleCall.kind = "none" /\ IdleCall.got = NoCopy /\ IdleCall.pc = "idle"
  /\ AnswerCall.kind = "answer" /\ AnswerCall.got = NoCopy /\ AnswerCall.pc = "row"
  /\ \A kind, pc, patch, expected, stored :
       LET c == NewCall(kind, pc, patch, expected, stored)
       IN  c.kind = kind /\ c.pc = pc /\ c.got = NoCopy /\ c.expected = expected
  BY DEF IdleCall, AnswerCall, NewCall

LEMMA GoesOnFields ==
  ASSUME NEW c, NEW pc, NEW stored
  PROVE  LET g == GoesOn(c, pc, stored)
         IN  /\ g.kind = c.kind /\ g.got = c.got /\ g.todo = c.todo /\ g.expected = c.expected
             /\ g.pc = pc /\ g.stored = stored
  BY DEF GoesOn

LEMMA ReadingFields ==
  ASSUME NEW c, NEW got, NEW todo
  PROVE  LET g == Reading(c, got, todo)
         IN  /\ g.kind = c.kind /\ g.got = got /\ g.todo = todo /\ g.expected = c.expected
             /\ g.pc = "children"
  BY DEF Reading

(* A step of one session that leaves the calls and copies of the others.   *)
LEMMA OthersKept ==
  ASSUME IInv, [Next]_vars, NEW s \in Session, NEW call1, NEW known1,
         call' = [call EXCEPT ![s] = call1], known' = known \/ known' = [known EXCEPT ![s] = known1],
         lock' \in {lock, s, Nobody}
  PROVE  \A o \in Session \ {s} : SessionOK(o)'
  <1> SUFFICES ASSUME NEW o \in Session \ {s} PROVE SessionOK(o)'
    OBVIOUS
  <1>1. call'[o] = call[o] /\ known'[o] = known[o]
    BY DEF IInv, TypeOK
  <1>2. lock' = o => lock = o
    BY NobodyAssumption
  <1> QED BY <1>1, <1>2, SessionKept

(* The calls that wait for a row which a session lets go of *)
LEMMA OthersWoken ==
  ASSUME IInv, [Next]_vars, NEW s \in Session, known' = known, lock' = Unlocked(s),
         call' = AfterRelease(s, IdleCall, Woken) \/ call' = AfterRelease(s, IdleCall, Unwoken)
  PROVE  /\ \A o \in Session \ {s} : SessionOK(o)'
         /\ call'[s] = IdleCall
  <1>1. call'[s] = IdleCall
    BY DEF AfterRelease
  <1>2. ASSUME NEW o \in Session \ {s} PROVE SessionOK(o)'
    <2>1. lock' = o => lock = o
      BY NobodyAssumption DEF Unlocked
    <2>2. CASE lock = s /\ call[o].pc = "waiting"
      <3>1. lock' # o
        BY <2>2, NobodyAssumption DEF Unlocked
      <3>2. call'[o] = Woken(call[o]) \/ call'[o] = Unwoken(call[o])
        BY <2>2 DEF AfterRelease
      <3>3. /\ call'[o].kind = call[o].kind /\ call'[o].got = call[o].got
            /\ call'[o].todo = call[o].todo /\ call'[o].expected = call[o].expected
        BY <3>2, GoesOnFields DEF Woken, Unwoken
      <3>4. CASE call'[o].pc \in {"write", "children"}
        BY <2>2, <3>1, <3>3, <3>4, SessionKept
      <3>5. CASE call'[o].pc \notin {"write", "children"}
        <4>1. call[o].kind # "save" /\ call'[o].kind # "save"
          BY <3>2, <3>3, <3>5, GoesOnFields DEF Woken, Unwoken
        <4>2. SaveOK(o)'
          BY <4>1 DEF SaveOK
        <4>3. known[o] \in Copy /\ call[o].got \in Copy /\ SessionOK(o)
          BY DEF IInv, TypeOK, Call
        <4> QED BY <3>3, <4>2, <4>3, HeldCopyKept DEF SessionOK
      <3> QED BY <3>4, <3>5
    <2>3. CASE ~(lock = s /\ call[o].pc = "waiting")
      <3>1. call'[o] = call[o]
        BY <2>3 DEF AfterRelease
      <3> QED BY <3>1, <2>1, SessionKept
    <2> QED BY <2>2, <2>3
  <1> QED BY <1>1, <1>2

-----------------------------------------------------------------------------
(* Every step keeps the invariant: one step of the proof for each action   *)

LEMMA SessionsStep == ASSUME IInv, [Next]_vars PROVE \A o \in Session : SessionOK(o)'
  <1> USE NobodyAssumption, CallFields
  <1>a. /\ call \in [Session -> Call] /\ known \in [Session -> Copy]
        /\ LockedRowStands /\ LivesOK /\ TypeOK /\ TypeOK' /\ LivesOK'
    BY TypeStep, LivesStep DEF IInv, TypeOK
  <1>b. ASSUME NEW s \in Session
        PROVE  /\ call[s] \in Call /\ call[s].got \in Copy /\ call[s].todo \subseteq Part
               /\ known[s] \in Copy /\ known[s].version \in Nat /\ known[s].life \in Nat /\ SessionOK(s)
    BY <1>a DEF IInv, Call, Copy
  (* A call begins. *)
  <1>c. ASSUME NEW s \in Session, NEW new, Begin(s, new), new.got = NoCopy, lock' = lock,
               new.pc \notin {"children", "waiting", "write"},
               \/ new.kind # "save" \/ new.expected = 0
               \/ new.expected = known[s].version /\ new.pc # "wipe"
        PROVE  \A o \in Session : SessionOK(o)'
    <2>1. call'[s] = new /\ known'[s] = known[s]
      BY <1>a, <1>c DEF Begin
    <2>2. SessionOK(s)'
      BY <1>c, <2>1, SessionFresh
    <2> QED BY <1>c, <2>2, OthersKept DEF Begin
  (* A call is over, or goes on to read back what it has written. *)
  <1>d. ASSUME NEW s \in Session, NEW new, new \in {IdleCall, AnswerCall},
               call' = [call EXCEPT ![s] = new], lock' \in {lock, s, Nobody},
               known' = known \/ known' = [known EXCEPT ![s] = NoCopy]
        PROVE  \A o \in Session : SessionOK(o)'
    <2>1. call'[s] = new /\ known'[s] \in {known[s], NoCopy}
      BY <1>a, <1>d
    <2>2. SessionOK(s)'
      BY <1>d, <2>1, SessionFresh
    <2> QED BY <1>d, <2>2, OthersKept
  (* A call goes on with what it has read. *)
  <1>e. ASSUME NEW s \in Session, NEW pc, NEW stored,
               call' = [call EXCEPT ![s] = GoesOn(call[s], pc, stored)], known' = known,
               lock' \in {lock, s, Nobody}, call[s].kind # "save"
        PROVE  \A o \in Session : SessionOK(o)'
    <2>1. call'[s] = GoesOn(call[s], pc, stored) /\ known'[s] = known[s]
      BY <1>a, <1>e
    <2>2. SaveOK(s)'
      BY <1>e, <2>1, GoesOnFields DEF SaveOK
    <2>3. call'[s].got = call[s].got /\ call'[s].todo = call[s].todo
      BY <2>1, GoesOnFields
    <2>4. SessionOK(s)'
      BY <1>b, <2>1, <2>2, <2>3, HeldCopyKept DEF SessionOK
    <2> QED BY <1>e, <2>4, OthersKept
  <1>1. ASSUME NEW s \in Session, BeginSave(s) PROVE \A o \in Session : SessionOK(o)'
    <2>1. PICK patch \in Edits, expected \in {0, known[s].version} :
             Begin(s, NewCall("save", "row", patch, expected, 0))
      BY <1>1 DEF BeginSave
    <2> DEFINE new == NewCall("save", "row", patch, expected, 0)
    <2>2. new.got = NoCopy /\ new.pc = "row" /\ new.expected = expected
      OBVIOUS
    <2> HIDE DEF new
    <2>3. Begin(s, new) /\ lock' = lock
      BY <2>1 DEF new, Begin
    <2> QED BY <1>c, <2>2, <2>3
  <1>2. ASSUME NEW s \in Session, BeginRestoreSnapshot(s) PROVE \A o \in Session : SessionOK(o)'
    <2>1. PICK parts \in snapshots : Begin(s, NewCall("save", "row", parts, 0, 0))
      BY <1>2 DEF BeginRestoreSnapshot
    <2> DEFINE new == NewCall("save", "row", parts, 0, 0)
    <2>2. new.got = NoCopy /\ new.pc = "row" /\ new.expected = 0
      OBVIOUS
    <2> HIDE DEF new
    <2>3. Begin(s, new) /\ lock' = lock
      BY <2>1 DEF new, Begin
    <2> QED BY <1>c, <2>2, <2>3
  <1>3. ASSUME NEW s \in Session, BeginCreate(s) PROVE \A o \in Session : SessionOK(o)'
    <2> DEFINE new == NewCall("create", "taken", known[s].parts, 0, 0)
    <2>1. new.got = NoCopy /\ new.pc = "taken" /\ new.expected = 0
      OBVIOUS
    <2> HIDE DEF new
    <2>2. Begin(s, new) /\ lock' = lock
      BY <1>3 DEF new, BeginCreate, Begin
    <2> QED BY <1>c, <2>1, <2>2
  <1>4. ASSUME NEW s \in Session, BeginRead(s) PROVE \A o \in Session : SessionOK(o)'
    BY <1>4, <1>c DEF BeginRead, Begin
  <1>5. ASSUME NEW s \in Session, BeginSnapshot(s) PROVE \A o \in Session : SessionOK(o)'
    <2> DEFINE new == NewCall("snapshot", "row", NoPatch, 0, 0)
    <2>1. new.got = NoCopy /\ new.pc = "row" /\ new.expected = 0
      OBVIOUS
    <2> HIDE DEF new
    <2>2. Begin(s, new) /\ lock' = lock
      BY <1>5 DEF new, BeginSnapshot, Begin
    <2> QED BY <1>c, <2>1, <2>2
  <1>6. ASSUME NEW s \in Session, BeginReplace(s) PROVE \A o \in Session : SessionOK(o)'
    <2>1. PICK v \in Val \cup {Empty} :
             Begin(s, NewCall("replace", "wipe", [p \in Part |-> v], 0, doc.version))
      BY <1>6 DEF BeginReplace
    <2> DEFINE new == NewCall("replace", "wipe", [p \in Part |-> v], 0, doc.version)
    <2>2. new.got = NoCopy /\ new.pc = "wipe" /\ new.expected = 0
      OBVIOUS
    <2> HIDE DEF new
    <2>3. Begin(s, new) /\ lock' = lock
      BY <2>1 DEF new, Begin
    <2> QED BY <1>c, <2>2, <2>3
  <1>7. ASSUME NEW s \in Session, ReadRow(s) PROVE \A o \in Session : SessionOK(o)'
    <2> DEFINE got == [version |-> doc.version, life |-> doc.life,
                       parts |-> [NoContents EXCEPT ![RowPart] = doc.parts[RowPart]]]
    <2>1. CASE /\ Present /\ known' = known
               /\ call' = [call EXCEPT ![s] = Reading(call[s], got, Children)]
      <3>1. got.version = doc.version /\ got.life = doc.life /\ got.parts[RowPart] = doc.parts[RowPart]
        BY PartAssumption DEF NoContents
      <3> HIDE DEF got
      <3>2. /\ call'[s].got = got /\ call'[s].todo = Children /\ call'[s].kind = call[s].kind
            /\ call'[s].expected = call[s].expected /\ call'[s].pc = "children"
            /\ known'[s] = known[s] /\ doc' = doc /\ lives' = lives
        <4>1. call'[s] = Reading(call[s], got, Children) /\ known'[s] = known[s] /\ doc' = doc /\ lives' = lives
          BY <1>7, <1>a, <2>1 DEF ReadRow
        <4> QED BY <4>1, ReadingFields
      <3>3. CopyOK(call[s].got, call[s].todo)'
        <4>1. \A p \in Part \ Children : p = RowPart
          BY DEF Children
        <4>2. doc.life = lives /\ lives \in Nat /\ doc.version \in Nat
          BY <1>a, <2>1 DEF TypeOK, Doc, LivesOK
        <4>3. \A p \in Part \ Children : got.parts[p] = doc.parts[p]
          BY <4>1, <3>1
        <4>4. got.life <= lives /\ got.version <= doc.version
          BY <4>2, <3>1
        <4> QED BY <3>1, <3>2, <4>3, <4>4 DEF CopyOK
      <3>4. CopyOK(known[s], {})'
        BY <1>b, <3>2, HeldCopyKept DEF SessionOK
      <3>5. known[s].life <= doc.life /\ (known[s].life = doc.life /\ ~doc.blind => known[s].version <= doc.version)
        BY <1>b, <1>a, <2>1 DEF SessionOK, CopyOK, Comparable, LivesOK
      <3>6. SaveOK(s)'
        <4>1. SaveOK(s)
          BY <1>b DEF SessionOK
        <4> SUFFICES ASSUME call'[s].kind = "save", call'[s].expected # 0 PROVE SaveOK(s)'
          BY DEF SaveOK
        <4>2. call[s].expected = known[s].version
          BY <3>2, <4>1 DEF SaveOK
        <4>3. /\ known[s].life <= call'[s].got.life
              /\ (known[s].life = call'[s].got.life /\ ~doc.blind) => known[s].version <= call'[s].got.version
          BY <3>1, <3>2, <3>5
        <4> QED BY <3>2, <4>2, <4>3 DEF SaveOK, Comparable
      <3>7. SessionOK(s)'
        BY <3>3, <3>4, <3>6 DEF SessionOK
      <3> QED BY <1>7, <2>1, <3>7, OthersKept DEF ReadRow
    <2>2. CASE Finish(s) /\ known' \in {known, [known EXCEPT ![s] = NoCopy]}
      BY <1>7, <1>d, <2>2 DEF Finish, ReadRow
    <2>3. [known EXCEPT ![s] = known[s]] = known
      BY <1>a
    <2> QED BY <1>7, <2>1, <2>2, <2>3 DEF ReadRow
  <1>8. ASSUME NEW s \in Session, ReadChild(s) PROVE \A o \in Session : SessionOK(o)'
    <2>1. PICK p \in call[s].todo :
             call' = [call EXCEPT ![s] =
               Reading(call[s], [version |-> call[s].got.version, life |-> call[s].got.life,
                                 parts |-> [call[s].got.parts EXCEPT ![p] = doc.parts[p]]],
                       call[s].todo \ {p})]
      BY <1>8 DEF ReadChild
    <2> DEFINE got == [version |-> call[s].got.version, life |-> call[s].got.life,
                       parts |-> [call[s].got.parts EXCEPT ![p] = doc.parts[p]]]
    <2>2. /\ got.version = call[s].got.version /\ got.life = call[s].got.life
          /\ \A q \in Part : got.parts[q] = IF q = p THEN doc.parts[p] ELSE call[s].got.parts[q]
      BY <1>b DEF Copy, Contents
    <2>3. call' = [call EXCEPT ![s] = Reading(call[s], got, call[s].todo \ {p})]
      BY <2>1
    <2> HIDE DEF got
    <2>4. /\ call'[s].got = got /\ call'[s].todo = call[s].todo \ {p} /\ call'[s].kind = call[s].kind
          /\ call'[s].expected = call[s].expected /\ call'[s].pc = "children"
          /\ known'[s] = known[s] /\ doc' = doc /\ lives' = lives
      <3>1. call'[s] = Reading(call[s], got, call[s].todo \ {p}) /\ known'[s] = known[s] /\ doc' = doc /\ lives' = lives
        BY <1>8, <1>a, <2>3 DEF ReadChild
      <3> QED BY <3>1, ReadingFields
    <2>5. CopyOK(call[s].got, call[s].todo)'
      BY <1>b, <2>2, <2>4 DEF SessionOK, CopyOK, Comparable, Present
    <2>6. CopyOK(known[s], {})'
      BY <1>b, <2>4, HeldCopyKept DEF SessionOK
    <2>7. SaveOK(s)'
      <3>1. SaveOK(s) /\ call[s].pc = "children"
        BY <1>8, <1>b DEF SessionOK, ReadChild
      <3> SUFFICES ASSUME call'[s].kind = "save", call'[s].expected # 0 PROVE SaveOK(s)'
        BY DEF SaveOK
      <3>2. /\ call[s].expected = known[s].version /\ known[s].life <= call[s].got.life
            /\ (known[s].life = call[s].got.life /\ Comparable(call[s].got)) => known[s].version <= call[s].got.version
        BY <2>4, <3>1 DEF SaveOK
      <3>3. Comparable(call[s].got)' => Comparable(call[s].got)
        BY <2>2, <2>4 DEF Comparable, Present
      <3> QED BY <2>2, <2>4, <3>2, <3>3 DEF SaveOK
    <2>8. SessionOK(s)'
      BY <2>5, <2>6, <2>7 DEF SessionOK
    <2> QED BY <1>8, <2>3, <2>8, OthersKept DEF ReadChild
  <1>9. ASSUME NEW s \in Session, Answer(s) PROVE \A o \in Session : SessionOK(o)'
    <2>1. /\ known'[s] = call[s].got /\ call'[s] = IdleCall /\ call[s].todo = {}
          /\ doc' = doc /\ lives' = lives
      BY <1>9, <1>a DEF Answer, Finish, ReadIsOver
    <2>2. CopyOK(known[s], {})'
      BY <1>b, <2>1 DEF SessionOK, CopyOK, Comparable, Present
    <2>3. CopyOK(call[s].got, call[s].todo)'
      BY <1>a, <2>1, NoCopyOK DEF CopyOK, Comparable
    <2>4. SaveOK(s)'
      BY <2>1 DEF SaveOK
    <2>5. SessionOK(s)'
      BY <2>2, <2>3, <2>4 DEF SessionOK
    <2> QED BY <1>9, <2>5, OthersKept DEF Answer, Finish
  <1>10. ASSUME NEW s \in Session, StoreSnapshot(s) PROVE \A o \in Session : SessionOK(o)'
    BY <1>10, <1>d DEF StoreSnapshot, Finish
  <1>11. ASSUME NEW s \in Session, LockRow(s) PROVE \A o \in Session : SessionOK(o)'
    <2>1. CASE Finish(s) /\ lock' = lock
      BY <1>11, <1>d, <2>1 DEF Finish, LockRow
    <2>2. CASE /\ call' = [call EXCEPT ![s] = GoesOn(call[s], "write", Stored(s))]
               /\ (Present /\ ~VersionMoved(s) /\ lock' = s) \/ (~Present /\ lock' = lock)
      <3>1. /\ call'[s].kind = call[s].kind /\ call'[s].got = call[s].got /\ call'[s].todo = call[s].todo
            /\ call'[s].expected = call[s].expected /\ call'[s].pc = "write" /\ call'[s].stored = Stored(s)
            /\ known'[s] = known[s] /\ doc' = doc /\ lives' = lives
        BY <1>11, <1>a, <2>2, GoesOnFields DEF LockRow
      <3>2. lock # s /\ call[s].pc = "children" /\ call[s].todo = {}
        BY <1>11, <1>a DEF LockRow, ReadIsOver, LockedRowStands
      <3>3. lock' = s => Stored(s) = doc.version /\ (call[s].expected # 0 => doc.version = call[s].expected)
        BY <2>2, <3>2 DEF Stored, VersionMoved
      <3>4. SaveOK(s)'
        <4> SUFFICES ASSUME call[s].kind = "save", call[s].expected # 0 PROVE SaveOK(s)'
          BY <3>1 DEF SaveOK
        <4>1. /\ call[s].expected = known[s].version /\ known[s].life <= call[s].got.life
              /\ (known[s].life = call[s].got.life /\ Comparable(call[s].got))
                   => known[s].version <= call[s].got.version
          BY <1>b, <3>2 DEF SaveOK, SessionOK
        <4>2. Comparable(call[s].got)' => Comparable(call[s].got)
          BY <3>1 DEF Comparable, Present
        <4>3. lock' = s => call'[s].stored = call'[s].expected
          BY <3>1, <3>3
        <4> QED BY <3>1, <3>2, <4>1, <4>2, <4>3 DEF SaveOK
      <3>5. SessionOK(s)'
        BY <1>b, <3>1, <3>4, HeldCopyKept DEF SessionOK
      <3> QED BY <1>11, <2>2, <3>5, OthersKept DEF LockRow
    <2> QED BY <1>11, <2>1, <2>2 DEF LockRow
  <1>12. ASSUME NEW s \in Session, CommitSave(s) PROVE \A o \in Session : SessionOK(o)'
    <2>1. lock' \in {lock, s, Nobody}
      BY <1>12 DEF CommitSave, Unlocked
    <2> QED BY <1>12, <1>d, <2>1 DEF CommitSave
  <1>13. ASSUME NEW s \in Session, CheckTaken(s) PROVE \A o \in Session : SessionOK(o)'
    <2>1. CASE Finish(s)
      BY <1>13, <1>d, <2>1 DEF CheckTaken, Finish
    <2>2. CASE call' = [call EXCEPT ![s] = GoesOn(call[s], "insert", 0)]
      <3>1. /\ call'[s].kind = call[s].kind /\ call'[s].got = call[s].got /\ call'[s].todo = call[s].todo
            /\ call'[s].expected = call[s].expected /\ call'[s].pc = "insert"
            /\ known'[s] = known[s] /\ doc' = doc /\ lives' = lives
        BY <1>13, <1>a, <2>2, GoesOnFields DEF CheckTaken
      <3>2. SaveOK(s)'
        BY <1>b, <3>1 DEF SaveOK, SessionOK
      <3>3. SessionOK(s)'
        BY <1>b, <3>1, <3>2, HeldCopyKept DEF SessionOK
      <3> QED BY <1>13, <2>2, <3>3, OthersKept DEF CheckTaken
    <2> QED BY <1>13, <2>1, <2>2 DEF CheckTaken
  <1>14. ASSUME NEW s \in Session, CommitCreate(s) PROVE \A o \in Session : SessionOK(o)'
    BY <1>14, <1>d DEF CommitCreate
  <1>15. ASSUME NEW s \in Session, Delete(s) PROVE \A o \in Session : SessionOK(o)'
    BY <1>15, SessionKept DEF Delete
  <1>16. ASSUME NEW s \in Session, Wipe(s) PROVE \A o \in Session : SessionOK(o)'
    <2>1. call[s].kind # "save" /\ lock' \in {lock, s, Nobody}
      BY <1>16 DEF Wipe
    <2> QED BY <1>16, <1>e, <2>1 DEF Wipe
  <1>17. ASSUME NEW s \in Session, WaitForReplace(s) PROVE \A o \in Session : SessionOK(o)'
    <2>1. /\ call'[s].kind = call[s].kind /\ call'[s].got = call[s].got /\ call'[s].todo = call[s].todo
          /\ call'[s].expected = call[s].expected /\ call'[s].pc = "waiting"
          /\ known'[s] = known[s] /\ doc' = doc /\ lives' = lives
      BY <1>17, <1>a, GoesOnFields DEF WaitForReplace
    <2>2. call[s].kind = "save" /\ call[s].expected # 0 => call[s].pc = "children" /\ call[s].todo = {}
      BY <1>17, <1>b DEF WaitForReplace, ReadIsOver, SessionOK, SaveOK
    <2>3. SaveOK(s)'
      BY <1>b, <2>1, <2>2 DEF SaveOK, SessionOK, Comparable, Present
    <2>4. SessionOK(s)'
      BY <1>b, <2>1, <2>3, HeldCopyKept DEF SessionOK
    <2> QED BY <1>17, <2>4, OthersKept DEF WaitForReplace
  <1>18. ASSUME NEW s \in Session, CommitReplace(s) PROVE \A o \in Session : SessionOK(o)'
    <2>1. (\A o \in Session \ {s} : SessionOK(o)') /\ call'[s] = IdleCall
      BY <1>18, OthersWoken DEF CommitReplace
    <2>2. SessionOK(s)'
      BY <1>18, <2>1, SessionFresh DEF CommitReplace
    <2> QED BY <2>1, <2>2
  <1>19. ASSUME NEW s \in Session, Fail(s) PROVE \A o \in Session : SessionOK(o)'
    <2>1. (\A o \in Session \ {s} : SessionOK(o)') /\ call'[s] = IdleCall
      BY <1>19, OthersWoken DEF Fail, UnlockedByRollback
    <2>2. SessionOK(s)'
      BY <1>19, <2>1, SessionFresh DEF Fail
    <2> QED BY <2>1, <2>2
  <1>20. CASE UNCHANGED vars
    BY <1>20, SessionKept DEF vars
  <1> QED
    BY <1>1, <1>2, <1>3, <1>4, <1>5, <1>6, <1>7, <1>8, <1>9, <1>10, <1>11, <1>12,
       <1>13, <1>14, <1>15, <1>16, <1>17, <1>18, <1>19, <1>20 DEF Next

LEMMA InvHolds == (Init => IInv) /\ (IInv /\ [Next]_vars => IInv')
  <1>1. Init => IInv
    <2> SUFFICES ASSUME Init PROVE IInv
      OBVIOUS
    <2>1. TypeOK /\ LockedRowStands
      BY InitType DEF Init, LockedRowStands
    <2>2. LivesOK
      BY DEF Init, LivesOK
    <2>3. ASSUME NEW s \in Session PROVE SessionOK(s)
      BY CallFields DEF Init, SessionOK, CopyOK, Comparable, SaveOK, NoCopy
    <2> QED BY <2>1, <2>2, <2>3 DEF IInv
  <1>2. IInv /\ [Next]_vars => IInv'
    BY TypeStep, LockStep, LivesStep, SessionsStep DEF IInv
  <1> QED BY <1>1, <1>2
-----------------------------------------------------------------------------
(* A session whose copy carries the stored version has the stored data in  *)
(* every part, although getWorkspace reads the parts at different moments. *)
THEOREM CurrentCopyIsAlwaysWhole == Spec => []CurrentCopyIsWhole
  <1>1. IInv => CurrentCopyIsWhole
    <2> SUFFICES ASSUME IInv, NEW s \in Session, Present, ~doc.blind,
                        known[s].life = doc.life, known[s].version = doc.version
                 PROVE  known[s].parts = doc.parts
      BY DEF CurrentCopyIsWhole
    <2>1. \A p \in Part : known[s].parts[p] = doc.parts[p]
      BY DEF IInv, SessionOK, CopyOK, Comparable
    <2>2. known[s].parts \in Contents /\ doc.parts \in Contents
      BY DEF IInv, TypeOK, Doc, Copy
    <2> QED BY <2>1, <2>2 DEF Contents
  <1> QED BY <1>1, InvHolds, PTL DEF Spec

(* A save that carries a version its session learnt in this life of the    *)
(* row changes what its patch sets and nothing else (updateWorkspace).     *)
THEOREM CheckedSavesKeepOthers == Spec => CheckedSaveKeepsOthers
  <1> DEFINE Keeps(s) ==
        (CommitSave(s) /\ lock = s /\ call[s].expected # 0
           /\ ~doc.blind /\ known[s].life = doc.life)
        => doc'.parts = Merge(doc.parts, call[s].patch)
  <1>1. ASSUME IInv, NEW s \in Session PROVE Keeps(s)
    <2> SUFFICES ASSUME CommitSave(s), lock = s, call[s].expected # 0, ~doc.blind,
                        known[s].life = doc.life
                 PROVE  doc'.parts = Merge(doc.parts, call[s].patch)
      OBVIOUS
    <2>1. /\ Present /\ call[s].stored = doc.version /\ call[s].kind = "save" /\ call[s].pc = "write"
      BY <1>1, NobodyAssumption DEF IInv, LockedRowStands, CommitSave
    <2>2. SaveOK(s) /\ CopyOK(call[s].got, call[s].todo) /\ LivesOK
      BY <1>1 DEF IInv, SessionOK
    <2>3. known[s].version = doc.version /\ call[s].todo = {} /\ known[s].life <= call[s].got.life
      BY <2>1, <2>2 DEF SaveOK
    <2>4. /\ call[s].got.life \in Nat /\ call[s].got.version \in Nat /\ doc.life \in Nat /\ doc.version \in Nat
          /\ call[s].got.parts \in Contents /\ doc.parts \in Contents
      BY <1>1 DEF IInv, TypeOK, Doc, Call, Copy
    <2>5. call[s].got.life = doc.life
      BY <2>1, <2>2, <2>3, <2>4 DEF CopyOK, LivesOK
    <2>6. Comparable(call[s].got)
      BY <2>1, <2>5 DEF Comparable
    <2>7. call[s].got.version = doc.version
      BY <2>1, <2>2, <2>3, <2>4, <2>5, <2>6 DEF CopyOK, SaveOK
    <2>8. \A p \in Part : call[s].got.parts[p] = doc.parts[p]
      BY <2>2, <2>3, <2>6, <2>7 DEF CopyOK
    <2>9. call[s].got.parts = doc.parts
      BY <2>4, <2>8 DEF Contents
    <2> QED BY <2>9 DEF CommitSave
  <1>2. IInv => [\A s \in Session : Keeps(s)]_vars
    BY <1>1
  <1> QED BY <1>2, InvHolds, PTL DEF Spec, CheckedSaveKeepsOthers

(* Within one life of the row, other contents come with a higher version:  *)
(* the version a save counts on was compared under the row's lock.         *)
THEOREM NewContentsHaveNewVersion == Spec => NewContentsNewVersion
  <1>1. ASSUME IInv, [Next]_vars
        PROVE  (Present /\ doc'.life = doc.life /\ ~doc'.blind)
                 => doc'.version > doc.version \/ doc' = doc
    <2>1. Moves /\ LivesOK /\ doc.life \in Nat /\ lives \in Nat
      BY <1>1, NextMoves DEF IInv, TypeOK, Doc
    <2> QED BY <2>1 DEF Moves, LivesOK, NoDoc
  <1> QED BY <1>1, InvHolds, PTL DEF Spec, NewContentsNewVersion
=============================================================================
