------------------------ MODULE WorkspaceSave_proofs ------------------------
(***************************************************************************)
(* Theorems about WorkspaceSave, for any tabs, fields, edits and bounds.   *)
(***************************************************************************)
EXTENDS WorkspaceSave, TLAPS

-----------------------------------------------------------------------------
(* Types *)

Saves == [phase : SavePhases, seq : Nat, patch : Patch, waiters : SUBSET Mark,
          content : {NoCopy} \cup Content, version : Nat]
Fetches == [phase : {"none", "asked", "answered"},
            content : {NoCopy} \cup Content, version : Nat]

(* The part of TypeOK that Dispatch and FinishSave change. *)
QueueTyped ==
    /\ requests \subseteq Request
    /\ pending \in [Tab -> Patch]
    /\ queued \in [Tab -> SUBSET Mark]
    /\ save \in [Tab -> Saves]

LEMMA NoPatchTyped == NoPatch \in Patch
  BY DEF NoPatch, Patch

LEMMA MergeTyped ==
    ASSUME NEW p \in Patch, NEW q \in Patch
    PROVE  Merge(p, q) \in Patch
  BY DEF Merge, Patch

LEMMA MergeContentTyped ==
    ASSUME NEW p \in Content, NEW q \in Patch
    PROVE  Merge(p, q) \in Content
  BY DEF Merge, Patch, Content

LEMMA TellTyped ==
    ASSUME outcome \in [Mark -> Outcomes], NEW S, NEW what \in Outcomes, Tell(S, what)
    PROVE  outcome' \in [Mark -> Outcomes]
  BY DEF Tell

LEMMA IdleTyped ==
    ASSUME NEW n \in Nat
    PROVE  Idle(n) \in Saves
  BY NoPatchTyped DEF Idle, Saves, SavePhases

LEMMA DispatchTyped ==
    ASSUME QueueTyped, NEW t \in Tab, NEW e \in Nat, Dispatch(t, e)
    PROVE  QueueTyped'
  <1> DEFINE seq == save[t].seq + 1
             new == [phase |-> "sent", seq |-> seq, patch |-> pending[t],
                     waiters |-> queued[t], content |-> NoCopy, version |-> 0]
             req == [tab |-> t, seq |-> seq, patch |-> pending[t], expected |-> e]
  <1>1. seq \in Nat /\ pending[t] \in Patch /\ queued[t] \subseteq Mark
    BY DEF QueueTyped, Saves
  <1>2. new \in Saves
    BY <1>1 DEF Saves, SavePhases
  <1>3. req \in Request
    BY <1>1 DEF Request
  <1>4. /\ save' = [save EXCEPT ![t] = new]
        /\ requests' = requests \cup {req}
        /\ pending' = [pending EXCEPT ![t] = NoPatch]
        /\ queued' = [queued EXCEPT ![t] = {}]
    BY DEF Dispatch
  <1> HIDE DEF new, req
  <1> QED
    BY <1>2, <1>3, <1>4, NoPatchTyped DEF QueueTyped

LEMMA FinishTyped ==
    ASSUME QueueTyped, outcome \in [Mark -> Outcomes], NEW t \in Tab, NEW e \in Nat,
           NEW what \in Outcomes, FinishSave(t, what, e)
    PROVE  QueueTyped' /\ outcome' \in [Mark -> Outcomes]
  <1>1. outcome' \in [Mark -> Outcomes]
    BY TellTyped DEF FinishSave
  <1>2. CASE pending[t] # NoPatch /\ ~timer[t] /\ ~conflict[t]
    BY <1>1, <1>2, DispatchTyped DEF FinishSave
  <1>3. CASE ~(pending[t] # NoPatch /\ ~timer[t] /\ ~conflict[t])
    <2>1. save[t].seq \in Nat
      BY DEF QueueTyped, Saves
    <2>2. /\ save' = [save EXCEPT ![t] = Idle(save[t].seq)]
          /\ UNCHANGED <<requests, pending, queued>>
      BY <1>3 DEF FinishSave
    <2>3. Idle(save[t].seq) \in Saves
      BY <2>1, IdleTyped
    <2>4. save' \in [Tab -> Saves]
      BY <2>2, <2>3 DEF QueueTyped
    <2> QED
      BY <1>1, <2>2, <2>4 DEF QueueTyped
  <1> QED
    BY <1>2, <1>3

ServerTyped ==
    /\ content \in {NoCopy} \cup Content
    /\ version \in Nat
    /\ lastApplied \in [tab : Tab, seq : Nat] \cup {NoRecord}
    /\ deletes \in Nat
    /\ everStored \subseteq Mark
    /\ servedSeq \in [Tab -> Nat]
ViewTyped ==
    /\ shown \in [Tab -> {NoCopy} \cup Content]
    /\ known \in [Tab -> Nat]
    /\ timer \in [Tab -> BOOLEAN]
    /\ conflict \in [Tab -> BOOLEAN]
    /\ mounted \in [Tab -> BOOLEAN]
ListsTyped ==
    /\ fetch \in [Tab -> Fetches]
    /\ orphan \in [Tab -> Fetches]
    /\ reloading \in [Tab -> BOOLEAN]
RemovalTyped ==
    removal \in [Tab -> [phase : {"none", "removed", "undoable", "restored"},
                         copy : {NoCopy} \cup Content]]
OutcomeTyped == outcome \in [Mark -> Outcomes]

LEMMA TypeParts ==
    TypeOK <=> /\ ServerTyped /\ QueueTyped /\ ViewTyped
               /\ ListsTyped /\ RemovalTyped /\ OutcomeTyped
  BY DEF TypeOK, ServerTyped, QueueTyped, ViewTyped, ListsTyped, RemovalTyped,
         OutcomeTyped, Saves, Fetches

LEMMA TypePartsNext ==
    TypeOK' <=> /\ ServerTyped' /\ QueueTyped' /\ ViewTyped'
                /\ ListsTyped' /\ RemovalTyped' /\ OutcomeTyped'
  BY DEF TypeOK, ServerTyped, QueueTyped, ViewTyped, ListsTyped, RemovalTyped,
         OutcomeTyped, Saves, Fetches

(* What an action that leaves a part's variables alone keeps. *)
LEMMA PartsKept ==
    /\ ServerTyped /\ UNCHANGED server => ServerTyped'
    /\ QueueTyped /\ UNCHANGED <<requests, pending, queued, save>> => QueueTyped'
    /\ ViewTyped /\ UNCHANGED <<shown, known, timer, conflict, mounted>> => ViewTyped'
    /\ ListsTyped /\ UNCHANGED lists => ListsTyped'
    /\ RemovalTyped /\ UNCHANGED removal => RemovalTyped'
    /\ OutcomeTyped /\ UNCHANGED outcome => OutcomeTyped'
  BY DEF ServerTyped, QueueTyped, ViewTyped, ListsTyped, RemovalTyped,
         OutcomeTyped, server, lists

LEMMA EmptyTyped == Empty \in Content
  BY DEF Empty, Content

LEMMA InitTyped == Init => TypeOK
  <1> SUFFICES ASSUME Init PROVE TypeOK
    OBVIOUS
  <1>1. ServerTyped
    BY EmptyTyped DEF Init, ServerTyped
  <1>2. QueueTyped
    BY NoPatchTyped, IdleTyped DEF Init, QueueTyped
  <1>3. ViewTyped
    BY EmptyTyped DEF Init, ViewTyped
  <1>4. ListsTyped
    BY DEF Init, ListsTyped, Fetches, NoFetch
  <1>5. RemovalTyped
    BY DEF Init, RemovalTyped, NoRemoval
  <1>6. OutcomeTyped
    BY DEF Init, OutcomeTyped, Outcomes
  <1> QED
    BY <1>1, <1>2, <1>3, <1>4, <1>5, <1>6, TypeParts

LEMMA AskedTyped == Asked \in Fetches /\ NoFetch \in Fetches
  BY DEF Asked, NoFetch, Fetches

LEMMA BeginFetchTyped ==
    ASSUME ListsTyped, NEW t \in Tab, BeginFetch(t), reloading' \in [Tab -> BOOLEAN]
    PROVE  ListsTyped'
  BY AskedTyped DEF BeginFetch, ListsTyped

LEMMA ClearQueuedTyped ==
    ASSUME QueueTyped, OutcomeTyped, timer \in [Tab -> BOOLEAN], NEW t \in Tab,
           ClearQueuedSave(t), UNCHANGED <<requests, save>>
    PROVE  QueueTyped' /\ OutcomeTyped' /\ timer' \in [Tab -> BOOLEAN]
  <1>1. OutcomeTyped'
    BY TellTyped DEF ClearQueuedSave, OutcomeTyped, Outcomes
  <1> QED
    BY <1>1, NoPatchTyped DEF ClearQueuedSave, QueueTyped

LEMMA KnownAfterTyped ==
    ASSUME known \in [Tab -> Nat], NEW t \in Tab, NEW l \in Fetches
    PROVE  KnownAfter(t, l) \in Nat
  BY DEF KnownAfter, Fetches

LEMMA ShownAfterTyped ==
    ASSUME shown \in [Tab -> {NoCopy} \cup Content], NEW t \in Tab, NEW l \in Fetches
    PROVE  ShownAfter(t, l) \in {NoCopy} \cup Content
  BY DEF ShownAfter, Fetches

-----------------------------------------------------------------------------
(* One lemma per action of the provider and of the user *)

LEMMA EditTyped ==
    ASSUME TypeOK, NEW t \in Tab, NEW f \in Field, NEW m \in Mark, Edit(t, f, m)
    PROVE  TypeOK'
  <1> DEFINE value == shown[t][f] \cup {m}
  <1>1. ServerTyped /\ QueueTyped /\ ViewTyped /\ ListsTyped /\ RemovalTyped /\ OutcomeTyped
    BY TypeParts
  <1>2. shown[t] \in Content /\ pending[t] \in Patch
    BY <1>1 DEF Edit, ViewTyped, QueueTyped
  <1>3. value \in SUBSET Mark
    BY <1>2 DEF Content
  <1>4. [shown[t] EXCEPT ![f] = value] \in Content
    BY <1>2, <1>3 DEF Content
  <1>5. [pending[t] EXCEPT ![f] = value] \in Patch
    BY <1>2, <1>3 DEF Patch
  <1>6. /\ shown' = [shown EXCEPT ![t] = [shown[t] EXCEPT ![f] = value]]
        /\ pending' = [pending EXCEPT ![t] = [pending[t] EXCEPT ![f] = value]]
        /\ queued' = queued \/ queued' = [queued EXCEPT ![t] = queued[t] \cup {m}]
        /\ timer' = timer \/ timer' = [timer EXCEPT ![t] = TRUE]
        /\ UNCHANGED <<server, requests, known, conflict, save, lists, removal, mounted>>
        /\ Tell({m}, "conflict") \/ Tell({m}, "waiting")
    BY DEF Edit
  <1> HIDE DEF value
  <1>7. QueueTyped'
    BY <1>1, <1>5, <1>6 DEF QueueTyped
  <1>8. ViewTyped'
    BY <1>1, <1>4, <1>6 DEF ViewTyped
  <1>9. OutcomeTyped'
    BY <1>1, <1>6, TellTyped DEF OutcomeTyped, Outcomes
  <1> QED
    BY <1>1, <1>6, <1>7, <1>8, <1>9, PartsKept, TypePartsNext

LEMMA TimerFiresTyped ==
    ASSUME TypeOK, NEW t \in Tab, TimerFires(t)
    PROVE  TypeOK'
  <1>1. ServerTyped /\ QueueTyped /\ ViewTyped /\ ListsTyped /\ RemovalTyped /\ OutcomeTyped
    BY TypeParts
  <1>2. known[t] \in Nat
    BY <1>1 DEF ViewTyped
  <1>3. QueueTyped'
    BY <1>1, <1>2, DispatchTyped, PartsKept DEF TimerFires
  <1>4. ViewTyped'
    BY <1>1 DEF ViewTyped, TimerFires
  <1>5. UNCHANGED <<server, lists, removal, outcome>>
    BY DEF TimerFires
  <1> QED
    BY <1>1, <1>3, <1>4, <1>5, PartsKept, TypePartsNext

LEMMA SaveSucceedsTyped ==
    ASSUME TypeOK, NEW t \in Tab, SaveSucceeds(t)
    PROVE  TypeOK'
  <1>1. ServerTyped /\ QueueTyped /\ ViewTyped /\ ListsTyped /\ RemovalTyped /\ OutcomeTyped
    BY TypeParts
  <1>2. save[t].version \in Nat /\ save[t].content \in {NoCopy} \cup Content
    BY <1>1 DEF QueueTyped, Saves
  <1>3. QueueTyped' /\ OutcomeTyped'
    BY <1>1, <1>2, FinishTyped DEF SaveSucceeds, OutcomeTyped, Outcomes
  <1>4. ViewTyped'
    BY <1>1, <1>2 DEF ViewTyped, SaveSucceeds
  <1>5. UNCHANGED <<server, lists, removal>>
    BY DEF SaveSucceeds
  <1> QED
    BY <1>1, <1>3, <1>4, <1>5, PartsKept, TypePartsNext

LEMMA SaveIsStaleTyped ==
    ASSUME TypeOK, NEW t \in Tab, SaveIsStale(t)
    PROVE  TypeOK'
  <1>1. ServerTyped /\ QueueTyped /\ ViewTyped /\ ListsTyped /\ RemovalTyped /\ OutcomeTyped
    BY TypeParts
  <1>2. known[t] \in Nat
    BY <1>1 DEF ViewTyped
  <1>3. QueueTyped' /\ OutcomeTyped'
    BY <1>1, <1>2, FinishTyped DEF SaveIsStale, OutcomeTyped, Outcomes
  <1>4. UNCHANGED <<server, shown, known, timer, conflict, mounted, lists, removal>>
    BY DEF SaveIsStale
  <1> QED
    BY <1>1, <1>3, <1>4, PartsKept, TypePartsNext

LEMMA SaveConflictsTyped ==
    ASSUME TypeOK, NEW t \in Tab, SaveConflicts(t)
    PROVE  TypeOK'
  <1>1. ServerTyped /\ QueueTyped /\ ViewTyped /\ ListsTyped /\ RemovalTyped /\ OutcomeTyped
    BY TypeParts
  <1>2. save[t].seq \in Nat /\ save[t].patch \in Patch /\ pending[t] \in Patch
    BY <1>1 DEF QueueTyped, Saves
  <1>3. Idle(save[t].seq) \in Saves /\ Merge(save[t].patch, pending[t]) \in Patch
    BY <1>2, IdleTyped, MergeTyped
  <1>4. /\ pending' = [pending EXCEPT ![t] = Merge(save[t].patch, pending[t])]
        /\ queued' = [queued EXCEPT ![t] = {}]
        /\ save' = [save EXCEPT ![t] = Idle(save[t].seq)]
        /\ requests' = requests
    BY DEF SaveConflicts
  <1>5. QueueTyped'
    BY <1>1, <1>3, <1>4 DEF QueueTyped
  <1>6. ViewTyped'
    BY <1>1 DEF ViewTyped, SaveConflicts
  <1>7. OutcomeTyped'
    BY <1>1, TellTyped DEF SaveConflicts, OutcomeTyped, Outcomes
  <1>8. UNCHANGED <<server, lists, removal>>
    BY DEF SaveConflicts
  <1> QED
    BY <1>1, <1>5, <1>6, <1>7, <1>8, PartsKept, TypePartsNext

LEMMA SaveFailsTyped ==
    ASSUME TypeOK, NEW t \in Tab, SaveFails(t)
    PROVE  TypeOK'
  <1>1. ServerTyped /\ QueueTyped /\ ViewTyped /\ ListsTyped /\ RemovalTyped /\ OutcomeTyped
    BY TypeParts
  <1>2. known[t] \in Nat
    BY <1>1 DEF ViewTyped
  <1>3. QueueTyped' /\ OutcomeTyped'
    BY <1>1, <1>2, FinishTyped DEF SaveFails, OutcomeTyped, Outcomes
  <1>4. UNCHANGED <<server, shown, known, timer, conflict, mounted, reloading, removal>>
    BY DEF SaveFails
  <1>5. ListsTyped'
    BY <1>1, <1>4, BeginFetchTyped DEF SaveFails, ListsTyped
  <1> QED
    BY <1>1, <1>3, <1>4, <1>5, PartsKept, TypePartsNext

LEMMA ReloadTyped ==
    ASSUME TypeOK, NEW t \in Tab, Reload(t)
    PROVE  TypeOK'
  <1>1. ServerTyped /\ QueueTyped /\ ViewTyped /\ ListsTyped /\ RemovalTyped /\ OutcomeTyped
    BY TypeParts
  <1>2. QueueTyped' /\ OutcomeTyped' /\ timer' \in [Tab -> BOOLEAN]
    BY <1>1, ClearQueuedTyped DEF Reload, ViewTyped
  <1>3. ViewTyped'
    BY <1>1, <1>2 DEF Reload, ViewTyped
  <1>4. ListsTyped'
    BY <1>1, BeginFetchTyped DEF Reload, ListsTyped
  <1>5. UNCHANGED <<server, removal>>
    BY DEF Reload
  <1> QED
    BY <1>1, <1>2, <1>3, <1>4, <1>5, PartsKept, TypePartsNext

LEMMA RefreshTyped ==
    ASSUME TypeOK, NEW t \in Tab, Refresh(t)
    PROVE  TypeOK'
  <1>1. ServerTyped /\ QueueTyped /\ ViewTyped /\ ListsTyped /\ RemovalTyped /\ OutcomeTyped
    BY TypeParts
  <1>2. ListsTyped'
    BY <1>1, BeginFetchTyped DEF Refresh, ListsTyped
  <1>3. UNCHANGED <<server, requests, pending, queued, save, shown, known, timer,
                    conflict, mounted, removal, outcome>>
    BY DEF Refresh, queue
  <1> QED
    BY <1>1, <1>2, <1>3, PartsKept, TypePartsNext

LEMMA ListArrivesTyped ==
    ASSUME TypeOK, NEW t \in Tab, ListArrives(t)
    PROVE  TypeOK'
  <1>1. ServerTyped /\ QueueTyped /\ ViewTyped /\ ListsTyped /\ RemovalTyped /\ OutcomeTyped
    BY TypeParts
  <1>2. fetch[t] \in Fetches
    BY <1>1 DEF ListsTyped
  <1>3. /\ KnownAfter(t, fetch[t]) \in Nat
        /\ ShownAfter(t, fetch[t]) \in {NoCopy} \cup Content
    BY <1>1, <1>2, KnownAfterTyped, ShownAfterTyped DEF ViewTyped
  <1>4. ViewTyped'
    BY <1>1, <1>3 DEF ListArrives, ViewTyped, queue
  <1>5. ListsTyped'
    BY <1>1, AskedTyped DEF ListArrives, ListsTyped
  <1>6. UNCHANGED <<server, requests, pending, queued, save, removal, outcome>>
    BY DEF ListArrives, queue
  <1> QED
    BY <1>1, <1>4, <1>5, <1>6, PartsKept, TypePartsNext

LEMMA OrphanArrivesTyped ==
    ASSUME TypeOK, NEW t \in Tab, OrphanArrives(t)
    PROVE  TypeOK'
  <1>1. ServerTyped /\ QueueTyped /\ ViewTyped /\ ListsTyped /\ RemovalTyped /\ OutcomeTyped
    BY TypeParts
  <1>2. KnownAfter(t, orphan[t]) \in Nat
    BY <1>1, KnownAfterTyped DEF ViewTyped, ListsTyped
  <1>3. ViewTyped'
    BY <1>1, <1>2 DEF OrphanArrives, ViewTyped, queue
  <1>4. ListsTyped'
    BY <1>1, AskedTyped DEF OrphanArrives, ListsTyped
  <1>5. UNCHANGED <<server, requests, pending, queued, save, removal, outcome>>
    BY DEF OrphanArrives, queue
  <1> QED
    BY <1>1, <1>3, <1>4, <1>5, PartsKept, TypePartsNext

LEMMA ListFailsTyped ==
    ASSUME TypeOK, NEW t \in Tab, ListFails(t)
    PROVE  TypeOK'
  <1>1. ServerTyped /\ QueueTyped /\ ViewTyped /\ ListsTyped /\ RemovalTyped /\ OutcomeTyped
    BY TypeParts
  <1>2. ListsTyped'
    BY <1>1, AskedTyped DEF ListFails, ListsTyped
  <1>3. UNCHANGED <<server, requests, pending, queued, save, shown, known, timer,
                    conflict, mounted, removal, outcome>>
    BY DEF ListFails, queue
  <1> QED
    BY <1>1, <1>2, <1>3, PartsKept, TypePartsNext

LEMMA DeleteDoneTyped ==
    ASSUME TypeOK, NEW t \in Tab, DeleteDone(t)
    PROVE  TypeOK'
  <1>1. ServerTyped /\ QueueTyped /\ ViewTyped /\ ListsTyped /\ RemovalTyped /\ OutcomeTyped
    BY TypeParts
  <1>2. QueueTyped' /\ OutcomeTyped' /\ timer' \in [Tab -> BOOLEAN]
    BY <1>1, ClearQueuedTyped DEF DeleteDone, ViewTyped
  <1>3. ViewTyped'
    BY <1>1, <1>2 DEF DeleteDone, ViewTyped
  <1>4. RemovalTyped'
    BY <1>1 DEF DeleteDone, RemovalTyped
  <1>5. UNCHANGED <<server, lists>>
    BY DEF DeleteDone
  <1> QED
    BY <1>1, <1>2, <1>3, <1>4, <1>5, PartsKept, TypePartsNext

LEMMA RestoreDoneTyped ==
    ASSUME TypeOK, NEW t \in Tab, RestoreDone(t)
    PROVE  TypeOK'
  <1>1. ServerTyped /\ QueueTyped /\ ViewTyped /\ ListsTyped /\ RemovalTyped /\ OutcomeTyped
    BY TypeParts
  <1>2. ViewTyped'
    BY <1>1 DEF RestoreDone, ViewTyped, RemovalTyped, queue
  <1>3. RemovalTyped'
    BY <1>1 DEF RestoreDone, RemovalTyped, NoRemoval
  <1>4. UNCHANGED <<server, requests, pending, queued, save, lists, outcome>>
    BY DEF RestoreDone, queue
  <1> QED
    BY <1>1, <1>2, <1>3, <1>4, PartsKept, TypePartsNext

LEMMA UnmountTyped ==
    ASSUME TypeOK, NEW t \in Tab, Unmount(t)
    PROVE  TypeOK'
  <1>1. ServerTyped /\ QueueTyped /\ ViewTyped /\ ListsTyped /\ RemovalTyped /\ OutcomeTyped
    BY TypeParts
  <1>2. QueueTyped'
    BY <1>1 DEF Unmount, QueueTyped
  <1>3. ViewTyped'
    BY <1>1 DEF Unmount, ViewTyped
  <1>4. OutcomeTyped'
    BY <1>1, TellTyped DEF Unmount, OutcomeTyped, Outcomes
  <1>5. UNCHANGED <<server, lists, removal>>
    BY DEF Unmount
  <1> QED
    BY <1>1, <1>2, <1>3, <1>4, <1>5, PartsKept, TypePartsNext

-----------------------------------------------------------------------------
(* ... and of the server *)

LEMMA ApplySaveTyped ==
    ASSUME ServerTyped, NEW r \in Request, content # NoCopy, ApplySave(r)
    PROVE  ServerTyped' /\ content' \in Content
  <1>1. r.tab \in Tab /\ r.seq \in Nat /\ r.patch \in Patch
    BY DEF Request
  <1>2. content' \in Content
    BY <1>1, MergeContentTyped DEF ApplySave, ServerTyped
  <1>3. \A f \in Field : MarksIn(r.patch, f) \subseteq Mark
    BY <1>1, ValuesAssumption DEF MarksIn, Patch
  <1>4. everStored' \subseteq Mark
    BY <1>3 DEF ApplySave, ServerTyped
  <1>5. servedSeq' \in [Tab -> Nat]
    BY <1>1 DEF ApplySave, ServerTyped
  <1>6. lastApplied' \in [tab : Tab, seq : Nat]
    BY <1>1 DEF ApplySave
  <1> QED
    BY <1>2, <1>4, <1>5, <1>6 DEF ApplySave, ServerTyped

LEMMA VerdictOk ==
    ASSUME NEW r, Verdict(r) = "ok"
    PROVE  ~IsStale(r) /\ content # NoCopy /\ ~VersionMoved(r)
  BY DEF Verdict

LEMMA AnsweredTyped ==
    ASSUME NEW s \in Saves, NEW k \in SavePhases, NEW c \in {NoCopy} \cup Content,
           NEW v \in Nat
    PROVE  Answered(s, k, c, v) \in Saves
  BY DEF Answered, Saves

LEMMA AnswerTyped ==
    ASSUME save \in [Tab -> Saves], NEW r \in Request, Answer(r),
           content' \in {NoCopy} \cup Content, version' \in Nat
    PROVE  save' \in [Tab -> Saves]
  <1>1. r.tab \in Tab
    BY DEF Request
  <1>2. Verdict(r) \in SavePhases
    BY DEF Verdict, SavePhases
  <1>3. /\ Answered(save[r.tab], "ok", content', version') \in Saves
        /\ Answered(save[r.tab], Verdict(r), NoCopy, 0) \in Saves
    BY <1>1, <1>2, AnsweredTyped DEF SavePhases
  <1>4. \/ UNCHANGED save
        \/ save' = [save EXCEPT ![r.tab] = Answered(save[r.tab], "ok", content', version')]
        \/ save' = [save EXCEPT ![r.tab] = Answered(save[r.tab], Verdict(r), NoCopy, 0)]
    BY DEF Answer
  <1> QED
    BY <1>3, <1>4

LEMMA ServeTyped ==
    ASSUME TypeOK, NEW r \in requests, Serve(r)
    PROVE  TypeOK'
  <1>1. ServerTyped /\ QueueTyped /\ ViewTyped /\ ListsTyped /\ RemovalTyped /\ OutcomeTyped
    BY TypeParts
  <1>2. r \in Request
    BY <1>1 DEF QueueTyped
  <1>3. ServerTyped'
    <2>1. CASE Verdict(r) = "ok"
      BY <1>1, <1>2, <2>1, VerdictOk, ApplySaveTyped DEF Serve
    <2>2. CASE Verdict(r) # "ok"
      BY <1>1, <2>2, PartsKept DEF Serve
    <2> QED
      BY <2>1, <2>2
  <1>4. UNCHANGED <<pending, queued, shown, known, timer, conflict, mounted, lists,
                    removal, outcome>>
    BY DEF Serve, queue
  <1>5. QueueTyped'
    <2>1. CASE UNCHANGED <<requests, save>>
      BY <1>1, <1>4, <2>1, PartsKept
    <2>2. CASE requests' = requests \ {r} /\ Answer(r)
      <3>1. save' \in [Tab -> Saves]
        BY <1>1, <1>2, <1>3, <2>2, AnswerTyped DEF QueueTyped, ServerTyped
      <3> QED
        BY <1>1, <1>4, <2>2, <3>1 DEF QueueTyped
    <2> QED
      BY <2>1, <2>2 DEF Serve
  <1> QED
    BY <1>1, <1>3, <1>4, <1>5, PartsKept, TypePartsNext

LEMMA RequestLostTyped ==
    ASSUME TypeOK, NEW r \in requests, RequestLost(r)
    PROVE  TypeOK'
  <1>1. ServerTyped /\ QueueTyped /\ ViewTyped /\ ListsTyped /\ RemovalTyped /\ OutcomeTyped
    BY TypeParts
  <1>2. QueueTyped'
    BY <1>1 DEF RequestLost, QueueTyped, queue
  <1>3. UNCHANGED <<server, shown, known, timer, conflict, mounted, lists, removal, outcome>>
    BY DEF RequestLost, queue
  <1> QED
    BY <1>1, <1>2, <1>3, PartsKept, TypePartsNext

LEMMA ReadingTyped ==
    ASSUME ServerTyped, NEW l \in Fetches
    PROVE  Reading(l) \in Fetches
  BY DEF Reading, ServerTyped, Fetches

LEMMA ServeListTyped ==
    ASSUME TypeOK, NEW t \in Tab, ServeList(t)
    PROVE  TypeOK'
  <1>1. ServerTyped /\ QueueTyped /\ ViewTyped /\ ListsTyped /\ RemovalTyped /\ OutcomeTyped
    BY TypeParts
  <1>2. Reading(fetch[t]) \in Fetches /\ Reading(orphan[t]) \in Fetches
    BY <1>1, ReadingTyped DEF ListsTyped
  <1>3. /\ fetch' = fetch \/ fetch' = [fetch EXCEPT ![t] = Reading(fetch[t])]
        /\ orphan' = orphan \/ orphan' = [orphan EXCEPT ![t] = Reading(orphan[t])]
        /\ UNCHANGED reloading
    BY DEF ServeList
  <1>4. ListsTyped'
    BY <1>1, <1>2, <1>3 DEF ListsTyped
  <1>5. UNCHANGED <<server, requests, pending, queued, save, shown, known, timer,
                    conflict, mounted, removal, outcome>>
    BY DEF ServeList, queue
  <1> QED
    BY <1>1, <1>4, <1>5, PartsKept, TypePartsNext

LEMMA ServeDeleteTyped ==
    ASSUME TypeOK, NEW t \in Tab, ServeDelete(t)
    PROVE  TypeOK'
  <1>1. ServerTyped /\ QueueTyped /\ ViewTyped /\ ListsTyped /\ RemovalTyped /\ OutcomeTyped
    BY TypeParts
  <1>2. ServerTyped'
    BY <1>1 DEF ServeDelete, ServerTyped
  <1>3. RemovalTyped'
    BY <1>1 DEF ServeDelete, RemovalTyped, ViewTyped
  <1>4. UNCHANGED <<requests, pending, queued, save, shown, known, timer,
                    conflict, mounted, lists, outcome>>
    BY DEF ServeDelete, queue
  <1> QED
    BY <1>1, <1>2, <1>3, <1>4, PartsKept, TypePartsNext

(* TypeOK alone is not inductive: an undo posts the copy that the delete   *)
(* kept, which has to be one.                                              *)
RemovalHasCopy ==
    \A t \in Tab : removal[t].phase # "none" => removal[t].copy # NoCopy

LEMMA ServeRestoreTyped ==
    ASSUME TypeOK, RemovalHasCopy, NEW t \in Tab, ServeRestore(t)
    PROVE  TypeOK'
  <1>1. ServerTyped /\ QueueTyped /\ ViewTyped /\ ListsTyped /\ RemovalTyped /\ OutcomeTyped
    BY TypeParts
  <1>2. removal[t].copy \in Content
    BY <1>1 DEF ServeRestore, RemovalHasCopy, RemovalTyped
  <1>3. content' \in Content
    BY <1>2 DEF ServeRestore
  <1>4. \A f \in Field : content'[f] \subseteq Mark
    BY <1>3 DEF Content
  <1>5. everStored' \subseteq Mark
    BY <1>1, <1>4 DEF ServeRestore, ServerTyped
  <1>6. ServerTyped'
    BY <1>1, <1>3, <1>5 DEF ServeRestore, ServerTyped
  <1>7. RemovalTyped'
    BY <1>1 DEF ServeRestore, RemovalTyped
  <1>8. UNCHANGED <<requests, pending, queued, save, shown, known, timer,
                    conflict, mounted, lists, outcome>>
    BY DEF ServeRestore, queue
  <1> QED
    BY <1>1, <1>6, <1>7, <1>8, PartsKept, TypePartsNext

LEMMA RestoreSnapshotTyped ==
    ASSUME TypeOK, RestoreSnapshot
    PROVE  TypeOK'
  <1>1. ServerTyped /\ QueueTyped /\ ViewTyped /\ ListsTyped /\ RemovalTyped /\ OutcomeTyped
    BY TypeParts
  <1>2. ServerTyped'
    BY <1>1, EmptyTyped DEF RestoreSnapshot, ServerTyped
  <1>3. UNCHANGED <<requests, pending, queued, save, shown, known, timer,
                    conflict, mounted, lists, removal, outcome>>
    BY DEF RestoreSnapshot, queue
  <1> QED
    BY <1>1, <1>2, <1>3, PartsKept, TypePartsNext

LEMMA RestartTyped ==
    ASSUME TypeOK, Restart
    PROVE  TypeOK'
  <1>1. ServerTyped /\ QueueTyped /\ ViewTyped /\ ListsTyped /\ RemovalTyped /\ OutcomeTyped
    BY TypeParts
  <1>2. ServerTyped'
    BY <1>1 DEF Restart, ServerTyped
  <1>3. UNCHANGED <<requests, pending, queued, save, shown, known, timer,
                    conflict, mounted, lists, removal, outcome>>
    BY DEF Restart, queue
  <1> QED
    BY <1>1, <1>2, <1>3, PartsKept, TypePartsNext

LEMMA StutterTyped ==
    ASSUME TypeOK, UNCHANGED vars
    PROVE  TypeOK'
  <1>1. ServerTyped /\ QueueTyped /\ ViewTyped /\ ListsTyped /\ RemovalTyped /\ OutcomeTyped
    BY TypeParts
  <1> QED
    BY <1>1, PartsKept, TypePartsNext DEF vars, queue

-----------------------------------------------------------------------------
(* The steps together *)

LEMMA ProviderTyped ==
    ASSUME TypeOK, NEW t \in Tab, Provider(t)
    PROVE  TypeOK'
  <1>1. CASE TimerFires(t)
    BY <1>1, TimerFiresTyped
  <1>2. CASE SaveSucceeds(t)
    BY <1>2, SaveSucceedsTyped
  <1>3. CASE SaveIsStale(t)
    BY <1>3, SaveIsStaleTyped
  <1>4. CASE SaveConflicts(t)
    BY <1>4, SaveConflictsTyped
  <1>5. CASE ListArrives(t)
    BY <1>5, ListArrivesTyped
  <1>6. CASE OrphanArrives(t)
    BY <1>6, OrphanArrivesTyped
  <1>7. CASE DeleteDone(t)
    BY <1>7, DeleteDoneTyped
  <1>8. CASE RestoreDone(t)
    BY <1>8, RestoreDoneTyped
  <1> QED
    BY <1>1, <1>2, <1>3, <1>4, <1>5, <1>6, <1>7, <1>8 DEF Provider

LEMMA UserTyped ==
    ASSUME TypeOK, NEW t \in Tab, User(t)
    PROVE  TypeOK'
  <1>1. CASE \E f \in Field, m \in Mark : Edit(t, f, m)
    BY <1>1, EditTyped
  <1>2. CASE Reload(t)
    BY <1>2, ReloadTyped
  <1>3. CASE Refresh(t)
    BY <1>3, RefreshTyped
  <1>4. CASE Unmount(t)
    BY <1>4, UnmountTyped
  <1> QED
    BY <1>1, <1>2, <1>3, <1>4 DEF User

(* The steps of the system, one by one: the cases of every proof below. *)
LEMMA NextCases ==
    ASSUME [Next]_vars
    PROVE  \/ \E t \in Tab : Provider(t)
           \/ \E t \in Tab : User(t)
           \/ \E t \in Tab : SaveFails(t)
           \/ \E t \in Tab : ListFails(t)
           \/ \E r \in requests : Serve(r)
           \/ \E r \in requests : RequestLost(r)
           \/ \E t \in Tab : ServeList(t)
           \/ \E t \in Tab : ServeDelete(t)
           \/ \E t \in Tab : ServeRestore(t)
           \/ RestoreSnapshot
           \/ Restart
           \/ UNCHANGED vars
  BY DEF Next

LEMMA TypeStep ==
    ASSUME TypeOK, RemovalHasCopy, [Next]_vars
    PROVE  TypeOK'
  <1>1. CASE \E t \in Tab : Provider(t) \/ User(t)
    BY <1>1, ProviderTyped, UserTyped
  <1>2. CASE \E t \in Tab : SaveFails(t) \/ ListFails(t)
    BY <1>2, SaveFailsTyped, ListFailsTyped
  <1>3. CASE \E r \in requests : Serve(r) \/ RequestLost(r)
    BY <1>3, ServeTyped, RequestLostTyped
  <1>4. CASE \E t \in Tab : ServeList(t) \/ ServeDelete(t) \/ ServeRestore(t)
    BY <1>4, ServeListTyped, ServeDeleteTyped, ServeRestoreTyped
  <1>5. CASE RestoreSnapshot \/ Restart \/ UNCHANGED vars
    BY <1>5, RestoreSnapshotTyped, RestartTyped, StutterTyped
  <1> QED
    BY <1>1, <1>2, <1>3, <1>4, <1>5, NextCases

LEMMA RemovalStep ==
    ASSUME TypeOK, RemovalHasCopy, [Next]_vars
    PROVE  RemovalHasCopy'
  <1>1. removal \in [Tab -> [phase : {"none", "removed", "undoable", "restored"},
                             copy : {NoCopy} \cup Content]]
    BY DEF TypeOK
  <1>2. CASE UNCHANGED removal
    BY <1>2 DEF RemovalHasCopy
  <1>3. CASE \E t \in Tab : DeleteDone(t) \/ RestoreDone(t)
    BY <1>1, <1>3 DEF RemovalHasCopy, DeleteDone, RestoreDone, NoRemoval
  <1>4. CASE \E t \in Tab : ServeDelete(t) \/ ServeRestore(t)
    BY <1>1, <1>4 DEF RemovalHasCopy, ServeDelete, ServeRestore
  <1>5. UNCHANGED removal \/ \E t \in Tab : \/ DeleteDone(t) \/ RestoreDone(t)
                                           \/ ServeDelete(t) \/ ServeRestore(t)
    <2>1. CASE \E t \in Tab : Provider(t)
      BY <2>1 DEF Provider, TimerFires, SaveSucceeds, SaveIsStale, SaveConflicts,
                  ListArrives, OrphanArrives
    <2>2. CASE \E t \in Tab : User(t)
      BY <2>2 DEF User, Edit, Reload, Refresh, Unmount
    <2>3. CASE \E t \in Tab : SaveFails(t) \/ ListFails(t) \/ ServeList(t)
      BY <2>3 DEF SaveFails, ListFails, ServeList
    <2>4. CASE \E r \in requests : Serve(r) \/ RequestLost(r)
      BY <2>4 DEF Serve, RequestLost
    <2>5. CASE RestoreSnapshot \/ Restart \/ UNCHANGED vars
      BY <2>5 DEF RestoreSnapshot, Restart, vars
    <2> QED
      BY <2>1, <2>2, <2>3, <2>4, <2>5, NextCases
  <1> QED
    BY <1>2, <1>3, <1>4, <1>5

(* Every variable stays in its type, whatever the network and the users do. *)
THEOREM TypeCorrect == Spec => []TypeOK
  <1>1. Init => TypeOK /\ RemovalHasCopy
    BY InitTyped DEF Init, RemovalHasCopy, NoRemoval
  <1>2. TypeOK /\ RemovalHasCopy /\ [Next]_vars => (TypeOK /\ RemovalHasCopy)'
    BY TypeStep, RemovalStep
  <1> QED
    BY <1>1, <1>2, PTL DEF Spec

-----------------------------------------------------------------------------
(* The queue of a paused tab, and the callers who wait                     *)
(*                                                                         *)
(* PausedTabIsSilent and WaitersAreServed are not inductive: a timer that  *)
(* fires must find a patch to send for the callers it has, and a tab that  *)
(* pauses must have told them all.                                         *)

PausedQueueIsSettled ==
    \A t \in Tab : conflict[t] => ~InFlight(t) /\ ~timer[t] /\ queued[t] = {}
QueuedHavePatch ==
    \A t \in Tab : queued[t] # {} => pending[t] # NoPatch
QueueInv == PausedQueueIsSettled /\ QueuedHavePatch /\ WaitersAreServed

(* What the queue invariants look at of a tab, and what they need of types. *)
LocalTyped ==
    /\ save \in [Tab -> Saves] /\ pending \in [Tab -> Patch]
    /\ queued \in [Tab -> SUBSET Mark] /\ timer \in [Tab -> BOOLEAN]
    /\ conflict \in [Tab -> BOOLEAN] /\ outcome \in [Mark -> Outcomes]

LEMMA TypeLocal == TypeOK => LocalTyped
  BY DEF TypeOK, LocalTyped, Saves

LEMMA NoPatchField ==
    ASSUME NEW p \in Patch, NEW f \in Field, p[f] # Untouched
    PROVE  p # NoPatch
  BY DEF NoPatch

(* A mark that still waits after Tell was not among those told. *)
LEMMA TellWaiting ==
    ASSUME outcome \in [Mark -> Outcomes], NEW S, NEW what, what # "waiting",
           Tell(S, what), NEW m \in Mark, outcome'[m] = "waiting"
    PROVE  outcome[m] = "waiting" /\ m \notin S
  BY DEF Tell

LEMMA DispatchEffect ==
    ASSUME LocalTyped, NEW t \in Tab, NEW e, Dispatch(t, e)
    PROVE  /\ save'[t].phase = "sent" /\ save'[t].waiters = queued[t]
           /\ queued'[t] = {} /\ pending'[t] = NoPatch
           /\ \A u \in Tab \ {t} : /\ save'[u] = save[u] /\ queued'[u] = queued[u]
                                    /\ pending'[u] = pending[u]
  <1> DEFINE new == [phase |-> "sent", seq |-> save[t].seq + 1, patch |-> pending[t],
                     waiters |-> queued[t], content |-> NoCopy, version |-> 0]
  <1>1. save' = [save EXCEPT ![t] = new]
    BY DEF Dispatch
  <1>2. new.phase = "sent" /\ new.waiters = queued[t]
    OBVIOUS
  <1>3. queued' = [queued EXCEPT ![t] = {}] /\ pending' = [pending EXCEPT ![t] = NoPatch]
    BY DEF Dispatch
  <1> HIDE DEF new
  <1> QED
    BY <1>1, <1>2, <1>3 DEF LocalTyped

LEMMA FinishEffect ==
    ASSUME LocalTyped, NEW t \in Tab, NEW what, NEW e, FinishSave(t, what, e)
    PROVE  /\ Tell(save[t].waiters, what)
           /\ \A u \in Tab \ {t} : /\ save'[u] = save[u] /\ queued'[u] = queued[u]
                                    /\ pending'[u] = pending[u]
           /\ \/ /\ pending[t] # NoPatch /\ ~timer[t] /\ ~conflict[t]
                 /\ save'[t].phase = "sent" /\ save'[t].waiters = queued[t]
                 /\ queued'[t] = {}
              \/ /\ pending[t] = NoPatch \/ timer[t] \/ conflict[t]
                 /\ save'[t].phase = "idle"
                 /\ queued' = queued /\ pending' = pending
  <1>1. CASE pending[t] # NoPatch /\ ~timer[t] /\ ~conflict[t]
    BY <1>1, DispatchEffect DEF FinishSave
  <1>2. CASE ~(pending[t] # NoPatch /\ ~timer[t] /\ ~conflict[t])
    <2>1. save' = [save EXCEPT ![t] = Idle(save[t].seq)] /\ queued' = queued /\ pending' = pending
      BY <1>2 DEF FinishSave
    <2>2. Idle(save[t].seq).phase = "idle"
      BY DEF Idle
    <2> QED
      BY <1>2, <2>1, <2>2 DEF FinishSave, LocalTyped
  <1> QED
    BY <1>1, <1>2

(* A save that ends without a conflict: its own callers are told, and what *)
(* is queued behind it goes out or has a timer.                            *)
LEMMA FinishQueue ==
    ASSUME LocalTyped, QueueInv, NEW t \in Tab, NEW what, what # "waiting", NEW e,
           FinishSave(t, what, e), UNCHANGED <<timer, conflict>>
    PROVE  QueueInv'
  <1>0. PausedQueueIsSettled /\ QueuedHavePatch /\ WaitersAreServed
    BY DEF QueueInv
  <1> USE FinishEffect
  <1>1. PausedQueueIsSettled'
    BY <1>0 DEF PausedQueueIsSettled, InFlight
  <1>2. QueuedHavePatch'
    BY <1>0 DEF QueuedHavePatch
  <1>3. WaitersAreServed'
    <2> SUFFICES ASSUME NEW m \in Mark, outcome'[m] = "waiting"
                 PROVE  \E u \in Tab :
                            \/ InFlight(u)' /\ m \in save'[u].waiters
                            \/ m \in queued'[u] /\ (timer'[u] \/ InFlight(u)')
      BY DEF WaitersAreServed
    <2>1. outcome[m] = "waiting" /\ m \notin save[t].waiters
      BY TellWaiting DEF LocalTyped
    <2>2. PICK u \in Tab : \/ InFlight(u) /\ m \in save[u].waiters
                           \/ m \in queued[u] /\ (timer[u] \/ InFlight(u))
      BY <1>0, <2>1 DEF WaitersAreServed
    <2>3. CASE u # t
      BY <2>2, <2>3 DEF InFlight
    <2>4. CASE u = t
      <3>1. m \in queued[t]
        BY <2>1, <2>2, <2>4
      <3>2. pending[t] # NoPatch /\ ~conflict[t]
        BY <1>0, <3>1 DEF QueuedHavePatch, PausedQueueIsSettled
      <3> QED
        BY <3>1, <3>2 DEF InFlight
    <2> QED
      BY <2>3, <2>4
  <1> QED
    BY <1>1, <1>2, <1>3 DEF QueueInv

(* Every queued caller of a tab is told, and no other: the tab's queue is  *)
(* empty, its timer off; the save in flight stays (or there was none).     *)
LEMMA ClearedQueue ==
    ASSUME LocalTyped, QueueInv, NEW t \in Tab, NEW S, NEW what, what # "waiting",
           Tell(S, what), queued[t] \subseteq S,
           timer' = [timer EXCEPT ![t] = FALSE], queued' = [queued EXCEPT ![t] = {}],
           \A u \in Tab \ {t} : /\ save'[u] = save[u] /\ pending'[u] = pending[u]
                                /\ conflict'[u] = conflict[u],
           \/ save'[t] = save[t]
           \/ save'[t].phase = "idle" /\ save[t].waiters \subseteq S,
           conflict'[t] => save'[t].phase = "idle"
    PROVE  QueueInv'
  <1>0. PausedQueueIsSettled /\ QueuedHavePatch /\ WaitersAreServed
    BY DEF QueueInv
  <1>1. PausedQueueIsSettled'
    BY <1>0 DEF PausedQueueIsSettled, InFlight, LocalTyped
  <1>2. QueuedHavePatch'
    BY <1>0 DEF QueuedHavePatch, LocalTyped
  <1>3. WaitersAreServed'
    <2> SUFFICES ASSUME NEW m \in Mark, outcome'[m] = "waiting"
                 PROVE  \E u \in Tab :
                            \/ InFlight(u)' /\ m \in save'[u].waiters
                            \/ m \in queued'[u] /\ (timer'[u] \/ InFlight(u)')
      BY DEF WaitersAreServed
    <2>1. outcome[m] = "waiting" /\ m \notin S
      BY TellWaiting DEF LocalTyped
    <2>2. PICK u \in Tab : \/ InFlight(u) /\ m \in save[u].waiters
                           \/ m \in queued[u] /\ (timer[u] \/ InFlight(u))
      BY <1>0, <2>1 DEF WaitersAreServed
    <2>3. CASE u # t
      BY <2>2, <2>3 DEF InFlight, LocalTyped
    <2>4. CASE u = t
      BY <2>1, <2>2, <2>4 DEF InFlight
    <2> QED
      BY <2>3, <2>4
  <1> QED
    BY <1>1, <1>2, <1>3 DEF QueueInv

(* A step that touches none of it, at most which phase a save is in.       *)
LEMMA QueueKept ==
    ASSUME LocalTyped, QueueInv,
           UNCHANGED <<pending, queued, timer, outcome>>,
           \A t \in Tab : conflict'[t] => conflict[t],
           \A t \in Tab : save'[t].waiters = save[t].waiters,
           \A t \in Tab : (save'[t].phase = "idle" <=> save[t].phase = "idle")
    PROVE  QueueInv'
  <1>1. \A t \in Tab : InFlight(t)' <=> InFlight(t)
    BY DEF InFlight
  <1>2. PausedQueueIsSettled'
    BY <1>1 DEF QueueInv, PausedQueueIsSettled
  <1>3. QueuedHavePatch'
    BY DEF QueueInv, QueuedHavePatch
  <1>4. WaitersAreServed'
    BY <1>1 DEF QueueInv, WaitersAreServed
  <1> QED
    BY <1>2, <1>3, <1>4 DEF QueueInv

LEMMA EditQueue ==
    ASSUME LocalTyped, TypeOK, QueueInv,
           NEW t \in Tab, NEW f \in Field, NEW m \in Mark, Edit(t, f, m)
    PROVE  QueueInv'
  <1> DEFINE value == shown[t][f] \cup {m}
             patch == [pending[t] EXCEPT ![f] = value]
  <1>0. PausedQueueIsSettled /\ QueuedHavePatch /\ WaitersAreServed
    BY DEF QueueInv
  <1>1. value \in SUBSET Mark
    BY DEF Edit, TypeOK, Content
  <1>2. patch \in Patch /\ patch[f] # Untouched
    BY <1>1, ValuesAssumption DEF Patch, LocalTyped
  <1>3. patch # NoPatch
    BY <1>2, NoPatchField
  <1>4. pending' = [pending EXCEPT ![t] = patch] /\ UNCHANGED <<conflict, save>>
    BY DEF Edit
  <1> HIDE DEF patch, value
  <1>5. CASE conflict[t]
    <2>1. Tell({m}, "conflict") /\ UNCHANGED <<queued, timer>>
      BY <1>5 DEF Edit
    <2>2. PausedQueueIsSettled' /\ QueuedHavePatch'
      BY <1>0, <1>3, <1>4, <2>1 DEF PausedQueueIsSettled, QueuedHavePatch, InFlight, LocalTyped
    <2>3. WaitersAreServed'
      BY <1>0, <1>4, <2>1, TellWaiting DEF WaitersAreServed, InFlight, LocalTyped
    <2> QED
      BY <2>2, <2>3 DEF QueueInv
  <1>6. CASE ~conflict[t]
    <2>1. /\ Tell({m}, "waiting") /\ queued' = [queued EXCEPT ![t] = queued[t] \cup {m}]
          /\ timer' = [timer EXCEPT ![t] = TRUE]
      BY <1>6 DEF Edit
    <2>2. PausedQueueIsSettled' /\ QueuedHavePatch'
      BY <1>0, <1>3, <1>4, <1>6, <2>1
      DEF PausedQueueIsSettled, QueuedHavePatch, InFlight, LocalTyped
    <2>3. ASSUME NEW x \in Mark, outcome'[x] = "waiting"
          PROVE  \E u \in Tab :
                     \/ InFlight(u)' /\ x \in save'[u].waiters
                     \/ x \in queued'[u] /\ (timer'[u] \/ InFlight(u)')
      <3>1. CASE x = m
        BY <2>1, <3>1 DEF LocalTyped
      <3>2. CASE x # m
        <4>1. outcome[x] = "waiting"
          BY <2>1, <2>3, <3>2 DEF Tell
        <4> QED
          BY <1>0, <1>4, <2>1, <4>1 DEF WaitersAreServed, InFlight, LocalTyped
      <3> QED
        BY <3>1, <3>2
    <2> QED
      BY <2>2, <2>3 DEF QueueInv, WaitersAreServed
  <1> QED
    BY <1>5, <1>6

LEMMA TimerFiresQueue ==
    ASSUME LocalTyped, QueueInv, NEW t \in Tab, TimerFires(t)
    PROVE  QueueInv'
  <1>0. PausedQueueIsSettled /\ QueuedHavePatch /\ WaitersAreServed
    BY DEF QueueInv
  <1>1. timer[t] /\ timer' = [timer EXCEPT ![t] = FALSE] /\ UNCHANGED <<conflict, outcome>>
    BY DEF TimerFires
  <1>2. ~conflict[t]
    BY <1>0, <1>1 DEF PausedQueueIsSettled
  <1>3. CASE ~InFlight(t) /\ pending[t] # NoPatch
    <2>1. Dispatch(t, known[t])
      BY <1>2, <1>3 DEF TimerFires
    <2> USE DispatchEffect, <2>1
    <2>2. PausedQueueIsSettled' /\ QueuedHavePatch'
      BY <1>0, <1>1, <1>2 DEF PausedQueueIsSettled, QueuedHavePatch, InFlight, LocalTyped
    <2>3. WaitersAreServed'
      BY <1>0, <1>1, <1>3 DEF WaitersAreServed, InFlight, LocalTyped
    <2> QED
      BY <2>2, <2>3 DEF QueueInv
  <1>4. CASE ~(~InFlight(t) /\ pending[t] # NoPatch)
    <2>1. UNCHANGED <<save, pending, queued>>
      BY <1>4 DEF TimerFires
    <2>2. PausedQueueIsSettled' /\ QueuedHavePatch'
      BY <1>0, <1>1, <2>1 DEF PausedQueueIsSettled, QueuedHavePatch, InFlight, LocalTyped
    <2>3. queued[t] # {} => InFlight(t)
      BY <1>0, <1>4 DEF QueuedHavePatch
    <2>4. WaitersAreServed'
      BY <1>0, <1>1, <2>1, <2>3 DEF WaitersAreServed, InFlight, LocalTyped
    <2> QED
      BY <2>2, <2>4 DEF QueueInv
  <1> QED
    BY <1>3, <1>4

LEMMA SaveConflictsQueue ==
    ASSUME LocalTyped, QueueInv, NEW t \in Tab, SaveConflicts(t)
    PROVE  QueueInv'
  <1>1. save' = [save EXCEPT ![t] = Idle(save[t].seq)]
    BY DEF SaveConflicts
  <1>2. save'[t].phase = "idle"
    BY <1>1 DEF Idle, LocalTyped
  <1>3. \A u \in Tab \ {t} : /\ save'[u] = save[u] /\ pending'[u] = pending[u]
                             /\ conflict'[u] = conflict[u]
    BY <1>1 DEF SaveConflicts, LocalTyped
  <1>4. /\ Tell(save[t].waiters \cup queued[t], "conflict")
        /\ timer' = [timer EXCEPT ![t] = FALSE] /\ queued' = [queued EXCEPT ![t] = {}]
    BY DEF SaveConflicts
  <1> QED
    BY <1>2, <1>3, <1>4, ClearedQueue

(* Reload and Unmount leave the conflict as it is; a delete resolves it. *)
LEMMA DiscardQueue ==
    ASSUME LocalTyped, QueueInv, NEW t \in Tab, DeleteDone(t) \/ Reload(t) \/ Unmount(t)
    PROVE  QueueInv'
  <1>1. /\ Tell(queued[t], "discarded") /\ timer' = [timer EXCEPT ![t] = FALSE]
        /\ queued' = [queued EXCEPT ![t] = {}] /\ UNCHANGED save
    BY DEF DeleteDone, Reload, Unmount, ClearQueuedSave
  <1>2. \A u \in Tab \ {t} : /\ save'[u] = save[u] /\ pending'[u] = pending[u]
                             /\ conflict'[u] = conflict[u]
    BY DEF DeleteDone, Reload, Unmount, ClearQueuedSave, LocalTyped
  <1>3. conflict'[t] => conflict[t]
    BY DEF DeleteDone, Reload, Unmount, LocalTyped
  <1>4. conflict'[t] => save'[t].phase = "idle"
    BY <1>1, <1>3 DEF QueueInv, PausedQueueIsSettled, InFlight
  <1> QED
    BY <1>1, <1>2, <1>4, ClearedQueue

LEMMA AnswerEffect ==
    ASSUME LocalTyped, NEW r, r.tab \in Tab, Answer(r), NEW t \in Tab
    PROVE  /\ save'[t].waiters = save[t].waiters
           /\ save'[t].phase = "idle" => save[t].phase = "idle"
           /\ save[t].phase = "idle" => save'[t].phase = "idle"
  <1> DEFINE new == IF Verdict(r) = "ok"
                    THEN Answered(save[r.tab], "ok", content', version')
                    ELSE Answered(save[r.tab], Verdict(r), NoCopy, 0)
  <1>1. new.phase # "idle" /\ new.waiters = save[r.tab].waiters
    BY DEF Answered, Verdict
  <1>2. \/ UNCHANGED save
        \/ save[r.tab].phase = "sent" /\ save' = [save EXCEPT ![r.tab] = new]
    BY DEF Answer
  <1> HIDE DEF new
  <1> QED
    BY <1>1, <1>2 DEF LocalTyped

LEMMA ServeQueue ==
    ASSUME TypeOK, LocalTyped, QueueInv, NEW r \in requests, Serve(r)
    PROVE  QueueInv'
  <1>1. r.tab \in Tab
    BY DEF TypeOK, Request
  <1>2. UNCHANGED save \/ Answer(r)
    BY DEF Serve
  <1>3. \A t \in Tab : save'[t].waiters = save[t].waiters
    BY <1>1, <1>2, AnswerEffect
  <1>4. \A t \in Tab : (save'[t].phase = "idle" <=> save[t].phase = "idle")
    BY <1>1, <1>2, AnswerEffect
  <1>5. UNCHANGED <<pending, queued, timer, outcome, conflict>>
    BY DEF Serve, queue
  <1> QED
    BY <1>3, <1>4, <1>5, QueueKept

LEMMA QueueStep ==
    ASSUME TypeOK, QueueInv, [Next]_vars
    PROVE  QueueInv'
  <1>0. LocalTyped
    BY TypeLocal
  <1>1. CASE \E t \in Tab : Provider(t)
    <2> PICK t \in Tab : Provider(t)
      BY <1>1
    <2>1. CASE SaveSucceeds(t)
      BY <1>0, <2>1, FinishQueue DEF SaveSucceeds
    <2>2. CASE SaveIsStale(t)
      BY <1>0, <2>2, FinishQueue DEF SaveIsStale
    <2>3. CASE ListArrives(t) \/ OrphanArrives(t) \/ RestoreDone(t)
      <3>1. UNCHANGED <<pending, queued, timer, outcome, save>>
        BY <2>3 DEF ListArrives, OrphanArrives, RestoreDone, queue
      <3>2. \A u \in Tab : conflict'[u] => conflict[u]
        BY <1>0, <2>3 DEF ListArrives, OrphanArrives, RestoreDone, LocalTyped
      <3> QED
        BY <1>0, <3>1, <3>2, QueueKept
    <2> QED
      BY <1>0, <2>1, <2>2, <2>3, TimerFiresQueue, SaveConflictsQueue, DiscardQueue DEF Provider
  <1>2. CASE \E t \in Tab : User(t)
    <2> PICK t \in Tab : User(t)
      BY <1>2
    <2>1. CASE Refresh(t)
      BY <1>0, <2>1, QueueKept DEF Refresh, queue
    <2> QED
      BY <1>0, <2>1, EditQueue, DiscardQueue DEF User
  <1>3. CASE \E t \in Tab : SaveFails(t)
    BY <1>0, <1>3, FinishQueue DEF SaveFails
  <1>4. CASE \E r \in requests : Serve(r)
    BY <1>0, <1>4, ServeQueue
  <1>5. CASE \E t \in Tab : ListFails(t) \/ ServeList(t) \/ ServeDelete(t) \/ ServeRestore(t)
    <2>1. UNCHANGED <<pending, queued, timer, outcome, conflict, save>>
      BY <1>5 DEF ListFails, ServeList, ServeDelete, ServeRestore, queue
    <2> QED
      BY <1>0, <2>1, QueueKept
  <1>6. CASE (\E r \in requests : RequestLost(r)) \/ RestoreSnapshot \/ Restart \/ UNCHANGED vars
    <2>1. UNCHANGED <<pending, queued, timer, outcome, conflict, save>>
      BY <1>6 DEF RequestLost, RestoreSnapshot, Restart, vars, queue
    <2> QED
      BY <1>0, <2>1, QueueKept
  <1> QED
    BY <1>1, <1>2, <1>3, <1>4, <1>5, <1>6, NextCases

LEMMA QueueCorrect == Spec => []QueueInv
  <1>1. Init => QueueInv
    BY DEF Init, QueueInv, PausedQueueIsSettled, QueuedHavePatch, WaitersAreServed
  <1>2. TypeOK /\ QueueInv /\ [Next]_vars => QueueInv'
    BY QueueStep
  <1> QED
    BY <1>1, <1>2, TypeCorrect, PTL DEF Spec

(* The conflict banner of SuiteWorkspaceProvider pauses autosave for good: *)
(* until Reload or a delete, no save of the tab is in flight.              *)
THEOREM PausedIsSilent == Spec => []PausedTabIsSilent
  <1>1. QueueInv => PausedTabIsSilent
    BY DEF QueueInv, PausedQueueIsSettled, PausedTabIsSilent
  <1> QED
    BY <1>1, QueueCorrect, PTL

(* Every caller of saveWorkspace without an answer is held by a save in    *)
(* flight, or queued where a timer or such a save takes the edit up.       *)
THEOREM WaitersServed == Spec => []WaitersAreServed
  <1>1. QueueInv => WaitersAreServed
    BY DEF QueueInv
  <1> QED
    BY <1>1, QueueCorrect, PTL

-----------------------------------------------------------------------------
(***************************************************************************)
(* What WorkspaceSave promises for edits, for any tabs, fields, edits and  *)
(* versions: that they stay on screen and queued, that what callers are    *)
(* told is true, and that no save removes what its tab has not seen.  Each *)
(* part says in which environments it holds.                               *)
(***************************************************************************)
(* What the shared parts of the actions do, tab by tab *)

Sent(t) == [phase |-> "sent", seq |-> save[t].seq + 1, patch |-> pending[t],
            waiters |-> queued[t], content |-> NoCopy, version |-> 0]
Put(t, e) == [tab |-> t, seq |-> save[t].seq + 1, patch |-> pending[t], expected |-> e]

(* The tab sends its pending patch; or it has nothing in flight any more. *)
Sends(t, e) ==
    /\ save'[t] = Sent(t) /\ requests' = requests \cup {Put(t, e)}
    /\ pending'[t] = NoPatch /\ queued'[t] = {}
    /\ pending[t] # NoPatch
Rests(t) ==
    /\ save'[t] = Idle(save[t].seq)
    /\ UNCHANGED <<requests, pending, queued>>
    /\ pending[t] = NoPatch \/ timer[t] \/ conflict[t]

(* Only this tab's queue moves. *)
OthersRest(t) ==
    \A u \in Tab \ {t} : /\ save'[u] = save[u] /\ queued'[u] = queued[u]
                         /\ pending'[u] = pending[u]

LEMMA DispatchMoves ==
    ASSUME LocalTyped, NEW t \in Tab, NEW e, Dispatch(t, e), pending[t] # NoPatch
    PROVE  Sends(t, e) /\ OthersRest(t)
  <1>1. save' = [save EXCEPT ![t] = Sent(t)] /\ requests' = requests \cup {Put(t, e)}
    BY DEF Dispatch, Sent, Put
  <1>2. queued' = [queued EXCEPT ![t] = {}] /\ pending' = [pending EXCEPT ![t] = NoPatch]
    BY DEF Dispatch
  <1> QED
    BY <1>1, <1>2 DEF LocalTyped, Sends, OthersRest

LEMMA FinishMoves ==
    ASSUME LocalTyped, NEW t \in Tab, NEW what, NEW e, FinishSave(t, what, e)
    PROVE  /\ Tell(save[t].waiters, what) /\ OthersRest(t)
           /\ (Sends(t, e) /\ ~timer[t] /\ ~conflict[t]) \/ Rests(t)
  <1>1. CASE pending[t] # NoPatch /\ ~timer[t] /\ ~conflict[t]
    BY <1>1, DispatchMoves DEF FinishSave
  <1>2. CASE ~(pending[t] # NoPatch /\ ~timer[t] /\ ~conflict[t])
    BY <1>2 DEF FinishSave, Rests, OthersRest, LocalTyped
  <1> QED
    BY <1>1, <1>2

(* An answer changes nothing of a save but its outcome. *)
Matches(r) == save[r.tab].phase = "sent" /\ save[r.tab].seq = r.seq
Answers(r) ==
    LET s == save'[r.tab] IN
    /\ s.seq = save[r.tab].seq /\ s.patch = save[r.tab].patch
    /\ s.waiters = save[r.tab].waiters
    /\ s.phase = Verdict(r)
    /\ s.phase = "ok" => s.content = content' /\ s.version = version'

LEMMA AnswerMoves ==
    ASSUME LocalTyped, NEW r, r.tab \in Tab, Answer(r)
    PROVE  /\ \A u \in Tab \ {r.tab} : save'[u] = save[u]
           /\ IF Matches(r) THEN Answers(r) ELSE save' = save
  <1> DEFINE new == IF Verdict(r) = "ok"
                    THEN Answered(save[r.tab], "ok", content', version')
                    ELSE Answered(save[r.tab], Verdict(r), NoCopy, 0)
  <1>1. /\ new.seq = save[r.tab].seq /\ new.patch = save[r.tab].patch
        /\ new.waiters = save[r.tab].waiters /\ new.phase = Verdict(r)
        /\ new.phase = "ok" => new.content = content' /\ new.version = version'
    BY DEF Answered
  <1>2. IF Matches(r) THEN save' = [save EXCEPT ![r.tab] = new] ELSE UNCHANGED save
    BY DEF Answer, Matches
  <1> HIDE DEF new
  <1> QED
    BY <1>1, <1>2 DEF LocalTyped, Answers

LEMMA VerdictCases ==
    ASSUME NEW r
    PROVE  /\ Verdict(r) \in {"ok", "stale", "error", "conflict"}
           /\ Verdict(r) = "stale" => IsStale(r)
           /\ Verdict(r) = "ok" => ~IsStale(r) /\ ~VersionMoved(r) /\ content # NoCopy
           /\ Verdict(r) = "error" => content = NoCopy
  BY DEF Verdict

-----------------------------------------------------------------------------
(* Edits on screen, where nobody deletes the workspace                     *)
(*                                                                         *)
(* A pending field is the field on screen, and a field on its way was, but *)
(* for the edits queued behind it.  Both are needed: a conflict puts the   *)
(* fields on their way back under the pending ones.                        *)

Alive ==
    /\ deletes = 0 /\ content # NoCopy
    /\ \A t \in Tab :
         /\ removal[t].phase = "none" /\ shown[t] # NoCopy
         /\ fetch[t].phase = "answered" => fetch[t].content # NoCopy
         /\ save[t].phase = "ok" => save[t].content # NoCopy

Laid(c, p, s) ==
    \A f \in Field :
        /\ p[f] # Untouched => p[f] = c[f]
        /\ s[f] # Untouched => /\ s[f] \subseteq c[f]
                               /\ p[f] = Untouched => s[f] = c[f]

OnScreen ==
    \A t \in Tab :
        /\ save[t].phase = "idle" => save[t].patch = NoPatch
        /\ reloading[t] => conflict[t]
        /\ Laid(shown[t], pending[t], save[t].patch)

LEMMA LaidMoves ==
    ASSUME NEW c, NEW p \in Patch, NEW s \in Patch, Laid(c, p, s)
    PROVE  /\ Laid(c, NoPatch, p)
           /\ Laid(c, p, NoPatch)
           /\ Laid(c, Merge(s, p), NoPatch)
           /\ Laid(c, NoPatch, s) \/ p # NoPatch
  BY DEF Laid, NoPatch, Merge

LEMMA LaidNothing == \A c : Laid(c, NoPatch, NoPatch)
  BY DEF Laid, NoPatch

LEMMA LaidEdit ==
    ASSUME NEW c \in Content, NEW p \in Patch, NEW s \in Patch, Laid(c, p, s),
           NEW f \in Field, NEW m \in Mark
    PROVE  Laid([c EXCEPT ![f] = c[f] \cup {m}], [p EXCEPT ![f] = c[f] \cup {m}], s)
  <1>1. c[f] \cup {m} # Untouched
    BY ValuesAssumption DEF Content
  <1> QED
    BY <1>1 DEF Laid, Content, Patch

LEMMA ContentThere == \A c \in Content : c # NoCopy
  BY ValuesAssumption DEF Content

(* The steps there are while nobody deletes the workspace. *)
Finishes(t) == SaveSucceeds(t) \/ SaveIsStale(t) \/ SaveFails(t)
Edits(t) == \E f \in Field, m \in Mark : Edit(t, f, m)
Rereads(t) == Refresh(t) \/ OrphanArrives(t) \/ ListFails(t) \/ ServeList(t)

LEMMA LivingCases ==
    ASSUME MaxDeletes = 0, Alive, [Next]_vars
    PROVE  \/ \E t \in Tab : \/ TimerFires(t) \/ Finishes(t) \/ SaveConflicts(t) \/ Edits(t)
                             \/ ListArrives(t) \/ Rereads(t) \/ Reload(t) \/ Unmount(t)
           \/ \E r \in requests : Serve(r) \/ RequestLost(r)
           \/ RestoreSnapshot \/ Restart \/ UNCHANGED vars
  <1>1. \A t \in Tab : ~DeleteDone(t) /\ ~RestoreDone(t)
    BY DEF Alive, DeleteDone, RestoreDone
  <1>2. \A t \in Tab : ~ServeDelete(t) /\ ~ServeRestore(t)
    BY DEF Alive, ServeDelete, ServeRestore
  <1>3. ASSUME NEW t \in Tab, Provider(t)
        PROVE  TimerFires(t) \/ Finishes(t) \/ SaveConflicts(t) \/ ListArrives(t) \/ Rereads(t)
    BY <1>1, <1>3 DEF Provider, Finishes, Rereads
  <1>4. ASSUME NEW t \in Tab, User(t)
        PROVE  Edits(t) \/ Reload(t) \/ Rereads(t) \/ Unmount(t)
    BY <1>4 DEF User, Edits, Rereads
  <1> QED
    BY <1>2, <1>3, <1>4, NextCases DEF Finishes, Rereads

(* What a step that ends a save, without a conflict, does besides. *)
LEMMA FinishesMoves ==
    ASSUME TypeOK, NEW t \in Tab, Finishes(t)
    PROVE  /\ OthersRest(t) /\ UNCHANGED <<timer, conflict, reloading, removal, server, mounted>>
           /\ save[t].phase # "idle"
           /\ \E e \in {known[t], save[t].version} :
                /\ e = known'[t]
                /\ (Sends(t, e) /\ ~timer[t] /\ ~conflict[t]) \/ Rests(t)
           /\ \E what \in {"ok", "stale", "error"} :
                /\ Tell(save[t].waiters, what)
                /\ what # "error" => save[t].phase = what
  <1>0. LocalTyped
    BY TypeLocal
  <1>1. CASE SaveSucceeds(t)
    <2>1. FinishSave(t, "ok", save[t].version)
      BY <1>1 DEF SaveSucceeds
    <2>2. known'[t] = save[t].version /\ save[t].phase = "ok"
      BY <1>1 DEF SaveSucceeds, TypeOK
    <2>3. UNCHANGED <<timer, conflict, reloading, removal, server, mounted>>
      BY <1>1 DEF SaveSucceeds, lists
    <2> QED
      BY <1>0, <2>1, <2>2, <2>3, FinishMoves
  <1>2. CASE SaveIsStale(t)
    <2>1. FinishSave(t, "stale", known[t])
      BY <1>2 DEF SaveIsStale
    <2> QED
      BY <1>0, <1>2, <2>1, FinishMoves DEF SaveIsStale, lists
  <1>3. CASE SaveFails(t)
    <2>1. FinishSave(t, "error", known[t])
      BY <1>3 DEF SaveFails
    <2> QED
      BY <1>0, <1>3, <2>1, FinishMoves DEF SaveFails, InFlight
  <1> QED
    BY <1>1, <1>2, <1>3 DEF Finishes

LEMMA ScreenKept ==
    ASSUME OnScreen,
           \A t \in Tab : /\ shown'[t] = shown[t] /\ pending'[t] = pending[t]
                          /\ save'[t].patch = save[t].patch
                          /\ save'[t].phase = "idle" => save[t].phase = "idle"
                          /\ reloading'[t] => conflict'[t]
    PROVE  OnScreen'
  BY DEF OnScreen

(* One tab changes. *)
LEMMA ScreenOfOne ==
    ASSUME OnScreen, NEW t \in Tab, OthersRest(t),
           \A u \in Tab \ {t} : shown'[u] = shown[u],
           \A u \in Tab : reloading'[u] => conflict'[u],
           save'[t].phase = "idle" => save'[t].patch = NoPatch,
           Laid(shown'[t], pending'[t], save'[t].patch)
    PROVE  OnScreen'
  BY DEF OnScreen, OthersRest

LEMMA ScreenStep ==
    ASSUME MaxDeletes = 0, TypeOK, QueueInv, Alive, OnScreen, [Next]_vars
    PROVE  OnScreen'
  <1>0. LocalTyped
    BY TypeLocal
  <1>a. \A t \in Tab : reloading[t] => conflict[t]
    BY DEF OnScreen
  <1>b. \A t \in Tab : /\ pending[t] \in Patch /\ save[t].patch \in Patch
                       /\ Laid(shown[t], pending[t], save[t].patch)
    BY <1>0 DEF LocalTyped, Saves, OnScreen
  <1>1. ASSUME NEW t \in Tab, TimerFires(t) PROVE OnScreen'
    <2>1. UNCHANGED <<shown, conflict, reloading>>
      BY <1>1 DEF TimerFires, lists
    <2>2. CASE ~conflict[t] /\ ~InFlight(t) /\ pending[t] # NoPatch
      <3>1. Sends(t, known[t]) /\ OthersRest(t)
        BY <1>0, <1>1, <2>2, DispatchMoves DEF TimerFires
      <3>2. Laid(shown[t], NoPatch, pending[t])
        BY <1>b, LaidMoves
      <3> QED
        BY <1>a, <2>1, <3>1, <3>2, ScreenOfOne DEF Sends, Sent
    <2>3. CASE ~(~conflict[t] /\ ~InFlight(t) /\ pending[t] # NoPatch)
      BY <1>1, <1>a, <2>1, <2>3, ScreenKept DEF TimerFires
    <2> QED
      BY <2>2, <2>3
  <1>2. ASSUME NEW t \in Tab, Finishes(t) PROVE OnScreen'
    <2>1. /\ OthersRest(t) /\ UNCHANGED <<timer, conflict, reloading>>
          /\ (\E e \in {known[t], save[t].version} : Sends(t, e)) \/ Rests(t)
      BY <1>2, FinishesMoves
    <2>2. /\ \A u \in Tab \ {t} : shown'[u] = shown[u]
          /\ shown'[t] = shown[t] \/ (pending[t] = NoPatch /\ ~timer[t])
      BY <1>2 DEF Finishes, SaveSucceeds, SaveIsStale, SaveFails, TypeOK
    <2>3. CASE \E e \in {known[t], save[t].version} : Sends(t, e)
      <3>1. Laid(shown[t], NoPatch, pending[t])
        BY <1>b, LaidMoves
      <3> QED
        BY <1>a, <2>1, <2>2, <2>3, <3>1, ScreenOfOne DEF Sends, Sent
    <2>4. CASE Rests(t)
      <3>1. /\ save'[t].patch = NoPatch
            /\ pending'[t] = pending[t]
        BY <2>4 DEF Rests, Idle
      <3>2. Laid(shown'[t], pending'[t], NoPatch)
        BY <1>b, <2>2, <3>1, LaidMoves, LaidNothing
      <3> QED
        BY <1>a, <2>1, <2>2, <3>1, <3>2, ScreenOfOne
    <2> QED
      BY <2>1, <2>3, <2>4
  <1>3. ASSUME NEW t \in Tab, SaveConflicts(t) PROVE OnScreen'
    <2>1. /\ OthersRest(t) /\ save'[t] = Idle(save[t].seq)
          /\ pending'[t] = Merge(save[t].patch, pending[t])
          /\ UNCHANGED <<shown, reloading>> /\ \A u \in Tab : conflict[u] => conflict'[u]
      BY <1>0, <1>3 DEF SaveConflicts, LocalTyped, OthersRest, lists
    <2>2. save'[t].patch = NoPatch
      BY <2>1 DEF Idle
    <2>3. Laid(shown'[t], pending'[t], save'[t].patch)
      BY <1>b, <2>1, <2>2, LaidMoves
    <2> QED
      BY <1>a, <2>1, <2>2, <2>3, ScreenOfOne
  <1>4. ASSUME NEW t \in Tab, NEW f \in Field, NEW m \in Mark, Edit(t, f, m) PROVE OnScreen'
    <2>1. shown[t] \in Content
      BY <1>4 DEF Edit, TypeOK
    <2>2. /\ shown'[t] = [shown[t] EXCEPT ![f] = shown[t][f] \cup {m}]
          /\ pending'[t] = [pending[t] EXCEPT ![f] = shown[t][f] \cup {m}]
          /\ \A u \in Tab \ {t} : shown'[u] = shown[u] /\ pending'[u] = pending[u]
                                  /\ queued'[u] = queued[u]
          /\ UNCHANGED <<save, conflict, reloading>>
      BY <1>0, <1>4 DEF Edit, TypeOK, LocalTyped, lists
    <2>3. Laid(shown'[t], pending'[t], save'[t].patch)
      BY <1>b, <2>1, <2>2, LaidEdit
    <2> QED
      BY <1>a, <2>2, <2>3, ScreenOfOne DEF OnScreen, OthersRest
  <1>5. ASSUME NEW t \in Tab, ListArrives(t) PROVE OnScreen'
    <2>1. /\ UNCHANGED <<pending, queued, save>>
          /\ \A u \in Tab \ {t} : shown'[u] = shown[u]
          /\ \A u \in Tab : reloading'[u] => conflict'[u]
          /\ fetch[t].content # NoCopy /\ shown[t] # NoCopy
          /\ shown'[t] = IF Held(t) THEN shown[t] ELSE fetch[t].content
      BY <1>5, <1>a DEF ListArrives, TypeOK, queue, ShownAfter, Alive
    <2>2. ~Held(t) => pending[t] = NoPatch /\ save[t].patch = NoPatch
      BY DEF Held, InFlight, OnScreen
    <2>3. Laid(shown'[t], pending'[t], save'[t].patch)
      BY <1>b, <2>1, <2>2, LaidNothing
    <2> QED
      BY <2>1, <2>3, ScreenOfOne DEF OnScreen, OthersRest
  <1>6. ASSUME NEW t \in Tab, Rereads(t) \/ Unmount(t) PROVE OnScreen'
    <2>1. /\ UNCHANGED <<shown, pending, save, conflict>>
          /\ \A u \in Tab : reloading'[u] => reloading[u]
      BY <1>6 DEF Rereads, Refresh, OrphanArrives, ListFails, ServeList, Unmount, queue, lists, TypeOK
    <2> QED
      BY <1>a, <2>1, ScreenKept
  <1>7. ASSUME NEW t \in Tab, Reload(t) PROVE OnScreen'
    <2>1. /\ conflict[t] /\ UNCHANGED <<shown, conflict, save>>
          /\ pending' = [pending EXCEPT ![t] = NoPatch]
          /\ queued' = [queued EXCEPT ![t] = {}]
          /\ reloading' = [reloading EXCEPT ![t] = TRUE]
      BY <1>7 DEF Reload, ClearQueuedSave
    <2>2. save[t].patch = NoPatch
      BY <2>1 DEF QueueInv, PausedQueueIsSettled, InFlight, OnScreen
    <2>3. /\ OthersRest(t) /\ pending'[t] = NoPatch
          /\ \A u \in Tab : reloading'[u] => conflict'[u]
      BY <1>0, <1>a, <2>1 DEF OthersRest, LocalTyped, TypeOK
    <2> QED
      BY <2>1, <2>2, <2>3, LaidNothing, ScreenOfOne
  <1>8. ASSUME NEW r \in requests, Serve(r) PROVE OnScreen'
    <2>1. UNCHANGED <<shown, pending, conflict, reloading>> /\ (UNCHANGED save \/ Answer(r))
      BY <1>8 DEF Serve, queue, lists
    <2>2. r.tab \in Tab
      BY DEF TypeOK, Request
    <2>3. \A u \in Tab : /\ save'[u].patch = save[u].patch
                         /\ save'[u].phase = "idle" => save[u].phase = "idle"
      BY <1>0, <2>1, <2>2, AnswerMoves, VerdictCases DEF Answers
    <2> QED
      BY <1>a, <2>1, <2>3, ScreenKept
  <1>9. CASE (\E r \in requests : RequestLost(r)) \/ RestoreSnapshot \/ Restart \/ UNCHANGED vars
    <2>1. UNCHANGED <<shown, pending, save, conflict, reloading>>
      BY <1>9 DEF RequestLost, RestoreSnapshot, Restart, vars, queue, lists
    <2> QED
      BY <1>a, <2>1, ScreenKept
  <1> QED
    BY <1>1, <1>2, <1>3, <1>4, <1>5, <1>6, <1>7, <1>8, <1>9, LivingCases DEF Edits

LEMMA ApplyMoves ==
    ASSUME TypeOK, NEW r \in requests, Serve(r), ~UNCHANGED server
    PROVE  Verdict(r) = "ok" /\ ApplySave(r) /\ content \in Content /\ content' \in Content
  <1>1. Verdict(r) = "ok" /\ ApplySave(r)
    BY DEF Serve
  <1>2. content \in Content /\ r.patch \in Patch
    BY <1>1, VerdictCases DEF TypeOK, Request
  <1> QED
    BY <1>1, <1>2, MergeContentTyped DEF ApplySave

LEMMA AliveStep ==
    ASSUME MaxDeletes = 0, TypeOK, Alive, [Next]_vars
    PROVE  Alive'
  <1>0. LocalTyped
    BY TypeLocal
  <1>1. ASSUME NEW t \in Tab, TimerFires(t) \/ SaveConflicts(t) PROVE Alive'
    <2>1. UNCHANGED <<deletes, content, removal, shown, fetch>>
      BY <1>1 DEF TimerFires, SaveConflicts, server, lists
    <2>2. \A u \in Tab : save'[u].phase = "ok" => save'[u] = save[u]
      <3>1. CASE SaveConflicts(t)
        BY <1>0, <3>1 DEF SaveConflicts, LocalTyped, Idle
      <3>2. CASE TimerFires(t) /\ ~UNCHANGED save
        <4>1. Dispatch(t, known[t]) /\ pending[t] # NoPatch
          BY <3>2 DEF TimerFires
        <4>2. Sends(t, known[t]) /\ OthersRest(t)
          BY <1>0, <4>1, DispatchMoves
        <4>3. save'[t].phase = "sent"
          BY <4>2 DEF Sends, Sent
        <4> QED
          BY <4>2, <4>3 DEF OthersRest
      <3> QED
        BY <1>1, <3>1, <3>2
    <2> QED
      BY <2>1, <2>2 DEF Alive
  <1>2. ASSUME NEW t \in Tab, Finishes(t) PROVE Alive'
    <2>1. /\ OthersRest(t) /\ UNCHANGED <<removal, server>>
          /\ (\E e \in {known[t], save[t].version} : Sends(t, e)) \/ Rests(t)
      BY <1>2, FinishesMoves
    <2>2. save'[t].phase # "ok"
      BY <2>1 DEF Sends, Sent, Rests, Idle
    <2>3. \A u \in Tab : save'[u].phase = "ok" => save'[u] = save[u]
      BY <2>1, <2>2 DEF OthersRest
    <2>4. \A u \in Tab : shown'[u] # NoCopy
      BY <1>2 DEF Finishes, SaveSucceeds, SaveIsStale, SaveFails, TypeOK, Alive
    <2>5. \A u \in Tab : fetch'[u] = fetch[u] \/ fetch'[u] = Asked
      BY <1>2 DEF Finishes, SaveSucceeds, SaveIsStale, SaveFails, lists, BeginFetch, TypeOK
    <2> QED
      BY <2>1, <2>3, <2>4, <2>5 DEF Alive, server, Asked
  <1>3. ASSUME NEW t \in Tab, Edits(t) PROVE Alive'
    <2>1. PICK f \in Field, m \in Mark : Edit(t, f, m)
      BY <1>3 DEF Edits
    <2>2. shown[t] \in Content
      BY <2>1 DEF Edit, TypeOK
    <2>3. [shown[t] EXCEPT ![f] = shown[t][f] \cup {m}] \in Content
      BY <2>2 DEF Content
    <2>4. \A u \in Tab : shown'[u] # NoCopy
      BY <2>1, <2>3, ContentThere DEF Edit, TypeOK, Alive
    <2> QED
      BY <2>1, <2>4 DEF Edit, Alive, server, lists
  <1>4. ASSUME NEW t \in Tab, ListArrives(t) PROVE Alive'
    <2>1. \A u \in Tab : shown'[u] # NoCopy
      BY <1>4 DEF ListArrives, ShownAfter, Alive, TypeOK
    <2>2. \A u \in Tab : fetch'[u] = fetch[u] \/ fetch'[u] = NoFetch
      BY <1>4 DEF ListArrives, TypeOK
    <2> QED
      BY <1>4, <2>1, <2>2 DEF ListArrives, Alive, server, NoFetch
  <1>5. ASSUME NEW t \in Tab, Rereads(t) \/ Unmount(t) \/ Reload(t) PROVE Alive'
    <2>1. UNCHANGED <<server, removal, shown, save>>
      BY <1>5 DEF Rereads, Refresh, OrphanArrives, ListFails, ServeList, Unmount, Reload
    <2>2. \A u \in Tab : \/ fetch'[u] = fetch[u] \/ fetch'[u] \in {NoFetch, Asked}
                         \/ fetch'[u].content = content
      BY <1>5 DEF Rereads, Refresh, OrphanArrives, ListFails, ServeList, Unmount, Reload,
                  BeginFetch, Reading, lists, TypeOK
    <2> QED
      BY <2>1, <2>2 DEF Alive, server, NoFetch, Asked
  <1>6. ASSUME NEW r \in requests, Serve(r) PROVE Alive'
    <2>1. UNCHANGED <<shown, removal, fetch>> /\ (UNCHANGED save \/ Answer(r))
      BY <1>6 DEF Serve, lists
    <2>2. content' # NoCopy /\ deletes' = deletes
      BY <1>6, ApplyMoves, ContentThere DEF Alive, server, ApplySave
    <2>3. \A u \in Tab : save'[u] = save[u] \/ (save'[u].phase = "ok" => save'[u].content = content')
      <3>1. r.tab \in Tab
        BY DEF TypeOK, Request
      <3> QED
        BY <1>0, <2>1, <3>1, AnswerMoves DEF Answers
    <2> QED
      BY <2>1, <2>2, <2>3 DEF Alive
  <1>7. CASE (\E r \in requests : RequestLost(r)) \/ Restart \/ UNCHANGED vars
    <2>1. UNCHANGED <<deletes, content, removal, shown, fetch, save>>
      BY <1>7 DEF RequestLost, Restart, vars, server, lists
    <2> QED
      BY <2>1 DEF Alive
  <1>8. CASE RestoreSnapshot
    BY <1>8, EmptyTyped, ContentThere DEF RestoreSnapshot, Alive, lists
  <1> QED
    BY <1>1, <1>2, <1>3, <1>4, <1>5, <1>6, <1>7, <1>8, LivingCases

LEMMA ScreenCorrect == ASSUME MaxDeletes = 0 PROVE Spec => [](Alive /\ OnScreen)
  <1>1. Init => Alive /\ OnScreen
    BY EmptyTyped, ContentThere, LaidNothing
    DEF Init, Alive, OnScreen, NoRemoval, NoFetch, Idle, Laid, NoPatch
  <1>2. TypeOK /\ QueueInv /\ (Alive /\ OnScreen) /\ [Next]_vars => (Alive /\ OnScreen)'
    BY AliveStep, ScreenStep
  <1> QED
    BY <1>1, <1>2, TypeCorrect, QueueCorrect, PTL DEF Spec

(* loadWorkspaces keeps the copy on screen of a held workspace: edits that *)
(* are queued or in flight stay there, whatever lists and replies come in, *)
(* in whatever order.                                                      *)
THEOREM HeldEditsAlwaysStay ==
    ASSUME MaxDeletes = 0 PROVE Spec => []HeldEditsStayOnScreen
  <1>1. OnScreen => HeldEditsStayOnScreen
    BY DEF OnScreen, HeldEditsStayOnScreen, Laid, MarksIn
  <1> QED
    BY <1>1, ScreenCorrect, PTL

LEMMA ConflictKeeps ==
    ASSUME MaxDeletes = 0, TypeOK, QueueInv, Alive, OnScreen, [Next]_vars,
           NEW t \in Tab, NEW f \in Field, conflict'[t], ~reloading'[t]
    PROVE  /\ MarksIn(pending[t], f) \subseteq MarksIn(pending'[t], f)
           /\ MarksIn(save[t].patch, f) \subseteq MarksIn(pending'[t], f) \cup MarksIn(save'[t].patch, f)
  <1>0. LocalTyped
    BY TypeLocal
  <1>1. CASE pending'[t] = pending[t] /\ save'[t].patch = save[t].patch
    BY <1>1
  <1>2. CASE SaveConflicts(t)
    <2>1. pending'[t] = Merge(save[t].patch, pending[t])
      BY <1>0, <1>2 DEF SaveConflicts, LocalTyped
    <2> QED
      BY <2>1 DEF OnScreen, Laid, Merge, MarksIn
  <1>3. CASE Edits(t)
    <2>1. PICK g \in Field, m \in Mark : Edit(t, g, m)
      BY <1>3 DEF Edits
    <2>2. pending'[t] = [pending[t] EXCEPT ![g] = shown[t][g] \cup {m}] /\ save' = save
      BY <1>0, <2>1 DEF Edit, LocalTyped
    <2>3. pending[t] \in Patch /\ pending[t][g] # Untouched => pending[t][g] = shown[t][g]
      BY <1>0 DEF LocalTyped, OnScreen, Laid
    <2>4. shown[t][g] \cup {m} # Untouched
      BY <2>1, ValuesAssumption DEF Edit, TypeOK, Content
    <2> QED
      BY <1>0, <2>2, <2>3, <2>4 DEF MarksIn, LocalTyped, Patch
  <1>4. ASSUME NEW u \in Tab, TimerFires(u)
        PROVE  pending'[t] = pending[t] /\ save'[t] = save[t]
    BY <1>0, <1>4, DispatchMoves DEF TimerFires, OthersRest
  <1>5. ASSUME NEW u \in Tab, Finishes(u)
        PROVE  pending'[t] = pending[t] /\ save'[t] = save[t]
    <2>1. OthersRest(u) /\ conflict' = conflict /\ save[u].phase # "idle"
      BY <1>5, FinishesMoves
    <2>2. u # t
      BY <2>1 DEF QueueInv, PausedQueueIsSettled, InFlight
    <2> QED
      BY <2>1, <2>2 DEF OthersRest
  <1>6. ASSUME NEW u \in Tab \ {t}, SaveConflicts(u) \/ Edits(u)
        PROVE  pending'[t] = pending[t] /\ save'[t] = save[t]
    BY <1>0, <1>6 DEF SaveConflicts, Edits, Edit, LocalTyped
  <1>7. ASSUME NEW u \in Tab, ListArrives(u) \/ Rereads(u) \/ Unmount(u) \/ Reload(u)
        PROVE  pending'[t] = pending[t] /\ save' = save
    BY <1>0, <1>7 DEF ListArrives, Rereads, Refresh, OrphanArrives, ListFails, ServeList,
                      Unmount, Reload, ClearQueuedSave, queue, LocalTyped, TypeOK
  <1>8. ASSUME NEW r \in requests, Serve(r)
        PROVE  pending' = pending /\ save'[t].patch = save[t].patch
    <2>1. UNCHANGED pending /\ (UNCHANGED save \/ Answer(r)) /\ r.tab \in Tab
      BY <1>8 DEF Serve, queue, TypeOK, Request
    <2> QED
      BY <1>0, <2>1, AnswerMoves DEF Answers
  <1>9. ASSUME (\E r \in requests : RequestLost(r)) \/ RestoreSnapshot \/ Restart \/ UNCHANGED vars
        PROVE  pending' = pending /\ save' = save
    BY <1>9 DEF RequestLost, RestoreSnapshot, Restart, vars, queue
  <1> QED
    BY <1>1, <1>2, <1>3, <1>4, <1>5, <1>6, <1>7, <1>8, <1>9, LivingCases

(* A refused edit stays queued in its tab: no step that leaves the tab in  *)
(* conflict, and is not its Reload, loses what was pending or on its way.  *)
THEOREM ConflictsKeepEdits ==
    ASSUME MaxDeletes = 0 PROVE Spec => ConflictKeepsEdits
  <1>1. TypeOK /\ QueueInv /\ (Alive /\ OnScreen) /\ [Next]_vars =>
          [\A t \in Tab : \A f \in Field :
             (conflict'[t] /\ ~reloading'[t])
             => /\ MarksIn(pending[t], f) \subseteq MarksIn(pending'[t], f)
                /\ MarksIn(save[t].patch, f) \subseteq MarksIn(pending'[t], f)
                                                        \cup MarksIn(save'[t].patch, f)]_vars
    BY ConflictKeeps
  <1> QED
    BY <1>1, TypeCorrect, QueueCorrect, ScreenCorrect, PTL DEF Spec, ConflictKeepsEdits

-----------------------------------------------------------------------------
(* What callers are told is true, where nobody deletes the workspace       *)
(*                                                                         *)
(* A request carries what its tab has in flight, and the record of the     *)
(* sequencer is never ahead of the tab that made it: so a save refused as  *)
(* stale is one that was applied.                                          *)

Carried(p) == UNION {MarksIn(p, f) : f \in Field}

Numbered ==
    /\ \A r \in requests :
         /\ r.seq <= save[r.tab].seq
         /\ (r.seq = save[r.tab].seq /\ save[r.tab].phase = "sent")
            => r.patch = save[r.tab].patch
    /\ \A t \in Tab : lastApplied.tab = t => lastApplied.seq <= save[t].seq

(* The save of the tab in flight has been applied, and may say so. *)
Applied(t) ==
    \/ save[t].phase \in {"ok", "stale"}
    \/ save[t].phase = "sent" /\ lastApplied.tab = t /\ lastApplied.seq = save[t].seq

WaitersCarried ==
    \A t \in Tab : /\ queued[t] \subseteq Carried(pending[t])
                   /\ save[t].waiters \subseteq Carried(save[t].patch)
                   /\ Applied(t) => save[t].waiters \subseteq everStored

(* A step that neither edits, sends nor serves a save. *)
Quiet ==
    /\ requests' \subseteq requests /\ everStored' = everStored
    /\ lastApplied' \in {lastApplied, NoRecord}
    /\ \A u \in Tab :
         /\ save'[u] = save[u] \/ save'[u] = Idle(save[u].seq)
         /\ queued'[u] = {} \/ (queued'[u] = queued[u] /\ pending'[u] = pending[u])

LEMMA IdleParts ==
    \A n : /\ Idle(n).phase = "idle" /\ Idle(n).seq = n
           /\ Idle(n).waiters = {} /\ Idle(n).patch = NoPatch
  BY DEF Idle

LEMMA SaveCases ==
    ASSUME MaxDeletes = 0, TypeOK, Alive, [Next]_vars
    PROVE  \/ \E t \in Tab : /\ \E e \in {known[t], save[t].version} : Sends(t, e)
                             /\ OthersRest(t) /\ UNCHANGED server
           \/ \E t \in Tab : Edits(t)
           \/ \E r \in requests : Serve(r)
           \/ Quiet
  <1>0. LocalTyped
    BY TypeLocal
  <1>1. ASSUME NEW t \in Tab, TimerFires(t)
        PROVE  (Sends(t, known[t]) /\ OthersRest(t) /\ UNCHANGED server) \/ Quiet
    BY <1>0, <1>1, DispatchMoves DEF TimerFires, Quiet, server
  <1>2. ASSUME NEW t \in Tab, Finishes(t)
        PROVE  \/ /\ \E e \in {known[t], save[t].version} : Sends(t, e)
                  /\ OthersRest(t) /\ UNCHANGED server
               \/ Quiet
    BY <1>2, FinishesMoves DEF Rests, OthersRest, Quiet, server
  <1>3. ASSUME NEW t \in Tab, SaveConflicts(t) PROVE Quiet
    BY <1>0, <1>3 DEF SaveConflicts, LocalTyped, Quiet, server
  <1>4. ASSUME NEW t \in Tab, ListArrives(t) \/ Rereads(t) PROVE Quiet
    BY <1>4 DEF ListArrives, Rereads, Refresh, OrphanArrives, ListFails, ServeList,
                queue, server, Quiet
  <1>5. ASSUME NEW t \in Tab, Unmount(t) \/ Reload(t) PROVE Quiet
    BY <1>0, <1>5 DEF Unmount, Reload, ClearQueuedSave, LocalTyped, server, Quiet
  <1>6. ASSUME (\E r \in requests : RequestLost(r)) \/ RestoreSnapshot \/ Restart \/ UNCHANGED vars
        PROVE  Quiet
    BY <1>6 DEF RequestLost, RestoreSnapshot, Restart, vars, queue, server, Quiet
  <1> QED
    BY <1>1, <1>2, <1>3, <1>4, <1>5, <1>6, LivingCases

LEMMA ServeMoves ==
    ASSUME TypeOK, NEW r \in requests, Serve(r)
    PROVE  /\ requests' \subseteq requests /\ UNCHANGED <<queued, pending, outcome>>
           /\ everStored \subseteq everStored'
           /\ r.tab \in Tab
           /\ \A u \in Tab : /\ save'[u].seq = save[u].seq /\ save'[u].patch = save[u].patch
                             /\ save'[u].waiters = save[u].waiters
           /\ \A u \in Tab \ {r.tab} : save'[u] = save[u]
           /\ \/ save' = save
              \/ Matches(r) /\ Answers(r)
           /\ \/ /\ Verdict(r) = "ok" /\ everStored' = everStored \cup Carried(r.patch)
                 /\ lastApplied' = [tab |-> r.tab, seq |-> r.seq]
              \/ /\ Verdict(r) # "ok" /\ UNCHANGED server
  <1>0. LocalTyped /\ r.tab \in Tab
    BY TypeLocal DEF TypeOK, Request
  <1>1. UNCHANGED save \/ Answer(r)
    BY DEF Serve
  <1>2. save' = save \/ (Matches(r) /\ Answers(r) /\ \A u \in Tab \ {r.tab} : save'[u] = save[u])
    BY <1>0, <1>1, AnswerMoves
  <1>3. /\ requests' \subseteq requests /\ UNCHANGED <<queued, pending, outcome>>
    BY DEF Serve, queue
  <1>4. \/ /\ Verdict(r) = "ok" /\ everStored' = everStored \cup Carried(r.patch)
           /\ lastApplied' = [tab |-> r.tab, seq |-> r.seq]
        \/ /\ Verdict(r) # "ok" /\ UNCHANGED server
    BY DEF Serve, ApplySave, Carried
  <1>5. \A u \in Tab : /\ save'[u].seq = save[u].seq /\ save'[u].patch = save[u].patch
                       /\ save'[u].waiters = save[u].waiters
    BY <1>0, <1>2 DEF Answers
  <1> QED
    BY <1>0, <1>2, <1>3, <1>4, <1>5 DEF server

LEMMA NumberedStep ==
    ASSUME MaxDeletes = 0, TypeOK, Alive, Numbered, [Next]_vars
    PROVE  Numbered'
  <1>0. /\ \A r \in requests : r.tab \in Tab /\ r.seq \in Nat
        /\ \A t \in Tab : save[t].seq \in Nat
        /\ \A t \in Tab : lastApplied.tab = t => lastApplied.seq \in Nat
    <2>1. NoRecord.tab = NoCopy
      BY DEF NoRecord
    <2> QED
      BY <2>1, ValuesAssumption DEF TypeOK, Request
  <1>1. ASSUME NEW t \in Tab, NEW e, Sends(t, e), OthersRest(t), UNCHANGED server PROVE Numbered'
    <2>1. /\ save'[t].seq = save[t].seq + 1 /\ save'[t].phase = "sent" /\ save'[t].patch = pending[t]
          /\ lastApplied' = lastApplied
      BY <1>1 DEF Sends, Sent, server
    <2>2. \A r \in requests' : r \in requests \/ (r.tab = t /\ r.seq = save[t].seq + 1 /\ r.patch = pending[t])
      BY <1>1 DEF Sends, Put
    <2>3. \A u \in Tab : lastApplied'.tab = u => lastApplied'.seq <= save'[u].seq
      BY <1>0, <1>1, <2>1 DEF Numbered, OthersRest
    <2>4. ASSUME NEW r \in requests'
          PROVE  /\ r.seq <= save'[r.tab].seq
                 /\ (r.seq = save'[r.tab].seq /\ save'[r.tab].phase = "sent")
                    => r.patch = save'[r.tab].patch
      <3>1. CASE r \in requests /\ r.tab # t
        BY <1>0, <1>1, <3>1 DEF Numbered, OthersRest
      <3>2. CASE r \in requests /\ r.tab = t
        <4>1. r.seq <= save[t].seq /\ r.seq \in Nat /\ save[t].seq \in Nat
          BY <1>0, <3>2 DEF Numbered
        <4> QED
          BY <2>1, <3>2, <4>1
      <3>3. CASE r.tab = t /\ r.seq = save[t].seq + 1 /\ r.patch = pending[t]
        BY <1>0, <2>1, <3>3
      <3> QED
        BY <2>2, <3>1, <3>2, <3>3
    <2> QED
      BY <2>3, <2>4 DEF Numbered
  <1>2. ASSUME NEW t \in Tab, Edits(t) PROVE Numbered'
    BY <1>2 DEF Edits, Edit, server, Numbered
  <1>3. ASSUME NEW r \in requests, Serve(r) PROVE Numbered'
    <2>1. /\ requests' \subseteq requests /\ r.tab \in Tab
          /\ \A u \in Tab : /\ save'[u].seq = save[u].seq /\ save'[u].patch = save[u].patch
                            /\ save'[u].phase = "sent" => save[u].phase = "sent"
          /\ lastApplied' = lastApplied \/ (lastApplied'.tab = r.tab /\ lastApplied'.seq = r.seq)
      BY <1>3, ServeMoves, VerdictCases DEF server, Answers, Matches
    <2> QED
      BY <1>0, <2>1 DEF Numbered
  <1>4. CASE Quiet
    <2>1. \A u \in Tab : /\ save'[u].seq = save[u].seq
                         /\ save'[u].phase = "sent" => save'[u] = save[u]
      BY <1>4, IdleParts DEF Quiet
    <2>2. lastApplied' = lastApplied \/ lastApplied'.tab = NoCopy
      BY <1>4 DEF Quiet, NoRecord
    <2> QED
      BY <1>0, <1>4, <2>1, <2>2, ValuesAssumption DEF Numbered, Quiet
  <1> QED
    BY <1>1, <1>2, <1>3, <1>4, SaveCases

LEMMA CarriedOver ==
    /\ \A p, m : m \in Carried(p) <=> \E f \in Field : m \in MarksIn(p, f)
  BY DEF Carried

LEMMA WaitersStep ==
    ASSUME MaxDeletes = 0, TypeOK, Alive, OnScreen, Numbered, WaitersCarried, [Next]_vars
    PROVE  WaitersCarried'
  <1>0. LocalTyped
    BY TypeLocal
  <1>1. ASSUME NEW t \in Tab, NEW e, Sends(t, e), OthersRest(t), UNCHANGED server
        PROVE  WaitersCarried'
    <2>1. /\ save'[t].phase = "sent" /\ save'[t].seq = save[t].seq + 1
          /\ save'[t].patch = pending[t] /\ save'[t].waiters = queued[t]
          /\ queued'[t] = {} /\ UNCHANGED <<lastApplied, everStored>>
      BY <1>1 DEF Sends, Sent, server
    <2>2. save[t].seq \in Nat /\ (lastApplied.tab = t => lastApplied.seq \in Nat)
      <3>1. NoRecord.tab # t
        BY ValuesAssumption DEF NoRecord
      <3> QED
        BY <3>1 DEF TypeOK
    <2>3. ~Applied(t)'
      BY <2>1, <2>2 DEF Applied, Numbered
    <2>4. \A u \in Tab \ {t} : /\ save'[u] = save[u] /\ queued'[u] = queued[u]
                               /\ pending'[u] = pending[u] /\ Applied(u)' = Applied(u)
      BY <1>1, <2>1 DEF OthersRest, Applied
    <2> QED
      BY <2>1, <2>3, <2>4 DEF WaitersCarried
  <1>2. ASSUME NEW t \in Tab, NEW f \in Field, NEW m \in Mark, Edit(t, f, m)
        PROVE  WaitersCarried'
    <2>1. /\ pending' = [pending EXCEPT ![t] = [pending[t] EXCEPT ![f] = shown[t][f] \cup {m}]]
          /\ queued'[t] \subseteq queued[t] \cup {m}
          /\ \A u \in Tab \ {t} : queued'[u] = queued[u]
          /\ UNCHANGED <<save, lastApplied, everStored>>
      BY <1>0, <1>2 DEF Edit, LocalTyped, server
    <2>2. /\ pending[t][f] # Untouched => pending[t][f] = shown[t][f]
          /\ shown[t][f] \cup {m} # Untouched
      BY <1>2, ValuesAssumption DEF OnScreen, Laid, Edit, TypeOK, Content
    <2>3. \A g \in Field : MarksIn(pending[t], g) \cup (IF g = f THEN {m} ELSE {})
                              \subseteq MarksIn(pending'[t], g)
      BY <1>0, <2>1, <2>2 DEF MarksIn, LocalTyped, Patch
    <2>4. queued'[t] \subseteq Carried(pending'[t])
      BY <2>1, <2>3, CarriedOver DEF WaitersCarried
    <2>5. \A u \in Tab : Applied(u)' = Applied(u)
      BY <2>1 DEF Applied
    <2>6. \A u \in Tab \ {t} : pending'[u] = pending[u]
      BY <1>0, <2>1 DEF LocalTyped
    <2> QED
      BY <2>1, <2>4, <2>5, <2>6 DEF WaitersCarried
  <1>3. ASSUME NEW r \in requests, Serve(r) PROVE WaitersCarried'
    <2> USE <1>3
    <2>1. /\ UNCHANGED <<queued, pending>> /\ everStored \subseteq everStored' /\ r.tab \in Tab
          /\ \A u \in Tab : save'[u].patch = save[u].patch /\ save'[u].waiters = save[u].waiters
          /\ \A u \in Tab \ {r.tab} : save'[u] = save[u]
      BY ServeMoves
    <2>2. ASSUME NEW u \in Tab, Applied(u)' PROVE save[u].waiters \subseteq everStored'
      <3>1. CASE Applied(u)
        BY <2>1, <3>1 DEF WaitersCarried
      <3>2. CASE u # r.tab
        <4>1. Applied(u)
          BY <2>1, <2>2, <3>2, ServeMoves DEF Applied, server
        <4> QED
          BY <3>1, <4>1
      <3>3. CASE u = r.tab /\ ~Applied(u) /\ Verdict(r) = "ok"
        <4>1. /\ lastApplied'.tab = u /\ lastApplied'.seq = r.seq
              /\ everStored' = everStored \cup Carried(r.patch)
          BY <3>3, ServeMoves
        <4>2. save[u].phase = "sent" /\ save[u].seq = r.seq
          BY <2>2, <3>3, <4>1, ServeMoves DEF Applied, Matches
        <4>3. r.patch = save[u].patch
          BY <3>3, <4>2 DEF Numbered
        <4> QED
          BY <4>1, <4>3 DEF WaitersCarried
      <3>4. CASE u = r.tab /\ ~Applied(u) /\ Verdict(r) # "ok"
        <4>1. UNCHANGED lastApplied
          BY <3>4, ServeMoves DEF server
        <4>2. Matches(r) /\ Verdict(r) = "stale"
          BY <2>2, <3>4, <4>1, ServeMoves, VerdictCases DEF Applied, Answers
        <4>3. lastApplied.tab = u /\ r.seq <= lastApplied.seq /\ r.seq = save[u].seq
          BY <3>4, <4>2, VerdictCases DEF IsStale, Matches
        <4>4. lastApplied.seq <= save[u].seq
          BY <4>3 DEF Numbered
        <4>5. lastApplied.seq \in Nat /\ r.seq \in Nat
          <5>1. NoRecord.tab # u
            BY ValuesAssumption DEF NoRecord
          <5> QED
            BY <4>3, <5>1 DEF TypeOK, Request
        <4> QED
          BY <3>4, <4>2, <4>3, <4>4, <4>5 DEF Applied, Matches
      <3> QED
        BY <3>1, <3>2, <3>3, <3>4
    <2> QED
      BY <2>1, <2>2 DEF WaitersCarried
  <1>4. CASE Quiet
    <2>1. /\ everStored' = everStored
          /\ lastApplied' = lastApplied \/ lastApplied'.tab = NoCopy
      BY <1>4 DEF Quiet, NoRecord
    <2>2. ASSUME NEW u \in Tab
          PROVE  \/ save'[u] = save[u]
                 \/ save'[u].waiters = {} /\ save'[u].phase = "idle"
      BY <1>4, IdleParts DEF Quiet
    <2>3. ASSUME NEW u \in Tab
          PROVE  queued'[u] = {} \/ (queued'[u] = queued[u] /\ pending'[u] = pending[u])
      BY <1>4 DEF Quiet
    <2>4. \A u \in Tab : Applied(u)' => Applied(u)
      BY <2>1, <2>2, ValuesAssumption DEF Applied
    <2> QED
      BY <2>1, <2>2, <2>3, <2>4 DEF WaitersCarried
  <1> QED
    BY <1>1, <1>2, <1>3, <1>4, SaveCases DEF Edits

LEMMA SavedStep ==
    ASSUME MaxDeletes = 0, TypeOK, Alive, WaitersCarried, SavedMeansStored, [Next]_vars
    PROVE  SavedMeansStored'
  <1> SUFFICES ASSUME NEW m \in Mark, outcome'[m] \in {"ok", "stale"}
               PROVE  m \in everStored'
    BY DEF SavedMeansStored
  <1>1. CASE outcome'[m] = outcome[m] /\ everStored \subseteq everStored'
    BY <1>1 DEF SavedMeansStored
  <1>2. ASSUME NEW t \in Tab, Finishes(t) PROVE m \in everStored'
    <2>1. everStored' = everStored
      BY <1>2, FinishesMoves DEF server
    <2>2. PICK what \in {"ok", "stale", "error"} :
             Tell(save[t].waiters, what) /\ (what # "error" => save[t].phase = what)
      BY <1>2, FinishesMoves
    <2>3. CASE m \in save[t].waiters
      <3>1. outcome'[m] = what
        BY <2>2, <2>3 DEF Tell
      <3>2. Applied(t)
        BY <2>2, <3>1 DEF Applied
      <3> QED
        BY <2>1, <2>3, <3>2 DEF WaitersCarried
    <2>4. CASE m \notin save[t].waiters
      BY <1>1, <2>1, <2>2, <2>4 DEF Tell
    <2> QED
      BY <2>3, <2>4
  <1>3. ASSUME NEW S, NEW what \in {"conflict", "waiting", "discarded"}, Tell(S, what),
               everStored' = everStored
        PROVE  m \in everStored'
    <2>1. outcome'[m] = IF m \in S THEN what ELSE outcome[m]
      BY <1>3 DEF Tell
    <2> QED
      BY <1>1, <1>3, <2>1
  <1>4. ASSUME NEW t \in Tab, SaveConflicts(t) \/ Edits(t) \/ Reload(t) \/ Unmount(t)
        PROVE  m \in everStored'
    <2>1. everStored' = everStored
      BY <1>4 DEF SaveConflicts, Edits, Edit, Reload, Unmount, server
    <2>2. \E S : \E what \in {"conflict", "waiting", "discarded"} : Tell(S, what)
      BY <1>4 DEF SaveConflicts, Edits, Edit, Reload, ClearQueuedSave, Unmount
    <2> QED
      BY <1>3, <2>1, <2>2
  <1>5. ASSUME NEW t \in Tab, TimerFires(t) \/ ListArrives(t) \/ Rereads(t)
        PROVE  m \in everStored'
    BY <1>1, <1>5 DEF TimerFires, ListArrives, Rereads, Refresh, OrphanArrives, ListFails,
                      ServeList, server
  <1>6. ASSUME NEW r \in requests, Serve(r) PROVE m \in everStored'
    BY <1>1, <1>6, ServeMoves
  <1>7. CASE (\E r \in requests : RequestLost(r)) \/ RestoreSnapshot \/ Restart \/ UNCHANGED vars
    BY <1>1, <1>7 DEF RequestLost, RestoreSnapshot, Restart, vars, server
  <1> QED
    BY <1>2, <1>4, <1>5, <1>6, <1>7, LivingCases

LEMMA WaitersCorrect ==
    ASSUME MaxDeletes = 0 PROVE Spec => [](Numbered /\ WaitersCarried /\ SavedMeansStored)
  <1>1. Init => Numbered /\ WaitersCarried /\ SavedMeansStored
    <2> SUFFICES ASSUME Init PROVE Numbered /\ WaitersCarried /\ SavedMeansStored
      OBVIOUS
    <2>1. \A t \in Tab : save[t].waiters = {} /\ save[t].phase = "idle" /\ queued[t] = {}
      BY DEF Init, Idle
    <2>2. lastApplied.tab = NoCopy /\ requests = {}
      BY DEF Init, NoRecord
    <2> QED
      BY <2>1, <2>2, ValuesAssumption
      DEF Init, Numbered, WaitersCarried, Applied, SavedMeansStored
  <1>2. TypeOK /\ Alive /\ OnScreen /\ (Numbered /\ WaitersCarried /\ SavedMeansStored) /\ [Next]_vars
        => (Numbered /\ WaitersCarried /\ SavedMeansStored)'
    BY NumberedStep, WaitersStep, SavedStep
  <1> QED
    BY <1>1, <1>2, TypeCorrect, ScreenCorrect, PTL DEF Spec

(* A caller who is told "ok", or "stale" - which says that its latest      *)
(* changes are saved - has its edit in a copy the server stored, whatever  *)
(* requests are lost or delivered twice, and across restarts.              *)
THEOREM SavedMeansStoredAlways ==
    ASSUME MaxDeletes = 0 PROVE Spec => []SavedMeansStored
  BY WaitersCorrect, PTL

-----------------------------------------------------------------------------
(* Versions in order: no save removes what its tab has not seen            *)
(*                                                                         *)
(* Where nobody deletes the workspace, replies come in the order the       *)
(* server sent them, one list is fetched at a time and nobody edits during *)
(* a Reload, the version a tab knows is a lower bound on everything it     *)
(* waits for, and a copy that carries the stored version carries the       *)
(* stored content.                                                         *)

InOrder == MaxDeletes = 0 /\ ~Overtaking /\ ~ListsOverlap /\ ~EditInReload

Within(c, d) == \A f \in Field : c[f] \subseteq d[f]

Knows(t) ==
    /\ known[t] <= version
    /\ known[t] = 0 => conflict[t]
    /\ known[t] = version => Within(content, shown[t])
    /\ reloading[t] => pending[t] = NoPatch
    /\ orphan[t] = NoFetch
    /\ servedSeq[t] <= save[t].seq

Fetched(t) ==
    fetch[t].phase = "answered" =>
        /\ 1 <= fetch[t].version /\ fetch[t].version <= version
        /\ known[t] <= fetch[t].version
        /\ fetch[t].version = version => fetch[t].content = content

Confirmed(t) ==
    save[t].phase = "ok" =>
        /\ known[t] < save[t].version /\ save[t].version <= version
        /\ save[t].version = version =>
             save[t].content = content /\ Within(content, shown[t])

Asks(r) ==
    /\ 1 <= r.expected /\ r.expected <= version
    /\ r.expected = version =>
         \A f \in Field : r.patch[f] # Untouched => content[f] \subseteq r.patch[f]
    /\ known[r.tab] # 0 => r.expected <= known[r.tab]
    /\ fetch[r.tab].phase = "answered" => r.expected <= fetch[r.tab].version
    /\ (save[r.tab].phase = "sent" /\ save[r.tab].seq = r.seq) => r.expected = known[r.tab]
    /\ r.seq <= servedSeq[r.tab] => r.expected < version

Ordered ==
    /\ 1 <= version
    /\ \A t \in Tab : Knows(t) /\ Fetched(t) /\ Confirmed(t)
    /\ \A r \in requests : Asks(r)

(* Nothing of a tab that the invariant speaks of changes. *)
Still(u) ==
    /\ known'[u] = known[u] /\ shown'[u] = shown[u] /\ conflict'[u] = conflict[u]
    /\ reloading'[u] = reloading[u] /\ pending'[u] = pending[u]
    /\ orphan'[u] = orphan[u] /\ fetch'[u] = fetch[u] /\ save'[u] = save[u]

LEMMA Numbers ==
    ASSUME TypeOK
    PROVE  /\ version \in Nat
           /\ \A t \in Tab : /\ known[t] \in Nat /\ servedSeq[t] \in Nat
                             /\ save[t].seq \in Nat /\ save[t].version \in Nat
                             /\ fetch[t].version \in Nat
           /\ \A r \in requests : r.tab \in Tab /\ r.seq \in Nat /\ r.expected \in Nat
  BY DEF TypeOK, Request

LEMMA OneTab ==
    ASSUME TypeOK, Ordered, UNCHANGED server, NEW t \in Tab,
           \A u \in Tab \ {t} : Still(u),
           Knows(t)', Fetched(t)', Confirmed(t)',
           \A r \in requests' : r \in requests \/ r.tab = t,
           \A r \in requests' : r.tab = t => Asks(r)'
    PROVE  Ordered'
  <1>1. UNCHANGED <<content, version, servedSeq>>
    BY DEF server
  <1>2. ASSUME NEW u \in Tab \ {t} PROVE Knows(u)' /\ Fetched(u)' /\ Confirmed(u)'
    <2>1. Knows(u)'
      BY <1>1, <1>2 DEF Ordered, Knows, Still
    <2>2. Fetched(u)'
      BY <1>1, <1>2 DEF Ordered, Fetched, Still
    <2>3. Confirmed(u)'
      BY <1>1, <1>2 DEF Ordered, Confirmed, Still
    <2> QED
      BY <2>1, <2>2, <2>3
  <1>3. ASSUME NEW r \in requests', r.tab # t PROVE Asks(r)'
    <2>1. r \in requests /\ r.tab \in Tab /\ Still(r.tab)
      BY <1>3 DEF TypeOK, Request
    <2> QED
      BY <1>1, <2>1 DEF Ordered, Asks, Still
  <1> QED
    BY <1>1, <1>2, <1>3 DEF Ordered

(* A send in a tab whose version is e by now. *)
LEMMA SendsAsk ==
    ASSUME TypeOK, OnScreen, Numbered, Ordered, UNCHANGED server, NEW t \in Tab, NEW e \in Nat,
           Sends(t, e), known'[t] = e, known[t] # 0, known[t] <= e, 1 <= e, e <= version,
           e = version => Within(content, shown[t]),
           fetch'[t].phase = "answered" => fetch'[t] = fetch[t] /\ e <= fetch[t].version
    PROVE  \A r \in requests' : r.tab = t => Asks(r)'
  <1> SUFFICES ASSUME NEW r \in requests', r.tab = t PROVE Asks(r)'
    OBVIOUS
  <1>1. UNCHANGED <<content, version, servedSeq>>
    BY DEF server
  <1>2. save'[t].phase = "sent" /\ save'[t].seq = save[t].seq + 1
    BY DEF Sends, Sent
  <1>3. CASE r \in requests
    <2>1. r.expected <= known[t] /\ r.seq <= save[t].seq /\ Asks(r)
      BY <1>3 DEF Ordered, Asks, Numbered
    <2>2. /\ 1 <= r.expected /\ r.expected <= version
          /\ r.expected = version =>
               \A f \in Field : r.patch[f] # Untouched => content[f] \subseteq r.patch[f]
          /\ r.seq <= servedSeq[r.tab] => r.expected < version
          /\ fetch[t].phase = "answered" => r.expected <= fetch[t].version
      BY <2>1 DEF Asks
    <2>3. r.expected <= e /\ r.seq # save[t].seq + 1
      BY <1>3, <2>1, Numbers
    <2> QED
      BY <1>1, <1>2, <2>2, <2>3 DEF Asks
  <1>4. CASE r \notin requests
    <2>1. r.seq = save[t].seq + 1 /\ r.patch = pending[t] /\ r.expected = e
      BY <1>4 DEF Sends, Put
    <2>2. ASSUME e = version, NEW f \in Field, pending[t][f] # Untouched
          PROVE  content[f] \subseteq pending[t][f]
      BY <2>2 DEF OnScreen, Laid, Within
    <2>3. ~(r.seq <= servedSeq[t])
      BY <2>1, Numbers DEF Ordered, Knows
    <2> QED
      BY <1>1, <1>2, <2>1, <2>2, <2>3 DEF Asks
  <1> QED
    BY <1>3, <1>4

(* A tab that sends nothing, and whose version does not go back. *)
LEMMA RestsAsk ==
    ASSUME TypeOK, Ordered, UNCHANGED server, NEW t \in Tab, requests' \subseteq requests,
           (save'[t] = save[t] /\ known'[t] = known[t]) \/ save'[t].phase # "sent",
           known'[t] \in Nat,
           known'[t] # 0 => known[t] # 0 /\ known[t] <= known'[t],
           fetch'[t].phase = "answered" => fetch'[t] = fetch[t]
    PROVE  \A r \in requests' : r.tab = t => Asks(r)'
  <1> SUFFICES ASSUME NEW r \in requests', r.tab = t PROVE Asks(r)'
    OBVIOUS
  <1>1. UNCHANGED <<content, version, servedSeq>> /\ r \in requests /\ Asks(r)
    BY DEF server, Ordered
  <1>2. known'[t] # 0 => r.expected <= known'[t]
    BY <1>1, Numbers DEF Asks
  <1> QED
    BY <1>1, <1>2 DEF Asks

LEMMA OrderTimer ==
    ASSUME InOrder, TypeOK, QueueInv, OnScreen, Numbered, Ordered,
           NEW t \in Tab, TimerFires(t)
    PROVE  Ordered'
  <1>0. LocalTyped /\ Knows(t) /\ Fetched(t) /\ Confirmed(t)
    BY TypeLocal DEF Ordered
  <1>1. UNCHANGED <<content, version, servedSeq, shown, known, conflict, reloading, orphan, fetch>>
        /\ UNCHANGED server
    BY DEF TimerFires, server, lists
  <1>2. CASE ~conflict[t] /\ ~InFlight(t) /\ pending[t] # NoPatch
    <2>1. Sends(t, known[t]) /\ OthersRest(t)
      BY <1>0, <1>2, DispatchMoves DEF TimerFires
    <2>2. save'[t].phase = "sent" /\ save'[t].seq = save[t].seq + 1 /\ pending'[t] = NoPatch
      BY <2>1 DEF Sends, Sent
    <2>3. known[t] # 0 /\ known[t] \in Nat /\ 1 <= known[t]
      BY <1>0, <1>2, Numbers DEF Knows
    <2>4. \A r \in requests' : r.tab = t => Asks(r)'
      BY <1>0, <1>1, <2>1, <2>3, SendsAsk DEF Knows, Fetched
    <2>5. Knows(t)' /\ Fetched(t)' /\ Confirmed(t)'
      BY <1>0, <1>1, <2>2, Numbers DEF Knows, Fetched, Confirmed
    <2>6. \A r \in requests' : r \in requests \/ r.tab = t
      BY <2>1 DEF Sends, Put
    <2>7. \A u \in Tab \ {t} : Still(u)
      BY <1>1, <2>1 DEF Still, OthersRest
    <2> QED
      BY <1>1, <2>4, <2>5, <2>6, <2>7, OneTab
  <1>3. CASE ~(~conflict[t] /\ ~InFlight(t) /\ pending[t] # NoPatch)
    <2>1. UNCHANGED <<save, requests, pending>>
      BY <1>3 DEF TimerFires
    <2> QED
      BY <1>1, <2>1 DEF Ordered, Knows, Fetched, Confirmed, Asks
  <1> QED
    BY <1>2, <1>3

(* What a tab knows after a save that ends without a conflict. *)
LEMMA FinishKnows ==
    ASSUME InOrder, TypeOK, QueueInv, Alive, Ordered, NEW t \in Tab, Finishes(t)
    PROVE  /\ known[t] # 0 /\ known[t] <= known'[t] /\ known'[t] <= version
           /\ known'[t] \in Nat /\ 1 <= known'[t] /\ known'[t] # 0
           /\ known'[t] = version => Within(content, shown[t]) /\ Within(content, shown'[t])
           /\ fetch'[t].phase = "answered" => fetch'[t] = fetch[t] /\ known'[t] <= fetch[t].version
           /\ orphan'[t] = orphan[t]
           /\ \A u \in Tab \ {t} : /\ known'[u] = known[u] /\ shown'[u] = shown[u]
                                   /\ orphan'[u] = orphan[u] /\ fetch'[u] = fetch[u]
  <1>0. Knows(t) /\ Fetched(t) /\ Confirmed(t) /\ known[t] \in Nat /\ save[t].version \in Nat
        /\ version \in Nat /\ shown[t] # NoCopy
    BY Numbers DEF Ordered, Alive
  <1>1. known[t] # 0
    <2>1. save[t].phase # "idle"
      BY FinishesMoves
    <2> QED
      BY <1>0, <2>1 DEF Knows, QueueInv, PausedQueueIsSettled, InFlight
  <1>2. CASE SaveSucceeds(t)
    <2>1. /\ save[t].phase = "ok" /\ known' = [known EXCEPT ![t] = save[t].version]
          /\ shown' = shown \/ shown' = [shown EXCEPT ![t] = save[t].content]
          /\ UNCHANGED <<fetch, orphan>>
          /\ fetch[t].phase = "answered" => fetch[t].version >= save[t].version
      BY <1>2 DEF SaveSucceeds, lists, InOrder
    <2>2. /\ known'[t] = save[t].version /\ \A u \in Tab \ {t} : known'[u] = known[u]
          /\ shown'[t] = shown[t] \/ shown'[t] = save[t].content
          /\ \A u \in Tab \ {t} : shown'[u] = shown[u]
      BY <2>1 DEF TypeOK
    <2>3. /\ known[t] < save[t].version /\ save[t].version <= version
          /\ save[t].version = version => save[t].content = content /\ Within(content, shown[t])
      BY <1>0, <2>1 DEF Confirmed
    <2>4. Within(content, content)
      BY DEF Within
    <2>5. fetch[t].version \in Nat
      BY Numbers
    <2> QED
      BY <1>0, <1>1, <2>1, <2>2, <2>3, <2>4, <2>5
  <1>3. CASE SaveIsStale(t)
    <2>1. UNCHANGED <<known, shown, fetch, orphan>>
      BY <1>3 DEF SaveIsStale, lists
    <2> QED
      BY <1>0, <1>1, <2>1 DEF Knows, Fetched
  <1>4. CASE SaveFails(t)
    <2>1. UNCHANGED <<known, shown>> /\ BeginFetch(t) /\ fetch[t].phase = "none"
      BY <1>4 DEF SaveFails, MayFetch, InOrder
    <2>2. UNCHANGED orphan /\ fetch'[t] = Asked /\ \A u \in Tab \ {t} : fetch'[u] = fetch[u]
      BY <2>1 DEF BeginFetch, TypeOK
    <2>3. fetch'[t].phase # "answered"
      BY <2>2 DEF Asked
    <2> QED
      BY <1>0, <1>1, <2>1, <2>2, <2>3 DEF Knows
  <1> QED
    BY <1>2, <1>3, <1>4 DEF Finishes

LEMMA OrderFinish ==
    ASSUME InOrder, TypeOK, QueueInv, Alive, OnScreen, Numbered, Ordered,
           NEW t \in Tab, Finishes(t)
    PROVE  Ordered'
  <1>0. Knows(t) /\ Fetched(t) /\ Confirmed(t)
    BY DEF Ordered
  <1>1. /\ OthersRest(t) /\ UNCHANGED <<conflict, reloading, server>>
        /\ Sends(t, known'[t]) \/ Rests(t)
    BY FinishesMoves
  <1>2. UNCHANGED <<content, version, servedSeq>>
    BY <1>1 DEF server
  <1>3. \A u \in Tab \ {t} : Still(u)
    BY <1>1, FinishKnows DEF Still, OthersRest
  <1>4. Fetched(t)'
    BY <1>0, <1>2, FinishKnows DEF Fetched
  <1>5. CASE Sends(t, known'[t])
    <2>1. save'[t].phase = "sent" /\ save'[t].seq = save[t].seq + 1 /\ pending'[t] = NoPatch
      BY <1>5 DEF Sends, Sent
    <2>2. \A r \in requests' : r.tab = t => Asks(r)'
      BY <1>1, <1>5, FinishKnows, SendsAsk
    <2>3. Knows(t)' /\ Confirmed(t)'
      BY <1>0, <1>2, <2>1, FinishKnows, Numbers DEF Knows, Confirmed
    <2>4. \A r \in requests' : r \in requests \/ r.tab = t
      BY <1>5 DEF Sends, Put
    <2> QED
      BY <1>1, <1>3, <1>4, <2>2, <2>3, <2>4, OneTab
  <1>6. CASE Rests(t)
    <2>1. /\ save'[t].phase = "idle" /\ save'[t].seq = save[t].seq /\ pending'[t] = pending[t]
          /\ requests' = requests
      BY <1>6, IdleParts DEF Rests
    <2>2. \A r \in requests' : r.tab = t => Asks(r)'
      BY <1>1, <2>1, FinishKnows, RestsAsk
    <2>3. Knows(t)' /\ Confirmed(t)'
      BY <1>0, <1>1, <1>2, <2>1, FinishKnows DEF Knows, Confirmed
    <2> QED
      BY <1>1, <1>3, <1>4, <2>1, <2>2, <2>3, OneTab
  <1> QED
    BY <1>1, <1>5, <1>6

LEMMA OrderConflict ==
    ASSUME InOrder, TypeOK, QueueInv, OnScreen, Numbered, Ordered,
           NEW t \in Tab, SaveConflicts(t)
    PROVE  Ordered'
  <1>0. Knows(t) /\ Fetched(t) /\ Confirmed(t)
    BY DEF Ordered
  <1>1. /\ UNCHANGED <<server, requests, shown, known, fetch, orphan, reloading>>
        /\ save[t].phase = "conflict" /\ save' = [save EXCEPT ![t] = Idle(save[t].seq)]
        /\ pending' = [pending EXCEPT ![t] = Merge(save[t].patch, @)]
        /\ conflict' = [conflict EXCEPT ![t] = TRUE]
    BY DEF SaveConflicts, lists
  <1>2. /\ save'[t].phase = "idle" /\ save'[t].seq = save[t].seq /\ conflict'[t] = TRUE
        /\ UNCHANGED <<content, version, servedSeq>>
        /\ \A u \in Tab \ {t} : Still(u)
    BY <1>1, IdleParts DEF TypeOK, server, Still
  <1>3. ~reloading[t]
    BY <1>1 DEF OnScreen, QueueInv, PausedQueueIsSettled, InFlight
  <1>4. \A r \in requests' : r.tab = t => Asks(r)'
    BY <1>1, <1>2, RestsAsk, Numbers
  <1>5. Knows(t)' /\ Fetched(t)' /\ Confirmed(t)'
    BY <1>0, <1>1, <1>2, <1>3 DEF Knows, Fetched, Confirmed
  <1> QED
    BY <1>1, <1>2, <1>4, <1>5, OneTab

LEMMA OrderEdit ==
    ASSUME InOrder, TypeOK, Ordered, NEW t \in Tab, Edits(t)
    PROVE  Ordered'
  <1>0. Knows(t) /\ Fetched(t) /\ Confirmed(t)
    BY DEF Ordered
  <1>1. PICK f \in Field, m \in Mark : Edit(t, f, m)
    BY DEF Edits
  <1>2. /\ UNCHANGED <<server, requests, known, conflict, save, fetch, orphan, reloading>>
        /\ shown' = [shown EXCEPT ![t] = [shown[t] EXCEPT ![f] = shown[t][f] \cup {m}]]
        /\ pending' = [pending EXCEPT ![t] = [pending[t] EXCEPT ![f] = shown[t][f] \cup {m}]]
        /\ shown[t] # NoCopy /\ ~reloading[t]
    BY <1>1 DEF Edit, lists, InOrder
  <1>3. UNCHANGED <<content, version, servedSeq>> /\ \A u \in Tab \ {t} : Still(u)
    BY <1>2 DEF server, TypeOK, Still
  <1>4. /\ shown'[t] = [shown[t] EXCEPT ![f] = shown[t][f] \cup {m}]
        /\ shown[t] \in Content
    BY <1>2 DEF TypeOK
  <1>5. Within(content, shown[t]) => Within(content, shown'[t])
    BY <1>4 DEF Within, Content
  <1>6. \A r \in requests' : r.tab = t => Asks(r)'
    BY <1>2, <1>3 DEF Ordered, Asks
  <1>7. Knows(t)' /\ Fetched(t)' /\ Confirmed(t)'
    BY <1>0, <1>2, <1>3, <1>5 DEF Knows, Fetched, Confirmed
  <1> QED
    BY <1>2, <1>3, <1>6, <1>7, OneTab

LEMMA OrderList ==
    ASSUME InOrder, TypeOK, QueueInv, Alive, OnScreen, Ordered, NEW t \in Tab, ListArrives(t)
    PROVE  Ordered'
  <1>0. Knows(t) /\ Fetched(t) /\ Confirmed(t)
    BY DEF Ordered
  <1>1. /\ UNCHANGED <<server, requests, pending, save, orphan>>
        /\ fetch[t].phase = "answered" /\ fetch[t].content # NoCopy /\ shown[t] # NoCopy
        /\ known'[t] = KnownAfter(t, fetch[t]) /\ shown'[t] = ShownAfter(t, fetch[t])
        /\ fetch'[t] = NoFetch /\ conflict'[t] = (conflict[t] /\ ~reloading[t])
        /\ reloading'[t] = FALSE
        /\ \A u \in Tab \ {t} : Still(u)
    BY DEF ListArrives, TypeOK, queue, Alive, Still
  <1>2. UNCHANGED <<content, version, servedSeq>> /\ fetch'[t].phase = "none"
    BY <1>1 DEF server, NoFetch
  <1>3. reloading[t] => ~Held(t)
    BY <1>0 DEF Held, Knows, OnScreen, QueueInv, PausedQueueIsSettled
  <1>4. /\ known[t] \in Nat /\ version \in Nat /\ fetch[t].version \in Nat
        /\ 1 <= fetch[t].version /\ fetch[t].version <= version /\ known[t] <= fetch[t].version
        /\ fetch[t].version = version => fetch[t].content = content
    BY <1>0, <1>1, Numbers DEF Fetched
  <1>5. CASE Held(t)
    <2>1. known'[t] = known[t] /\ shown'[t] = shown[t] /\ ~reloading[t]
      BY <1>1, <1>3, <1>5 DEF KnownAfter, ShownAfter
    <2>2. \A r \in requests' : r.tab = t => Asks(r)'
      BY <1>1, <1>2, <1>4, <2>1, RestsAsk
    <2>3. Knows(t)' /\ Fetched(t)' /\ Confirmed(t)'
      BY <1>0, <1>1, <1>2, <2>1 DEF Knows, Fetched, Confirmed
    <2> QED
      BY <1>1, <2>2, <2>3, OneTab
  <1>6. CASE ~Held(t)
    <2>1. known'[t] = fetch[t].version /\ shown'[t] = fetch[t].content
      BY <1>1, <1>4, <1>6 DEF KnownAfter, ShownAfter
    <2>2. save[t].phase = "idle"
      BY <1>6 DEF Held, InFlight
    <2>3. \A r \in requests' : r.tab = t => Asks(r)'
      <3> SUFFICES ASSUME NEW r \in requests', r.tab = t PROVE Asks(r)'
        OBVIOUS
      <3>1. r \in requests /\ Asks(r)
        BY <1>1 DEF Ordered
      <3> QED
        BY <1>1, <1>2, <2>1, <2>2, <3>1 DEF Asks
    <2>4. Within(content, content)
      BY DEF Within
    <2>5. Knows(t)' /\ Fetched(t)' /\ Confirmed(t)'
      BY <1>0, <1>1, <1>2, <1>4, <2>1, <2>2, <2>4 DEF Knows, Fetched, Confirmed
    <2> QED
      BY <1>1, <2>3, <2>5, OneTab
  <1> QED
    BY <1>5, <1>6

LEMMA OrderReread ==
    ASSUME InOrder, TypeOK, Ordered, NEW t \in Tab, Rereads(t) \/ Unmount(t) \/ Reload(t),
           Reload(t) => save[t].phase = "idle"
    PROVE  Ordered'
  <1>0. Knows(t) /\ Fetched(t) /\ Confirmed(t) /\ version \in Nat /\ 1 <= version
        /\ known[t] \in Nat
    BY Numbers DEF Ordered
  <1>1. ~OrphanArrives(t) /\ orphan[t].phase = "none"
    BY <1>0 DEF Knows, OrphanArrives, NoFetch
  <1>2. /\ UNCHANGED <<server, requests, shown, conflict, save>>
        /\ fetch' = fetch \/ fetch' = [fetch EXCEPT ![t] = Asked]
           \/ fetch' = [fetch EXCEPT ![t] = NoFetch]
           \/ fetch' = [fetch EXCEPT ![t] = [phase |-> "answered", content |-> content, version |-> version]]
        /\ orphan' = orphan
    BY <1>1 DEF Rereads, Refresh, ListFails, ServeList, Reading, BeginFetch, MayFetch, InOrder,
                Unmount, Reload, lists
  <1>3. /\ \/ known' = known /\ pending' = pending
           \/ /\ Reload(t) /\ conflict[t] /\ known' = [known EXCEPT ![t] = 0]
              /\ pending' = [pending EXCEPT ![t] = NoPatch]
        /\ \/ reloading' = reloading \/ reloading' = [reloading EXCEPT ![t] = FALSE]
           \/ /\ reloading' = [reloading EXCEPT ![t] = TRUE]
              /\ pending' = [pending EXCEPT ![t] = NoPatch]
    BY <1>1 DEF Rereads, Refresh, ListFails, ServeList, Unmount, Reload, ClearQueuedSave,
                queue, lists
  <1>4. /\ UNCHANGED <<content, version, servedSeq>>
        /\ \A u \in Tab \ {t} : Still(u)
        /\ known'[t] = known[t] \/ (known'[t] = 0 /\ conflict[t] /\ save[t].phase = "idle")
        /\ reloading'[t] => pending'[t] = NoPatch
    BY <1>0, <1>2, <1>3 DEF server, TypeOK, Still, Knows
  <1>5. fetch'[t].phase = "answered" =>
           fetch'[t] = fetch[t] \/ (fetch'[t].version = version /\ fetch'[t].content = content)
    BY <1>2 DEF TypeOK, Asked, NoFetch
  <1>6. \A r \in requests' : r.tab = t => Asks(r)'
    <2> SUFFICES ASSUME NEW r \in requests', r.tab = t PROVE Asks(r)'
      OBVIOUS
    <2>1. r \in requests /\ Asks(r)
      BY <1>2 DEF Ordered
    <2> QED
      BY <1>2, <1>4, <1>5, <2>1 DEF Asks
  <1>7. Knows(t)' /\ Fetched(t)' /\ Confirmed(t)'
    <2>1. Knows(t)'
      BY <1>0, <1>2, <1>4 DEF Knows
    <2>2. Fetched(t)'
      BY <1>0, <1>4, <1>5, Numbers DEF Knows, Fetched
    <2>3. Confirmed(t)'
      BY <1>0, <1>2, <1>4 DEF Confirmed
    <2> QED
      BY <2>1, <2>2, <2>3
  <1> QED
    BY <1>2, <1>4, <1>6, <1>7, OneTab

(* A write that the tabs have not heard of moves the version past all they *)
(* know and wait for.                                                      *)
LEMMA OrderWrite ==
    ASSUME TypeOK, Ordered, version' = version + 1, requests' \subseteq requests,
           \A t \in Tab : /\ Knows(t)'
                          /\ known'[t] = known[t] /\ fetch'[t] = fetch[t]
                          /\ save'[t] = save[t] \/ (Confirmed(t)' /\ save'[t].phase # "sent")
    PROVE  Ordered'
  <1>1. version \in Nat
    BY Numbers
  <1>2. ASSUME NEW t \in Tab PROVE Fetched(t)' /\ Confirmed(t)'
    <2>1. Fetched(t)'
      BY <1>1, Numbers DEF Ordered, Fetched
    <2>2. Confirmed(t)'
      BY <1>1, Numbers DEF Ordered, Confirmed
    <2> QED
      BY <2>1, <2>2
  <1>3. ASSUME NEW r \in requests' PROVE Asks(r)'
    <2>1. r \in requests /\ r.tab \in Tab /\ r.expected \in Nat /\ Asks(r)
      BY Numbers DEF Ordered
    <2> QED
      BY <1>1, <2>1 DEF Asks
  <1> QED
    BY <1>1, <1>2, <1>3 DEF Ordered

(* A save that is applied was made from the stored version. *)
LEMMA ServedFresh ==
    ASSUME TypeOK, Alive, Ordered, NEW r \in requests, Serve(r), Verdict(r) = "ok"
    PROVE  /\ r.expected = version /\ version' = version + 1
           /\ content' = Merge(content, r.patch)
           /\ Within(content, content')
           /\ servedSeq[r.tab] < r.seq
           /\ servedSeq' = [servedSeq EXCEPT ![r.tab] = IF r.seq > @ THEN r.seq ELSE @]
  <1>1. ApplySave(r) /\ ~VersionMoved(r)
    BY VerdictCases DEF Serve
  <1>2. Asks(r) /\ r.expected \in Nat /\ r.seq \in Nat /\ servedSeq[r.tab] \in Nat
    BY Numbers DEF Ordered
  <1>3. r.expected = version
    BY <1>1, <1>2 DEF VersionMoved, Asks
  <1>4. content \in Content
    BY DEF TypeOK, Alive
  <1>5. content' = Merge(content, r.patch)
    BY <1>1 DEF ApplySave
  <1>6. Within(content, content')
    BY <1>2, <1>3, <1>5 DEF Asks, Within, Merge
  <1>7. servedSeq[r.tab] < r.seq
    BY <1>2, <1>3, Numbers DEF Asks
  <1> QED
    BY <1>1, <1>3, <1>5, <1>6, <1>7 DEF ApplySave

LEMMA OrderServe ==
    ASSUME InOrder, TypeOK, Alive, OnScreen, Numbered, Ordered, NEW r \in requests, Serve(r)
    PROVE  Ordered'
  <1>0. /\ UNCHANGED <<shown, known, pending, conflict, fetch, orphan, reloading>>
        /\ requests' \subseteq requests /\ r.tab \in Tab /\ version \in Nat /\ r.seq \in Nat
    BY ServeMoves, Numbers DEF Serve, queue, lists
  <1>1. CASE Verdict(r) # "ok"
    <2>1. UNCHANGED <<content, version, servedSeq>>
      BY <1>1, ServeMoves DEF server
    <2>2. \A u \in Tab : /\ save'[u] = save[u] \/ save'[u].phase \in {"stale", "error", "conflict"}
                         /\ save'[u].seq = save[u].seq
      BY <1>1, ServeMoves, VerdictCases DEF Answers
    <2>3. ASSUME NEW t \in Tab PROVE Knows(t)' /\ Fetched(t)' /\ Confirmed(t)'
      BY <1>0, <2>1, <2>2 DEF Ordered, Knows, Fetched, Confirmed
    <2>4. ASSUME NEW q \in requests' PROVE Asks(q)'
      <3>1. q \in requests /\ Asks(q) /\ q.tab \in Tab
        BY <1>0, Numbers DEF Ordered
      <3> QED
        BY <1>0, <2>1, <2>2, <3>1 DEF Asks
    <2> QED
      BY <2>1, <2>3, <2>4 DEF Ordered
  <1>2. CASE Verdict(r) = "ok"
    <2>1. /\ r.expected = version /\ version' = version + 1
          /\ content' = Merge(content, r.patch) /\ Within(content, content')
          /\ servedSeq' = [servedSeq EXCEPT ![r.tab] = IF r.seq > @ THEN r.seq ELSE @]
      BY <1>2, ServedFresh
    <2>2. r.seq <= save[r.tab].seq
      BY DEF Numbered
    <2>3. ASSUME NEW t \in Tab PROVE Knows(t)'
      <3>1. servedSeq'[t] <= save'[t].seq
        BY <1>0, <2>1, <2>2, ServeMoves DEF Ordered, Knows, TypeOK
      <3>2. known[t] \in Nat /\ Knows(t)
        BY Numbers DEF Ordered
      <3> QED
        BY <1>0, <2>1, <3>1, <3>2 DEF Knows
    <2>4. ASSUME NEW t \in Tab, save'[t] # save[t]
          PROVE  Confirmed(t)' /\ save'[t].phase = "ok"
      <3>1. t = r.tab /\ Matches(r) /\ Answers(r)
        BY <2>4, ServeMoves
      <3>2. save'[t].phase = "ok" /\ save'[t].content = content' /\ save'[t].version = version'
        BY <1>2, <3>1 DEF Answers
      <3>3. known[t] = version /\ r.patch = save[t].patch
        BY <2>1, <3>1 DEF Matches, Ordered, Asks, Numbered
      <3>4. Within(content, shown[t])
        BY <3>3 DEF Ordered, Knows
      <3>5. Within(content', shown[t])
        BY <2>1, <3>3, <3>4 DEF Within, Merge, OnScreen, Laid
      <3> QED
        BY <1>0, <2>1, <3>2, <3>3, <3>5 DEF Confirmed
    <2> QED
      BY <1>0, <2>1, <2>3, <2>4, OrderWrite
  <1> QED
    BY <1>1, <1>2

LEMMA OrderedStep ==
    ASSUME InOrder, TypeOK, QueueInv, Alive, OnScreen, Numbered, Ordered, [Next]_vars
    PROVE  Ordered'
  <1>0. MaxDeletes = 0
    BY DEF InOrder
  <1>1. ASSUME NEW t \in Tab, Reload(t) PROVE save[t].phase = "idle"
    BY <1>1 DEF Reload, QueueInv, PausedQueueIsSettled, InFlight
  <1>2. CASE RestoreSnapshot
    <2>1. /\ version' = version + 1
          /\ UNCHANGED <<requests, shown, known, pending, conflict, save, fetch, orphan,
                         reloading, servedSeq>>
      BY <1>2 DEF RestoreSnapshot, queue, lists
    <2>2. ASSUME NEW t \in Tab PROVE Knows(t)'
      BY <2>1, Numbers DEF Ordered, Knows
    <2> QED
      BY <2>1, <2>2, OrderWrite
  <1>3. CASE (\E r \in requests : RequestLost(r)) \/ Restart \/ UNCHANGED vars
    <2>1. /\ requests' \subseteq requests
          /\ UNCHANGED <<content, version, servedSeq, shown, known, pending, conflict, save,
                         fetch, orphan, reloading>>
      BY <1>3 DEF RequestLost, Restart, vars, server, queue, lists
    <2> QED
      BY <2>1 DEF Ordered, Knows, Fetched, Confirmed, Asks
  <1> QED
    BY <1>0, <1>1, <1>2, <1>3, LivingCases, OrderTimer, OrderFinish, OrderConflict,
       OrderEdit, OrderList, OrderReread, OrderServe

LEMMA OrderCorrect == ASSUME InOrder PROVE Spec => []Ordered
  <1>0. MaxDeletes = 0
    BY DEF InOrder
  <1>1. Init => Ordered
    <2> SUFFICES ASSUME Init PROVE Ordered
      OBVIOUS
    <2>1. \A t \in Tab : /\ save[t].phase = "idle" /\ save[t].seq = 0 /\ fetch[t].phase = "none"
                         /\ shown[t] = Empty /\ known[t] = 1 /\ orphan[t] = NoFetch
                         /\ pending[t] = NoPatch /\ servedSeq[t] = 0
      BY DEF Init, Idle, NoFetch
    <2>2. version = 1 /\ content = Empty /\ requests = {} /\ Within(Empty, Empty)
      BY DEF Init, Within
    <2> QED
      BY <2>1, <2>2 DEF Ordered, Knows, Fetched, Confirmed
  <1>2. TypeOK /\ QueueInv /\ (Alive /\ OnScreen)
          /\ (Numbered /\ WaitersCarried /\ SavedMeansStored) /\ Ordered /\ [Next]_vars
        => Ordered'
    BY OrderedStep
  <1> QED
    BY <1>0, <1>1, <1>2, TypeCorrect, QueueCorrect, ScreenCorrect, WaitersCorrect, PTL DEF Spec

(* A tab that knows the stored version has every stored change on screen:  *)
(* the version it saves against vouches for what it would write back.      *)
THEOREM KnownVersionIsAlwaysSeen ==
    ASSUME InOrder PROVE Spec => []KnownVersionIsSeen
  <1>1. Ordered => KnownVersionIsSeen
    BY DEF Ordered, Knows, KnownVersionIsSeen, Within
  <1> QED
    BY <1>1, OrderCorrect, PTL

(* No save that the server applies removes an edit that another tab        *)
(* stored, for any number of tabs and fields: VERSION_CONFLICT catches     *)
(* each one whose tab has not seen the stored copy.                        *)
THEOREM NothingUnseenIsOverwritten ==
    ASSUME InOrder PROVE Spec => NoUnseenOverwrite
  <1>0. MaxDeletes = 0
    BY DEF InOrder
  <1>1. ASSUME TypeOK, Alive, Ordered, [Next]_vars, requests' # requests,
               content # NoCopy, content' # NoCopy
        PROVE  \A f \in Field : content[f] \subseteq content'[f]
    <2>1. ASSUME NEW r \in requests, Serve(r) PROVE Within(content, content')
      <3>1. CASE Verdict(r) = "ok"
        BY <1>1, <2>1, <3>1, ServedFresh
      <3>2. CASE Verdict(r) # "ok"
        BY <2>1, <3>2 DEF Serve, server, Within
      <3> QED
        BY <3>1, <3>2
    <2>2. ASSUME NEW t \in Tab, Edits(t) PROVE content' = content
      BY <2>2 DEF Edits, Edit, server
    <2>3. ASSUME NEW t \in Tab, \/ TimerFires(t) \/ Finishes(t) \/ SaveConflicts(t)
                                \/ ListArrives(t) \/ Rereads(t) \/ Reload(t) \/ Unmount(t)
          PROVE  content' = content
      BY <2>3 DEF TimerFires, Finishes, SaveSucceeds, SaveIsStale, SaveFails, SaveConflicts,
                  ListArrives, Rereads, Refresh, OrphanArrives, ListFails, ServeList,
                  Reload, Unmount, server
    <2>4. ASSUME RestoreSnapshot \/ Restart \/ UNCHANGED vars PROVE content' = content
      BY <1>1, <2>4 DEF RestoreSnapshot, Restart, vars, server
    <2>5. ASSUME NEW r \in requests, RequestLost(r) PROVE content' = content
      BY <2>5 DEF RequestLost, server
    <2>6. Within(content, content)
      BY DEF Within
    <2>7. Within(content, content')
      BY <1>0, <1>1, <2>1, <2>2, <2>3, <2>4, <2>5, <2>6, LivingCases
    <2> QED
      BY <2>7 DEF Within
  <1>2. TypeOK /\ (Alive /\ OnScreen) /\ Ordered /\ [Next]_vars
        => [(requests' # requests /\ content # NoCopy /\ content' # NoCopy)
              => \A f \in Field : content[f] \subseteq content'[f]]_vars
    BY <1>1
  <1> QED
    BY <1>0, <1>2, TypeCorrect, ScreenCorrect, OrderCorrect, PTL DEF Spec, NoUnseenOverwrite

(* The saves of one tab are applied in the order they were sent, though    *)
(* the sequencer forgets its numbers on a restart and requests are         *)
(* repeated: the version they carry stands in for the number.              *)
THEOREM SavesApplyInSendOrder ==
    ASSUME InOrder PROVE Spec => AppliedInSendOrder
  <1>0. MaxDeletes = 0
    BY DEF InOrder
  <1>1. ASSUME TypeOK, Alive, Ordered, [Next]_vars, NEW r \in requests \ requests',
               version' > version
        PROVE  r.seq > servedSeq[r.tab]
    <2>0. version \in Nat /\ r.seq \in Nat /\ servedSeq[r.tab] \in Nat
      BY <1>1, Numbers
    <2>1. ASSUME NEW q \in requests, Serve(q) PROVE r.seq > servedSeq[r.tab]
      <3>1. requests' = requests \/ requests' = requests \ {q}
        BY <2>1 DEF Serve
      <3>2. r = q
        BY <1>1, <3>1
      <3>3. CASE Verdict(q) = "ok"
        BY <1>1, <2>0, <2>1, <3>2, <3>3, ServedFresh
      <3>4. CASE Verdict(q) # "ok"
        <4>1. version' = version
          BY <2>1, <3>4 DEF Serve, server
        <4> QED
          BY <1>1, <2>0, <4>1
      <3> QED
        BY <3>3, <3>4
    <2>2. ASSUME NEW t \in Tab, \/ TimerFires(t) \/ Finishes(t) \/ SaveConflicts(t) \/ Edits(t)
                                \/ ListArrives(t) \/ Rereads(t) \/ Reload(t) \/ Unmount(t)
          PROVE  version' = version
      BY <2>2 DEF TimerFires, Finishes, SaveSucceeds, SaveIsStale, SaveFails, SaveConflicts,
                  ListArrives, Rereads, Refresh, OrphanArrives, ListFails, ServeList,
                  Reload, Unmount, Edits, Edit, server
    <2>3. CASE RestoreSnapshot \/ UNCHANGED vars
      BY <1>1, <2>3 DEF RestoreSnapshot, vars
    <2>4. ASSUME (\E q \in requests : RequestLost(q)) \/ Restart PROVE version' = version
      BY <2>4 DEF RequestLost, Restart, server
    <2> QED
      BY <1>0, <1>1, <2>0, <2>1, <2>2, <2>3, <2>4, LivingCases
  <1>2. TypeOK /\ (Alive /\ OnScreen) /\ Ordered /\ [Next]_vars
        => [\A r \in requests \ requests' :
              version' > version => r.seq > servedSeq[r.tab]]_vars
    BY <1>1
  <1> QED
    BY <1>0, <1>2, TypeCorrect, ScreenCorrect, OrderCorrect, PTL DEF Spec, AppliedInSendOrder

-----------------------------------------------------------------------------
(* The promises of the ledger, where nobody deletes the workspace or edits *)
(* during a Reload, the providers stay mounted and a PUT is not repeated   *)
(*                                                                         *)
(* What nobody asked for is nowhere; what waits has one owner, and is in   *)
(* nobody else's hands unless it is stored; what was refused is on screen  *)
(* in paused tabs only.                                                    *)

Plain == MaxDeletes = 0 /\ ~EditInReload /\ ~MayUnmount /\ ~Repeats

Marks(c) == UNION {c[f] : f \in Field}
Aboard(m) == \E r \in requests : m \in Carried(r.patch)

(* Every copy that can reach a screen is one the server stored. *)
CopiesStored ==
    /\ Marks(content) \subseteq everStored
    /\ \A t \in Tab :
         /\ fetch[t].phase = "answered" => Marks(fetch[t].content) \subseteq everStored
         /\ save[t].phase = "ok" => Marks(save[t].content) \subseteq everStored
         /\ reloading[t] => pending[t] = NoPatch

OneRequest == \A r, q \in requests : (r.tab = q.tab /\ r.seq = q.seq) => r = q

Fresh(m) ==
    outcome[m] = "unasked" =>
        /\ m \notin everStored /\ ~Aboard(m)
        /\ \A t \in Tab : m \notin Marks(shown[t]) \cup queued[t] \cup save[t].waiters

Owned(m, t) ==
    m \in queued[t] \cup save[t].waiters =>
        /\ outcome[m] = "waiting"
        /\ \A u \in Tab \ {t} : /\ m \notin queued[u] \cup save[u].waiters
                                /\ m \in Marks(shown[u]) => m \in everStored

Unsent(m, t) ==
    m \in queued[t] => m \notin save[t].waiters /\ m \notin everStored /\ ~Aboard(m)

Underway(m, t) ==
    m \in save[t].waiters =>
        /\ \A r \in requests : m \in Carried(r.patch) =>
             \/ r.tab = t /\ r.seq = save[t].seq /\ save[t].phase = "sent"
             \/ m \in everStored
        /\ save[t].phase \in {"sent", "conflict"} => m \notin everStored

Refused(m) ==
    outcome[m] \in {"conflict", "discarded"} =>
        /\ m \notin everStored /\ ~Aboard(m)
        /\ \A t \in Tab : ~conflict[t] => m \notin Marks(shown[t])

Kept(m) == /\ Fresh(m) /\ Refused(m)
           /\ \A t \in Tab : Owned(m, t) /\ Unsent(m, t) /\ Underway(m, t)

LEMMA MarksOf == \A c, m : m \in Marks(c) <=> \E f \in Field : m \in c[f]
  BY DEF Marks

LEMMA PendingOnScreen ==
    ASSUME OnScreen, NEW t \in Tab
    PROVE  Carried(pending[t]) \subseteq Marks(shown[t])
  BY CarriedOver, MarksOf DEF OnScreen, Laid, MarksIn

(* A tab that is not paused moves on to its next save, and may have told   *)
(* those who waited for the one that ended.                                *)
MovesOn(t) ==
    /\ OthersRest(t) /\ ~conflict[t] /\ UNCHANGED <<conflict, everStored>>
    /\ \A u \in Tab \ {t} : shown'[u] = shown[u]
    /\ Marks(shown'[t]) \subseteq Marks(shown[t]) \cup everStored
    /\ \A m \in Mark :
         \/ outcome'[m] = outcome[m]
         \/ m \in save[t].waiters /\ outcome'[m] \in {"ok", "stale", "error"}

LEMMA KeptSends ==
    ASSUME TypeOK, OnScreen, NEW t \in Tab, MovesOn(t), Sends(t, known'[t]),
           NEW m \in Mark, Kept(m)
    PROVE  Kept(m)'
  <1>1. /\ save'[t].phase = "sent" /\ save'[t].seq = save[t].seq + 1
        /\ save'[t].waiters = queued[t] /\ queued'[t] = {}
    BY DEF Sends, Sent
  <1>2. \A u \in Tab \ {t} : save'[u] = save[u] /\ queued'[u] = queued[u] /\ shown'[u] = shown[u]
    BY DEF MovesOn, OthersRest
  <1>3. PICK p \in requests' : /\ p.tab = t /\ p.seq = save[t].seq + 1 /\ p.patch = pending[t]
                               /\ requests' = requests \cup {p}
    BY DEF Sends, Put
  <1>4. m \in Carried(p.patch) => m \in Marks(shown[t])
    BY <1>3, PendingOnScreen
  <1>5. UNCHANGED <<conflict, everStored>> /\ ~conflict[t]
        /\ (m \in Marks(shown'[t]) => m \in Marks(shown[t]) \cup everStored)
    BY DEF MovesOn
  <1>6. outcome'[m] = outcome[m] \/ (m \in save[t].waiters /\ outcome'[m] \in {"ok", "stale", "error"})
    BY DEF MovesOn
  <1>7. Fresh(m)'
    <2> SUFFICES ASSUME outcome'[m] = "unasked" PROVE Fresh(m)'
      BY DEF Fresh
    <2>1. /\ m \notin everStored /\ ~Aboard(m)
          /\ \A u \in Tab : m \notin Marks(shown[u]) \cup queued[u] \cup save[u].waiters
      BY <1>6 DEF Kept, Fresh
    <2>2. ~Aboard(m)'
      BY <1>3, <1>4, <2>1 DEF Aboard
    <2>3. \A u \in Tab : m \notin Marks(shown'[u]) \cup queued'[u] \cup save'[u].waiters
      BY <1>1, <1>2, <1>5, <2>1
    <2> QED
      BY <1>5, <2>1, <2>2, <2>3 DEF Fresh
  <1>8. Refused(m)'
    <2> SUFFICES ASSUME outcome'[m] \in {"conflict", "discarded"} PROVE Refused(m)'
      BY DEF Refused
    <2>1. /\ m \notin everStored /\ ~Aboard(m)
          /\ \A u \in Tab : ~conflict[u] => m \notin Marks(shown[u])
      BY <1>6 DEF Kept, Refused
    <2>2. ~Aboard(m)'
      BY <1>3, <1>4, <1>5, <2>1 DEF Aboard
    <2>3. \A u \in Tab : ~conflict'[u] => m \notin Marks(shown'[u])
      BY <1>2, <1>5, <2>1
    <2> QED
      BY <1>5, <2>1, <2>2, <2>3 DEF Refused
  <1>9. ASSUME NEW u \in Tab PROVE Owned(m, u)' /\ Unsent(m, u)' /\ Underway(m, u)'
    <2>1. CASE u = t
      <3>1. m \in save'[t].waiters =>
              /\ m \notin save[t].waiters /\ m \notin everStored /\ ~Aboard(m)
              /\ outcome[m] = "waiting"
              /\ \A w \in Tab \ {t} : /\ m \notin queued[w] \cup save[w].waiters
                                      /\ m \in Marks(shown[w]) => m \in everStored
        BY <1>1 DEF Kept, Owned, Unsent
      <3>2. Owned(m, t)'
        BY <1>1, <1>2, <1>5, <1>6, <3>1 DEF Owned
      <3>3. Underway(m, t)'
        BY <1>1, <1>3, <1>5, <3>1 DEF Underway, Aboard
      <3> QED
        BY <1>1, <2>1, <3>2, <3>3 DEF Unsent
    <2>2. CASE u # t
      <3>1. m \in queued[u] \cup save[u].waiters =>
              /\ outcome[m] = "waiting" /\ m \notin save[t].waiters
              /\ \A w \in Tab \ {u} : /\ m \notin queued[w] \cup save[w].waiters
                                      /\ m \in Marks(shown[w]) => m \in everStored
        BY <2>2 DEF Kept, Owned
      <3>2. Owned(m, u)'
        BY <1>1, <1>2, <1>5, <1>6, <2>2, <3>1 DEF Owned
      <3>3. Unsent(m, u)'
        BY <1>2, <1>3, <1>4, <1>5, <2>2, <3>1 DEF Kept, Unsent, Aboard
      <3>4. Underway(m, u)'
        <4>1. m \in save[u].waiters => \/ m \in everStored
                                       \/ m \notin Carried(p.patch)
          BY <1>4, <2>2, <3>1
        <4> QED
          BY <1>2, <1>3, <1>5, <2>2, <4>1 DEF Kept, Underway
      <3> QED
        BY <3>2, <3>3, <3>4
    <2> QED
      BY <2>1, <2>2
  <1> QED
    BY <1>7, <1>8, <1>9 DEF Kept

(* No one is added to a queue, nothing is sent, no copy spreads but stored *)
(* ones, and no one is told of a refusal.                                  *)
LEMMA KeptRests ==
    ASSUME NEW m \in Mark, Kept(m), UNCHANGED everStored, requests' \subseteq requests,
           \A t \in Tab :
             /\ queued'[t] \subseteq queued[t]
             /\ save'[t] = save[t] \/ save'[t].waiters = {}
             /\ m \in Marks(shown'[t]) => m \in Marks(shown[t]) \cup everStored
             /\ m \in queued'[t] \cup save'[t].waiters => outcome'[m] = outcome[m]
             /\ ~conflict'[t] => ~conflict[t] \/ Marks(shown'[t]) \subseteq everStored,
           outcome'[m] = outcome[m] \/ outcome'[m] \in {"ok", "stale", "error"}
    PROVE  Kept(m)'
  <1>1. Aboard(m)' => Aboard(m)
    BY DEF Aboard
  <1>2. Fresh(m)'
    BY <1>1 DEF Kept, Fresh
  <1>3. Refused(m)'
    BY <1>1 DEF Kept, Refused
  <1>4. ASSUME NEW t \in Tab PROVE Owned(m, t)' /\ Unsent(m, t)' /\ Underway(m, t)'
    <2>1. Owned(m, t)'
      BY DEF Kept, Owned
    <2>2. Unsent(m, t)'
      BY <1>1 DEF Kept, Unsent
    <2>3. Underway(m, t)'
      BY DEF Kept, Underway
    <2> QED
      BY <2>1, <2>2, <2>3
  <1> QED
    BY <1>2, <1>3, <1>4 DEF Kept

LEMMA KeptConflicts ==
    ASSUME TypeOK, NEW t \in Tab, SaveConflicts(t), NEW m \in Mark, Kept(m)
    PROVE  Kept(m)'
  <1>1. /\ UNCHANGED <<everStored, requests, shown>>
        /\ save[t].phase = "conflict" /\ save'[t] = Idle(save[t].seq) /\ queued'[t] = {}
        /\ \A u \in Tab \ {t} : save'[u] = save[u] /\ queued'[u] = queued[u]
                                /\ conflict'[u] = conflict[u]
        /\ conflict'[t] = TRUE
        /\ outcome'[m] = IF m \in save[t].waiters \cup queued[t] THEN "conflict" ELSE outcome[m]
    BY DEF SaveConflicts, TypeOK, server, Tell
  <1>2. save'[t].waiters = {}
    BY <1>1, IdleParts
  <1>3. CASE m \notin save[t].waiters \cup queued[t]
    BY <1>1, <1>2, <1>3, KeptRests
  <1>4. CASE m \in save[t].waiters \cup queued[t]
    <2>1. /\ m \notin everStored /\ ~Aboard(m)
          /\ \A u \in Tab \ {t} : /\ m \notin queued[u] \cup save[u].waiters
                                  /\ m \notin Marks(shown[u])
      <3>1. /\ \A u \in Tab \ {t} : /\ m \notin queued[u] \cup save[u].waiters
                                    /\ m \in Marks(shown[u]) => m \in everStored
        BY <1>4 DEF Kept, Owned
      <3>2. m \notin everStored /\ ~Aboard(m)
        BY <1>1, <1>4 DEF Kept, Unsent, Underway, Aboard
      <3> QED
        BY <3>1, <3>2
    <2>2. /\ outcome'[m] = "conflict" /\ ~Aboard(m)'
          /\ \A u \in Tab : m \notin queued'[u] \cup save'[u].waiters
      BY <1>1, <1>2, <1>4, <2>1 DEF Aboard
    <2> QED
      BY <1>1, <2>1, <2>2 DEF Kept, Fresh, Refused, Owned, Unsent, Underway
  <1> QED
    BY <1>3, <1>4

LEMMA KeptEdit ==
    ASSUME TypeOK, NEW t \in Tab, NEW f \in Field, NEW e \in Mark, Edit(t, f, e),
           NEW m \in Mark, Kept(m)
    PROVE  Kept(m)'
  <1>1. /\ UNCHANGED <<everStored, requests, save, conflict>> /\ outcome[e] = "unasked"
        /\ shown[t] \in Content
        /\ shown'[t] = [shown[t] EXCEPT ![f] = shown[t][f] \cup {e}]
        /\ \A u \in Tab \ {t} : shown'[u] = shown[u] /\ queued'[u] = queued[u]
        /\ \/ conflict[t] /\ queued'[t] = queued[t] /\ Tell({e}, "conflict")
           \/ ~conflict[t] /\ queued'[t] = queued[t] \cup {e} /\ Tell({e}, "waiting")
    BY DEF Edit, TypeOK, server
  <1>2. Marks(shown'[t]) \subseteq Marks(shown[t]) \cup {e}
    BY <1>1, MarksOf DEF Content
  <1>3. CASE m # e
    <2>1. outcome'[m] = outcome[m]
      BY <1>1, <1>3 DEF Tell
    <2>2. \A u \in Tab : /\ m \in queued'[u] => m \in queued[u]
                         /\ m \in Marks(shown'[u]) => m \in Marks(shown[u])
      <3>1. /\ m \in queued'[t] => m \in queued[t]
            /\ m \in Marks(shown'[t]) => m \in Marks(shown[t])
        BY <1>1, <1>2, <1>3
      <3>2. \A u \in Tab \ {t} : queued'[u] = queued[u] /\ shown'[u] = shown[u]
        BY <1>1
      <3> QED
        BY <3>1, <3>2
    <2>3. Aboard(m)' <=> Aboard(m)
      BY <1>1 DEF Aboard
    <2>4. Fresh(m)' /\ Refused(m)'
      BY <1>1, <2>1, <2>2, <2>3 DEF Kept, Fresh, Refused
    <2>5. ASSUME NEW u \in Tab PROVE Owned(m, u)' /\ Unsent(m, u)' /\ Underway(m, u)'
      BY <1>1, <2>1, <2>2, <2>3 DEF Kept, Owned, Unsent, Underway
    <2> QED
      BY <2>4, <2>5 DEF Kept
  <1>4. CASE m = e
    <2>1. /\ m \notin everStored /\ ~Aboard(m)
          /\ \A u \in Tab : m \notin Marks(shown[u]) \cup queued[u] \cup save[u].waiters
      BY <1>1, <1>4 DEF Kept, Fresh
    <2>2. /\ ~Aboard(m)' /\ m \notin everStored'
          /\ \A u \in Tab \ {t} : m \notin Marks(shown'[u]) \cup queued'[u]
          /\ \A u \in Tab : m \notin save'[u].waiters
      BY <1>1, <2>1 DEF Aboard
    <2>3. \/ conflict'[t] /\ m \notin queued'[t] /\ outcome'[m] = "conflict"
          \/ ~conflict'[t] /\ m \in queued'[t] /\ outcome'[m] = "waiting"
      BY <1>1, <1>4, <2>1 DEF Tell
    <2>4. Fresh(m)' /\ Refused(m)'
      BY <2>2, <2>3 DEF Fresh, Refused
    <2>5. ASSUME NEW u \in Tab PROVE Owned(m, u)' /\ Unsent(m, u)' /\ Underway(m, u)'
      <3>1. /\ u # t => m \notin queued'[u] \cup save'[u].waiters
            /\ m \notin save'[u].waiters /\ m \notin everStored' /\ ~Aboard(m)'
        BY <2>2
      <3>2. m \in queued'[u] \cup save'[u].waiters => u = t /\ outcome'[m] = "waiting"
        BY <2>3, <3>1
      <3>3. \A w \in Tab \ {t} : /\ m \notin queued'[w] \cup save'[w].waiters
                                  /\ m \notin Marks(shown'[w])
        BY <2>2
      <3>4. Owned(m, u)'
        BY <3>2, <3>3 DEF Owned
      <3>5. Unsent(m, u)'
        BY <3>1 DEF Unsent
      <3>6. Underway(m, u)'
        BY <3>1 DEF Underway
      <3> QED
        BY <3>4, <3>5, <3>6
    <2> QED
      BY <2>4, <2>5 DEF Kept
  <1> QED
    BY <1>3, <1>4

LEMMA KeptServe ==
    ASSUME Plain, TypeOK, Numbered, OneRequest, NEW r \in requests, Serve(r), NEW m \in Mark, Kept(m)
    PROVE  Kept(m)'
  <1>1. /\ UNCHANGED <<shown, conflict, queued, outcome>> /\ requests' = requests \ {r} /\ Answer(r)
    BY DEF Serve, queue, Plain
  <1>2. /\ everStored \subseteq everStored'
        /\ everStored' = everStored \/ (Verdict(r) = "ok" /\ everStored' = everStored \cup Carried(r.patch))
        /\ r.tab \in Tab
        /\ \A u \in Tab : /\ save'[u].seq = save[u].seq /\ save'[u].waiters = save[u].waiters
        /\ \A u \in Tab \ {r.tab} : save'[u] = save[u]
    BY ServeMoves DEF server
  <1>3. IF Matches(r) THEN Answers(r) ELSE save' = save
    BY <1>1, <1>2, TypeLocal, AnswerMoves
  <1>4. Aboard(m)' => Aboard(m)
    BY <1>1 DEF Aboard
  <1>5. ~Aboard(m) => (m \in everStored' => m \in everStored)
    BY <1>2 DEF Aboard
  <1>6. Fresh(m)' /\ Refused(m)'
    BY <1>1, <1>2, <1>4, <1>5 DEF Kept, Fresh, Refused
  <1>7. ASSUME NEW t \in Tab PROVE Owned(m, t)' /\ Unsent(m, t)' /\ Underway(m, t)'
    <2>1. Owned(m, t)'
      BY <1>1, <1>2 DEF Kept, Owned
    <2>2. Unsent(m, t)'
      BY <1>1, <1>2, <1>4, <1>5 DEF Kept, Unsent
    <2>3. Underway(m, t)'
      <3> SUFFICES ASSUME m \in save[t].waiters
                   PROVE  /\ \A q \in requests' : m \in Carried(q.patch) =>
                               \/ q.tab = t /\ q.seq = save[t].seq /\ save'[t].phase = "sent"
                               \/ m \in everStored'
                          /\ save'[t].phase \in {"sent", "conflict"} => m \notin everStored'
        BY <1>2 DEF Underway
      <3>1. /\ \A q \in requests : m \in Carried(q.patch) =>
                  \/ q.tab = t /\ q.seq = save[t].seq /\ save[t].phase = "sent"
                  \/ m \in everStored
            /\ save[t].phase \in {"sent", "conflict"} => m \notin everStored
        BY DEF Kept, Underway
      <3>2. CASE Matches(r) /\ r.tab = t
        <4>1. save[t].phase = "sent" /\ save[t].seq = r.seq /\ save'[t].phase = Verdict(r)
          BY <1>3, <3>2 DEF Matches, Answers
        <4>2. \A q \in requests' : ~(q.tab = t /\ q.seq = save[t].seq)
          BY <1>1, <3>2, <4>1 DEF OneRequest
        <4>3. \A q \in requests' : m \in Carried(q.patch) => m \in everStored'
          BY <1>1, <1>2, <3>1, <4>2
        <4>4. save'[t].phase \in {"sent", "conflict"} => m \notin everStored'
          BY <1>2, <3>1, <4>1
        <4> QED
          BY <1>2, <4>3, <4>4
      <3>3. CASE ~(Matches(r) /\ r.tab = t)
        <4>1. save'[t] = save[t]
          BY <1>2, <1>3, <3>3
        <4>2. m \in Carried(r.patch) => m \in everStored
          BY <3>1, <3>3 DEF Matches
        <4> QED
          BY <1>1, <1>2, <3>1, <4>1, <4>2
      <3> QED
        BY <3>2, <3>3
    <2> QED
      BY <2>1, <2>2, <2>3
  <1> QED
    BY <1>6, <1>7 DEF Kept

LEMMA CopiesStep ==
    ASSUME Plain, TypeOK, QueueInv, Alive, OnScreen, CopiesStored, [Next]_vars
    PROVE  CopiesStored'
  <1>0. LocalTyped /\ MaxDeletes = 0 /\ content \in Content
        /\ \A t \in Tab : reloading[t] => ~InFlight(t)
    BY TypeLocal DEF Plain, TypeOK, Alive, OnScreen, QueueInv, PausedQueueIsSettled
  <1>1. ASSUME NEW t \in Tab, TimerFires(t) \/ Finishes(t) PROVE CopiesStored'
    <2>1. /\ UNCHANGED <<content, everStored, reloading>>
          /\ \A u \in Tab : pending'[u] \in {pending[u], NoPatch}
          /\ \A u \in Tab : save'[u] = save[u] \/ save'[u].phase # "ok"
      <3>1. CASE TimerFires(t)
        <4>1. (UNCHANGED <<save, pending>> \/ (Sends(t, known[t]) /\ OthersRest(t)))
          BY <1>0, <3>1, DispatchMoves DEF TimerFires
        <4> QED
          BY <3>1, <4>1 DEF TimerFires, Sends, Sent, OthersRest, server, lists
      <3>2. CASE Finishes(t)
        <4>1. /\ OthersRest(t) /\ UNCHANGED <<reloading, server>>
              /\ Sends(t, known'[t]) \/ Rests(t)
          BY <3>2, FinishesMoves
        <4>2. save'[t].phase # "ok" /\ pending'[t] \in {pending[t], NoPatch}
          BY <4>1, IdleParts DEF Sends, Sent, Rests
        <4> QED
          BY <4>1, <4>2 DEF OthersRest, server
      <3> QED
        BY <1>1, <3>1, <3>2
    <2>2. \A u \in Tab : fetch'[u] = fetch[u] \/ fetch'[u] = Asked
      BY <1>1 DEF TimerFires, Finishes, SaveSucceeds, SaveIsStale, SaveFails, BeginFetch, lists, TypeOK
    <2> QED
      BY <2>1, <2>2 DEF CopiesStored, Asked
  <1>2. ASSUME NEW t \in Tab, SaveConflicts(t) PROVE CopiesStored'
    <2>1. /\ UNCHANGED <<content, everStored, reloading, fetch>>
          /\ save[t].phase = "conflict" /\ save'[t] = Idle(save[t].seq)
          /\ \A u \in Tab \ {t} : save'[u] = save[u] /\ pending'[u] = pending[u]
      BY <1>2 DEF SaveConflicts, server, lists, TypeOK
    <2>2. ~reloading[t]
      BY <1>0, <2>1 DEF InFlight
    <2> QED
      BY <2>1, <2>2, IdleParts DEF CopiesStored
  <1>3. ASSUME NEW t \in Tab, Edits(t) PROVE CopiesStored'
    <2>1. /\ UNCHANGED <<content, everStored, reloading, fetch, save>> /\ ~reloading[t]
          /\ \A u \in Tab \ {t} : pending'[u] = pending[u]
      BY <1>3 DEF Edits, Edit, Plain, server, lists, TypeOK
    <2> QED
      BY <2>1 DEF CopiesStored
  <1>4. ASSUME NEW t \in Tab, ListArrives(t) PROVE CopiesStored'
    <2>1. /\ UNCHANGED <<content, everStored, pending, save>>
          /\ \A u \in Tab : fetch'[u] \in {fetch[u], NoFetch}
          /\ \A u \in Tab : reloading'[u] => reloading[u]
      BY <1>4 DEF ListArrives, server, queue, TypeOK
    <2> QED
      BY <2>1 DEF CopiesStored, NoFetch
  <1>5. ASSUME NEW t \in Tab, Rereads(t) \/ Reload(t) PROVE CopiesStored'
    <2>1. /\ UNCHANGED <<content, everStored, save>>
          /\ \A u \in Tab : \/ fetch'[u] \in {fetch[u], Asked, NoFetch}
                            \/ fetch'[u].content = content
      BY <1>5 DEF Rereads, Refresh, OrphanArrives, ListFails, ServeList, Reading, BeginFetch,
                  Reload, server, lists, TypeOK
    <2>2. \A u \in Tab : /\ pending'[u] \in {pending[u], NoPatch}
                         /\ reloading'[u] => reloading[u] \/ pending'[u] = NoPatch
      BY <1>5 DEF Rereads, Refresh, OrphanArrives, ListFails, ServeList, Reload,
                  ClearQueuedSave, queue, lists, TypeOK
    <2> QED
      BY <2>1, <2>2 DEF CopiesStored, NoFetch, Asked
  <1>6. ASSUME NEW r \in requests, Serve(r) PROVE CopiesStored'
    <2>1. UNCHANGED <<pending, fetch, reloading>> /\ everStored \subseteq everStored'
      BY <1>6, ServeMoves DEF Serve, queue, lists
    <2>2. Marks(content') \subseteq everStored'
      <3>1. CASE Verdict(r) = "ok"
        <4>1. content' = Merge(content, r.patch) /\ everStored' = everStored \cup Carried(r.patch)
          BY <1>6, <3>1, ApplyMoves, ServeMoves DEF Serve, ApplySave, Carried
        <4> QED
          BY <4>1, MarksOf, CarriedOver DEF CopiesStored, Merge, MarksIn
      <3>2. CASE Verdict(r) # "ok"
        BY <1>6, <2>1, <3>2 DEF Serve, server, CopiesStored
      <3> QED
        BY <3>1, <3>2
    <2>3. \A u \in Tab : save'[u] = save[u] \/ (save'[u].phase = "ok" => save'[u].content = content')
      BY <1>6, ServeMoves DEF Answers
    <2> QED
      BY <2>1, <2>2, <2>3 DEF CopiesStored
  <1>7. CASE RestoreSnapshot
    <2>1. content' = Empty /\ Marks(Empty) = {} /\ UNCHANGED <<everStored, pending, fetch, reloading, save>>
      BY <1>7 DEF RestoreSnapshot, Marks, Empty, queue, lists
    <2> QED
      BY <2>1 DEF CopiesStored
  <1>8. CASE (\E r \in requests : RequestLost(r)) \/ Restart \/ UNCHANGED vars
    <2>1. UNCHANGED <<content, everStored, pending, fetch, reloading, save>>
      BY <1>8 DEF RequestLost, Restart, vars, server, queue, lists
    <2> QED
      BY <2>1 DEF CopiesStored
  <1>9. \A t \in Tab : ~Unmount(t)
    BY DEF Unmount, Plain
  <1> QED
    BY <1>0, <1>1, <1>2, <1>3, <1>4, <1>5, <1>6, <1>7, <1>8, <1>9, LivingCases

LEMMA OneRequestStep ==
    ASSUME MaxDeletes = 0, TypeOK, Alive, Numbered, OneRequest, [Next]_vars
    PROVE  OneRequest'
  <1>1. ASSUME NEW t \in Tab, NEW e, Sends(t, e) PROVE OneRequest'
    <2>1. PICK p \in requests' : p.tab = t /\ p.seq = save[t].seq + 1 /\ requests' = requests \cup {p}
      BY <1>1 DEF Sends, Put
    <2>2. \A r \in requests : r.tab = t => r.seq # p.seq
      <3>1. \A r \in requests : r.seq \in Nat /\ (r.tab = t => r.seq <= save[t].seq)
        BY Numbers DEF Numbered
      <3> QED
        BY <2>1, <3>1, Numbers
    <2> QED
      BY <2>1, <2>2 DEF OneRequest
  <1>2. ASSUME requests' \subseteq requests PROVE OneRequest'
    BY <1>2 DEF OneRequest
  <1>3. ASSUME NEW t \in Tab, Edits(t) PROVE requests' \subseteq requests
    BY <1>3 DEF Edits, Edit
  <1>4. Quiet => requests' \subseteq requests
    BY DEF Quiet
  <1> QED
    BY <1>1, <1>2, <1>3, <1>4, SaveCases, ServeMoves

(* Who is told when a save ends without a conflict, and what is on screen. *)
LEMMA KeptFinish ==
    ASSUME TypeOK, OnScreen, CopiesStored, NEW t \in Tab, Finishes(t), NEW m \in Mark, Kept(m)
    PROVE  Kept(m)'
  <1>1. /\ OthersRest(t) /\ UNCHANGED <<conflict, server>>
        /\ (Sends(t, known'[t]) /\ ~conflict[t]) \/ Rests(t)
    BY FinishesMoves
  <1>2. PICK what \in {"ok", "stale", "error"} : Tell(save[t].waiters, what)
    BY FinishesMoves
  <1>3. /\ \A u \in Tab \ {t} : shown'[u] = shown[u]
        /\ shown'[t] = shown[t] \/ (save[t].phase = "ok" /\ shown'[t] = save[t].content)
    BY DEF Finishes, SaveSucceeds, SaveIsStale, SaveFails, TypeOK
  <1>4. Marks(shown'[t]) \subseteq Marks(shown[t]) \cup everStored
    BY <1>3 DEF CopiesStored
  <1>5. \A n \in Mark : outcome'[n] = IF n \in save[t].waiters THEN what ELSE outcome[n]
    BY <1>2 DEF Tell
  <1>6. CASE Sends(t, known'[t]) /\ ~conflict[t]
    BY <1>1, <1>3, <1>4, <1>5, <1>6, KeptSends DEF MovesOn, server
  <1>7. CASE Rests(t)
    <2>1. /\ save'[t].waiters = {} /\ queued'[t] = queued[t] /\ requests' = requests
      BY <1>7, IdleParts DEF Rests
    <2>2. m \in queued[t] => m \notin save[t].waiters
      BY DEF Kept, Unsent
    <2>3. \A u \in Tab \ {t} : m \in queued[u] \cup save[u].waiters => m \notin save[t].waiters
      BY DEF Kept, Owned
    <2>4. \A u \in Tab : m \in queued'[u] \cup save'[u].waiters => outcome'[m] = outcome[m]
      BY <1>1, <1>5, <2>1, <2>2, <2>3 DEF OthersRest
    <2>5. \A u \in Tab : /\ queued'[u] \subseteq queued[u]
                         /\ save'[u] = save[u] \/ save'[u].waiters = {}
                         /\ m \in Marks(shown'[u]) => m \in Marks(shown[u]) \cup everStored
      BY <1>1, <1>3, <1>4, <2>1 DEF OthersRest
    <2> QED
      BY <1>1, <1>5, <2>1, <2>4, <2>5, KeptRests DEF server
  <1> QED
    BY <1>1, <1>6, <1>7

LEMMA KeptStep ==
    ASSUME Plain, TypeOK, QueueInv, Alive, OnScreen, Numbered, OneRequest, CopiesStored,
           [Next]_vars, NEW m \in Mark, Kept(m)
    PROVE  Kept(m)'
  <1>0. LocalTyped /\ MaxDeletes = 0
    BY TypeLocal DEF Plain
  <1>1. ASSUME NEW t \in Tab, TimerFires(t) PROVE Kept(m)'
    <2>1. UNCHANGED <<everStored, shown, known, conflict, outcome>>
      BY <1>1 DEF TimerFires, server
    <2>2. CASE ~conflict[t] /\ ~InFlight(t) /\ pending[t] # NoPatch
      <3>1. Sends(t, known'[t]) /\ OthersRest(t)
        BY <1>0, <1>1, <2>1, <2>2, DispatchMoves DEF TimerFires
      <3> QED
        BY <2>1, <2>2, <3>1, KeptSends DEF MovesOn
    <2>3. CASE ~(~conflict[t] /\ ~InFlight(t) /\ pending[t] # NoPatch)
      <3>1. UNCHANGED <<save, requests, queued>>
        BY <1>1, <2>3 DEF TimerFires
      <3> QED
        BY <2>1, <3>1, KeptRests
    <2> QED
      BY <2>2, <2>3
  <1>2. ASSUME NEW t \in Tab, ListArrives(t) PROVE Kept(m)'
    <2>1. /\ UNCHANGED <<everStored, requests, queued, save, outcome>>
          /\ fetch[t].phase = "answered" /\ fetch[t].content # NoCopy
          /\ shown'[t] = IF Held(t) THEN shown[t] ELSE fetch[t].content
          /\ conflict'[t] = (conflict[t] /\ ~reloading[t])
          /\ \A u \in Tab \ {t} : shown'[u] = shown[u] /\ conflict'[u] = conflict[u]
      BY <1>2 DEF ListArrives, ShownAfter, Alive, server, queue, TypeOK
    <2>2. Marks(fetch[t].content) \subseteq everStored
      BY <2>1 DEF CopiesStored
    <2>3. reloading[t] => ~Held(t)
      BY DEF CopiesStored, OnScreen, Held, QueueInv, PausedQueueIsSettled
    <2>4. \A u \in Tab : /\ m \in Marks(shown'[u]) => m \in Marks(shown[u]) \cup everStored
                         /\ ~conflict'[u] => ~conflict[u] \/ Marks(shown'[u]) \subseteq everStored
      BY <2>1, <2>2, <2>3
    <2> QED
      BY <2>1, <2>4, KeptRests
  <1>3. ASSUME NEW t \in Tab, Rereads(t) \/ Reload(t) PROVE Kept(m)'
    <2>1. UNCHANGED <<everStored, requests, save, shown, conflict>>
      BY <1>3 DEF Rereads, Refresh, OrphanArrives, ListFails, ServeList, Reload, server
    <2>2. Reload(t) => queued[t] = {}
      BY DEF Reload, QueueInv, PausedQueueIsSettled
    <2>3. \A u \in Tab : queued'[u] \subseteq queued[u]
      BY <1>0, <1>3 DEF Rereads, Refresh, OrphanArrives, ListFails, ServeList, Reload,
                        ClearQueuedSave, queue, LocalTyped
    <2>4. outcome'[m] = outcome[m]
      BY <1>3, <2>2 DEF Rereads, Refresh, OrphanArrives, ListFails, ServeList, Reload,
                        ClearQueuedSave, Tell
    <2> QED
      BY <2>1, <2>3, <2>4, KeptRests
  <1>4. CASE (\E r \in requests : RequestLost(r)) \/ RestoreSnapshot \/ Restart \/ UNCHANGED vars
    <2>1. UNCHANGED <<everStored, save, shown, conflict, queued, outcome>> /\ requests' \subseteq requests
      BY <1>4 DEF RequestLost, RestoreSnapshot, Restart, vars, server, queue
    <2> QED
      BY <2>1, KeptRests
  <1>5. \A t \in Tab : ~Unmount(t)
    BY DEF Unmount, Plain
  <1> QED
    BY <1>0, <1>1, <1>2, <1>3, <1>4, <1>5, LivingCases, KeptFinish, KeptConflicts, KeptEdit,
       KeptServe DEF Edits

LedgerInv == CopiesStored /\ OneRequest /\ \A m \in Mark : Kept(m)

(* A step of the provider, the network or the server is a step of the      *)
(* ledger, or none of its business.                                        *)
LEMMA LedgerStep ==
    ASSUME Plain, TypeOK, QueueInv, Alive, OnScreen, WaitersCarried, LedgerInv, [Next]_vars
    PROVE  [Ledger!Next]_<<outcome, everStored>>
  <1>0. /\ LocalTyped /\ MaxDeletes = 0 /\ outcome \in [Mark -> Outcomes]
        /\ \A m \in Mark : Kept(m)
        /\ \A t \in Tab : queued[t] \subseteq Mark /\ save[t].waiters \subseteq Mark
    BY TypeLocal DEF Plain, TypeOK, LedgerInv
  <1>1. ASSUME NEW t \in Tab, Finishes(t) PROVE Ledger!Next
    <2>1. PICK what \in {"ok", "stale", "error"} :
             Tell(save[t].waiters, what) /\ (what # "error" => save[t].phase = what)
      BY <1>1, FinishesMoves
    <2>2. UNCHANGED everStored
      BY <1>1, FinishesMoves DEF server
    <2>3. what \in {"ok", "stale"} => save[t].waiters \subseteq everStored
      BY <2>1 DEF WaitersCarried, Applied
    <2>4. \A m \in save[t].waiters : outcome[m] = "waiting"
      BY <1>0 DEF Kept, Owned
    <2>5. Ledger!Tell(save[t].waiters, what)
      BY <2>1, <2>2, <2>3, <2>4 DEF Tell, Ledger!Tell, Ledger!Refused
    <2> QED
      BY <1>0, <2>5 DEF Ledger!Next, Ledger!Settled
  <1>2. ASSUME NEW t \in Tab, SaveConflicts(t) PROVE Ledger!Next
    <2>1. /\ Tell(save[t].waiters \cup queued[t], "conflict") /\ UNCHANGED everStored
          /\ save[t].phase = "conflict"
      BY <1>2 DEF SaveConflicts, server
    <2>2. \A m \in save[t].waiters \cup queued[t] : outcome[m] = "waiting" /\ m \notin everStored
      BY <1>0, <2>1 DEF Kept, Owned, Unsent, Underway
    <2>3. Ledger!Tell(save[t].waiters \cup queued[t], "conflict")
      BY <2>1, <2>2 DEF Tell, Ledger!Tell, Ledger!Refused
    <2> QED
      BY <1>0, <2>3 DEF Ledger!Next, Ledger!Settled
  <1>3. ASSUME NEW t \in Tab, NEW f \in Field, NEW m \in Mark, Edit(t, f, m) PROVE Ledger!Next
    <2>1. UNCHANGED everStored /\ outcome[m] = "unasked" /\ (Tell({m}, "conflict") \/ Tell({m}, "waiting"))
      BY <1>3 DEF Edit, server
    <2>2. CASE Tell({m}, "conflict")
      <3>1. m \notin everStored
        BY <1>0, <2>1 DEF Kept, Fresh
      <3>2. Ledger!Tell({m}, "conflict")
        BY <2>1, <2>2, <3>1 DEF Tell, Ledger!Tell, Ledger!Refused
      <3> QED
        BY <3>2 DEF Ledger!Next, Ledger!Settled
    <2>3. CASE Tell({m}, "waiting")
      <3>1. outcome' = [outcome EXCEPT ![m] = "waiting"]
        BY <1>0, <2>3 DEF Tell
      <3>2. Ledger!Ask(m)
        BY <2>1, <3>1 DEF Ledger!Ask
      <3> QED
        BY <3>2 DEF Ledger!Next
    <2> QED
      BY <2>1, <2>2, <2>3
  <1>4. ASSUME NEW r \in requests, Serve(r) PROVE [Ledger!Next]_<<outcome, everStored>>
    <2>1. UNCHANGED outcome /\ (everStored' = everStored \/ everStored' = everStored \cup Carried(r.patch))
      BY <1>4, ServeMoves DEF server
    <2>2. Carried(r.patch) \subseteq Mark
      BY DEF TypeOK, Request, Patch, Carried, MarksIn
    <2>3. \A m \in Carried(r.patch) : outcome[m] \notin {"conflict", "discarded", "unasked"}
      BY <1>0, <2>2 DEF Kept, Fresh, Refused, Aboard
    <2>4. CASE everStored' = everStored \cup Carried(r.patch)
      <3>1. Ledger!Store(Carried(r.patch))
        BY <2>1, <2>3, <2>4 DEF Ledger!Store, Ledger!Refused
      <3> QED
        BY <2>2, <3>1 DEF Ledger!Next
    <2> QED
      BY <2>1, <2>4
  <1>5. ASSUME NEW t \in Tab, Reload(t) PROVE UNCHANGED <<outcome, everStored>>
    <2>1. queued[t] = {} /\ Tell(queued[t], "discarded") /\ UNCHANGED everStored
      BY <1>5 DEF Reload, ClearQueuedSave, QueueInv, PausedQueueIsSettled, server
    <2> QED
      BY <1>0, <2>1 DEF Tell
  <1>6. ASSUME NEW t \in Tab, TimerFires(t) \/ ListArrives(t) \/ Rereads(t)
        PROVE  UNCHANGED <<outcome, everStored>>
    BY <1>6 DEF TimerFires, ListArrives, Rereads, Refresh, OrphanArrives, ListFails, ServeList, server
  <1>7. ASSUME (\E r \in requests : RequestLost(r)) \/ RestoreSnapshot \/ Restart \/ UNCHANGED vars
        PROVE  UNCHANGED <<outcome, everStored>>
    BY <1>7 DEF RequestLost, RestoreSnapshot, Restart, vars, server
  <1>8. \A t \in Tab : ~Unmount(t)
    BY DEF Unmount, Plain
  <1> QED
    BY <1>0, <1>1, <1>2, <1>3, <1>4, <1>5, <1>6, <1>7, <1>8, LivingCases DEF Edits

LEMMA LedgerCorrect == ASSUME Plain PROVE Spec => []LedgerInv
  <1>0. MaxDeletes = 0
    BY DEF Plain
  <1>1. Init => LedgerInv
    <2> SUFFICES ASSUME Init PROVE LedgerInv
      OBVIOUS
    <2>1. \A t \in Tab : /\ save[t].waiters = {} /\ save[t].phase = "idle" /\ queued[t] = {}
                         /\ fetch[t].phase = "none" /\ shown[t] = Empty /\ pending[t] = NoPatch
      BY DEF Init, Idle, NoFetch
    <2>2. Marks(Empty) = {} /\ content = Empty /\ requests = {} /\ everStored = {}
          /\ \A m \in Mark : outcome[m] = "unasked"
      BY DEF Init, Marks, Empty
    <2>3. CopiesStored /\ OneRequest
      BY <2>1, <2>2 DEF CopiesStored, OneRequest
    <2>4. ASSUME NEW m \in Mark PROVE Kept(m)
      <3>1. Fresh(m) /\ Refused(m)
        BY <2>1, <2>2 DEF Fresh, Refused, Aboard
      <3>2. \A t \in Tab : Owned(m, t) /\ Unsent(m, t) /\ Underway(m, t)
        BY <2>1 DEF Owned, Unsent, Underway
      <3> QED
        BY <3>1, <3>2 DEF Kept
    <2> QED
      BY <2>3, <2>4 DEF LedgerInv
  <1>2. TypeOK /\ QueueInv /\ (Alive /\ OnScreen)
          /\ (Numbered /\ WaitersCarried /\ SavedMeansStored) /\ LedgerInv /\ [Next]_vars
        => LedgerInv'
    BY <1>0, CopiesStep, OneRequestStep, KeptStep DEF LedgerInv
  <1> QED
    BY <1>0, <1>1, <1>2, TypeCorrect, QueueCorrect, ScreenCorrect, WaitersCorrect, PTL DEF Spec

(* The save queue, with its tabs, network and server, implements the       *)
(* ledger: every edit gets one outcome, and each outcome is true of it -   *)
(* in particular, an edit whose caller was told conflict or discarded was  *)
(* not stored before and is not stored later.                              *)
THEOREM SavesKeepTheLedger ==
    ASSUME Plain PROVE Spec => LedgerSpec
  <1>0. MaxDeletes = 0
    BY DEF Plain
  <1>1. Init => Ledger!Init
    BY DEF Init, Ledger!Init
  <1>2. TypeOK /\ QueueInv /\ (Alive /\ OnScreen)
          /\ (Numbered /\ WaitersCarried /\ SavedMeansStored) /\ LedgerInv /\ [Next]_vars
        => [Ledger!Next]_<<outcome, everStored>>
    BY LedgerStep
  <1> QED
    BY <1>0, <1>1, <1>2, TypeCorrect, QueueCorrect, ScreenCorrect, WaitersCorrect,
       LedgerCorrect, PTL DEF Spec, LedgerSpec, Ledger!Spec

=============================================================================
