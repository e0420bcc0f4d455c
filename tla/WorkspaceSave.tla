--------------------------- MODULE WorkspaceSave ---------------------------
(***************************************************************************)
(* One workspace, the browser tabs that edit it and the server that stores *)
(* it: the provider's save queue (SuiteWorkspaceProvider.tsx), the client  *)
(* API (api/workspaces.ts), the workspace routes and the versioned store.  *)
(*                                                                         *)
(* An edit is a mark.  A field (menResults, womenResults, ...) is an array *)
(* that a save replaces as a whole, so its value is the set of marks that  *)
(* the copy it was made from carried, plus the new one.  A save that       *)
(* stores a field without a mark the server had is a lost edit.            *)
(*                                                                         *)
(* A tab talks to the server by request and response; either can be late   *)
(* or lost.  The environment constants say what the network and the user   *)
(* may do beyond that; the README gives the reason for each.               *)
(***************************************************************************)
EXTENDS Naturals, FiniteSets

CONSTANTS
    Tab,            \* provider mounts, each with its own client id
    Field,          \* arrays of the workspace
    Mark,           \* edits; each is made at most once (bound)
    MaxVersion,     \* highest stored version (bound)
    MaxDeletes,     \* how often the workspace may be deleted (bound)
    Overtaking,     \* a save's reply may overtake a list the server sent before
    ListsOverlap,   \* a list may be fetched while another fetch is under way
    EditInReload,   \* the user may edit while a Reload is under way
    MayUnmount,     \* the provider may unmount
    Repeats,        \* a PUT whose connection breaks may be delivered again
    Untouched,      \* a patch that does not carry the field
    NoCopy          \* no workspace: not loaded, or deleted

ASSUME ValuesAssumption ==
    /\ \A s \in SUBSET Mark : s # Untouched
    /\ \A c \in [Field -> SUBSET Mark] : c # NoCopy
    /\ NoCopy \notin Tab
ASSUME BoundsAssumption == MaxVersion \in Nat /\ MaxDeletes \in Nat

Content == [Field -> SUBSET Mark]
Patch   == [Field -> {Untouched} \cup (SUBSET Mark)]
NoPatch == [f \in Field |-> Untouched]

(* { ...p, ...q }: what q carries wins. *)
Merge(p, q)   == [f \in Field |-> IF q[f] = Untouched THEN p[f] ELSE q[f]]
MarksIn(p, f) == IF p[f] = Untouched THEN {} ELSE p[f]

VARIABLES
    content,      \* server: the stored workspace, or NoCopy
    version,      \* server: its version
    lastApplied,  \* server: the sequencer's record for this workspace
    requests,     \* PUTs on their way to the server
    shown,        \* per tab: the copy in the query cache, or NoCopy
    known,        \* per tab: knownVersionRef, 0 for undefined
    pending,      \* per tab: pendingRef
    timer,        \* per tab: whether the debounce timer is armed
    queued,       \* per tab: edits whose callers wait on the pending patch
    conflict,     \* per tab: conflictRef
    save,         \* per tab: the save in flight
    fetch,        \* per tab: the current list fetch
    orphan,       \* per tab: a fetch that a newer one cancelled
    reloading,    \* per tab: reloadWorkspace awaits the current fetch
    removal,      \* per tab: a delete or an undo of one that is under way
    mounted,      \* per tab: the provider is mounted
    outcome,      \* per mark: what its caller was told
    deletes,      \* how many deletes were served (bound)
    everStored,   \* history: marks that some stored copy carried
    servedSeq     \* history: per tab, the highest save number applied

server == <<content, version, lastApplied, deletes, everStored, servedSeq>>
queue  == <<pending, timer, queued>>
lists  == <<fetch, orphan, reloading>>
vars   == <<server, requests, shown, known, queue, conflict, save, lists,
            removal, mounted, outcome>>

-----------------------------------------------------------------------------
(* Types and the initial state: the tabs have just loaded the workspace.   *)

Request == [tab : Tab, seq : Nat, patch : Patch, expected : Nat]
NoRecord == [tab |-> NoCopy, seq |-> 0]

(* No save in flight; `n` is the number of the last one, saveSeqRef. *)
Idle(n) == [phase |-> "idle", seq |-> n, patch |-> NoPatch, waiters |-> {},
            content |-> NoCopy, version |-> 0]
Asked == [phase |-> "asked", content |-> NoCopy, version |-> 0]
NoFetch == [phase |-> "none", content |-> NoCopy, version |-> 0]
NoRemoval == [phase |-> "none", copy |-> NoCopy]

SavePhases == {"idle", "sent", "ok", "conflict", "stale", "error"}
Outcomes == {"unasked", "waiting", "ok", "conflict", "stale", "error", "discarded"}

TypeOK ==
    /\ content \in {NoCopy} \cup Content
    /\ version \in Nat
    /\ lastApplied \in [tab : Tab, seq : Nat] \cup {NoRecord}
    /\ requests \subseteq Request
    /\ shown \in [Tab -> {NoCopy} \cup Content]
    /\ known \in [Tab -> Nat]
    /\ pending \in [Tab -> Patch]
    /\ timer \in [Tab -> BOOLEAN]
    /\ queued \in [Tab -> SUBSET Mark]
    /\ conflict \in [Tab -> BOOLEAN]
    /\ save \in [Tab -> [phase : SavePhases, seq : Nat, patch : Patch,
                         waiters : SUBSET Mark, content : {NoCopy} \cup Content,
                         version : Nat]]
    /\ fetch \in [Tab -> [phase : {"none", "asked", "answered"},
                          content : {NoCopy} \cup Content, version : Nat]]
    /\ orphan \in [Tab -> [phase : {"none", "asked", "answered"},
                           content : {NoCopy} \cup Content, version : Nat]]
    /\ reloading \in [Tab -> BOOLEAN]
    /\ removal \in [Tab -> [phase : {"none", "removed", "undoable", "restored"},
                            copy : {NoCopy} \cup Content]]
    /\ mounted \in [Tab -> BOOLEAN]
    /\ outcome \in [Mark -> Outcomes]
    /\ deletes \in Nat
    /\ everStored \subseteq Mark
    /\ servedSeq \in [Tab -> Nat]

Empty == [f \in Field |-> {}]

Init ==
    /\ content = Empty /\ version = 1
    /\ lastApplied = NoRecord
    /\ requests = {}
    /\ shown = [t \in Tab |-> Empty]
    /\ known = [t \in Tab |-> 1]
    /\ pending = [t \in Tab |-> NoPatch]
    /\ timer = [t \in Tab |-> FALSE]
    /\ queued = [t \in Tab |-> {}]
    /\ conflict = [t \in Tab |-> FALSE]
    /\ save = [t \in Tab |-> Idle(0)]
    /\ fetch = [t \in Tab |-> NoFetch]
    /\ orphan = [t \in Tab |-> NoFetch]
    /\ reloading = [t \in Tab |-> FALSE]
    /\ removal = [t \in Tab |-> NoRemoval]
    /\ mounted = [t \in Tab |-> TRUE]
    /\ outcome = [m \in Mark |-> "unasked"]
    /\ deletes = 0
    /\ everStored = {}
    /\ servedSeq = [t \in Tab |-> 0]

-----------------------------------------------------------------------------
(* The provider: queueing and sending *)

InFlight(t) == save[t].phase # "idle"
Held(t) == InFlight(t) \/ pending[t] # NoPatch \/ timer[t]

Tell(marks, what) ==
    outcome' = [m \in Mark |-> IF m \in marks THEN what ELSE outcome[m]]

(* The synchronous part of sendSave: number the save and issue the PUT     *)
(* with the version known now.  The queued callers travel with it.         *)
Dispatch(t, expected) ==
    LET seq == save[t].seq + 1 IN
    /\ save' = [save EXCEPT ![t] = [phase |-> "sent", seq |-> seq,
           patch |-> pending[t], waiters |-> queued[t],
           content |-> NoCopy, version |-> 0]]
    /\ requests' = requests \cup
           {[tab |-> t, seq |-> seq, patch |-> pending[t], expected |-> expected]}
    /\ pending' = [pending EXCEPT ![t] = NoPatch]
    /\ queued' = [queued EXCEPT ![t] = {}]

(* saveWorkspace: show the edit, merge it into the pending patch and arm   *)
(* the debounce; on a conflict keep it queued and answer at once.          *)
Edit(t, f, m) ==
    LET value == shown[t][f] \cup {m} IN
    /\ mounted[t] /\ shown[t] # NoCopy
    /\ outcome[m] = "unasked"
    /\ reloading[t] => EditInReload
    /\ shown' = [shown EXCEPT ![t] = [@ EXCEPT ![f] = value]]
    /\ pending' = [pending EXCEPT ![t] = [@ EXCEPT ![f] = value]]
    /\ IF conflict[t]
       THEN Tell({m}, "conflict") /\ UNCHANGED <<queued, timer>>
       ELSE /\ Tell({m}, "waiting")
            /\ queued' = [queued EXCEPT ![t] = @ \cup {m}]
            /\ timer' = [timer EXCEPT ![t] = TRUE]
    /\ UNCHANGED <<server, requests, known, conflict, save, lists, removal, mounted>>

(* The debounce timer runs trySave. *)
TimerFires(t) ==
    /\ timer[t]
    /\ timer' = [timer EXCEPT ![t] = FALSE]
    /\ IF ~conflict[t] /\ ~InFlight(t) /\ pending[t] # NoPatch
       THEN Dispatch(t, known[t])
       ELSE UNCHANGED <<save, requests, pending, queued>>
    /\ UNCHANGED <<server, shown, known, conflict, lists, removal, mounted, outcome>>

(* Plausible bugs in FinishSave: the edits queued behind the save hear its *)
(* outcome too; or what queued up meanwhile is left to the next edit.      *)
FinishSaveForAll(t, what, expected) ==
    /\ Tell(save[t].waiters \cup queued[t], what)
    /\ IF pending[t] # NoPatch /\ ~timer[t] /\ ~conflict[t]
       THEN Dispatch(t, expected)
       ELSE /\ save' = [save EXCEPT ![t] = Idle(save[t].seq)]
            /\ UNCHANGED <<requests, pending, queued>>
FinishSaveAndStop(t, what, expected) ==
    /\ Tell(save[t].waiters, what)
    /\ save' = [save EXCEPT ![t] = Idle(save[t].seq)]
    /\ UNCHANGED <<requests, pending, queued>>

(* The `finally` of sendSave, for an outcome that leaves the conflict set  *)
(* alone: answer the callers, and send what queued up meanwhile unless the *)
(* user is still typing.                                                   *)
FinishSave(t, what, expected) ==
    /\ Tell(save[t].waiters, what)
    /\ IF pending[t] # NoPatch /\ ~timer[t] /\ ~conflict[t]
       THEN Dispatch(t, expected)
       ELSE /\ save' = [save EXCEPT ![t] = Idle(save[t].seq)]
            /\ UNCHANGED <<requests, pending, queued>>

SaveSucceeds(t) ==
    LET overtaken == pending[t] # NoPatch \/ timer[t] IN
    /\ save[t].phase = "ok"
    /\ ~Overtaking => \A l \in {fetch[t], orphan[t]} :
           l.phase = "answered" => l.version >= save[t].version
    /\ known' = [known EXCEPT ![t] = save[t].version]
    /\ shown' = IF overtaken \/ shown[t] = NoCopy THEN shown
                ELSE [shown EXCEPT ![t] = save[t].content]
    /\ FinishSave(t, "ok", save[t].version)
    /\ UNCHANGED <<server, timer, conflict, lists, removal, mounted>>

(* StaleSaveError: the stored data is newer and already on screen. *)
SaveIsStale(t) ==
    /\ save[t].phase = "stale"
    /\ FinishSave(t, "stale", known[t])
    /\ UNCHANGED <<server, shown, known, timer, conflict, lists, removal, mounted>>

(* Plausible bugs in SaveConflicts: the refused patch is laid over the     *)
(* newer edits; or the conflict is set too late to stop the next send.     *)
SaveConflictsUnderneath(t) ==
    /\ save[t].phase = "conflict"
    /\ pending' = [pending EXCEPT ![t] = Merge(@, save[t].patch)]
    /\ timer' = [timer EXCEPT ![t] = FALSE]
    /\ conflict' = [conflict EXCEPT ![t] = TRUE]
    /\ Tell(save[t].waiters \cup queued[t], "conflict")
    /\ queued' = [queued EXCEPT ![t] = {}]
    /\ save' = [save EXCEPT ![t] = Idle(save[t].seq)]
    /\ UNCHANGED <<server, requests, shown, known, lists, removal, mounted>>
SaveConflictsAndResends(t) ==
    /\ save[t].phase = "conflict"
    /\ timer' = [timer EXCEPT ![t] = FALSE]
    /\ conflict' = [conflict EXCEPT ![t] = TRUE]
    /\ FinishSave(t, "conflict", known[t])
    /\ UNCHANGED <<server, shown, known, lists, removal, mounted>>

(* VersionConflictError: put the refused patch back under the newer edits, *)
(* pause autosave, and tell the callers queued behind it too.              *)
SaveConflicts(t) ==
    /\ save[t].phase = "conflict"
    /\ pending' = [pending EXCEPT ![t] = Merge(save[t].patch, @)]
    /\ timer' = [timer EXCEPT ![t] = FALSE]
    /\ conflict' = [conflict EXCEPT ![t] = TRUE]
    /\ Tell(save[t].waiters \cup queued[t], "conflict")
    /\ queued' = [queued EXCEPT ![t] = {}]
    /\ save' = [save EXCEPT ![t] = Idle(save[t].seq)]
    /\ UNCHANGED <<server, requests, shown, known, lists, removal, mounted>>

(* A list fetch begins and cancels the one under way, if any: its data is  *)
(* dropped but loadWorkspaces still runs when its response comes.          *)
BeginFetch(t) ==
    /\ fetch' = [fetch EXCEPT ![t] = Asked]
    /\ orphan' = IF fetch[t].phase = "none" THEN orphan
                 ELSE [orphan EXCEPT ![t] = fetch[t]]

MayFetch(t) == fetch[t].phase = "none" \/ ListsOverlap

(* Any other error - an error status, no connection, a lost answer: drop   *)
(* the patch, say so, and refetch to roll back.                            *)
SaveFails(t) ==
    /\ InFlight(t)
    /\ MayFetch(t)
    /\ FinishSave(t, "error", known[t])
    /\ BeginFetch(t)
    /\ UNCHANGED <<server, shown, known, timer, conflict, reloading, removal, mounted>>

(* Plausible bugs in ClearQueuedSave: the patch stays behind; or the       *)
(* callers are forgotten without an answer.                                *)
ClearQueuedTimer(t) ==
    /\ timer' = [timer EXCEPT ![t] = FALSE]
    /\ queued' = [queued EXCEPT ![t] = {}]
    /\ Tell(queued[t], "discarded")
    /\ UNCHANGED pending
ClearQueuedSilently(t) ==
    /\ timer' = [timer EXCEPT ![t] = FALSE]
    /\ pending' = [pending EXCEPT ![t] = NoPatch]
    /\ queued' = [queued EXCEPT ![t] = {}]
    /\ UNCHANGED outcome

(* clearQueuedSave: drop the timer, the patch, and answer its callers. *)
ClearQueuedSave(t) ==
    /\ timer' = [timer EXCEPT ![t] = FALSE]
    /\ pending' = [pending EXCEPT ![t] = NoPatch]
    /\ queued' = [queued EXCEPT ![t] = {}]
    /\ Tell(queued[t], "discarded")

(* reloadWorkspace, up to its await. *)
Reload(t) ==
    /\ mounted[t] /\ conflict[t] /\ MayFetch(t)
    /\ ClearQueuedSave(t)
    /\ known' = [known EXCEPT ![t] = 0]
    /\ BeginFetch(t)
    /\ reloading' = [reloading EXCEPT ![t] = TRUE]
    /\ UNCHANGED <<server, requests, shown, conflict, save, removal, mounted>>

(* refreshWorkspaces, and the refetch when the network reconnects. *)
Refresh(t) ==
    /\ mounted[t] /\ MayFetch(t)
    /\ BeginFetch(t)
    /\ UNCHANGED <<server, requests, shown, known, queue, conflict, save,
                   reloading, removal, mounted, outcome>>

(* Plausible bugs in loadWorkspaces: the version, or the data, is not held *)
(* back for a workspace with unsent edits.                                 *)
KnownAfterUnheld(t, l) ==
    IF l.content = NoCopy \/ (known[t] # 0 /\ l.version <= known[t])
    THEN known[t] ELSE l.version
ShownAfterUnheld(t, l) == l.content

(* loadWorkspaces on a response: move the known version forward unless the *)
(* workspace is held.                                                      *)
KnownAfter(t, l) ==
    IF l.content = NoCopy \/ Held(t) \/ (known[t] # 0 /\ l.version <= known[t])
    THEN known[t] ELSE l.version

(* ... and hand the cache the fetched copy, or the one on screen if held.  *)
ShownAfter(t, l) ==
    IF l.content # NoCopy /\ Held(t) /\ shown[t] # NoCopy
    THEN shown[t] ELSE l.content

(* The current fetch is answered; a Reload that waited clears its conflict. *)
ListArrives(t) ==
    /\ fetch[t].phase = "answered"
    /\ known' = [known EXCEPT ![t] = KnownAfter(t, fetch[t])]
    /\ shown' = [shown EXCEPT ![t] = ShownAfter(t, fetch[t])]
    /\ fetch' = [fetch EXCEPT ![t] = NoFetch]
    /\ conflict' = [conflict EXCEPT ![t] = @ /\ ~reloading[t]]
    /\ reloading' = [reloading EXCEPT ![t] = FALSE]
    /\ UNCHANGED <<server, requests, queue, save, orphan, removal, mounted, outcome>>

(* A cancelled fetch is answered: its queryFn still moves the version. *)
OrphanArrives(t) ==
    /\ orphan[t].phase = "answered"
    /\ known' = [known EXCEPT ![t] = KnownAfter(t, orphan[t])]
    /\ orphan' = [orphan EXCEPT ![t] = NoFetch]
    /\ UNCHANGED <<server, requests, shown, queue, conflict, save, fetch,
                   reloading, removal, mounted, outcome>>

(* The list could not be fetched: the cache stays, and so does a conflict. *)
ListFails(t) ==
    /\ fetch[t].phase # "none"
    /\ fetch' = [fetch EXCEPT ![t] = NoFetch]
    /\ reloading' = [reloading EXCEPT ![t] = FALSE]
    /\ UNCHANGED <<server, requests, shown, known, queue, conflict, save, orphan,
                   removal, mounted, outcome>>

(* deleteWorkspace after the server's answer. *)
DeleteDone(t) ==
    /\ removal[t].phase = "removed"
    /\ ClearQueuedSave(t)
    /\ known' = [known EXCEPT ![t] = 0]
    /\ conflict' = [conflict EXCEPT ![t] = FALSE]
    /\ shown' = [shown EXCEPT ![t] = NoCopy]
    /\ removal' = [removal EXCEPT ![t] = [phase |-> "undoable", copy |-> @.copy]]
    /\ UNCHANGED <<server, requests, save, lists, mounted>>

(* restoreWorkspace after the server's answer: a new document, version 1.  *)
(* If a list brought it back meanwhile, that entry stays the first.        *)
RestoreDone(t) ==
    /\ removal[t].phase = "restored"
    /\ known' = [known EXCEPT ![t] = 1]
    /\ shown' = [shown EXCEPT ![t] = IF @ = NoCopy THEN removal[t].copy ELSE @]
    /\ removal' = [removal EXCEPT ![t] = NoRemoval]
    /\ UNCHANGED <<server, requests, queue, conflict, save, lists, mounted, outcome>>

(* The provider unmounts: timers stop and the queued callers are told. *)
Unmount(t) ==
    /\ MayUnmount /\ mounted[t]
    /\ mounted' = [mounted EXCEPT ![t] = FALSE]
    /\ timer' = [timer EXCEPT ![t] = FALSE]
    /\ queued' = [queued EXCEPT ![t] = {}]
    /\ Tell(queued[t], "discarded")
    /\ UNCHANGED <<server, requests, shown, known, pending, conflict, save, lists, removal>>

-----------------------------------------------------------------------------
(* The server *)

(* Plausible bugs in the server's checks: the number compared across       *)
(* clients; the version refused only when the client is ahead.             *)
IsStaleForAnyone(r) == r.seq <= lastApplied.seq
VersionMovedBack(r) == r.expected # 0 /\ r.expected > version

IsStale(r) == lastApplied.tab = r.tab /\ r.seq <= lastApplied.seq
VersionMoved(r) == r.expected # 0 /\ r.expected # version

(* The PUT route, under the workspace's lock: 409 STALE_SAVE first, then   *)
(* the store's 404 and 409 VERSION_CONFLICT.  A 500 before the write looks *)
(* to the tab like a lost request.                                         *)
Verdict(r) == CASE IsStale(r) -> "stale"
                [] ~IsStale(r) /\ content = NoCopy -> "error"
                [] ~IsStale(r) /\ content # NoCopy /\ VersionMoved(r) -> "conflict"
                [] OTHER -> "ok"

ApplySave(r) ==
    /\ version < MaxVersion
    /\ content' = Merge(content, r.patch)
    /\ version' = version + 1
    /\ lastApplied' = [tab |-> r.tab, seq |-> r.seq]
    /\ everStored' = everStored \cup UNION {MarksIn(r.patch, f) : f \in Field}
    /\ servedSeq' = [servedSeq EXCEPT ![r.tab] = IF r.seq > @ THEN r.seq ELSE @]
    /\ UNCHANGED deletes

(* The answer reaches the tab that still waits for it. *)
Answered(s, kind, c, v) ==
    [phase |-> kind, seq |-> s.seq, patch |-> s.patch, waiters |-> s.waiters,
     content |-> c, version |-> v]

Answer(r) ==
    IF save[r.tab].phase = "sent" /\ save[r.tab].seq = r.seq
    THEN save' = [save EXCEPT ![r.tab] =
             IF Verdict(r) = "ok" THEN Answered(@, "ok", content', version')
             ELSE Answered(@, Verdict(r), NoCopy, 0)]
    ELSE UNCHANGED save

(* A PUT is served; it is answered, or the connection breaks and the       *)
(* browser delivers the idempotent request once more.                      *)
Serve(r) ==
    /\ IF Verdict(r) = "ok" THEN ApplySave(r) ELSE UNCHANGED server
    /\ \/ requests' = requests \ {r} /\ Answer(r)
       \/ Repeats /\ UNCHANGED <<requests, save>>
    /\ UNCHANGED <<shown, known, queue, conflict, lists, removal, mounted, outcome>>

(* A request that never reaches the route; its tab sees an error. *)
RequestLost(r) ==
    /\ requests' = requests \ {r}
    /\ UNCHANGED <<server, shown, known, queue, conflict, save, lists, removal,
                   mounted, outcome>>

(* GET /api/workspaces reads the store. *)
Reading(l) == IF l.phase = "asked"
              THEN [phase |-> "answered", content |-> content, version |-> version]
              ELSE l

ServeList(t) ==
    /\ \/ fetch[t].phase = "asked"
          /\ fetch' = [fetch EXCEPT ![t] = Reading(@)] /\ UNCHANGED orphan
       \/ orphan[t].phase = "asked"
          /\ orphan' = [orphan EXCEPT ![t] = Reading(@)] /\ UNCHANGED fetch
    /\ UNCHANGED <<server, requests, shown, known, queue, conflict, save,
                   reloading, removal, mounted, outcome>>

(* DELETE /api/workspaces/:id: remove, then forget the save numbers. *)
ServeDelete(t) ==
    /\ mounted[t] /\ shown[t] # NoCopy /\ removal[t].phase = "none"
    /\ content # NoCopy /\ deletes < MaxDeletes
    /\ deletes' = deletes + 1
    /\ content' = NoCopy
    /\ lastApplied' = NoRecord
    /\ removal' = [removal EXCEPT ![t] = [phase |-> "removed", copy |-> shown[t]]]
    /\ UNCHANGED <<version, everStored, servedSeq, requests, shown, known, queue,
                   conflict, save, lists, mounted, outcome>>

(* POST /api/workspaces with the deleted copy: a new document, version 1.  *)
ServeRestore(t) ==
    /\ mounted[t] /\ removal[t].phase = "undoable" /\ content = NoCopy
    /\ shown[t] = NoCopy
    /\ content' = removal[t].copy
    /\ version' = 1
    /\ everStored' = everStored \cup UNION {content'[f] : f \in Field}
    /\ removal' = [removal EXCEPT ![t] = [phase |-> "restored", copy |-> @.copy]]
    /\ UNCHANGED <<lastApplied, deletes, servedSeq, requests, shown,
                   known, queue, conflict, save, lists, mounted, outcome>>

(* The snapshot taken before the first edit is restored over the           *)
(* workspace, outside the sequencer.  A delete removes the snapshots too.  *)
RestoreSnapshot ==
    /\ deletes = 0 /\ content \notin {NoCopy, Empty} /\ version < MaxVersion
    /\ content' = Empty
    /\ version' = version + 1
    /\ UNCHANGED <<lastApplied, deletes, everStored, servedSeq, requests, shown,
                   known, queue, conflict, save, lists, removal, mounted, outcome>>

(* The process restarts: the sequencer's memory is gone. *)
Restart ==
    /\ lastApplied # NoRecord
    /\ lastApplied' = NoRecord
    /\ UNCHANGED <<content, version, deletes, everStored, servedSeq, requests,
                   shown, known, queue, conflict, save, lists, removal, mounted, outcome>>

-----------------------------------------------------------------------------
Provider(t) ==
    \/ TimerFires(t)
    \/ SaveSucceeds(t) \/ SaveIsStale(t) \/ SaveConflicts(t)
    \/ ListArrives(t) \/ OrphanArrives(t)
    \/ DeleteDone(t) \/ RestoreDone(t)

User(t) ==
    \/ \E f \in Field, m \in Mark : Edit(t, f, m)
    \/ Reload(t) \/ Refresh(t) \/ Unmount(t)

Next ==
    \/ \E t \in Tab : Provider(t) \/ User(t) \/ SaveFails(t) \/ ListFails(t)
    \/ \E r \in requests : Serve(r) \/ RequestLost(r)
    \/ \E t \in Tab : ServeList(t) \/ ServeDelete(t) \/ ServeRestore(t)
    \/ RestoreSnapshot
    \/ Restart

Spec == Init /\ [][Next]_vars

(* Timers fire, and the browser does not wait for ever: a request is       *)
(* answered or ends in a network error, and what came is handled.          *)
SaveEnds(t) == SaveSucceeds(t) \/ SaveIsStale(t) \/ SaveConflicts(t) \/ SaveFails(t)

Fairness == \A t \in Tab : WF_vars(TimerFires(t)) /\ WF_vars(SaveEnds(t))

FairSpec == Spec /\ Fairness

-----------------------------------------------------------------------------
(* Properties *)

(* VERSION_CONFLICT exists so that a save cannot silently overwrite a      *)
(* change its tab has not seen: applying a save never removes a mark.      *)
NoUnseenOverwrite ==
    [][(requests' # requests /\ content # NoCopy /\ content' # NoCopy)
          => \A f \in Field : content[f] \subseteq content'[f]]_vars

(* A tab that knows the stored version has every stored change on screen,  *)
(* edits of its own besides: an edit made to that copy cannot undo         *)
(* another's, so the version is a safe thing to save against.              *)
KnownVersionIsSeen ==
    \A t \in Tab :
        (content # NoCopy /\ shown[t] # NoCopy /\ known[t] = version)
        => \A f \in Field : content[f] \subseteq shown[t][f]

(* Edits that are queued or in flight stay on screen, whatever refetch or  *)
(* reply comes in, unless the workspace itself is gone.                    *)
HeldEditsStayOnScreen ==
    \A t \in Tab : shown[t] # NoCopy =>
        \A f \in Field :
            /\ MarksIn(pending[t], f) \subseteq shown[t][f]
            /\ InFlight(t) /\ ~reloading[t] =>
                   MarksIn(save[t].patch, f) \subseteq shown[t][f]

(* "ok" is only told of an edit that was stored; and so is "stale" ("your  *)
(* latest changes are saved"), although the save itself was refused.       *)
SavedMeansStored == \A m \in Mark : outcome[m] \in {"ok", "stale"} => m \in everStored

(* "Nothing was written": an edit whose caller was told conflict or        *)
(* discarded was not stored before and is not stored later.                *)
RefusedMeansNotStored ==
    \A m \in Mark : outcome[m] \in {"conflict", "discarded"} => m \notin everStored

(* A refused edit stays queued in its tab until Reload or a delete drops   *)
(* it: no step that leaves the tab in conflict loses a mark that was       *)
(* pending or on its way.                                                  *)
ConflictKeepsEdits ==
    [][\A t \in Tab : \A f \in Field :
          (conflict'[t] /\ ~reloading'[t])
          => /\ MarksIn(pending[t], f) \subseteq MarksIn(pending'[t], f)
             /\ MarksIn(save[t].patch, f) \subseteq MarksIn(pending'[t], f)
                                                     \cup MarksIn(save'[t].patch, f)]_vars

(* The saves of one tab are applied in the order they were sent. *)
AppliedInSendOrder ==
    [][\A r \in requests \ requests' :
          version' > version => r.seq > servedSeq[r.tab]]_vars

(* A paused tab sends nothing: while in conflict no save is in flight. *)
PausedTabIsSilent == \A t \in Tab : conflict[t] => ~InFlight(t)

(* Nobody waits for nothing: a caller that has no answer has its edit in a *)
(* save in flight, or queued where a timer or a save in flight takes it    *)
(* up - whatever was reloaded, deleted or unmounted meanwhile.             *)
WaitersAreServed ==
    \A m \in Mark : outcome[m] = "waiting" =>
        \E t \in Tab : \/ InFlight(t) /\ m \in save[t].waiters
                       \/ m \in queued[t] /\ (timer[t] \/ InFlight(t))

(* saveWorkspace never leaves its caller waiting, and no edit is left      *)
(* queued for ever: it is sent, dropped, or its tab is paused on a         *)
(* conflict or gone.                                                       *)
EditsSettle ==
    /\ \A m \in Mark : outcome[m] = "waiting" ~> outcome[m] # "waiting"
    /\ \A t \in Tab : (mounted[t] /\ pending[t] # NoPatch)
           ~> (pending[t] = NoPatch \/ conflict[t] \/ ~mounted[t])

(* The saves keep the promises of the ledger: see EditLedger. *)
Ledger == INSTANCE EditLedger WITH Edits <- Mark, told <- outcome, stored <- everStored
LedgerSpec == Ledger!Spec

=============================================================================
