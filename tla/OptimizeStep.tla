---------------------------- MODULE OptimizeStep ----------------------------
(***************************************************************************)
(* The Optimize step: a run of one team's optimizer in a worker, the apply *)
(* of its result and the one Undo of it, while the coach edits, moves on,  *)
(* and saves come back (RosterOptimizeStep, useOptimizeRun, optimizeRunView, *)
(* optimizerUndo, optimizeClient).                                         *)
(*                                                                         *)
(* Changes go to the cache at once and are painted in a later task; the    *)
(* step reads what is painted, its handlers and effects run with a paint.  *)
(* An action of the coach's that renders paints the newest cache.  Saves   *)
(* are those of WorkspaceSave, seen from here: what a workspace holds is   *)
(* stored, or the server's copy comes back.  Left out: the All-teams       *)
(* dialog, the scan, the view of the other gender, and what a run reads    *)
(* besides the lineup (rosters, relay legs).                               *)
(***************************************************************************)
EXTENDS Naturals, FiniteSets

CONSTANTS
  Workspace,  \* what the step can show
  Mark,       \* edits of the coach
  MaxApplied  \* bound: runs of a behaviour

Run == 1 .. MaxApplied

VARIABLES
  cached,   \* the workspaces in the query cache
  stored,   \* ... and on the server
  unsaved,  \* workspaces with changes the server has not
  painted,  \* ... and as the step last rendered them
  view,     \* the workspace it shows
  jobs,     \* the runs, each with its worker
  summary,  \* lastRunSummary, with its Undo
  flow,     \* undoFlow
  blocked,  \* undoBlocked
  claim     \* history: the Undo that was announced in this view, with no edit since

ovars == <<cached, stored, unsaved, painted, view, jobs, summary, flow, blocked, claim>>

(* The three arrays a run writes: the workspace they were made for, the    *)
(* coach's edits in them and the last run.                                 *)
Lineup == [home : Workspace, marks : SUBSET Mark, run : 0 .. MaxApplied]
Fresh(w) == [home |-> w, marks |-> {}, run |-> 0]

First == CHOOSE w \in Workspace : TRUE
NoUndo == [ws |-> First, patch |-> Fresh(First), applied |-> Fresh(First)]
NoSummary == [shown |-> FALSE, undo |-> NoUndo]
NoFlow == [phase |-> "none", undo |-> NoUndo]
Unused == [at |-> "unused", posted |-> "nothing", ws |-> First, input |-> Fresh(First), moved |-> FALSE, seen |-> FALSE,
           other |-> FALSE]   \* the Strategy shown is another than the run's

Done == [Unused EXCEPT !.at = "settled"]

Init ==
  /\ cached = [w \in Workspace |-> Fresh(w)] /\ stored = cached /\ painted = cached
  /\ unsaved = {}
  /\ view = First
  /\ jobs = [i \in Run |-> Unused]
  /\ summary = NoSummary /\ flow = NoFlow /\ blocked = FALSE /\ claim = NoUndo

(* optimizerUndoIsClean, optimizerUndoTargetReached: by content. *)
Clean(undo, lineup) == lineup = undo.applied
Reached(undo, lineup) == lineup = undo.patch

(* The cache holds new objects for what changed, the same ones otherwise:  *)
(* runs that were started from the old ones have moved inputs.             *)
Moved(w, lineup, of) ==
  [i \in Run |-> IF of[i].at = "running" /\ of[i].ws = w /\ lineup # cached[w]
                 THEN [of[i] EXCEPT !.moved = TRUE] ELSE of[i]]
Writes(w, lineup) == cached' = [cached EXCEPT ![w] = lineup] /\ unsaved' = unsaved \cup {w}
-----------------------------------------------------------------------------
(* A plausible bug: an Undo that has settled is not watched any further. *)
ObservedOnce(f, s, lineup, ws) ==
  CASE f.phase = "pending" /\ f.undo.ws = ws /\ Reached(f.undo, lineup) ->
         [flow |-> NoFlow, summary |-> NoSummary, claim |-> f.undo]
    [] OTHER -> [flow |-> f, summary |-> s, claim |-> claim]

(* The Undo's observer, after a render: claims the Undo when the lineup is *)
(* back, and puts it within reach again when its save failed.              *)
Observed(f, s, lineup, ws) ==
  CASE f.phase = "none" -> [flow |-> f, summary |-> s, claim |-> claim]
    [] f.phase # "none" /\ f.undo.ws # ws -> [flow |-> NoFlow, summary |-> s, claim |-> claim]
    [] f.phase = "pending" /\ f.undo.ws = ws ->
         IF Reached(f.undo, lineup)
         THEN [flow |-> [f EXCEPT !.phase = "settled"], summary |-> NoSummary, claim |-> f.undo]
         ELSE [flow |-> f, summary |-> s, claim |-> claim]
    [] f.phase = "settled" /\ f.undo.ws = ws ->
         IF Clean(f.undo, lineup)
         THEN [flow |-> [f EXCEPT !.phase = "pending"], summary |-> [shown |-> TRUE, undo |-> f.undo], claim |-> claim]
         ELSE [flow |-> IF Reached(f.undo, lineup) THEN f ELSE NoFlow, summary |-> s, claim |-> claim]

(* A render of the lineups `all`, and the effects that follow it. *)
Renders(f, s, of, all) ==
  LET seen == Observed(f, s, all[view], view)
  IN /\ painted' = all
     /\ jobs' = [i \in Run |-> [of[i] EXCEPT !.seen = of[i].moved]]
     /\ flow' = seen.flow /\ summary' = seen.summary /\ claim' = seen.claim
     /\ blocked' = (blocked /\ seen.summary.undo = summary.undo)

Paint ==
  /\ painted # cached \/ \E i \in Run : jobs[i].seen # jobs[i].moved
  /\ Renders(flow, summary, jobs, cached)
  /\ UNCHANGED <<cached, stored, unsaved, view>>

(* What is left of a job that is settled: a message on its way, if any. *)
Settled(job) == IF job.posted = "nothing" THEN Done ELSE [job EXCEPT !.at = "settled", !.moved = FALSE, !.seen = FALSE, !.other = FALSE]
Aborted == [i \in Run |-> IF jobs[i].at = "running" THEN Settled(jobs[i]) ELSE jobs[i]]

(* Another workspace, or another team of the same: the run is cancelled,   *)
(* the summary and the watch of an Undo are dropped.                       *)
Show(ws) ==
  /\ view' = ws
  /\ painted' = cached
  /\ jobs' = Aborted
  /\ summary' = NoSummary /\ flow' = NoFlow /\ blocked' = FALSE /\ claim' = NoUndo
  /\ UNCHANGED <<cached, stored, unsaved>>

(* Another Strategy, or the same again, stops nothing: it is compared when *)
(* the result comes.  A Quick optimize is a run whose Strategy stays.      *)
PickMode(i) ==
  /\ jobs[i].at = "running"
  /\ Renders(flow, summary, [jobs EXCEPT ![i].other = ~@], cached)
  /\ UNCHANGED <<cached, stored, unsaved, view>>

(* The coach edits the lineup he sees. *)
Edit(m) ==
  LET new == [cached[view] EXCEPT !.marks = @ \cup {m}]
  IN /\ painted = cached /\ new # cached[view]
     /\ Writes(view, new) /\ jobs' = Moved(view, new, jobs)
     /\ claim' = NoUndo
     /\ UNCHANGED <<stored, painted, view, summary, flow, blocked>>

Saved(w) ==
  /\ w \in unsaved
  /\ stored' = [stored EXCEPT ![w] = cached[w]] /\ unsaved' = unsaved \ {w}
  /\ UNCHANGED <<cached, painted, view, jobs, summary, flow, blocked, claim>>

(* The save of all that was unsaved fails and the list is fetched again. *)
SaveLost(w) ==
  /\ w \in unsaved
  /\ cached' = [cached EXCEPT ![w] = stored[w]] /\ unsaved' = unsaved \ {w}
  /\ jobs' = Moved(w, stored[w], jobs)
  /\ UNCHANGED <<stored, painted, view, summary, flow, blocked, claim>>
-----------------------------------------------------------------------------
(* applyTeam, applyLegacy: a run of what is painted, for what is shown. *)
Start(i) ==
  /\ \A j \in Run : jobs[j].at # "running" /\ (j < i => jobs[j].at # "unused")
  /\ jobs[i].at = "unused"
  /\ jobs' = [jobs EXCEPT ![i] = [Unused EXCEPT !.at = "running", !.ws = view, !.input = painted[view],
                                                !.moved = painted[view] # cached[view]]]
  /\ UNCHANGED <<cached, stored, unsaved, painted, view, summary, flow, blocked, claim>>

Cancel ==
  /\ \E i \in Run : jobs[i].at = "running"
  /\ jobs' = Aborted
  /\ UNCHANGED <<cached, stored, unsaved, painted, view, summary, flow, blocked, claim>>

(* The worker posts its result; or fails, before its first message was     *)
(* heard or after; or what it posted cannot be read, which is as failing.  *)
Post(i) ==
  /\ jobs[i].at = "running" /\ jobs[i].posted = "nothing"
  /\ \E what \in {"result", "no start", "failure"} : jobs' = [jobs EXCEPT ![i].posted = what]
  /\ UNCHANGED <<cached, stored, unsaved, painted, view, summary, flow, blocked, claim>>

(* A plausible bug: an abort leaves the handlers in place. *)
ListensOn(i) == jobs[i].at # "unused"

(* finish() takes the handlers away: what was already posted goes unheard. *)
Listens(i) == jobs[i].at = "running"

(* Plausible bugs: an edit made meanwhile is overlooked; or the Strategy. *)
MovedOnByView(i) == jobs[i].ws # view \/ jobs[i].other
MovedOnByInputs(i) == jobs[i].seen \/ jobs[i].ws # view

(* optimizerInputsMoved, teamRunContextChanged: as painted by now. *)
MovedOn(i) == jobs[i].seen \/ jobs[i].ws # view \/ jobs[i].other

UndoOf(i) ==
  [ws |-> jobs[i].ws, patch |-> jobs[i].input,
   applied |-> [jobs[i].input EXCEPT !.run = i]]

(* A result is applied in the view the run was started for, over the       *)
(* inputs it was started from; it replaces the lineup as a whole.  A       *)
(* worker that never started has the job run in this thread.               *)
Deliver(i) ==
  LET ended == [jobs EXCEPT ![i] = Done]
      to == UndoOf(i).applied
      Records(undo) == summary' = [shown |-> TRUE, undo |-> undo] /\ flow' = NoFlow /\ claim' = NoUndo /\ blocked' = FALSE
  IN /\ Listens(i) /\ jobs[i].posted # "nothing"
     /\ \/ /\ jobs[i].posted = "failure" \/ MovedOn(i)
           /\ jobs' = ended /\ UNCHANGED <<cached, unsaved, summary, flow, blocked, claim>>
        \/ /\ jobs[i].posted # "failure" /\ ~MovedOn(i)
           /\ \/ Records(NoUndo) /\ jobs' = ended /\ UNCHANGED <<cached, unsaved>>          \* nothing better
              \/ Records(UndoOf(i)) /\ Writes(view, to) /\ jobs' = Moved(view, to, ended)
     /\ UNCHANGED <<stored, painted, view>>
-----------------------------------------------------------------------------
(* A plausible bug: the Undo does not look at the lineup first. *)
MayUndoAlways(undo) == TRUE

(* optimizerUndoState: unless told to go on, only what the run left. *)
MayUndo(undo) == blocked \/ Clean(undo, painted[view])

(* handleUndoOptimize, and the button "Undo anyway" once it was refused.   *)
(* Writing the Undo renders the step; the observer runs at once.           *)
Undo ==
  LET undo == summary.undo
      to == undo.patch
      watch == [phase |-> "pending", undo |-> undo]
  IN /\ undo # NoUndo
     /\ IF undo.ws # view
        THEN summary' = NoSummary /\ flow' = NoFlow /\ blocked' = FALSE
             /\ UNCHANGED <<cached, unsaved, painted, jobs, claim>>
        ELSE IF MayUndo(undo)
        THEN Writes(view, to)
             /\ Renders(watch, summary, Moved(view, to, jobs), [cached EXCEPT ![view] = to])
        ELSE blocked' = TRUE /\ UNCHANGED <<cached, unsaved, painted, jobs, summary, flow, claim>>
     /\ UNCHANGED <<stored, view>>

Dismiss ==
  /\ summary.shown
  /\ summary' = NoSummary /\ flow' = NoFlow /\ blocked' = FALSE /\ claim' = NoUndo
  /\ UNCHANGED <<cached, stored, unsaved, painted, view, jobs>>

Next ==
  \/ Paint \/ Cancel \/ Undo \/ Dismiss
  \/ \E ws \in Workspace : Show(ws)
  \/ \E m \in Mark : Edit(m)
  \/ \E w \in Workspace : Saved(w) \/ SaveLost(w)
  \/ \E i \in Run : Start(i) \/ PickMode(i) \/ Post(i) \/ Deliver(i)

Spec == Init /\ [][Next]_ovars
-----------------------------------------------------------------------------
TypeOK ==
  /\ cached \in [Workspace -> Lineup] /\ stored \in [Workspace -> Lineup] /\ painted \in [Workspace -> Lineup]
  /\ unsaved \subseteq Workspace
  /\ view \in Workspace
  /\ \A i \in Run : jobs[i].at \in {"unused", "running", "settled"}
  /\ flow.phase \in {"none", "pending", "settled"} /\ summary.shown \in BOOLEAN /\ blocked \in BOOLEAN

(* An edit goes only when its save fails, by "Undo anyway", or by what the *)
(* live view lets pass: a result or an Undo that comes between an edit of  *)
(* the shown lineup and its paint.  That takes only what is not painted    *)
(* yet; an edit on screen no result, late or not, takes away.              *)
EditsOutliveRuns ==
  \A w \in Workspace :
    LET gone == cached[w].marks \ cached'[w].marks
    IN \/ gone = {} \/ SaveLost(w) \/ (Undo /\ blocked)
       \/ /\ w = view /\ gone \cap painted[w].marks = {}
          /\ Undo \/ \E i \in Run : Deliver(i) /\ jobs[i].moved /\ ~jobs[i].seen

(* A run writes once, before it is cancelled, where and as it was asked.   *)
RunsAreApplied ==
  \A w \in Workspace, i \in Run :
    cached'[w].run = i /\ cached[w].run # i /\ ~SaveLost(w) /\ ~Undo =>
      jobs[i].at = "running" /\ jobs[i].ws = w /\ w = view /\ ~jobs[i].other

(* Whoever was told "Undid" and sees the optimized lineup again, in the    *)
(* same view and with no edit of his own since, has the Undo in reach.     *)
UndoneOrInReach ==
  claim # NoUndo /\ Clean(claim, painted[view]) => summary = [shown |-> TRUE, undo |-> claim]

(* What the step does to a lineup, the coach asked for and can undo, and   *)
(* painted edits stay; and no workspace is given another's lineup.         *)
LineupIsTheCoachs ==
  [][/\ EditsOutliveRuns /\ RunsAreApplied /\ UndoneOrInReach
     /\ \A w \in Workspace : cached'[w].home = w]_ovars
=============================================================================
