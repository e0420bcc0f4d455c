--------------------------- MODULE MultiTeamCrawl ---------------------------
(***************************************************************************)
(* The multi-team crawl of the browser extension: multiTeamQueue.ts and    *)
(* multiTeamDriver.ts, with the rate-limit and error rules they ask, the   *)
(* app's answers through multiTeamApp.ts and the panel's buttons.          *)
(*                                                                         *)
(* One run reads every team's season list, lets the user choose, then      *)
(* fetches rosters and after them each listed swimmer once, filing the one *)
(* reply in the capture of every team that lists the swimmer.  A run can   *)
(* be paused, cancelled, halted by the site or by the app, or end with its *)
(* tab at any moment.  What is filed is remembered per selection of teams, *)
(* and a later run of the selection skips it.  The crawl lock admits one   *)
(* run at a time, in every tab.                                            *)
(*                                                                         *)
(* The order of teams, rosters and swimmers within their turn is left      *)
(* open, each team has one season, and the capture of the season-list page *)
(* itself is not kept: only what is filed for the seasons is.              *)
(***************************************************************************)
EXTENDS Naturals, FiniteSets

CONSTANTS
  Team,        \* the teams of the pasted links
  Gender,      \* one roster page each (the code's M and F)
  Swimmer,
  Seasons,     \* the page with a team's season list
  MaxRetries,  \* MAX_RATE_LIMIT_RETRIES
  StopAfter429,    \* CONSECUTIVE_429_HALT
  StopAfterLost,   \* RELAY_FAILURE_STOP_THRESHOLD
  MaxRuns,     \* bound: runs started
  MaxRemovals  \* bound: captures the user removes

ASSUME CountAssumption ==
  /\ MaxRetries \in Nat /\ MaxRuns \in Nat /\ MaxRemovals \in Nat
  /\ StopAfter429 \in Nat \ {0} /\ StopAfterLost \in Nat \ {0}
ASSUME PageAssumption ==
  /\ Gender \cap Swimmer = {} /\ Seasons \notin Gender \cup Swimmer
  /\ IsFiniteSet(Gender) /\ IsFiniteSet(Swimmer)

VARIABLES
  held,     \* the pages in the app's capture of each team's season
  mark,     \* the completeness each capture was last given
  saved,    \* chrome.storage.local: for a selection, the <<swimmer, team>> filed
  run,      \* the run in progress: its context, its queue and its buttons
  runs,     \* history: runs started
  listed,   \* history: the swimmers each team's rosters listed, since it was last opened
  refused,  \* history: answers 429 in a row in this run
  removed   \* history: teams whose capture was removed in the app

app == <<held, mark>>
history == <<runs, listed, refused, removed>>
vars == <<held, mark, saved, run, runs, listed, refused, removed>>
-----------------------------------------------------------------------------
Page == Gender \cup Swimmer \cup {Seasons}
Status == {"absent", "pending", "in-flight", "done", "failed", "skipped"}
Places == {"off", "read", "choose", "open", "loop", "wait", "reply", "file", "settle", "mark"}
Outcomes == {"none", "completed", "cancelled", "halted"}
Keys == Swimmer \X Team

NoRun ==
  [at |-> "off", outcome |-> "none", paused |-> FALSE, cancelled |-> FALSE,
   toRead |-> Team,       \* teams whose season list is still to be read
   offers |-> {},         \* teams whose season list was read
   chosen |-> {},         \* the teams of the queue
   opened |-> {},         \* those whose capture was opened
   atStart |-> {},        \* the saved progress the run began with
   roster |-> [t \in Team |-> [g \in Gender |-> "absent"]],
   swimmer |-> [s \in Swimmer |-> "absent"],
   listers |-> [s \in Swimmer |-> {}],   \* attributions: the teams that list a swimmer
   page |-> Seasons,      \* the page in flight and, but for a swimmer, its team
   of |-> {},
   attempt |-> 0,         \* its requests so far
   toFile |-> {},         \* captures its reply is still to be relayed to
   clean |-> FALSE,       \* the reply is the page that was asked for
   missed |-> FALSE,      \* a relay of it did not land
   landed |-> [t \in Team |-> {}],       \* pages the app took in this run
   planned |-> [t \in Team |-> 0],       \* the page count the app was told
   corrected |-> FALSE,
   recent429 |-> 0,       \* pages in a row given up after 429
   lost |-> 0]            \* relays in a row that did not land

Init ==
  /\ held = [t \in Team |-> {}]
  /\ mark = [t \in Team |-> "none"]
  /\ saved = [c \in SUBSET Team |-> {}]
  /\ run = NoRun
  /\ runs = 0
  /\ listed = [t \in Team |-> {}]
  /\ refused = 0
  /\ removed = {}

At(place) == run.at = place
-----------------------------------------------------------------------------
(* The panel.  Pause means nothing to a cancelled run: gate asks Cancel     *)
(* first.                                                                  *)

(* gate, holding while paused *)
Passes == ~run.paused /\ ~run.cancelled

(* "Read season lists" takes the crawl lock and builds a run context. *)
Start ==
  /\ At("off") /\ runs < MaxRuns
  /\ runs' = runs + 1
  /\ run' = [NoRun EXCEPT !.at = "read"]
  /\ UNCHANGED <<app, saved, listed, refused, removed>>

TogglePause ==
  /\ ~At("off") /\ ~run.cancelled
  /\ run' = [run EXCEPT !.paused = ~run.paused]
  /\ UNCHANGED <<app, saved, history>>

Cancel ==
  /\ ~At("off") /\ ~run.cancelled
  /\ run' = [run EXCEPT !.cancelled = TRUE, !.paused = FALSE]
  /\ UNCHANGED <<app, saved, history>>

(* "Forget saved progress": hidden in the panel that crawls, not in the    *)
(* panel of another tab.                                                   *)
Forget(c) ==
  /\ saved[c] # {}
  /\ saved' = [saved EXCEPT ![c] = {}]
  /\ UNCHANGED <<app, run, history>>

(* The tab is closed, or leaves the page: the run is gone, its lock too. *)
CloseTab ==
  /\ ~At("off")
  /\ run' = NoRun
  /\ refused' = 0
  /\ UNCHANGED <<app, saved, runs, listed, removed>>
(* The user deletes a team's capture in the app, pages and all.  That the  *)
(* extension crawls meanwhile is left out: this happens between runs.      *)
RemoveCapture(t) ==
  /\ At("off") /\ mark[t] # "none"
  /\ Cardinality(removed) < MaxRemovals
  /\ held' = [held EXCEPT ![t] = {}]
  /\ mark' = [mark EXCEPT ![t] = "none"]
  /\ removed' = removed \cup {t}
  /\ UNCHANGED <<saved, run, runs, listed, refused>>
-----------------------------------------------------------------------------
(* The run up to its queue *)

Ended(r, how) == [r EXCEPT !.at = "mark", !.outcome = how]

Fetching(r, page, teams) ==
  [r EXCEPT !.at = "wait", !.page = page, !.of = teams, !.attempt = 1, !.clean = FALSE, !.missed = FALSE]

(* readSeasonLists: the next team's page, if the app opened its capture. *)
ReadSeasons(t) ==
  /\ At("read") /\ t \in run.toRead /\ Passes
  /\ LET r == [run EXCEPT !.toRead = @ \ {t}]
     IN  run' \in {Fetching(r, Seasons, {t}), Ended(r, "halted")}
  /\ UNCHANGED <<app, saved, history>>

(* askForChoices *)
AskChoice ==
  /\ At("read") /\ run.toRead = {} /\ ~run.cancelled
  /\ run' = IF run.offers = {} THEN Ended(run, "completed") ELSE [run EXCEPT !.at = "choose"]
  /\ UNCHANGED <<app, saved, history>>

(* The user's choice, loadFinished (which may find storage unreadable) and *)
(* createQueue.  A team whose page does not offer the season gets no work, *)
(* like one that is not chosen.                                            *)
Choose(c) ==
  /\ At("choose") /\ ~run.cancelled
  /\ c \subseteq run.offers
  /\ \E finished \in {saved[c], {}} :
       run' = IF c = {} THEN Ended(run, "completed")
              ELSE [run EXCEPT
                     !.at = "open", !.chosen = c, !.offers = {}, !.atStart = finished,
                     !.roster = [t \in Team |-> [g \in Gender |-> IF t \in c THEN "pending" ELSE "absent"]]]
  /\ UNCHANGED <<app, saved, history>>

(* openSeasonCaptures: every capture in progress again before the first    *)
(* roster.  Without the app's answer, whatever it did, the run halts.      *)
OpenSeason(t) ==
  /\ At("open") /\ t \in run.chosen \ run.opened
  /\ \/ /\ mark' = [mark EXCEPT ![t] = "in-progress"]
        /\ listed' = [listed EXCEPT ![t] = {}]
        /\ run' = [run EXCEPT !.opened = @ \cup {t}, !.planned[t] = Cardinality(Gender),
                              !.at = IF run.chosen = run.opened \cup {t} THEN "loop" ELSE "open"]
     \/ /\ run' = Ended(run, "halted")
        /\ mark' \in {mark, [mark EXCEPT ![t] = "in-progress"]}
        /\ UNCHANGED listed
  /\ UNCHANGED <<held, saved, runs, refused, removed>>

(* A plausible bug: Cancel does not answer the question for seasons. *)
StopCancelledUnlessChoosing ==
  /\ At("read") \/ At("loop")
  /\ run.cancelled
  /\ run' = Ended(run, "cancelled")
  /\ UNCHANGED <<app, saved, history>>

(* A cancelled run stops at its next gate, or with an empty choice. *)
StopCancelled ==
  /\ At("read") \/ At("choose") \/ At("loop")
  /\ run.cancelled
  /\ run' = Ended(run, "cancelled")
  /\ UNCHANGED <<app, saved, history>>
-----------------------------------------------------------------------------
(* The queue loop *)

PendingRosters == {p \in Team \X Gender : run.roster[p[1]][p[2]] = "pending"}
PendingSwimmers == {s \in Swimmer : run.swimmer[s] = "pending"}

SwimmersOf(r, t) == {s \in Swimmer : t \in r.listers[s]}
Skipped(r, t) == {s \in SwimmersOf(r, t) : r.swimmer[s] = "skipped"}

(* correctPlannedCounts, once: the app may not take a team's new count. *)
Corrections ==
  IF run.corrected THEN {run}
  ELSE {[run EXCEPT !.corrected = TRUE,
                    !.planned = [t \in Team |-> IF t \in took
                                                THEN Cardinality(Gender) + Cardinality(SwimmersOf(run, t))
                                                ELSE run.planned[t]]] : took \in SUBSET run.chosen}

NextRoster(t, g) ==
  /\ At("loop") /\ Passes
  /\ <<t, g>> \in PendingRosters
  /\ run' = Fetching([run EXCEPT !.roster[t][g] = "in-flight"], g, {t})
  /\ UNCHANGED <<app, saved, history>>

NextSwimmer(s) ==
  /\ At("loop") /\ Passes
  /\ PendingRosters = {} /\ s \in PendingSwimmers
  /\ \E r \in Corrections : run' = Fetching([r EXCEPT !.swimmer[s] = "in-flight"], s, {})
  /\ UNCHANGED <<app, saved, history>>

(* A plausible bug: a failed roster is not a failure. *)
NoSwimmerFailed == \A s \in Swimmer : run.swimmer[s] # "failed"

NoFailure ==
  /\ \A t \in run.chosen, g \in Gender : run.roster[t][g] # "failed"
  /\ \A s \in Swimmer : run.swimmer[s] # "failed"

(* A plausible bug: a failed item counts as open. *)
DrainIfClean ==
  /\ At("loop") /\ Passes
  /\ PendingRosters = {} /\ PendingSwimmers = {} /\ NoFailure
  /\ run' = Ended(run, "completed")
  /\ saved' = [saved EXCEPT ![run.chosen] = {}]
  /\ UNCHANGED <<app, history>>

(* Drained: clearIfClean forgets the saved progress of a clean crawl. *)
Drain ==
  /\ At("loop") /\ Passes
  /\ PendingRosters = {} /\ PendingSwimmers = {}
  /\ \E r \in Corrections : run' = Ended(r, "completed")
  /\ saved' \in {saved} \cup (IF NoFailure THEN {[saved EXCEPT ![run.chosen] = {}]} ELSE {})
  /\ UNCHANGED <<app, history>>
-----------------------------------------------------------------------------
(* One page: fetchPaced, screenPage and relayTo *)

IsRoster == run.page \in Gender
IsSwimmer == run.page \in Swimmer

(* The item's entry; a season list has none. *)
With(r, status) ==
  CASE IsRoster  -> [r EXCEPT !.roster = [t \in Team |-> IF t \in run.of THEN [r.roster[t] EXCEPT ![run.page] = status]
                                                         ELSE r.roster[t]]]
    [] IsSwimmer -> [r EXCEPT !.swimmer[run.page] = status]
    [] OTHER     -> r

Back(r) == [r EXCEPT !.at = IF IsRoster \/ IsSwimmer THEN "loop" ELSE "read"]
Failed(r) == Back(With(r, "failed"))
Halted(r) == Ended(With(r, "failed"), "halted")

(* paceWait, and the end of a wait before a retry *)
Request ==
  /\ At("wait") /\ Passes
  /\ run' = [run EXCEPT !.at = "reply"]
  /\ UNCHANGED <<app, saved, history>>

AbortFetch ==
  /\ At("wait") /\ run.cancelled
  /\ run' = Failed(run)
  /\ UNCHANGED <<app, saved, history>>

(* The subjects of the item: a swimmer is filed under every team that lists it. *)
Subjects == IF IsSwimmer THEN run.listers[run.page] ELSE run.of

Filing(r, clean) == [r EXCEPT !.at = "file", !.toFile = Subjects, !.clean = clean]

(* 429, and it may be asked for again *)
RetryAfter429 ==
  /\ At("reply") /\ run.attempt <= MaxRetries
  /\ run' = [run EXCEPT !.at = "wait", !.attempt = @ + 1]
  /\ refused' = refused + 1
  /\ UNCHANGED <<app, saved, runs, listed, removed>>

(* A plausible bug: the pages given up are not counted. *)
GiveUpUncounted ==
  /\ At("reply")
  /\ run' = Filing(run, FALSE)
  /\ refused' = refused + 1
  /\ UNCHANGED <<app, saved, runs, listed, removed>>

(* 429, and it is given up: too many requests, or too long a Retry-After *)
GiveUpAfter429 ==
  /\ At("reply")
  /\ LET r == [run EXCEPT !.recent429 = @ + 1]
     IN  run' = IF r.recent429 >= StopAfter429 THEN Halted(r) ELSE Filing(r, FALSE)
  /\ refused' = refused + 1
  /\ UNCHANGED <<app, saved, runs, listed, removed>>

(* Any other answer ends the streak of pages given up after 429. *)
Answered == [run EXCEPT !.recent429 = 0]

Answer(r) ==
  /\ At("reply")
  /\ run' = r
  /\ refused' = 0
  /\ UNCHANGED <<app, saved, runs, listed, removed>>

(* The page asked for, or a status such as 404, which is filed too. *)
AnswerFiled == \E clean \in BOOLEAN : Answer(Filing(Answered, clean))

(* Another page than the one asked for, which is not filed. *)
AnswerRefused == Answer(Failed(Answered))

(* 403, 5xx, no answer at all, or a challenge page: it stops the crawl. *)
AnswerStops == Answer(Halted(Answered))

(* The app keeps the newest clean reply of a page; an error never replaces *)
(* it.  (captureStore.ts)                                                  *)
Store(t) ==
  held' = IF run.clean /\ run.page # Seasons THEN [held EXCEPT ![t] = @ \cup {run.page}] ELSE held

AfterFiling(r) == [r EXCEPT !.at = IF r.toFile = {} THEN "settle" ELSE "file"]

Landed(t) ==
  /\ At("file") /\ t \in run.toFile
  /\ Store(t)
  /\ run' = AfterFiling([run EXCEPT !.toFile = @ \ {t}, !.lost = 0,
                                    !.landed[t] = IF run.page = Seasons THEN @ ELSE @ \cup {run.page}])
  /\ UNCHANGED <<mark, saved, history>>

(* A plausible bug: the item is good although a team did not get it. *)
NotLandedUnnoticed(t) ==
  /\ At("file") /\ t \in run.toFile
  /\ run' = AfterFiling([run EXCEPT !.toFile = @ \ {t}])
  /\ UNCHANGED <<app, saved, history>>

(* "fallback" or "lost": the answer of the app is missing, not always its  *)
(* work.  Too many in a row stop the crawl.                                *)
NotLanded(t) ==
  /\ At("file") /\ t \in run.toFile
  /\ Store(t) \/ UNCHANGED held
  /\ LET r == [run EXCEPT !.toFile = @ \ {t}, !.lost = @ + 1, !.missed = TRUE]
     IN  run' = IF r.lost >= StopAfterLost THEN Halted([r EXCEPT !.toFile = {}]) ELSE AfterFiling(r)
  /\ UNCHANGED <<mark, saved, history>>
-----------------------------------------------------------------------------
(* What the page was good for *)

(* reportSeasons: the list may not parse; where it was filed is not asked. *)
SettleSeasons ==
  /\ At("settle") /\ run.page = Seasons
  /\ LET read == IF run.clean THEN {run.of, {}} ELSE {{}}
     IN  \E ts \in read : run' = [Back(run) EXCEPT !.offers = @ \cup ts]
  /\ UNCHANGED <<app, saved, history>>

Good == run.clean /\ ~run.missed

(* failItem, after a relay or for a page that is not good *)
SettleBad ==
  /\ At("settle") /\ run.page # Seasons
  /\ ~Good
  /\ run' = Failed(run)
  /\ UNCHANGED <<app, saved, history>>

(* A plausible bug: a skipped swimmer stays skipped for every team. *)
AddSwimmersStaySkipped(r, t, ss) ==
  [r EXCEPT
    !.listers = [s \in Swimmer |-> IF s \in ss THEN @[s] \cup {t} ELSE @[s]],
    !.swimmer = [s \in Swimmer |->
      IF s \in ss /\ @[s] = "absent"
      THEN IF <<s, t>> \in r.atStart THEN "skipped" ELSE "pending"
      ELSE @[s]]]

(* addSwimmers: a swimmer is queued once, with every team that lists it.   *)
(* One filed for the teams seen so far is skipped, until a team lists it   *)
(* that has not got it.                                                    *)
AddSwimmers(r, t, ss) ==
  [r EXCEPT
    !.listers = [s \in Swimmer |-> IF s \in ss THEN @[s] \cup {t} ELSE @[s]],
    !.swimmer = [s \in Swimmer |->
      IF s \notin ss \/ t \in r.listers[s] THEN @[s]
      ELSE CASE @[s] = "absent" /\ <<s, t>> \in r.atStart -> "skipped"
             [] @[s] \in {"absent", "skipped"} /\ <<s, t>> \notin r.atStart -> "pending"
             [] OTHER -> @[s]]]

(* finishRoster: the page may not parse, or name nobody without saying so. *)
SettleRoster(t, ss) ==
  /\ At("settle") /\ IsRoster /\ t \in run.of
  /\ Good
  /\ \/ /\ run' = Back(With(AddSwimmers(run, t, ss), "done"))
        /\ listed' = [listed EXCEPT ![t] = @ \cup ss]
     \/ run' = Failed(run) /\ UNCHANGED listed
  /\ UNCHANGED <<app, saved, runs, refused, removed>>

(* finishedSwimmerKeys *)
FinishedKeys(r) ==
  {k \in Keys : r.swimmer[k[1]] \in {"done", "skipped"} /\ k[2] \in r.listers[k[1]]}

(* markDone and persist; storage may refuse, and the run does not learn of it. *)
SettleSwimmer ==
  /\ At("settle") /\ IsSwimmer
  /\ Good
  /\ LET r == With(run, "done")
     IN  /\ run' = Back(r)
         /\ saved' \in {saved, [saved EXCEPT ![run.chosen] = run.atStart \cup FinishedKeys(r)]}
  /\ UNCHANGED <<app, history>>
-----------------------------------------------------------------------------
(* queueProgress: a team is done once nothing of it is open or failed. *)
TeamDone(t) ==
  /\ \A g \in Gender : run.roster[t][g] = "done"
  /\ \A s \in SwimmersOf(run, t) : run.swimmer[s] \in {"done", "skipped"}

(* A plausible bug: the count alone, which the app may not have taken anew. *)
EnoughPages(t) ==
  Cardinality(run.landed[t]) + Cardinality(Skipped(run, t)) >= run.planned[t]

(* captureHasEveryPlannedPage *)
EveryPlannedPage(t) ==
  TeamDone(t) /\ Cardinality(run.landed[t]) + Cardinality(Skipped(run, t)) >= run.planned[t]

(* markCaptures.  An app that does not answer keeps the mark it has. *)
MarkCaptures ==
  /\ At("mark")
  /\ \E heard \in SUBSET run.opened :
       mark' = [t \in Team |->
                 IF t \notin heard THEN mark[t]
                 ELSE IF run.outcome = "completed" /\ EveryPlannedPage(t) THEN "complete" ELSE "partial"]
  /\ run' = NoRun
  /\ refused' = 0
  /\ UNCHANGED <<held, saved, runs, listed, removed>>
-----------------------------------------------------------------------------
(* What the driver, the site and the app do, as opposed to the user. *)
Driver ==
  \/ \E t \in Team : ReadSeasons(t) \/ OpenSeason(t) \/ Landed(t) \/ NotLanded(t)
  \/ AskChoice \/ StopCancelled \/ MarkCaptures
  \/ \E t \in Team, g \in Gender : NextRoster(t, g)
  \/ \E s \in Swimmer : NextSwimmer(s)
  \/ Drain
  \/ Request \/ AbortFetch \/ RetryAfter429 \/ GiveUpAfter429
  \/ AnswerFiled \/ AnswerRefused \/ AnswerStops
  \/ SettleSeasons \/ SettleBad \/ SettleSwimmer
  \/ \E t \in Team, ss \in SUBSET Swimmer : SettleRoster(t, ss)

User ==
  \/ Start \/ TogglePause \/ Cancel \/ CloseTab
  \/ \E c \in SUBSET Team : Choose(c) \/ Forget(c)
  \/ \E t \in Team : RemoveCapture(t)

Next == Driver \/ User

Spec == Init /\ [][Next]_vars

(* Every call the driver waits for settles (timers, requests under a       *)
(* deadline), so a run that is not held goes on.                           *)
FairSpec == Spec /\ WF_vars(Driver)
-----------------------------------------------------------------------------
(* Types of the run, the app's state and the history. *)
TypeOK ==
  /\ held \in [Team -> SUBSET (Gender \cup Swimmer)]
  /\ mark \in [Team -> {"none", "in-progress", "partial", "complete"}]
  /\ saved \in [SUBSET Team -> SUBSET Keys]
  /\ runs \in 0 .. MaxRuns
  /\ listed \in [Team -> SUBSET Swimmer]
  /\ refused \in Nat /\ removed \in SUBSET Team
  /\ run \in [at : Places, outcome : Outcomes, paused : BOOLEAN, cancelled : BOOLEAN,
              toRead : SUBSET Team, offers : SUBSET Team, chosen : SUBSET Team, opened : SUBSET Team,
              atStart : SUBSET Keys, roster : [Team -> [Gender -> Status]],
              swimmer : [Swimmer -> Status], listers : [Swimmer -> SUBSET Team],
              page : Page, of : SUBSET Team, attempt : 0 .. MaxRetries + 1,
              toFile : SUBSET Team, clean : BOOLEAN, missed : BOOLEAN,
              landed : [Team -> SUBSET (Gender \cup Swimmer)], planned : [Team -> Nat],
              corrected : BOOLEAN, recent429 : 0 .. StopAfter429, lost : 0 .. StopAfterLost]

(* What the extension will not fetch again is in the app, unless the user  *)
(* removed that capture: a swimmer saved as finished for a team is filed   *)
(* in its capture, whatever was lost, stopped or closed on the way         *)
(* (finishedSwimmerKeys, persist), and a swimmer the run skips is filed    *)
(* for every team known to list it, those found later included             *)
(* (addSwimmers).                                                          *)
FinishedIsFiled ==
  /\ \A c \in SUBSET Team : \A k \in saved[c] : k[1] \in held[k[2]] \/ k[2] \in removed
  /\ \A s \in Swimmer : run.swimmer[s] = "skipped" =>
       \A t \in run.listers[s] : s \in held[t] \/ t \in removed

Whole(t) == Gender \cup listed[t] \subseteq held[t]

(* "every-planned-page-fetched" is true of a capture that was never        *)
(* removed: it holds the rosters and every swimmer they listed, although   *)
(* pages are counted and not compared, the app may miss a corrected count, *)
(* and error pages land as well.  (captureHasEveryPlannedPage)             *)
CompleteIsWhole ==
  \A t \in Team : mark[t] = "complete" => Whole(t) \/ t \in removed

(* "A capture is never called complete while a planned page is missing."   *)
(* (multiTeamDriver.ts:345)                                                *)
NeverCalledCompleteWithAPageMissing ==
  \A t \in Team : mark[t] = "complete" => Whole(t)

(* A run forgets its saved progress only when there is nothing left to     *)
(* resume: all it was to fetch is filed.  (clearIfClean)                   *)
ForgetsWhenWhole ==
  [][At("loop") /\ run # run' /\ saved[run.chosen] # {} /\ saved'[run.chosen] = {}
       => \A t \in run.chosen \ removed : Whole(t)]_vars

(* The site can refuse only so often before it is left alone.              *)
(* (decideRateLimitRetry and shouldHalt together)                          *)
RefusalsAreBounded == refused <= StopAfter429 * (MaxRetries + 1)

(* A cancelled run comes to its end and lets the crawl lock go, whatever   *)
(* it was doing: waiting for a page, for the app, for a choice, or held by *)
(* Pause.                                                                  *)
CancelEnds == run.cancelled ~> At("off")

(* Left to itself a run comes to its end, or to the user's choice.         *)
RunEnds == [](~At("off") => <>(At("off") \/ At("choose") \/ run.paused))
=============================================================================
