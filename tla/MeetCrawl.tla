------------------------------ MODULE MeetCrawl ------------------------------
(***************************************************************************)
(* The meet crawl of the browser extension: runCrawl in crawler-content.ts *)
(* and the rules it asks (crawlPlan, captureResume, crawlErrorPolicy,      *)
(* rateLimitBackoff, eventResults, swimmerTimes).                          *)
(*                                                                         *)
(* A crawl asks the app what is stored, discovers the meet's teams, lets   *)
(* the user choose teams and scope, and then fetches up to five passes:    *)
(* the first swims page of each team, the further swims pages these        *)
(* announce, the event pages (which may name more events), the rosters and *)
(* the times pages of the listed swimmers.  Each page is relayed to the    *)
(* app.  The plan grows as pages are read, and the app is told its size.   *)
(* The first three sequential passes stop the crawl on an error; the two   *)
(* pooled ones (of one lane each) stop only themselves.                    *)
(*                                                                         *)
(* Left out: genders (one per team), which page of a pass comes first, the *)
(* pages fetched to discover the teams, and where a page ends up that      *)
(* landed: what the app holds of earlier crawls when a crawl begins is an  *)
(* input.  A reply and its relay are one step: nothing reads in between    *)
(* what either changes.                                                    *)
(***************************************************************************)
EXTENDS Naturals, FiniteSets

CONSTANTS
  Team, Event, Swimmer,
  MaxRetries,     \* MAX_RATE_LIMIT_RETRIES
  StopAfterLost,  \* RELAY_FAILURE_STOP_THRESHOLD
  Stored          \* bound: what earlier crawls left in the app, as <<pages, events read on them>>

ASSUME CrawlAssumption ==
  /\ MaxRetries \in Nat /\ StopAfterLost \in Nat \ {0}
  /\ IsFiniteSet(Team) /\ IsFiniteSet(Event) /\ IsFiniteSet(Swimmer)

VARIABLES
  crawl,      \* the tab: its buttons and the crawl in progress
  planned,    \* the page count the app took, as a set: empty if the last one sent was lost
  challenged, \* history: the passes of this crawl that met a 403
  since       \* history: requests sent since Cancel

history == <<challenged, since>>
vars == <<crawl, planned, challenged, since>>
-----------------------------------------------------------------------------
(* Pages and passes *)

First(t) == <<"swims", t, 1>>
More(t) == <<"swims", t, 2>>
Result(e) == <<"event", e>>
Roster(t) == <<"roster", t>>
Times(s) == <<"times", s>>

Page ==
  {First(t) : t \in Team} \cup {More(t) : t \in Team} \cup {Result(e) : e \in Event}
    \cup {Roster(t) : t \in Team} \cup {Times(s) : s \in Swimmer}
NoPage == <<>>

ASSUME StoredAssumption == Stored \subseteq (SUBSET Page) \X (SUBSET Event)

Sequential == {"sweep", "bulk", "rosters"}
Pooled == {"events", "times"}
Questions == {"unpaired", "confirm"}
Opens == {"open", "correct", "events-open", "times-open"}
Places == {"none", "off", "read", "discover", "finish"} \cup Questions \cup Opens \cup Sequential \cup Pooled

Scopes == {"meet-results", "rosters-and-bests", "everything"}

Wants(c, pass) ==
  IF pass \in {"swims", "events"} THEN c.scope # "rosters-and-bests" ELSE c.scope # "meet-results"

(* The plan, as far as the crawl can know it. *)
SwimsPlan(c) ==
  IF Wants(c, "swims") /\ ~c.index
  THEN {First(t) : t \in c.teams} \cup {More(t) : t \in c.long}
  ELSE {}
RosterPlan(c) == IF Wants(c, "rosters") THEN {Roster(t) : t \in c.teams} ELSE {}
EventPlan(c) == IF Wants(c, "events") THEN {Result(e) : e \in c.known} ELSE {}
TimesPlan(c) == IF Wants(c, "times") THEN {Times(s) : s \in c.swimmers} ELSE {}

Planned(c) == SwimsPlan(c) \cup RosterPlan(c) \cup EventPlan(c) \cup TimesPlan(c)

(* A plausible bug: what the app holds is asked for again. *)
ToFetchAnyway(c, plan) == plan

(* Pages that a pass may leave out because the app holds them. *)
ToFetch(c, plan) == plan \ c.held
-----------------------------------------------------------------------------
NoCrawl ==
  [at |-> "none",         \* "none": no panel; "off": no crawl in the panel
   step |-> "head",       \* of a pass: at a loop's head, past its Cancel check, a request out
   cancelled |-> FALSE, paused |-> FALSE,
   retry |-> FALSE,       \* the Retry button is shown
   held |-> {},           \* alreadyCaptured
   teams |-> {}, scope |-> "everything", refresh |-> FALSE,
   index |-> FALSE,       \* a discovery page printed the event index
   long |-> {},           \* teams with a second swims page
   known |-> {},          \* knownRefs, with those of the swims pages
   attempted |-> {},      \* events of a round that was planned
   swimmers |-> {},       \* those the rosters listed
   fetched |-> {},
   todo |-> {}, page |-> NoPage, tries |-> 0,
   lost |-> 0,            \* relays in a row that did not land
   stopped |-> {},        \* pooled passes that ended early
   eventTotal |-> 0,
   verdict |-> "partial"]

Init ==
  /\ crawl = NoCrawl /\ planned = {}
  /\ challenged = {} /\ since = 0

At(places) == crawl.at \in places

(* The panel without a crawl: only its buttons are left. *)
Over(c) ==
  [NoCrawl EXCEPT !.at = "off", !.cancelled = c.cancelled, !.paused = c.paused, !.retry = c.retry]
Finishing(c, verdict) == [c EXCEPT !.at = "finish", !.step = "head", !.verdict = verdict]
Enter(c, pass, pages) == [c EXCEPT !.at = pass, !.step = "head", !.todo = pages]

Forget == planned' = {} /\ challenged' = {} /\ since' = 0
-----------------------------------------------------------------------------
(* The user *)

(* The crawl button, or Retry: a crawl starts if no tab holds the lock.    *)
(* Retry keeps the buttons as they were, Cancel pressed included.          *)
Start ==
  /\ At({"none"}) \/ (At({"off"}) /\ crawl.retry)
  /\ crawl' \in {[Over(crawl) EXCEPT !.retry = FALSE, !.at = "read"], [Over(crawl) EXCEPT !.retry = TRUE]}
  /\ UNCHANGED <<planned, history>>

(* At a question Cancel also answers it, and the crawl is over. *)
Cancel ==
  /\ ~At({"none"}) /\ ~crawl.cancelled
  /\ LET c == [crawl EXCEPT !.cancelled = TRUE]
     IN  crawl' = IF At(Questions) THEN Over(c) ELSE c
  /\ UNCHANGED <<planned, history>>

CancelAgain ==
  /\ At(Questions) /\ crawl.cancelled
  /\ crawl' = Over(crawl)
  /\ UNCHANGED <<planned, history>>

(* A cancelled crawl does not ask Pause. *)
TogglePause ==
  /\ ~At({"none"}) /\ ~crawl.cancelled
  /\ crawl' = [crawl EXCEPT !.paused = ~crawl.paused]
  /\ UNCHANGED <<planned, history>>

CloseTab ==
  /\ ~At({"none"})
  /\ crawl' = NoCrawl
  /\ Forget

ContinueAnyway ==
  /\ At({"unpaired"})
  /\ crawl' = [crawl EXCEPT !.at = "discover"]
  /\ UNCHANGED <<planned, history>>

(* confirmTeamList; the answer fixes what will be planned. *)
Choose(teams, scope, refresh) ==
  /\ At({"confirm"})
  /\ refresh => scope # "meet-results"
  /\ crawl' = [crawl EXCEPT !.at = "open", !.teams = teams, !.scope = scope, !.refresh = refresh]
  /\ UNCHANGED <<planned, history>>
-----------------------------------------------------------------------------
(* Up to the first pass *)

(* readAlreadyCaptured; a reply that cannot be read counts as nothing      *)
(* stored.                                                                 *)
ReadStored(pages, refs) ==
  /\ At({"read"})
  /\ crawl' = [crawl EXCEPT !.at = "discover", !.held = pages, !.known = refs]
  /\ UNCHANGED <<planned, history>>

AppUnreachable ==
  /\ At({"read"})
  /\ crawl' = [crawl EXCEPT !.at = "unpaired"]
  /\ UNCHANGED <<planned, history>>

(* discoverTeams, which never asks Cancel or Pause. *)
Discover(refs) ==
  /\ At({"discover"})
  /\ crawl' = [crawl EXCEPT !.at = "confirm", !.known = @ \cup refs, !.index = refs # {}]
  /\ UNCHANGED <<planned, history>>

DiscoverNone ==
  /\ At({"discover"})
  /\ crawl' = Over(crawl)
  /\ UNCHANGED <<planned, history>>

(* A plausible bug: the count that announces the times pages leaves out the *)
(* event pages, which were not known at first.                             *)
CountWithoutEvents(c) ==
  Cardinality(SwimsPlan(c) \cup RosterPlan(c))
    + (IF c.at = "times-open" THEN Cardinality(TimesPlan(c)) ELSE c.eventTotal)

(* What open-capture tells the app: at first without the pages that later  *)
(* passes find.                                                            *)
Count(c) ==
  Cardinality(SwimsPlan(c) \cup RosterPlan(c)) + c.eventTotal
    + (IF c.at = "times-open" THEN Cardinality(TimesPlan(c)) ELSE 0)

(* openCaptureRecord and the passes' own open-capture: whether the app took *)
(* it or not, the crawl goes on.                                           *)
OpenCapture(taken) ==
  /\ At(Opens)
  /\ planned' = IF taken THEN {Count(crawl)} ELSE {}
  /\ crawl' = CASE At({"open"}) -> Enter(crawl, "sweep", SwimsPlan(crawl))
                [] At({"correct"}) -> Enter(crawl, "bulk", ToFetch(crawl, SwimsPlan(crawl) \ crawl.fetched))
                [] At({"events-open"}) -> [crawl EXCEPT !.at = "events"]
                [] At({"times-open"}) ->
                     Enter(crawl, "times", IF crawl.refresh THEN TimesPlan(crawl) ELSE ToFetch(crawl, TimesPlan(crawl)))
  /\ UNCHANGED history
-----------------------------------------------------------------------------
(* From one pass to the next *)

(* A plausible bug: what became of the event pages is not asked. *)
WholeButForEvents(c) ==
  /\ "times" \notin c.stopped
  /\ TimesPlan(c) # {} => c.todo = {} /\ ~c.cancelled

(* The end of runSwimmerTimesPass and crawlFinalCompleteness. *)
Whole(c) ==
  /\ c.stopped = {} /\ EventPlan(c) \subseteq {Result(e) : e \in c.attempted}
  /\ TimesPlan(c) # {} => c.todo = {} /\ ~c.cancelled

Verdict(c) == IF Whole(c) THEN "complete" ELSE "partial"

SweepDone ==
  /\ At({"sweep"}) /\ crawl.step = "head" /\ crawl.todo = {}
  /\ crawl' = [crawl EXCEPT !.at = "correct"]
  /\ UNCHANGED <<planned, history>>

BulkDone ==
  /\ At({"bulk"}) /\ crawl.step = "head" /\ crawl.todo = {}
  /\ crawl' = Enter(crawl, "events", {})
  /\ UNCHANGED <<planned, history>>

(* A plausible bug: a pooled pass asks its own stop only. *)
HaltedByStop(c) == c.at \in c.stopped

(* A plausible bug: each round plans all the events it knows of. *)
OutstandingAll(c) == {e \in c.known : Wants(c, "events")}

Outstanding(c) == {e \in c.known : Wants(c, "events")} \ c.attempted
Halted(c) == c.cancelled \/ c.at \in c.stopped

(* A round of runEventResultsPass: what the last one named and none has *)
(* planned yet.                                                         *)
EventRound ==
  /\ At({"events"}) /\ crawl.step = "head" /\ crawl.todo = {} /\ ~Halted(crawl)
  /\ Outstanding(crawl) # {}
  /\ crawl' = [crawl EXCEPT !.at = "events-open",
                            !.attempted = @ \cup Outstanding(crawl),
                            !.eventTotal = Cardinality(EventPlan(crawl)),
                            !.todo = ToFetch(crawl, {Result(e) : e \in Outstanding(crawl)})]
  /\ UNCHANGED <<planned, history>>

EventsDone ==
  /\ At({"events"}) /\ crawl.step = "head"
  /\ Halted(crawl) \/ (crawl.todo = {} /\ Outstanding(crawl) = {})
  /\ crawl' = IF crawl.cancelled THEN Finishing(crawl, "partial") ELSE Enter(crawl, "rosters", RosterPlan(crawl))
  /\ UNCHANGED <<planned, history>>

RostersDone ==
  /\ At({"rosters"}) /\ crawl.step = "head" /\ crawl.todo = {}
  /\ crawl' = IF TimesPlan(crawl) = {} THEN Finishing(crawl, Verdict(crawl)) ELSE [crawl EXCEPT !.at = "times-open"]
  /\ UNCHANGED <<planned, history>>

TimesDone ==
  /\ At({"times"}) /\ crawl.step = "head"
  /\ Halted(crawl) \/ crawl.todo = {}
  /\ crawl' = Finishing(crawl, Verdict(crawl))
  /\ UNCHANGED <<planned, history>>

(* finishCrawl: the verdict is sent, and what went to the downloads is     *)
(* flushed; neither is kept here.                                          *)
Finish ==
  /\ At({"finish"})
  /\ crawl' = Over(crawl)
  /\ Forget
-----------------------------------------------------------------------------
(* One page *)

(* The next page in the order of its pass *)
Asking(c) ==
  LET page == CHOOSE page \in c.todo : TRUE
  IN  [c EXCEPT !.step = "asked", !.page = page, !.todo = @ \ {page}, !.tries = 1]

(* What is counted as sent after Cancel. *)
Sent(c) == IF c.cancelled THEN since + 1 ELSE since

(* The head of a sequential pass asks Cancel, waits out Pause, and then    *)
(* sends its request whatever happened meanwhile.                          *)
Proceed ==
  /\ At(Sequential) /\ crawl.step = "head" /\ crawl.todo # {}
  /\ crawl' = IF crawl.cancelled THEN Finishing(crawl, "partial") ELSE [crawl EXCEPT !.step = "gate"]
  /\ UNCHANGED <<planned, history>>

(* A plausible bug: Cancel does not end the wait of a paused crawl. *)
RequestUnlessPaused ==
  /\ At(Sequential) /\ crawl.step = "gate"
  /\ ~crawl.paused
  /\ crawl' = Asking(crawl)
  /\ since' = Sent(crawl)
  /\ UNCHANGED <<planned, challenged>>

Request ==
  /\ At(Sequential) /\ crawl.step = "gate"
  /\ ~crawl.paused \/ crawl.cancelled
  /\ crawl' = Asking(crawl)
  /\ since' = Sent(crawl)
  /\ UNCHANGED <<planned, challenged>>

(* A lane of runBoundedFetchPool asks again after the pause. *)
PoolRequest ==
  /\ At(Pooled) /\ crawl.step = "head" /\ crawl.todo # {}
  /\ ~Halted(crawl) /\ ~crawl.paused
  /\ crawl' = Asking(crawl)
  /\ since' = Sent(crawl)
  /\ UNCHANGED <<planned, challenged>>

(* A plausible bug: one retry too many. *)
RateLimitedOnceMore ==
  /\ crawl.step = "asked" /\ crawl.tries <= MaxRetries + 1
  /\ crawl' = [crawl EXCEPT !.tries = @ + 1]
  /\ since' = Sent(crawl)
  /\ UNCHANGED <<planned, challenged>>

(* fetchPageWithRateLimitRetry waits out a 429 and asks again. *)
RateLimited ==
  /\ crawl.step = "asked" /\ crawl.tries <= MaxRetries
  /\ crawl' = [crawl EXCEPT !.tries = @ + 1]
  /\ since' = Sent(crawl)
  /\ UNCHANGED <<planned, challenged>>

(* What can be read on a page.  A page that does not parse tells nothing. *)
Readings(page) ==
  LET Reading(long, refs, swimmers) == [long : long, refs : refs, swimmers : swimmers]
      kind == page[1]
  IN  CASE kind = "swims" -> Reading(IF page[3] = 1 THEN SUBSET {page[2]} ELSE {{}}, SUBSET Event, {{}})
        [] kind = "event" -> Reading({{}}, SUBSET Event, {{}})
        [] kind = "roster" -> Reading({{}}, {{}}, SUBSET Swimmer)
        [] OTHER -> Reading({{}}, {{}}, {{}})

Learned(c, reading) ==
  [c EXCEPT !.long = @ \cup reading.long, !.known = @ \cup reading.refs, !.swimmers = @ \cup reading.swimmers]

(* relayFetchedPage: a page landed in the app or in the downloads, or the  *)
(* relay is taken to be lost.                                              *)
Relays == {"none", "landed", "lost"}

Relayed(c, relay) ==
  [c EXCEPT !.lost = CASE relay = "none" -> @ [] relay = "lost" -> @ + 1 [] relay = "landed" -> 0]

(* A plausible bug: the streak stops the pass one page late. *)
StreakStopsLate(c, relay) == relay = "lost" /\ c.lost > StopAfterLost

(* classifyRelayFailureStreak, asked after a lost relay only *)
StreakStops(c, relay) == relay = "lost" /\ c.lost >= StopAfterLost

(* classifyCrawlPageOutcome, for a sequential pass *)
StopsCrawl(answer) == answer \in {"challenge", "broken", "unreachable"}
OffersRetry(answer) == answer = "broken"

(* A plausible bug: a challenge fails its page only. *)
StopsPassOnStreak(c, answer, relay) == StreakStops(c, relay)

(* classifyEventResultsOutcome, classifySwimmerTimesOutcome, and the streak *)
StopsPass(c, answer, relay) == answer = "challenge" \/ StreakStops(c, relay)

(* What a reply to the page in flight makes of the crawl. *)
Answered(c, answer, relay, reading) ==
  LET got == [Relayed(c, relay) EXCEPT !.step = "head", !.page = NoPage, !.tries = 0,
                                       !.fetched = @ \cup {c.page}]
      stops == IF c.at \in Sequential THEN StreakStops(got, relay) \/ StopsCrawl(answer) ELSE StopsPass(got, answer, relay)
      offers == StreakStops(got, relay) \/ (IF c.at \in Sequential THEN OffersRetry(answer) ELSE answer = "challenge")
      next == [Learned(got, reading) EXCEPT !.retry = @ \/ offers]
  IN  CASE ~stops -> next
        [] stops /\ c.at \in Sequential -> Finishing(next, "partial")
        [] stops /\ c.at \in Pooled -> [next EXCEPT !.stopped = @ \cup {c.at}]

(* handleFetchedPage, or the run callback of a pool.  Without a reply there *)
(* is nothing to relay.  refused: a 404, or a 429 not retried any further. *)
Answers == {"ok", "refused", "challenge", "broken", "unreachable"}

Reply(answer, relay, reading) ==
  /\ crawl.step = "asked"
  /\ answer = "unreachable" <=> relay = "none"
  /\ crawl' = Answered(crawl, answer, relay, reading)
  /\ challenged' = IF answer = "challenge" THEN challenged \cup {crawl.at} ELSE challenged
  /\ UNCHANGED <<planned, since>>

ReplyOk ==
  /\ crawl.step = "asked"
  /\ \E relay \in Relays, reading \in Readings(crawl.page) : Reply("ok", relay, reading)
ReplyNotOk ==
  \E answer \in Answers \ {"ok"}, relay \in Relays :
    Reply(answer, relay, [long |-> {}, refs |-> {}, swimmers |-> {}])
-----------------------------------------------------------------------------
User ==
  \/ Start \/ Cancel \/ CancelAgain \/ TogglePause \/ CloseTab \/ ContinueAnyway
  \/ \E teams \in SUBSET Team, scope \in Scopes, refresh \in BOOLEAN : Choose(teams, scope, refresh)

(* What the crawl does by itself *)
Crawl ==
  \/ \E stored \in Stored \cup {<<{}, {}>>} : ReadStored(stored[1], stored[2])
  \/ AppUnreachable \/ DiscoverNone \/ \E refs \in SUBSET Event : Discover(refs)
  \/ \E taken \in BOOLEAN : OpenCapture(taken)
  \/ Finish
  \/ SweepDone \/ BulkDone \/ EventRound \/ EventsDone \/ RostersDone \/ TimesDone
  \/ Proceed \/ Request \/ PoolRequest \/ RateLimited \/ ReplyOk \/ ReplyNotOk

Next == User \/ Crawl

Spec == Init /\ [][Next]_vars

(* Every round trip has a deadline, every fetch ends, every wait is a timer. *)
FairSpec == Spec /\ WF_vars(Crawl)
-----------------------------------------------------------------------------
(* The tab, by what its fields can hold *)
Tab ==
  [at : Places, step : {"head", "gate", "asked"}, cancelled : BOOLEAN, paused : BOOLEAN,
   retry : BOOLEAN, held : SUBSET Page, teams : SUBSET Team, scope : Scopes,
   refresh : BOOLEAN, index : BOOLEAN, long : SUBSET Team, known : SUBSET Event,
   attempted : SUBSET Event, swimmers : SUBSET Swimmer, fetched : SUBSET Page,
   todo : SUBSET Page, page : Page \cup {NoPage}, tries : 0 .. MaxRetries + 1,
   lost : Nat, stopped : SUBSET Pooled, eventTotal : Nat,
   verdict : {"partial", "complete"}]

TypeOK == crawl \in Tab /\ planned \subseteq Nat /\ challenged \subseteq Sequential \cup Pooled /\ since \in Nat

Ending(verdict) == At({"finish"}) /\ crawl.verdict = verdict

(* A crawl that is about to report every planned page as fetched has        *)
(* fetched, or found stored when it began, every page of its plan: the     *)
(* swims pages announced on the way, every event an event page named, and  *)
(* every swimmer of the rosters (finalizeCrawl, runEventResultsPass,       *)
(* runSwimmerTimesPass).  And the page count the app was told, pass by     *)
(* pass and each on top of the ones before, is in the end the size of that *)
(* plan, unless the last count sent was lost (the openCaptureRecord calls  *)
(* and plannedBeforeThisPass).                                             *)
CompleteIsTheWholePlan ==
  Ending("complete") =>
    /\ Planned(crawl) \subseteq crawl.fetched \cup crawl.held
    /\ planned \subseteq {Cardinality(Planned(crawl))}

Requested == crawl.step # "asked" /\ crawl'.step = "asked"

(* A crawl sends no page's first request twice, however rounds and passes   *)
(* overlap, and asks for a page the app already held only where the code   *)
(* means to read it again: first swims pages, rosters, and the times pages *)
(* of a refresh (partitionResumableSteps, stepsStillNeeded, attempted).  A *)
(* pass that met a challenge sends no further page of its own.             *)
RequestsAreDue ==
  [][Requested =>
       /\ crawl.at \notin challenged
       /\ crawl'.page \notin crawl.fetched
       /\ crawl'.page \in crawl.held =>
            \/ crawl.at \in {"sweep", "rosters"}
            \/ crawl.at = "times" /\ crawl.refresh]_vars

(* After Cancel the site sees at most one more page: the one in flight, or *)
(* the one a sequential pass had got ready while paused, with its retries. *)
(* And when the app stops taking pages, the whole crawl gives up no later  *)
(* than one page after the streak that stops a pass, although the passes   *)
(* count the streak together.                                              *)
StopsInTime == since <= MaxRetries + 1 /\ crawl.lost <= StopAfterLost + 1

(* The documented rule: a challenge stops the crawl, so no page at all is  *)
(* requested after it.                                                     *)
NoRequestAfterChallenge == [][Requested => challenged = {}]_vars

(* A cancelled crawl ends by itself in any pass, paused or not. *)
CancelEnds == crawl.cancelled /\ At(Sequential \cup Pooled) ~> At({"none", "off"})

(* So does any crawl, unless it waits for the user or is closed: the       *)
(* rounds of event pages that name further events come to an end.          *)
CrawlEnds == At({"read", "open"}) ~> (At(Questions \cup {"none", "off"}) \/ crawl.paused)
=============================================================================
