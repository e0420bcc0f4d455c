-------------------------- MODULE MeetCrawl_proofs --------------------------
(***************************************************************************)
(* Proofs about MeetCrawl, for any teams, events, swimmers and bounds.     *)
(***************************************************************************)
EXTENDS MeetCrawl, FiniteSetTheorems, TLAPS

(* Places before a crawl's first pass, and those where a page may be asked. *)
Before == {"none", "off", "read", "discover", "open"} \cup Questions
Passes == Sequential \cup Pooled

(* Pages the pass in progress still has to get, and those it need not. *)
Pending(c) == c.todo \cup ({c.page} \ {NoPage})
Got(c) == c.fetched \cup c.held

Firsts == {First(t) : t \in Team}
Mores == {More(t) : t \in Team}
Rosters == {Roster(t) : t \in Team}
AllTimes == {Times(s) : s \in Swimmer}
Results(events) == {Result(e) : e \in events}

(* A page is in flight from its request to its reply. *)
Flight(c) ==
  /\ (c.page # NoPage) = (c.step = "asked")
  /\ c.page \notin c.todo
  /\ c.step # "head" => c.at \in Passes
  /\ c.step = "gate" => c.todo # {}
  /\ c.at \in {"correct", "times-open"} => c.todo = {}
  /\ c.at \in Pooled /\ c.step = "asked" => c.at \notin c.stopped

(* Before the first pass nothing is known of the pages to come. *)
Unbegun(c) ==
  c.at \in Before =>
    /\ c.fetched = {} /\ c.todo = {} /\ c.long = {} /\ c.attempted = {} /\ c.swimmers = {}
    /\ c.stopped = {} /\ c.eventTotal = 0 /\ c.lost = 0 /\ c.step = "head"

(* The pages a pass may have fetched, and those it may still fetch: of its *)
(* own kind, and not among those of the passes before.                     *)
Sorted(c) ==
  /\ c.fetched \cap Pending(c) = {}
  /\ c.at = "sweep" => c.fetched \cup Pending(c) \subseteq Firsts
  /\ c.at = "correct" => c.fetched \subseteq Firsts
  /\ c.at = "bulk" => c.fetched \subseteq Firsts \cup Mores /\ Pending(c) \subseteq Mores
  /\ c.at \in {"events", "events-open"} =>
       c.fetched \subseteq Firsts \cup Mores \cup Results(c.attempted) /\ Pending(c) \subseteq Results(c.attempted)
  /\ c.at = "rosters" =>
       c.fetched \subseteq Firsts \cup Mores \cup Results(Event) \cup Rosters /\ Pending(c) \subseteq Rosters
  /\ c.at = "times-open" => c.fetched \subseteq Firsts \cup Mores \cup Results(Event) \cup Rosters
  /\ c.at = "times" => Pending(c) \subseteq AllTimes

(* What was found on the way is found in its own pass. *)
Found(c) ==
  /\ c.at \in {"sweep", "correct", "bulk"} => c.attempted = {}
  /\ c.at \in {"sweep", "correct", "bulk", "events", "events-open"} => c.swimmers = {}
  /\ c.attempted \subseteq c.known
  /\ c.attempted # {} => Wants(c, "events")

(* A pass leaves out what the app held, where it may. *)
Spared(c) ==
  c.at \in {"bulk", "events", "events-open"} \/ (c.at = "times" /\ ~c.refresh) => c.held \cap Pending(c) = {}

(* No page of a pass is forgotten: it was got, or it is pending.  Of the   *)
(* event pages this is said of those a round has planned, unless the pass  *)
(* was stopped.                                                            *)
Covered(c) ==
  /\ c.at = "sweep" /\ SwimsPlan(c) # {} => \A t \in c.teams : First(t) \in c.fetched \cup Pending(c)
  /\ c.at = "correct" /\ SwimsPlan(c) # {} => \A t \in c.teams : First(t) \in c.fetched
  /\ c.at = "bulk" => SwimsPlan(c) \subseteq Got(c) \cup Pending(c)
  /\ c.at \in {"events", "events-open", "rosters", "times-open", "times"} => SwimsPlan(c) \subseteq Got(c)
  /\ c.at \in {"events", "events-open"} => Results(c.attempted) \subseteq Got(c) \cup Pending(c)
  /\ c.at \in {"rosters", "times-open", "times"} /\ "events" \notin c.stopped => Results(c.attempted) \subseteq Got(c)
  /\ c.at = "rosters" => RosterPlan(c) \subseteq Got(c) \cup Pending(c)
  /\ c.at \in {"times-open", "times"} => RosterPlan(c) \subseteq Got(c)
  /\ c.at = "times" => TimesPlan(c) \subseteq Got(c) \cup Pending(c)

(* The event pages are counted as their rounds are planned. *)
EventCount(c) == c.eventTotal = Cardinality(Results(c.attempted))

(* The count the app has, once the swims pages are known *)
Counted(c) ==
  /\ c.at \in {"bulk", "events", "rosters", "times-open"} =>
       planned \subseteq {Cardinality(SwimsPlan(c) \cup RosterPlan(c)) + c.eventTotal}
  /\ c.at = "times" =>
       planned \subseteq {Cardinality(SwimsPlan(c) \cup RosterPlan(c)) + c.eventTotal + Cardinality(TimesPlan(c))}

(* How far the streak of lost pages can have come: a pass ends at the      *)
(* threshold, and so does the pass after a pool that did.                  *)
Streak(c) ==
  /\ c.at \in Before \cup {"sweep", "correct", "bulk"} => c.lost < StopAfterLost
  /\ c.at \in {"events", "events-open"} /\ "events" \notin c.stopped => c.lost < StopAfterLost
  /\ c.at \in {"events", "events-open", "rosters", "times-open"} => c.lost <= StopAfterLost
  /\ c.at = "times" /\ "times" \notin c.stopped => c.lost <= StopAfterLost
  /\ c.lost <= StopAfterLost + 1

(* Requests after Cancel are those of the page in flight. *)
AfterCancel(c) ==
  /\ ~c.cancelled \/ c.step = "gate" \/ c.at \in Before => since = 0
  /\ c.step = "asked" => since <= c.tries
  /\ since <= MaxRetries + 1

(* A challenge stopped its pass, or the crawl. *)
Challenges(c) ==
  /\ c.at \in Before => challenged = {}
  /\ c.at # "finish" => challenged \subseteq c.stopped

TypedInv == TypeOK /\ Flight(crawl) /\ Unbegun(crawl)
PagesInv == Sorted(crawl) /\ Found(crawl) /\ Spared(crawl)
PlanInv == Covered(crawl) /\ EventCount(crawl) /\ Counted(crawl) /\ CompleteIsTheWholePlan
CrawlInv == TypedInv /\ PagesInv /\ PlanInv /\ Streak(crawl) /\ AfterCancel(crawl) /\ Challenges(crawl)
-----------------------------------------------------------------------------
(* Pages and types *)

LEMMA PagesDiffer ==
  /\ \A t, u : First(t) # More(u) /\ First(t) # Roster(u) /\ More(t) # Roster(u)
  /\ \A t, s : First(t) # Times(s) /\ More(t) # Times(s) /\ Roster(t) # Times(s)
  /\ \A t, e : First(t) # Result(e) /\ More(t) # Result(e) /\ Roster(t) # Result(e)
  /\ \A e, s : Result(e) # Times(s)
  /\ \A t, u : (First(t) = First(u) => t = u) /\ (More(t) = More(u) => t = u) /\ (Roster(t) = Roster(u) => t = u)
  /\ \A e, f : Result(e) = Result(f) => e = f
  /\ \A x : First(x) # NoPage /\ More(x) # NoPage /\ Result(x) # NoPage /\ Roster(x) # NoPage /\ Times(x) # NoPage
  BY DEF First, More, Result, Roster, Times, NoPage

LEMMA PageKinds ==
  /\ \A x : First(x)[1] = "swims" /\ First(x)[2] = x /\ First(x)[3] = 1
  /\ \A x : More(x)[1] = "swims" /\ More(x)[2] = x /\ More(x)[3] = 2
  /\ \A x : Result(x)[1] = "event" /\ Roster(x)[1] = "roster" /\ Times(x)[1] = "times"
  /\ Page = Firsts \cup Mores \cup Results(Event) \cup Rosters \cup AllTimes
  /\ NoPage \notin Page
  BY DEF First, More, Result, Roster, Times, Page, Firsts, Mores, Results, Rosters, AllTimes, NoPage

LEMMA NoCrawlType == NoCrawl \in Tab
  BY CrawlAssumption DEF NoCrawl, Tab, Places, Scopes, NoPage

LEMMA PlansArePages ==
  ASSUME NEW c \in Tab
  PROVE  /\ SwimsPlan(c) \subseteq Firsts \cup Mores
         /\ SwimsPlan(c) \subseteq Page /\ RosterPlan(c) \subseteq Page /\ EventPlan(c) \subseteq Page /\ TimesPlan(c) \subseteq Page
         /\ RosterPlan(c) \subseteq Rosters /\ EventPlan(c) \subseteq Results(Event) /\ TimesPlan(c) \subseteq AllTimes
         /\ EventPlan(c) \subseteq Results(c.known)
  BY DEF Tab, SwimsPlan, RosterPlan, EventPlan, TimesPlan, Page, Firsts, Mores, Results, Rosters, AllTimes

LEMMA OverType ==
  ASSUME NEW c \in Tab
  PROVE  /\ Over(c) \in Tab
         /\ Over(c).at = "off" /\ Over(c).step = "head" /\ Over(c).page = NoPage /\ Over(c).held = {}
         /\ Over(c).cancelled = c.cancelled /\ Over(c).paused = c.paused
         /\ Over(c).teams = {} /\ Over(c).known = {} /\ Over(c).lost = 0 /\ Over(c).tries = 0
         /\ Over(c).fetched = {} /\ Over(c).todo = {} /\ Over(c).long = {} /\ Over(c).attempted = {}
         /\ Over(c).swimmers = {} /\ Over(c).stopped = {} /\ Over(c).eventTotal = 0
  <1>1. /\ Over(c).at = "off" /\ Over(c).step = "head" /\ Over(c).page = NoPage /\ Over(c).held = {}
        /\ Over(c).cancelled = c.cancelled /\ Over(c).paused = c.paused
        /\ Over(c).teams = {} /\ Over(c).known = {} /\ Over(c).lost = 0 /\ Over(c).tries = 0
        /\ Over(c).fetched = {} /\ Over(c).todo = {} /\ Over(c).long = {} /\ Over(c).attempted = {}
        /\ Over(c).swimmers = {} /\ Over(c).stopped = {} /\ Over(c).eventTotal = 0
    BY DEF Over, NoCrawl
  <1>2. Over(c) \in Tab
    BY NoCrawlType DEF Over, Tab, Places
  <1> QED BY <1>1, <1>2
-----------------------------------------------------------------------------
LEMMA InitInv == Init => CrawlInv
  <1> SUFFICES ASSUME Init PROVE CrawlInv
    OBVIOUS
  <1>1. TypedInv
    BY NoCrawlType DEF Init, TypedInv, TypeOK, Flight, Unbegun, NoCrawl, Sequential, Pooled, Passes
  <1>2. PagesInv
    BY DEF Init, PagesInv, Sorted, Found, Spared, NoCrawl, Pending
  <1>3. PlanInv
    <2>1. Results({}) = {} /\ Cardinality({}) = 0
      BY FS_EmptySet DEF Results
    <2> QED BY <2>1 DEF Init, PlanInv, Covered, EventCount, Counted, CompleteIsTheWholePlan, Ending, At, NoCrawl
  <1>4. Streak(crawl) /\ AfterCancel(crawl) /\ Challenges(crawl)
    BY CrawlAssumption DEF Init, Streak, AfterCancel, Challenges, NoCrawl, Before
  <1> QED BY <1>1, <1>2, <1>3, <1>4 DEF CrawlInv
-----------------------------------------------------------------------------
(* Steps that leave the crawl before its first pass *)

LEMMA BeforePass ==
  ASSUME TypeOK', crawl'.at \in Before, crawl'.page = NoPage, Unbegun(crawl)', since' = 0, challenged' = {}
  PROVE  CrawlInv'
  <1> USE DEF Before
  <1>1. TypedInv'
    BY DEF TypedInv, Flight, Unbegun, Questions, Pooled
  <1>2. PagesInv'
    BY DEF PagesInv, Sorted, Found, Spared, Unbegun, Pending, Questions
  <1>3. PlanInv'
    <2>1. Results({}) = {} /\ Cardinality({}) = 0
      BY FS_EmptySet DEF Results
    <2>2. EventCount(crawl)'
      BY <2>1 DEF EventCount, Unbegun
    <2> QED BY <2>2 DEF PlanInv, Covered, Counted, CompleteIsTheWholePlan, Ending, At, Questions
  <1>4. Streak(crawl)' /\ AfterCancel(crawl)' /\ Challenges(crawl)'
    BY CrawlAssumption DEF Streak, AfterCancel, Challenges, Unbegun, Questions, TypeOK, Tab
  <1> QED BY <1>1, <1>2, <1>3, <1>4 DEF CrawlInv

LEMMA BeforeFacts ==
  ASSUME CrawlInv, crawl.at \in Before
  PROVE  /\ crawl \in Tab /\ planned \subseteq Nat /\ challenged = {} /\ since = 0
         /\ crawl.page = NoPage /\ crawl.step = "head" /\ Unbegun(crawl)
  BY DEF CrawlInv, TypedInv, TypeOK, Flight, Unbegun, Before, AfterCancel, Challenges

(* The tab changes where it is, or what it was told, and no pass has begun. *)
LEMMA StillBefore ==
  ASSUME CrawlInv, crawl.at \in Before, crawl' \in Tab, crawl'.at \in Before,
         crawl'.page = NoPage, Unbegun(crawl)', UNCHANGED <<planned, history>>
  PROVE  CrawlInv'
  <1>1. challenged' = {} /\ since' = 0 /\ TypeOK'
    BY BeforeFacts DEF history, TypeOK
  <1> QED BY <1>1, BeforePass

LEMMA OverIsBefore ==
  ASSUME NEW c \in Tab, crawl' = Over(c) PROVE crawl' \in Tab /\ crawl'.at \in Before /\ crawl'.page = NoPage /\ Unbegun(crawl)'
  BY OverType DEF Unbegun, Before

LEMMA StartStep == ASSUME CrawlInv, Start PROVE CrawlInv'
  <1>1. crawl.at \in Before /\ crawl \in Tab
    BY DEF Start, At, Before, CrawlInv, TypedInv, TypeOK
  <1>2. PICK c \in {[Over(crawl) EXCEPT !.retry = FALSE, !.at = "read"], [Over(crawl) EXCEPT !.retry = TRUE]} : crawl' = c
    BY DEF Start
  <1>3. c \in Tab /\ c.at \in Before /\ c.page = NoPage /\ Unbegun(c)
    <2>1. CASE c = [Over(crawl) EXCEPT !.retry = FALSE, !.at = "read"]
      <3> DEFINE over == Over(crawl)
                 again == [over EXCEPT !.retry = FALSE]
      <3>0. over \in Tab
        BY <1>1, OverType
      <3> HIDE DEF over
      <3>2. again \in Tab
        BY <3>0 DEF Tab
      <3> HIDE DEF again
      <3>3. [again EXCEPT !.at = "read"] \in Tab /\ [again EXCEPT !.at = "read"].at = "read"
        BY <3>2 DEF Tab, Places
      <3>4. [over EXCEPT !.retry = FALSE, !.at = "read"] = [again EXCEPT !.at = "read"]
        BY <3>0 DEF again, Tab
      <3>1. c \in Tab /\ c.at = "read"
        BY <2>1, <3>3, <3>4 DEF over
      <3> QED BY <1>1, <2>1, <3>1, OverType DEF Tab, Unbegun, Before
    <2>2. CASE c = [Over(crawl) EXCEPT !.retry = TRUE]
      <3> DEFINE over == Over(crawl)
      <3>0. over \in Tab /\ over.at = "off"
        BY <1>1, OverType
      <3> HIDE DEF over
      <3>2. [over EXCEPT !.retry = TRUE] \in Tab /\ [over EXCEPT !.retry = TRUE].at = "off"
        BY <3>0 DEF Tab
      <3>1. c \in Tab /\ c.at = "off"
        BY <2>2, <3>2 DEF over
      <3> QED BY <1>1, <2>2, <3>1, OverType DEF Tab, Unbegun, Before
    <2> QED BY <1>2, <2>1, <2>2
  <1> QED BY <1>1, <1>2, <1>3, StillBefore DEF Start

LEMMA CloseTabStep == ASSUME CrawlInv, CloseTab PROVE CrawlInv'
  <1>1. crawl' = NoCrawl /\ planned' = {} /\ challenged' = {} /\ since' = 0
    BY DEF CloseTab, Forget
  <1>2. NoCrawl.at \in Before /\ NoCrawl.page = NoPage /\ Unbegun(NoCrawl)
    BY DEF NoCrawl, Before, Unbegun
  <1>3. TypeOK'
    BY <1>1, NoCrawlType DEF TypeOK
  <1> QED BY <1>1, <1>2, <1>3, BeforePass

LEMMA FinishStep == ASSUME CrawlInv, Finish PROVE CrawlInv'
  <1>1. crawl' = Over(crawl) /\ crawl \in Tab /\ planned' = {} /\ challenged' = {} /\ since' = 0
    BY DEF Finish, Forget, CrawlInv, TypedInv, TypeOK
  <1>2. crawl' \in Tab /\ crawl'.at \in Before /\ crawl'.page = NoPage /\ Unbegun(crawl)'
    BY <1>1, OverIsBefore
  <1> QED BY <1>1, <1>2, BeforePass DEF TypeOK

LEMMA EndsBeforeStep == ASSUME CrawlInv, CancelAgain \/ DiscoverNone PROVE CrawlInv'
  <1>1. crawl.at \in Before /\ crawl' = Over(crawl) /\ crawl \in Tab /\ UNCHANGED <<planned, history>>
    BY DEF CancelAgain, DiscoverNone, At, Before, CrawlInv, TypedInv, TypeOK
  <1> QED BY <1>1, OverIsBefore, StillBefore

LEMMA GoesOnStep ==
  ASSUME CrawlInv, NEW place \in Before, crawl.at \in Before,
         crawl' = [crawl EXCEPT !.at = place], UNCHANGED <<planned, history>>
  PROVE  CrawlInv'
  <1>1. crawl' \in Tab /\ crawl'.at = place /\ crawl'.page = NoPage
    BY BeforeFacts DEF Tab, Before, Places, Questions, Opens
  <1>2. Unbegun(crawl)'
    BY BeforeFacts DEF Unbegun, Tab
  <1> QED BY <1>1, <1>2, StillBefore

LEMMA ChooseStep ==
  ASSUME CrawlInv, NEW teams \in SUBSET Team, NEW scope \in Scopes, NEW refresh \in BOOLEAN, Choose(teams, scope, refresh)
  PROVE  CrawlInv'
  <1>1. crawl.at \in Before
    BY DEF Choose, At, Before, Questions
  <1>2. crawl' \in Tab /\ crawl'.at = "open" /\ crawl'.page = NoPage
    BY <1>1, BeforeFacts DEF Choose, Tab, Places, Opens
  <1>3. Unbegun(crawl)'
    BY <1>1, BeforeFacts DEF Choose, Unbegun, Tab
  <1> QED BY <1>1, <1>2, <1>3, StillBefore DEF Choose, Before

LEMMA ReadStoredStep ==
  ASSUME CrawlInv, NEW stored \in Stored \cup {<<{}, {}>>}, ReadStored(stored[1], stored[2])
  PROVE  CrawlInv'
  <1>1. crawl.at \in Before
    BY DEF ReadStored, At, Before
  <1>2. stored[1] \in SUBSET Page /\ stored[2] \in SUBSET Event
    BY StoredAssumption
  <1>3. crawl' \in Tab /\ crawl'.at = "discover" /\ crawl'.page = NoPage
    BY <1>1, <1>2, BeforeFacts DEF ReadStored, Tab, Places
  <1>4. Unbegun(crawl)'
    BY <1>1, BeforeFacts DEF ReadStored, Unbegun, Tab
  <1> QED BY <1>1, <1>3, <1>4, StillBefore DEF ReadStored, Before

LEMMA DiscoverStep ==
  ASSUME CrawlInv, NEW refs \in SUBSET Event, Discover(refs)
  PROVE  CrawlInv'
  <1>1. crawl.at \in Before
    BY DEF Discover, At, Before
  <1>2. crawl' \in Tab /\ crawl'.at = "confirm" /\ crawl'.page = NoPage
    <2>1. PICK b \in BOOLEAN : b = (refs # {})
      OBVIOUS
    <2>2. crawl' = [crawl EXCEPT !.at = "confirm", !.known = crawl.known \cup refs, !.index = b]
      BY <2>1 DEF Discover
    <2>3. crawl \in Tab
      BY <1>1, BeforeFacts
    <2> QED BY <1>1, <2>2, <2>3, BeforeFacts DEF Tab, Places, Questions
  <1>3. Unbegun(crawl)'
    BY <1>1, BeforeFacts DEF Discover, Unbegun, Tab
  <1> QED BY <1>1, <1>2, <1>3, StillBefore DEF Discover, Before, Questions
-----------------------------------------------------------------------------
(* Steps that change only the buttons *)

LEMMA InvFacts ==
  ASSUME CrawlInv
  PROVE  /\ crawl \in Tab /\ planned \subseteq Nat /\ challenged \subseteq Passes /\ since \in Nat
         /\ Flight(crawl) /\ Unbegun(crawl) /\ Sorted(crawl) /\ Found(crawl) /\ Spared(crawl)
         /\ Covered(crawl) /\ EventCount(crawl) /\ Counted(crawl) /\ CompleteIsTheWholePlan
         /\ Streak(crawl) /\ AfterCancel(crawl) /\ Challenges(crawl)
  BY DEF CrawlInv, TypedInv, TypeOK, PagesInv, PlanInv, Passes

(* What the plans are made from *)
SamePlans(c, d) ==
  /\ d.teams = c.teams /\ d.scope = c.scope /\ d.index = c.index
  /\ d.long = c.long /\ d.known = c.known /\ d.swimmers = c.swimmers

LEMMA PlansStay ==
  ASSUME NEW c, NEW d, SamePlans(c, d)
  PROVE  /\ \A pass : Wants(d, pass) = Wants(c, pass)
         /\ SwimsPlan(d) = SwimsPlan(c) /\ RosterPlan(d) = RosterPlan(c)
         /\ EventPlan(d) = EventPlan(c) /\ TimesPlan(d) = TimesPlan(c)
         /\ Planned(d) = Planned(c)
  BY DEF SamePlans, Wants, SwimsPlan, RosterPlan, EventPlan, TimesPlan, Planned

LEMMA ButtonsStep ==
  ASSUME CrawlInv, NEW b \in BOOLEAN, UNCHANGED <<planned, history>>,
         \/ crawl' = [crawl EXCEPT !.cancelled = TRUE] /\ ~crawl.cancelled
         \/ crawl' = [crawl EXCEPT !.paused = b]
  PROVE  CrawlInv'
  <1> USE InvFacts
  <1>1. /\ crawl'.at = crawl.at /\ crawl'.step = crawl.step /\ crawl'.held = crawl.held
        /\ crawl'.refresh = crawl.refresh /\ crawl'.attempted = crawl.attempted /\ crawl'.fetched = crawl.fetched
        /\ crawl'.todo = crawl.todo /\ crawl'.page = crawl.page /\ crawl'.tries = crawl.tries
        /\ crawl'.lost = crawl.lost /\ crawl'.stopped = crawl.stopped /\ crawl'.eventTotal = crawl.eventTotal
        /\ crawl'.verdict = crawl.verdict
        /\ SamePlans(crawl, crawl')
    BY DEF Tab, SamePlans
  <1>2. crawl' \in Tab
    <2>1. CASE crawl' = [crawl EXCEPT !.cancelled = TRUE]
      BY <2>1 DEF Tab
    <2>2. CASE crawl' = [crawl EXCEPT !.paused = b]
      BY <2>2 DEF Tab
    <2> QED BY <2>1, <2>2
  <1>3. ~crawl'.cancelled => ~crawl.cancelled
    BY DEF Tab
  <1>4. planned' = planned /\ challenged' = challenged /\ since' = since
    BY DEF history
  <1> HIDE DEF SamePlans
  <1>5. TypedInv'
    BY <1>1, <1>2, <1>4 DEF TypedInv, TypeOK, Flight, Unbegun, Passes, SamePlans
  <1>6. PagesInv'
    <2>1. Sorted(crawl)'
      BY <1>1 DEF Sorted, Pending
    <2>2. Found(crawl)'
      BY <1>1, PlansStay DEF Found, SamePlans
    <2>3. Spared(crawl)'
      BY <1>1 DEF Spared, Pending
    <2> QED BY <2>1, <2>2, <2>3 DEF PagesInv
  <1>7. PlanInv'
    <2>1. Covered(crawl)'
      BY <1>1, PlansStay DEF Covered, Pending, Got, SamePlans
    <2>2. EventCount(crawl)' /\ Counted(crawl)'
      BY <1>1, <1>4, PlansStay DEF EventCount, Counted
    <2>3. CompleteIsTheWholePlan'
      BY <1>1, <1>4, PlansStay DEF CompleteIsTheWholePlan, Ending, At
    <2> QED BY <2>1, <2>2, <2>3 DEF PlanInv
  <1>8. Streak(crawl)' /\ Challenges(crawl)'
    BY <1>1, <1>4 DEF Streak, Challenges
  <1>9. AfterCancel(crawl)'
    BY <1>1, <1>3, <1>4 DEF AfterCancel
  <1> QED BY <1>5, <1>6, <1>7, <1>8, <1>9 DEF CrawlInv

LEMMA CancelStep == ASSUME CrawlInv, Cancel PROVE CrawlInv'
  <1>1. CASE At(Questions)
    <2>1. crawl.at \in Before /\ [crawl EXCEPT !.cancelled = TRUE] \in Tab
      BY <1>1, InvFacts DEF At, Before, Tab
    <2>2. crawl' = Over([crawl EXCEPT !.cancelled = TRUE]) /\ UNCHANGED <<planned, history>>
      BY <1>1 DEF Cancel
    <2> QED BY <2>1, <2>2, OverIsBefore, StillBefore
  <1>2. CASE ~At(Questions)
    BY <1>2, ButtonsStep DEF Cancel
  <1> QED BY <1>1, <1>2

LEMMA PauseStep == ASSUME CrawlInv, TogglePause PROVE CrawlInv'
  <1>1. PICK b \in BOOLEAN : b = ~crawl.paused
    OBVIOUS
  <1>2. crawl' = [crawl EXCEPT !.paused = b] /\ UNCHANGED <<planned, history>>
    BY <1>1 DEF TogglePause
  <1> QED BY <1>2, ButtonsStep
-----------------------------------------------------------------------------
(* From one pass to the next *)

(* What a step between two pages leaves alone *)
Kept(c, d) ==
  /\ SamePlans(c, d)
  /\ d.held = c.held /\ d.refresh = c.refresh /\ d.fetched = c.fetched /\ d.cancelled = c.cancelled
  /\ d.tries = c.tries /\ d.lost = c.lost /\ d.stopped = c.stopped

(* A step between two pages that no request of and no reply to is part of: *)
(* what is left to show is said of the pages alone.                        *)
LEMMA BetweenPages ==
  ASSUME CrawlInv, crawl' \in Tab, planned' \subseteq Nat, UNCHANGED history, Kept(crawl, crawl'),
         crawl.page = NoPage, crawl'.page = NoPage, crawl.step = "head", crawl'.step = "head",
         crawl.at \notin Before \ {"open"}, crawl'.at \notin Before,
         crawl'.at \in {"correct", "times-open"} => crawl'.todo = {},
         Streak(crawl)', PagesInv', PlanInv',
         crawl.at # "finish"
  PROVE  CrawlInv'
  <1> USE InvFacts
  <1>1. TypedInv'
    <2>1. NoPage \notin crawl'.todo
      BY PageKinds DEF Tab
    <2> QED BY <2>1 DEF TypedInv, TypeOK, Flight, Unbegun, history, Kept, Passes
  <1>2. AfterCancel(crawl)'
    BY DEF AfterCancel, Kept, history
  <1>3. Challenges(crawl)'
    BY DEF Challenges, Kept, history
  <1> QED BY <1>1, <1>2, <1>3 DEF CrawlInv

(* How the count, the streak and the plans follow, with what is kept. *)
LEMMA KeptPlans ==
  ASSUME NEW c, NEW d, Kept(c, d)
  PROVE  /\ \A pass : Wants(d, pass) = Wants(c, pass)
         /\ SwimsPlan(d) = SwimsPlan(c) /\ RosterPlan(d) = RosterPlan(c)
         /\ EventPlan(d) = EventPlan(c) /\ TimesPlan(d) = TimesPlan(c)
         /\ Planned(d) = Planned(c)
         /\ d.teams = c.teams /\ d.known = c.known /\ d.swimmers = c.swimmers
         /\ d.fetched = c.fetched /\ d.held = c.held /\ d.refresh = c.refresh /\ Got(d) = Got(c)
         /\ d.lost = c.lost /\ d.stopped = c.stopped
  BY PlansStay DEF Kept, SamePlans, Got

LEMMA EnterKeeps ==
  ASSUME NEW c \in Tab, NEW pass \in Places, NEW pages \in SUBSET Page
  PROVE  /\ Enter(c, pass, pages) \in Tab /\ Kept(c, Enter(c, pass, pages))
         /\ Enter(c, pass, pages).at = pass /\ Enter(c, pass, pages).todo = pages
         /\ Enter(c, pass, pages).step = "head" /\ Enter(c, pass, pages).page = c.page
         /\ Enter(c, pass, pages).attempted = c.attempted /\ Enter(c, pass, pages).eventTotal = c.eventTotal
  BY DEF Enter, Tab, Kept, SamePlans

LEMMA PlaceKeeps ==
  ASSUME NEW c \in Tab, NEW place \in Places
  PROVE  LET d == [c EXCEPT !.at = place] IN
         /\ d \in Tab /\ Kept(c, d)
         /\ d.at = place /\ d.todo = c.todo /\ d.step = c.step /\ d.page = c.page
         /\ d.attempted = c.attempted /\ d.eventTotal = c.eventTotal
  BY DEF Tab, Kept, SamePlans

LEMMA FinishingKeeps ==
  ASSUME NEW c \in Tab, NEW verdict \in {"partial", "complete"}
  PROVE  /\ Finishing(c, verdict) \in Tab /\ Kept(c, Finishing(c, verdict))
         /\ Finishing(c, verdict).at = "finish" /\ Finishing(c, verdict).todo = c.todo
         /\ Finishing(c, verdict).step = "head" /\ Finishing(c, verdict).page = c.page
         /\ Finishing(c, verdict).attempted = c.attempted /\ Finishing(c, verdict).eventTotal = c.eventTotal
         /\ Finishing(c, verdict).verdict = verdict
  BY DEF Finishing, Tab, Kept, SamePlans, Places

(* A pass that gives up or ends leaves nothing more to be shown than its   *)
(* verdict.                                                                *)
LEMMA FinishingStep ==
  ASSUME CrawlInv, NEW verdict \in {"partial", "complete"}, crawl' = Finishing(crawl, verdict),
         UNCHANGED <<planned, history>>, crawl.at \in Passes, crawl.step = "head",
         verdict = "complete" => /\ Planned(crawl) \subseteq Got(crawl)
                                 /\ planned \subseteq {Cardinality(Planned(crawl))}
  PROVE  CrawlInv'
  <1> USE InvFacts, FinishingKeeps
  <1>1. crawl.page = NoPage
    BY DEF Flight
  <1>2. /\ crawl'.at = "finish" /\ crawl'.todo = crawl.todo /\ crawl'.page = NoPage
        /\ crawl'.step = "head" /\ crawl'.attempted = crawl.attempted /\ crawl'.eventTotal = crawl.eventTotal
        /\ crawl'.verdict = verdict /\ crawl' \in Tab /\ Kept(crawl, crawl')
    BY <1>1
  <1>3. PagesInv'
    BY <1>1, <1>2, KeptPlans DEF PagesInv, Sorted, Found, Spared, Pending
  <1>4. EventCount(crawl)' /\ Covered(crawl)' /\ Counted(crawl)'
    BY <1>2 DEF EventCount, Covered, Counted
  <1>5. CompleteIsTheWholePlan'
    <2>1. Ending("complete")' => verdict = "complete"
      BY <1>2 DEF Ending, At
    <2>2. Planned(crawl)' = Planned(crawl) /\ Got(crawl)' = Got(crawl)
      BY <1>2, KeptPlans
    <2>3. planned' = planned
      OBVIOUS
    <2> QED BY <2>1, <2>2, <2>3 DEF CompleteIsTheWholePlan, Got
  <1>6. Streak(crawl)'
    BY <1>2 DEF Streak, Kept, Before, Questions
  <1>7. planned' \subseteq Nat /\ UNCHANGED history
    OBVIOUS
  <1>8. crawl.at \notin Before /\ crawl'.at \notin Before /\ crawl.at # "finish"
    BY <1>2 DEF Passes, Sequential, Pooled, Before, Questions
  <1> QED BY <1>1, <1>2, <1>3, <1>4, <1>5, <1>6, <1>7, <1>8, BetweenPages DEF PlanInv
-----------------------------------------------------------------------------
LEMMA SweepDoneStep == ASSUME CrawlInv, SweepDone PROVE CrawlInv'
  <1> USE InvFacts
  <1>1. /\ crawl.at = "sweep" /\ crawl.step = "head" /\ crawl.todo = {} /\ crawl.page = NoPage
        /\ crawl' = [crawl EXCEPT !.at = "correct"] /\ UNCHANGED <<planned, history>>
    BY DEF SweepDone, At, Flight
  <1>2. /\ crawl'.at = "correct" /\ crawl'.todo = {} /\ crawl'.page = NoPage /\ crawl'.step = "head"
        /\ crawl'.attempted = crawl.attempted /\ crawl'.eventTotal = crawl.eventTotal
        /\ crawl' \in Tab /\ Kept(crawl, crawl')
    BY <1>1, PlaceKeeps DEF Places, Opens
  <1>3. PagesInv'
    BY <1>1, <1>2, KeptPlans DEF PagesInv, Sorted, Found, Spared, Pending
  <1>4. PlanInv'
    <2>1. Covered(crawl)'
      BY <1>1, <1>2, KeptPlans DEF Covered, Pending
    <2>2. EventCount(crawl)' /\ Counted(crawl)' /\ CompleteIsTheWholePlan'
      BY <1>2 DEF EventCount, Counted, CompleteIsTheWholePlan, Ending, At
    <2> QED BY <2>1, <2>2 DEF PlanInv
  <1>5. Streak(crawl)'
    BY <1>1, <1>2 DEF Streak, Kept, Before, Questions
  <1> QED BY <1>1, <1>2, <1>3, <1>4, <1>5, BetweenPages DEF Before, Questions

LEMMA BulkDoneStep == ASSUME CrawlInv, BulkDone PROVE CrawlInv'
  <1> USE InvFacts
  <1>1. /\ crawl.at = "bulk" /\ crawl.step = "head" /\ crawl.todo = {} /\ crawl.page = NoPage
        /\ crawl' = Enter(crawl, "events", {}) /\ UNCHANGED <<planned, history>>
    BY DEF BulkDone, At, Flight
  <1>2. /\ crawl'.at = "events" /\ crawl'.todo = {} /\ crawl'.page = NoPage /\ crawl'.step = "head"
        /\ crawl'.attempted = crawl.attempted /\ crawl'.eventTotal = crawl.eventTotal
        /\ crawl' \in Tab /\ Kept(crawl, crawl')
    BY <1>1, EnterKeeps DEF Places, Pooled
  <1>3. PagesInv'
    BY <1>1, <1>2, KeptPlans DEF PagesInv, Sorted, Found, Spared, Pending
  <1>4. PlanInv'
    <2>1. Covered(crawl)'
      BY <1>1, <1>2, KeptPlans DEF Covered, Pending, Found, Results
    <2>2. EventCount(crawl)' /\ Counted(crawl)' /\ CompleteIsTheWholePlan'
      BY <1>1, <1>2, KeptPlans DEF EventCount, Counted, CompleteIsTheWholePlan, Ending, At
    <2> QED BY <2>1, <2>2 DEF PlanInv
  <1>5. Streak(crawl)'
    BY <1>1, <1>2, CrawlAssumption DEF Streak, Kept, Before, Questions, Tab
  <1> QED BY <1>1, <1>2, <1>3, <1>4, <1>5, BetweenPages DEF Before, Questions

LEMMA OutstandingFacts ==
  ASSUME NEW c \in Tab
  PROVE  /\ Outstanding(c) \subseteq c.known /\ Outstanding(c) \cap c.attempted = {}
         /\ Outstanding(c) # {} => Wants(c, "events")
         /\ Wants(c, "events") => c.known \subseteq c.attempted \cup Outstanding(c)
         /\ EventPlan(c) = IF Wants(c, "events") THEN Results(c.known) ELSE {}
  BY DEF Outstanding, EventPlan, Results

LEMMA ResultsOf ==
  /\ \A A, B : Results(A \cup B) = Results(A) \cup Results(B)
  /\ \A A, B : A \cap B = {} => Results(A) \cap Results(B) = {}
  /\ \A A, B : A \subseteq B => Results(A) \subseteq Results(B)
  /\ \A A \in SUBSET Event : Results(A) \subseteq Page
  BY PagesDiffer, PageKinds DEF Results

LEMMA EventRoundStep == ASSUME CrawlInv, EventRound PROVE CrawlInv'
  <1> USE InvFacts
  <1> DEFINE new == Outstanding(crawl)
  <1>1. /\ crawl.at = "events" /\ crawl.step = "head" /\ crawl.todo = {} /\ crawl.page = NoPage
        /\ new # {} /\ UNCHANGED <<planned, history>> /\ "events" \notin crawl.stopped
    BY DEF EventRound, At, Flight, Halted
  <1>2. /\ new \subseteq Event /\ new \cap crawl.attempted = {} /\ Wants(crawl, "events")
        /\ crawl.attempted \cup new = crawl.known
    BY <1>1, OutstandingFacts DEF Found, Tab
  <1>3. EventPlan(crawl) = Results(crawl.attempted \cup new) /\ ToFetch(crawl, Results(new)) = Results(new) \ crawl.held
    BY <1>2, OutstandingFacts DEF ToFetch
  <1>4. Cardinality(EventPlan(crawl)) \in Nat
    <2>1. IsFiniteSet(crawl.attempted \cup new)
      BY <1>2, FS_Subset, CrawlAssumption DEF Tab
    <2>2. [e \in crawl.attempted \cup new |-> Result(e)] \in Surjection(crawl.attempted \cup new, Results(crawl.attempted \cup new))
      BY DEF Surjection, Results
    <2>3. IsFiniteSet(Results(crawl.attempted \cup new))
      BY <2>1, <2>2, FS_Surjection
    <2> QED BY <1>3, <2>3, FS_CardinalityType
  <1>5. crawl' = [crawl EXCEPT !.at = "events-open", !.attempted = crawl.attempted \cup new,
                               !.eventTotal = Cardinality(EventPlan(crawl)), !.todo = Results(new) \ crawl.held]
    BY <1>3 DEF EventRound, Results
  <1>6. Results(new) \ crawl.held \subseteq Page
    BY <1>2, ResultsOf
  <1>7. /\ crawl'.at = "events-open" /\ crawl'.todo = Results(new) \ crawl.held /\ crawl'.page = NoPage
        /\ crawl'.attempted = crawl.attempted \cup new /\ crawl'.eventTotal = Cardinality(EventPlan(crawl))
        /\ crawl'.step = "head" /\ Kept(crawl, crawl')
    BY <1>1, <1>5 DEF Tab, Kept, SamePlans
  <1>8. crawl' \in Tab
    BY <1>2, <1>4, <1>5, <1>6 DEF Tab, Places, Opens
  <1> HIDE DEF new
  <1>9. Results(crawl.attempted \cup new) = Results(crawl.attempted) \cup Results(new)
    BY ResultsOf
  <1>10. PagesInv'
    <2>1. Results(new) \cap crawl.fetched = {}
      BY <1>1, <1>2, ResultsOf, PagesDiffer DEF Sorted, Results, Firsts, Mores
    <2>2. Sorted(crawl)'
      BY <1>1, <1>7, <1>9, <2>1, KeptPlans DEF Sorted, Pending
    <2>3. Found(crawl)'
      BY <1>1, <1>2, <1>7, KeptPlans DEF Found
    <2>4. Spared(crawl)'
      BY <1>7, KeptPlans DEF Spared, Pending
    <2> QED BY <2>2, <2>3, <2>4 DEF PagesInv
  <1>11. PlanInv'
    <2>1. Covered(crawl)'
      BY <1>1, <1>7, <1>9, KeptPlans DEF Covered, Pending, Got
    <2>2. EventCount(crawl)'
      BY <1>3, <1>7 DEF EventCount
    <2>3. Counted(crawl)' /\ CompleteIsTheWholePlan'
      BY <1>7 DEF Counted, CompleteIsTheWholePlan, Ending, At
    <2> QED BY <2>1, <2>2, <2>3 DEF PlanInv
  <1>12. Streak(crawl)'
    BY <1>1, <1>7 DEF Streak, Kept, Before, Questions, Tab
  <1> QED BY <1>1, <1>7, <1>8, <1>10, <1>11, <1>12, BetweenPages DEF Before, Questions

LEMMA EventsDoneStep == ASSUME CrawlInv, EventsDone PROVE CrawlInv'
  <1> USE InvFacts
  <1>1. /\ crawl.at = "events" /\ crawl.step = "head" /\ crawl.page = NoPage /\ UNCHANGED <<planned, history>>
        /\ Halted(crawl) \/ (crawl.todo = {} /\ Outstanding(crawl) = {})
    BY DEF EventsDone, At, Flight
  <1>2. CASE crawl.cancelled
    BY <1>1, <1>2, FinishingStep DEF EventsDone, Passes, Pooled
  <1>3. CASE ~crawl.cancelled
    <2>1. crawl' = Enter(crawl, "rosters", RosterPlan(crawl))
      BY <1>3 DEF EventsDone
    <2>2. /\ crawl'.at = "rosters" /\ crawl'.todo = RosterPlan(crawl) /\ crawl'.page = NoPage /\ crawl'.step = "head"
          /\ crawl'.attempted = crawl.attempted /\ crawl'.eventTotal = crawl.eventTotal
          /\ crawl' \in Tab /\ Kept(crawl, crawl')
      BY <1>1, <2>1, EnterKeeps, PlansArePages DEF Places, Sequential
    <2>3. RosterPlan(crawl) \subseteq Rosters /\ Results(crawl.attempted) \subseteq Results(Event)
      BY PlansArePages, ResultsOf DEF Tab
    <2>4. PagesInv'
      <3>1. Rosters \cap crawl.fetched = {}
        BY <1>1, <2>3, PagesDiffer DEF Sorted, Results, Firsts, Mores, Rosters
      <3>2. Sorted(crawl)'
        BY <1>1, <2>2, <2>3, <3>1, KeptPlans DEF Sorted, Pending
      <3>3. Found(crawl)' /\ Spared(crawl)'
        BY <1>1, <2>2, KeptPlans DEF Found, Spared
      <3> QED BY <3>2, <3>3 DEF PagesInv
    <2>5. PlanInv'
      <3>1. "events" \notin crawl.stopped => crawl.todo = {}
        BY <1>1, <1>3 DEF Halted
      <3>2. Covered(crawl)'
        BY <1>1, <2>2, <3>1, KeptPlans DEF Covered, Pending, Got
      <3>3. EventCount(crawl)' /\ Counted(crawl)' /\ CompleteIsTheWholePlan'
        BY <1>1, <2>2, KeptPlans DEF EventCount, Counted, CompleteIsTheWholePlan, Ending, At
      <3> QED BY <3>2, <3>3 DEF PlanInv
    <2>6. Streak(crawl)'
      BY <1>1, <2>2, CrawlAssumption DEF Streak, Kept, Before, Questions, Tab
    <2> QED BY <1>1, <2>2, <2>4, <2>5, <2>6, BetweenPages DEF Before, Questions
  <1> QED BY <1>2, <1>3

LEMMA DisjointUnion ==
  ASSUME NEW A, NEW B, IsFiniteSet(A), IsFiniteSet(B), A \cap B = {}
  PROVE  /\ IsFiniteSet(A \cup B) /\ Cardinality(A \cup B) = Cardinality(A) + Cardinality(B)
         /\ Cardinality(A) \in Nat /\ Cardinality(B) \in Nat
  <1>1. /\ IsFiniteSet(A \cup B) /\ Cardinality(A \cup B) = Cardinality(A) + Cardinality(B) - Cardinality(A \cap B)
    BY FS_Union
  <1>2. Cardinality(A \cap B) = 0
    BY FS_EmptySet
  <1>3. Cardinality(A) \in Nat /\ Cardinality(B) \in Nat
    BY FS_CardinalityType
  <1> QED BY <1>1, <1>2, <1>3

(* The pages of a plan are of four kinds, and so are counted apart. *)
LEMMA PlanIsCounted ==
  ASSUME NEW c \in Tab
  PROVE  /\ Cardinality(SwimsPlan(c) \cup RosterPlan(c)) \in Nat
         /\ Cardinality(EventPlan(c)) \in Nat /\ Cardinality(TimesPlan(c)) \in Nat
         /\ Cardinality(Planned(c))
              = Cardinality(SwimsPlan(c) \cup RosterPlan(c)) + Cardinality(EventPlan(c)) + Cardinality(TimesPlan(c))
  <1>1. IsFiniteSet(Firsts) /\ IsFiniteSet(Mores) /\ IsFiniteSet(Rosters) /\ IsFiniteSet(Results(Event)) /\ IsFiniteSet(AllTimes)
    <2>1. [t \in Team |-> First(t)] \in Surjection(Team, Firsts)
      BY DEF Surjection, Firsts
    <2>2. [t \in Team |-> More(t)] \in Surjection(Team, Mores)
      BY DEF Surjection, Mores
    <2>3. [t \in Team |-> Roster(t)] \in Surjection(Team, Rosters)
      BY DEF Surjection, Rosters
    <2>4. [e \in Event |-> Result(e)] \in Surjection(Event, Results(Event))
      BY DEF Surjection, Results
    <2>5. [s \in Swimmer |-> Times(s)] \in Surjection(Swimmer, AllTimes)
      BY DEF Surjection, AllTimes
    <2> QED BY <2>1, <2>2, <2>3, <2>4, <2>5, FS_Surjection, CrawlAssumption
  <1> DEFINE A == SwimsPlan(c) \cup RosterPlan(c)
             B == EventPlan(c)
             C == TimesPlan(c)
  <1>2. IsFiniteSet(A) /\ IsFiniteSet(B) /\ IsFiniteSet(C)
    <2>1. IsFiniteSet(Firsts \cup Mores)
      BY <1>1, FS_Union
    <2>2. IsFiniteSet(SwimsPlan(c)) /\ IsFiniteSet(RosterPlan(c))
      BY <1>1, <2>1, PlansArePages, FS_Subset
    <2>3. IsFiniteSet(A)
      BY <2>2, FS_Union
    <2>4. IsFiniteSet(B) /\ IsFiniteSet(C)
      BY <1>1, PlansArePages, FS_Subset
    <2> QED BY <2>3, <2>4
  <1>3. A \cap B = {} /\ (A \cup B) \cap C = {}
    BY PlansArePages, PagesDiffer DEF Firsts, Mores, Rosters, Results, AllTimes
  <1>4. Planned(c) = (A \cup B) \cup C
    BY DEF Planned
  <1> HIDE DEF A, B, C
  <1>5. /\ IsFiniteSet(A \cup B) /\ Cardinality(A \cup B) = Cardinality(A) + Cardinality(B)
        /\ Cardinality(A) \in Nat /\ Cardinality(B) \in Nat
    BY <1>2, <1>3, DisjointUnion
  <1>6. /\ Cardinality((A \cup B) \cup C) = Cardinality(A \cup B) + Cardinality(C)
        /\ Cardinality(C) \in Nat
    BY <1>2, <1>3, <1>5, DisjointUnion
  <1> QED BY <1>4, <1>5, <1>6 DEF A, B, C

(* A whole crawl has planned every event it knows of. *)
LEMMA WholeFacts ==
  ASSUME CrawlInv, Whole(crawl)
  PROVE  /\ crawl.stopped = {} /\ EventPlan(crawl) = Results(crawl.attempted)
         /\ crawl.eventTotal = Cardinality(EventPlan(crawl))
  <1> USE InvFacts
  <1>1. EventPlan(crawl) \subseteq Results(crawl.attempted)
    BY DEF Whole, Results
  <1>2. Results(crawl.attempted) \subseteq EventPlan(crawl)
    <2>1. crawl.attempted \subseteq crawl.known /\ (crawl.attempted # {} => Wants(crawl, "events"))
      BY DEF Found
    <2> QED BY <2>1, OutstandingFacts DEF Results
  <1> QED BY <1>1, <1>2 DEF Whole, EventCount

LEMMA RostersDoneStep == ASSUME CrawlInv, RostersDone PROVE CrawlInv'
  <1> USE InvFacts
  <1>1. /\ crawl.at = "rosters" /\ crawl.step = "head" /\ crawl.todo = {} /\ crawl.page = NoPage
        /\ UNCHANGED <<planned, history>>
    BY DEF RostersDone, At, Flight
  <1>2. RosterPlan(crawl) \subseteq Got(crawl) /\ SwimsPlan(crawl) \subseteq Got(crawl)
    BY <1>1 DEF Covered, Pending
  <1>3. CASE TimesPlan(crawl) = {}
    <2>1. crawl' = Finishing(crawl, Verdict(crawl)) /\ Verdict(crawl) \in {"partial", "complete"}
      BY <1>3 DEF RostersDone, Verdict
    <2>2. ASSUME Verdict(crawl) = "complete"
          PROVE  Planned(crawl) \subseteq Got(crawl) /\ planned \subseteq {Cardinality(Planned(crawl))}
      <3>1. Whole(crawl)
        BY <2>2 DEF Verdict
      <3>2. Planned(crawl) \subseteq Got(crawl)
        BY <1>1, <1>2, <1>3, <3>1, WholeFacts DEF Covered, Planned
      <3>3. Cardinality(TimesPlan(crawl)) = 0
        BY <1>3, FS_EmptySet
      <3>4. Cardinality(Planned(crawl)) = Cardinality(SwimsPlan(crawl) \cup RosterPlan(crawl)) + crawl.eventTotal
        BY <3>1, <3>3, WholeFacts, PlanIsCounted
      <3> QED BY <1>1, <3>2, <3>4 DEF Counted
    <2> QED BY <1>1, <2>1, <2>2, FinishingStep DEF Passes, Sequential
  <1>4. CASE TimesPlan(crawl) # {}
    <2>1. crawl' = [crawl EXCEPT !.at = "times-open"]
      BY <1>4 DEF RostersDone
    <2>2. /\ crawl'.at = "times-open" /\ crawl'.todo = {} /\ crawl'.page = NoPage /\ crawl'.step = "head"
          /\ crawl'.attempted = crawl.attempted /\ crawl'.eventTotal = crawl.eventTotal
          /\ crawl' \in Tab /\ Kept(crawl, crawl')
      BY <1>1, <2>1, PlaceKeeps DEF Places, Opens
    <2>3. PagesInv'
      BY <1>1, <2>2, KeptPlans DEF PagesInv, Sorted, Found, Spared, Pending
    <2>4. PlanInv'
      <3>1. Covered(crawl)'
        BY <1>1, <1>2, <2>2, KeptPlans DEF Covered, Pending, Got
      <3>2. EventCount(crawl)' /\ Counted(crawl)' /\ CompleteIsTheWholePlan'
        BY <1>1, <2>2, KeptPlans DEF EventCount, Counted, CompleteIsTheWholePlan, Ending, At
      <3> QED BY <3>1, <3>2 DEF PlanInv
    <2>5. Streak(crawl)'
      BY <1>1, <2>2, CrawlAssumption DEF Streak, Kept, Before, Questions, Tab
    <2> QED BY <1>1, <2>2, <2>3, <2>4, <2>5, BetweenPages DEF Before, Questions
  <1> QED BY <1>3, <1>4

LEMMA TimesDoneStep == ASSUME CrawlInv, TimesDone PROVE CrawlInv'
  <1> USE InvFacts
  <1>1. /\ crawl.at = "times" /\ crawl.step = "head" /\ crawl.page = NoPage
        /\ UNCHANGED <<planned, history>> /\ crawl' = Finishing(crawl, Verdict(crawl))
        /\ Halted(crawl) \/ crawl.todo = {}
    BY DEF TimesDone, At, Flight
  <1>2. Verdict(crawl) \in {"partial", "complete"}
    BY DEF Verdict
  <1>3. ASSUME Verdict(crawl) = "complete"
        PROVE  Planned(crawl) \subseteq Got(crawl) /\ planned \subseteq {Cardinality(Planned(crawl))}
    <2>1. Whole(crawl)
      BY <1>3 DEF Verdict
    <2>2. TimesPlan(crawl) # {} => crawl.todo = {}
      BY <2>1 DEF Whole
    <2>3. TimesPlan(crawl) \subseteq Got(crawl)
      BY <1>1, <2>2 DEF Covered, Pending
    <2>4. Planned(crawl) \subseteq Got(crawl)
      BY <1>1, <2>1, <2>3, WholeFacts DEF Covered, Planned
    <2>5. Cardinality(Planned(crawl))
            = Cardinality(SwimsPlan(crawl) \cup RosterPlan(crawl)) + crawl.eventTotal + Cardinality(TimesPlan(crawl))
      BY <2>1, WholeFacts, PlanIsCounted
    <2> QED BY <1>1, <2>4, <2>5 DEF Counted
  <1> QED BY <1>1, <1>2, <1>3, FinishingStep DEF Passes, Pooled
-----------------------------------------------------------------------------
(* The app is told how many pages there will be, and a pass begins. *)

LEMMA CountFacts ==
  ASSUME CrawlInv, NEW taken \in BOOLEAN, OpenCapture(taken)
  PROVE  /\ planned' \subseteq {Count(crawl)} /\ planned' \subseteq Nat /\ UNCHANGED history
         /\ crawl.step = "head" /\ crawl.page = NoPage
         /\ crawl.at # "times-open" =>
              Count(crawl) = Cardinality(SwimsPlan(crawl) \cup RosterPlan(crawl)) + crawl.eventTotal
         /\ crawl.at = "times-open" =>
              Count(crawl) = Cardinality(SwimsPlan(crawl) \cup RosterPlan(crawl)) + crawl.eventTotal + Cardinality(TimesPlan(crawl))
  <1> USE InvFacts, PlanIsCounted
  <1>1. crawl.at \notin Passes
    BY DEF OpenCapture, At, Opens, Passes, Sequential, Pooled
  <1>2. crawl.step = "head" /\ crawl.page = NoPage
    BY <1>1 DEF Flight, Tab
  <1>3. crawl.eventTotal \in Nat
    BY DEF Tab
  <1>4. /\ crawl.at # "times-open" =>
              Count(crawl) = Cardinality(SwimsPlan(crawl) \cup RosterPlan(crawl)) + crawl.eventTotal
        /\ crawl.at = "times-open" =>
              Count(crawl) = Cardinality(SwimsPlan(crawl) \cup RosterPlan(crawl)) + crawl.eventTotal + Cardinality(TimesPlan(crawl))
    BY <1>3 DEF Count
  <1>5. Count(crawl) \in Nat
    BY <1>3, <1>4
  <1>6. planned' \subseteq {Count(crawl)} /\ UNCHANGED history
    BY DEF OpenCapture
  <1> QED BY <1>2, <1>4, <1>5, <1>6

LEMMA OpenSweepStep ==
  ASSUME CrawlInv, NEW taken \in BOOLEAN, OpenCapture(taken), crawl.at = "open" PROVE CrawlInv'
  <1> USE InvFacts, CountFacts
  <1>1. Unbegun(crawl) /\ crawl.long = {} /\ crawl.fetched = {} /\ crawl.attempted = {} /\ crawl.swimmers = {} /\ crawl.lost = 0
    BY DEF Unbegun, Before
  <1>2. crawl' = Enter(crawl, "sweep", SwimsPlan(crawl))
    BY DEF OpenCapture, At
  <1>3. /\ crawl'.at = "sweep" /\ crawl'.todo = SwimsPlan(crawl) /\ crawl'.page = NoPage /\ crawl'.step = "head"
        /\ crawl'.attempted = crawl.attempted /\ crawl'.eventTotal = crawl.eventTotal
        /\ crawl' \in Tab /\ Kept(crawl, crawl')
    BY <1>2, EnterKeeps, PlansArePages DEF Places, Sequential
  <1>4. /\ SwimsPlan(crawl) \subseteq Firsts
        /\ SwimsPlan(crawl) # {} => \A t \in crawl.teams : First(t) \in SwimsPlan(crawl)
    BY <1>1 DEF SwimsPlan, Firsts, Tab
  <1>5. PagesInv'
    BY <1>1, <1>3, <1>4, KeptPlans DEF PagesInv, Sorted, Found, Spared, Pending
  <1>6. PlanInv'
    <2>1. Covered(crawl)'
      BY <1>3, <1>4, KeptPlans DEF Covered, Pending
    <2>2. EventCount(crawl)' /\ Counted(crawl)' /\ CompleteIsTheWholePlan'
      BY <1>3 DEF EventCount, Counted, CompleteIsTheWholePlan, Ending, At
    <2> QED BY <2>1, <2>2 DEF PlanInv
  <1>7. Streak(crawl)'
    BY <1>1, <1>3, CrawlAssumption DEF Streak, Kept, Before, Questions
  <1> QED BY <1>3, <1>5, <1>6, <1>7, BetweenPages DEF Before, Questions

LEMMA OpenBulkStep ==
  ASSUME CrawlInv, NEW taken \in BOOLEAN, OpenCapture(taken), crawl.at = "correct" PROVE CrawlInv'
  <1> USE InvFacts, CountFacts
  <1> DEFINE rest == (SwimsPlan(crawl) \ crawl.fetched) \ crawl.held
  <1>1. crawl' = Enter(crawl, "bulk", rest)
    BY DEF OpenCapture, At, ToFetch
  <1>2. rest \subseteq Page /\ rest \subseteq Mores
    <2>1. SwimsPlan(crawl) # {} => \A t \in crawl.teams : First(t) \in crawl.fetched
      BY DEF Covered
    <2>2. SwimsPlan(crawl) \subseteq {First(t) : t \in crawl.teams} \cup Mores
      BY DEF SwimsPlan, Mores, Tab
    <2> QED BY <2>1, <2>2, PlansArePages
  <1>3. /\ crawl'.at = "bulk" /\ crawl'.todo = rest /\ crawl'.page = NoPage /\ crawl'.step = "head"
        /\ crawl'.attempted = crawl.attempted /\ crawl'.eventTotal = crawl.eventTotal
        /\ crawl' \in Tab /\ Kept(crawl, crawl')
    BY <1>1, <1>2, EnterKeeps DEF Places, Sequential
  <1>4. PagesInv'
    <2>1. Sorted(crawl)'
      BY <1>2, <1>3, KeptPlans DEF Sorted, Pending
    <2>2. Found(crawl)' /\ Spared(crawl)'
      BY <1>3, KeptPlans DEF Found, Spared, Pending
    <2> QED BY <2>1, <2>2 DEF PagesInv
  <1>5. PlanInv'
    <2>1. Covered(crawl)'
      BY <1>3, KeptPlans DEF Covered, Pending, Got
    <2>2. EventCount(crawl)' /\ Counted(crawl)' /\ CompleteIsTheWholePlan'
      BY <1>3, KeptPlans DEF EventCount, Counted, CompleteIsTheWholePlan, Ending, At
    <2> QED BY <2>1, <2>2 DEF PlanInv
  <1>6. Streak(crawl)'
    BY <1>3 DEF Streak, Kept, Before, Questions
  <1> QED BY <1>3, <1>4, <1>5, <1>6, BetweenPages DEF Before, Questions

LEMMA OpenEventsStep ==
  ASSUME CrawlInv, NEW taken \in BOOLEAN, OpenCapture(taken), crawl.at = "events-open" PROVE CrawlInv'
  <1> USE InvFacts, CountFacts
  <1>1. crawl' = [crawl EXCEPT !.at = "events"]
    BY DEF OpenCapture, At
  <1>2. /\ crawl'.at = "events" /\ crawl'.todo = crawl.todo /\ crawl'.page = NoPage /\ crawl'.step = "head"
        /\ crawl'.attempted = crawl.attempted /\ crawl'.eventTotal = crawl.eventTotal
        /\ crawl' \in Tab /\ Kept(crawl, crawl')
    BY <1>1, PlaceKeeps DEF Places, Pooled
  <1>3. PagesInv'
    BY <1>2, KeptPlans DEF PagesInv, Sorted, Found, Spared, Pending
  <1>4. PlanInv'
    <2>1. Covered(crawl)'
      BY <1>2, KeptPlans DEF Covered, Pending, Got
    <2>2. EventCount(crawl)' /\ Counted(crawl)' /\ CompleteIsTheWholePlan'
      BY <1>2, KeptPlans DEF EventCount, Counted, CompleteIsTheWholePlan, Ending, At
    <2> QED BY <2>1, <2>2 DEF PlanInv
  <1>5. Streak(crawl)'
    BY <1>2 DEF Streak, Kept, Before, Questions
  <1> QED BY <1>2, <1>3, <1>4, <1>5, BetweenPages DEF Before, Questions

LEMMA OpenTimesStep ==
  ASSUME CrawlInv, NEW taken \in BOOLEAN, OpenCapture(taken), crawl.at = "times-open" PROVE CrawlInv'
  <1> USE InvFacts, CountFacts
  <1> DEFINE pages == IF crawl.refresh THEN TimesPlan(crawl) ELSE TimesPlan(crawl) \ crawl.held
  <1>1. crawl' = Enter(crawl, "times", pages)
    BY DEF OpenCapture, At, ToFetch
  <1>2. pages \subseteq Page /\ pages \subseteq AllTimes /\ TimesPlan(crawl) \subseteq crawl.held \cup pages
    BY PlansArePages
  <1>3. /\ crawl'.at = "times" /\ crawl'.todo = pages /\ crawl'.page = NoPage /\ crawl'.step = "head"
        /\ crawl'.attempted = crawl.attempted /\ crawl'.eventTotal = crawl.eventTotal
        /\ crawl' \in Tab /\ Kept(crawl, crawl')
    BY <1>1, <1>2, EnterKeeps DEF Places, Pooled
  <1>4. ~crawl.refresh => crawl.held \cap pages = {}
    OBVIOUS
  <1>5. AllTimes \cap crawl.fetched = {}
    BY PagesDiffer DEF Sorted, Results, Firsts, Mores, Rosters, AllTimes
  <1> HIDE DEF pages
  <1>6. PagesInv'
    <2>1. Sorted(crawl)'
      BY <1>2, <1>3, <1>5, KeptPlans DEF Sorted, Pending
    <2>2. Found(crawl)' /\ Spared(crawl)'
      BY <1>3, <1>4, KeptPlans DEF Found, Spared, Pending
    <2> QED BY <2>1, <2>2 DEF PagesInv
  <1>7. PlanInv'
    <2>1. Covered(crawl)'
      BY <1>2, <1>3, KeptPlans DEF Covered, Pending, Got
    <2>2. EventCount(crawl)' /\ Counted(crawl)' /\ CompleteIsTheWholePlan'
      BY <1>3, KeptPlans DEF EventCount, Counted, CompleteIsTheWholePlan, Ending, At
    <2> QED BY <2>1, <2>2 DEF PlanInv
  <1>8. Streak(crawl)'
    BY <1>3, CrawlAssumption DEF Streak, Kept, Before, Questions, Tab
  <1> QED BY <1>3, <1>6, <1>7, <1>8, BetweenPages DEF Before, Questions

LEMMA OpenCaptureStep == ASSUME CrawlInv, NEW taken \in BOOLEAN, OpenCapture(taken) PROVE CrawlInv'
  BY OpenSweepStep, OpenBulkStep, OpenEventsStep, OpenTimesStep DEF OpenCapture, At, Opens
-----------------------------------------------------------------------------
(* One page *)

(* A step that moves a page from the list to its request, or on its way    *)
(* there, leaves the pages, the plans and the streak as they were.         *)
LEMMA SamePages ==
  ASSUME CrawlInv, Kept([crawl EXCEPT !.tries = crawl'.tries], crawl'), crawl'.at = crawl.at,
         crawl'.attempted = crawl.attempted, crawl'.eventTotal = crawl.eventTotal,
         Pending(crawl)' = Pending(crawl), crawl.at # "finish", UNCHANGED <<planned, challenged>>
  PROVE  PagesInv' /\ PlanInv' /\ Streak(crawl)' /\ Challenges(crawl)'
  <1> USE InvFacts
  <1> DEFINE c == [crawl EXCEPT !.tries = crawl'.tries]
  <1>1. /\ SamePlans(c, crawl) /\ c.held = crawl.held /\ c.refresh = crawl.refresh /\ c.fetched = crawl.fetched
        /\ c.lost = crawl.lost /\ c.stopped = crawl.stopped
    BY DEF Tab, SamePlans
  <1> HIDE DEF c
  <1>2. SamePlans(crawl, crawl')
    BY <1>1 DEF Kept, SamePlans, c
  <1>3. /\ crawl'.held = crawl.held /\ crawl'.refresh = crawl.refresh /\ crawl'.fetched = crawl.fetched
        /\ crawl'.lost = crawl.lost /\ crawl'.stopped = crawl.stopped
    BY <1>1 DEF Kept, c
  <1>4. PagesInv'
    BY <1>2, <1>3, PlansStay DEF PagesInv, Sorted, Found, Spared, SamePlans
  <1>5. PlanInv'
    <2>1. Covered(crawl)'
      BY <1>2, <1>3, PlansStay DEF Covered, Got, SamePlans
    <2>2. EventCount(crawl)' /\ Counted(crawl)' /\ CompleteIsTheWholePlan'
      BY <1>2, <1>3, PlansStay DEF EventCount, Counted, CompleteIsTheWholePlan, Ending, At
    <2> QED BY <2>1, <2>2 DEF PlanInv
  <1>6. Streak(crawl)' /\ Challenges(crawl)'
    BY <1>3 DEF Streak, Challenges
  <1> QED BY <1>4, <1>5, <1>6

LEMMA AskingFacts ==
  ASSUME NEW c \in Tab, c.todo # {}, c.page = NoPage
  PROVE  /\ Asking(c) \in Tab /\ Asking(c).at = c.at /\ Asking(c).step = "asked" /\ Asking(c).tries = 1
         /\ Asking(c).page \in c.todo /\ Asking(c).page \in Page /\ Asking(c).page # NoPage
         /\ Asking(c).todo = c.todo \ {Asking(c).page}
         /\ Pending(Asking(c)) = Pending(c)
         /\ Asking(c).attempted = c.attempted /\ Asking(c).eventTotal = c.eventTotal /\ Asking(c).cancelled = c.cancelled
         /\ Asking(c).stopped = c.stopped
         /\ Kept([c EXCEPT !.tries = Asking(c).tries], Asking(c))
  <1> DEFINE page == CHOOSE page \in c.todo : TRUE
  <1>1. page \in c.todo
    OBVIOUS
  <1>2. Asking(c) = [c EXCEPT !.step = "asked", !.page = page, !.todo = c.todo \ {page}, !.tries = 1]
    BY DEF Asking
  <1> HIDE DEF page
  <1>3. page \in Page /\ page # NoPage
    BY <1>1, PageKinds DEF Tab
  <1>4. Asking(c) \in Tab
    <2>1. c.todo \ {page} \subseteq Page
      BY DEF Tab
    <2>2. 1 \in 0 .. MaxRetries + 1
      BY CrawlAssumption
    <2>3. ASSUME NEW p \in Page, NEW pages \in SUBSET Page, NEW n \in 0 .. MaxRetries + 1, NEW d,
                 d = [c EXCEPT !.step = "asked", !.page = p, !.todo = pages, !.tries = n]
          PROVE  d \in Tab
      BY <2>3 DEF Tab
    <2>4. c.todo \ {page} \in SUBSET Page
      BY <2>1
    <2> QED BY <1>2, <1>3, <2>2, <2>3, <2>4, Zenon
  <1>5. /\ Asking(c).at = c.at /\ Asking(c).step = "asked" /\ Asking(c).tries = 1
        /\ Asking(c).page = page /\ Asking(c).todo = c.todo \ {page}
        /\ Asking(c).attempted = c.attempted /\ Asking(c).eventTotal = c.eventTotal /\ Asking(c).cancelled = c.cancelled
        /\ Asking(c).stopped = c.stopped
    BY <1>2 DEF Tab
  <1>6. Kept([c EXCEPT !.tries = Asking(c).tries], Asking(c))
    BY <1>2 DEF Tab, Kept, SamePlans
  <1>7. Pending(Asking(c)) = Pending(c)
    BY <1>1, <1>3, <1>5 DEF Pending
  <1> QED BY <1>1, <1>3, <1>4, <1>5, <1>6, <1>7

LEMMA AskingStep ==
  ASSUME CrawlInv, crawl' = Asking(crawl), since' = Sent(crawl), UNCHANGED <<planned, challenged>>,
         crawl.at \in Passes, crawl.step # "asked", crawl.todo # {}, since = 0,
         crawl.at \in Pooled => crawl.at \notin crawl.stopped
  PROVE  CrawlInv'
  <1> USE InvFacts
  <1>1. crawl.page = NoPage
    BY DEF Flight
  <1>2. /\ crawl' \in Tab /\ crawl'.at = crawl.at /\ crawl'.step = "asked" /\ crawl'.tries = 1
        /\ crawl'.page \in Page /\ crawl'.page # NoPage /\ crawl'.page \notin crawl'.todo
        /\ Pending(crawl)' = Pending(crawl) /\ crawl'.attempted = crawl.attempted
        /\ crawl'.eventTotal = crawl.eventTotal /\ crawl'.cancelled = crawl.cancelled
        /\ crawl'.stopped = crawl.stopped
        /\ Kept([crawl EXCEPT !.tries = crawl'.tries], crawl')
    BY <1>1, AskingFacts
  <1>3. since' \in Nat /\ since' <= 1 /\ (~crawl.cancelled => since' = 0)
    BY DEF Sent
  <1>4. crawl.at \notin Before /\ crawl.at # "finish" /\ crawl.at \notin {"correct", "times-open"}
    BY DEF Passes, Sequential, Pooled, Before, Questions
  <1>5. TypedInv'
    BY <1>2, <1>3, <1>4 DEF TypedInv, TypeOK, Flight, Unbegun, Passes
  <1>6. AfterCancel(crawl)'
    BY <1>2, <1>3, <1>4, CrawlAssumption DEF AfterCancel
  <1>7. PagesInv' /\ PlanInv' /\ Streak(crawl)' /\ Challenges(crawl)'
    BY <1>2, <1>4, SamePages
  <1> QED BY <1>5, <1>6, <1>7 DEF CrawlInv

LEMMA RequestStep == ASSUME CrawlInv, Request \/ PoolRequest PROVE CrawlInv'
  <1> USE InvFacts
  <1>1. CASE Request
    <2>1. crawl.todo # {} /\ since = 0
      BY <1>1 DEF Request, Flight, AfterCancel
    <2>2. crawl.at \in Passes /\ (crawl.at \in Pooled => crawl.at \notin crawl.stopped)
      BY <1>1 DEF Request, At, Passes, Sequential, Pooled
    <2> QED BY <1>1, <2>1, <2>2, AskingStep DEF Request
  <1>2. CASE PoolRequest
    <2>1. since = 0 /\ crawl.at \notin crawl.stopped
      BY <1>2 DEF PoolRequest, Halted, AfterCancel
    <2> QED BY <1>2, <2>1, AskingStep DEF PoolRequest, At, Passes
  <1> QED BY <1>1, <1>2

LEMMA ProceedStep == ASSUME CrawlInv, Proceed PROVE CrawlInv'
  <1> USE InvFacts
  <1>1. /\ crawl.at \in Sequential /\ crawl.step = "head" /\ crawl.todo # {} /\ crawl.page = NoPage
        /\ UNCHANGED <<planned, history>>
    BY DEF Proceed, At, Flight
  <1>2. CASE crawl.cancelled
    BY <1>1, <1>2, FinishingStep DEF Proceed, Passes
  <1>3. CASE ~crawl.cancelled
    <2>1. crawl' = [crawl EXCEPT !.step = "gate"]
      BY <1>3 DEF Proceed
    <2>2. /\ crawl' \in Tab /\ crawl'.at = crawl.at /\ crawl'.step = "gate" /\ crawl'.tries = crawl.tries
          /\ crawl'.page = crawl.page /\ crawl'.todo = crawl.todo /\ crawl'.attempted = crawl.attempted
          /\ crawl'.eventTotal = crawl.eventTotal /\ crawl'.cancelled = crawl.cancelled
          /\ Kept([crawl EXCEPT !.tries = crawl'.tries], crawl')
      BY <2>1 DEF Tab, Kept, SamePlans
    <2>3. crawl.at \notin Before /\ crawl.at # "finish" /\ crawl.at \notin {"correct", "times-open"} /\ crawl.at \in Passes
          /\ crawl.at \notin Pooled
      BY <1>1 DEF Passes, Sequential, Pooled, Before, Questions
    <2>4. since = 0
      BY <1>3 DEF AfterCancel
    <2>5. planned' = planned /\ challenged' = challenged /\ since' = since
      BY <1>1 DEF history
    <2>6. TypedInv'
      BY <1>1, <2>2, <2>3, <2>5 DEF TypedInv, TypeOK, Flight, Unbegun, Passes
    <2>7. AfterCancel(crawl)'
      BY <2>2, <2>4, <2>5, CrawlAssumption DEF AfterCancel
    <2>8. Pending(crawl)' = Pending(crawl)
      BY <2>2 DEF Pending
    <2>9. PagesInv' /\ PlanInv' /\ Streak(crawl)' /\ Challenges(crawl)'
      BY <2>2, <2>3, <2>5, <2>8, SamePages
    <2> QED BY <2>6, <2>7, <2>9 DEF CrawlInv
  <1> QED BY <1>2, <1>3

LEMMA RateLimitedStep == ASSUME CrawlInv, RateLimited PROVE CrawlInv'
  <1> USE InvFacts
  <1>1. /\ crawl.step = "asked" /\ crawl.tries <= MaxRetries /\ crawl.page # NoPage
        /\ crawl' = [crawl EXCEPT !.tries = @ + 1] /\ since' = Sent(crawl)
        /\ planned' = planned /\ challenged' = challenged
    BY DEF RateLimited, Flight
  <1>2. crawl.tries + 1 \in 0 .. MaxRetries + 1
    BY <1>1, CrawlAssumption DEF Tab
  <1>3. /\ crawl' \in Tab /\ crawl'.at = crawl.at /\ crawl'.step = "asked" /\ crawl'.tries = crawl.tries + 1
        /\ crawl'.page = crawl.page /\ crawl'.todo = crawl.todo /\ crawl'.attempted = crawl.attempted
        /\ crawl'.eventTotal = crawl.eventTotal /\ crawl'.cancelled = crawl.cancelled /\ crawl'.stopped = crawl.stopped
        /\ Kept([crawl EXCEPT !.tries = crawl'.tries], crawl')
    BY <1>1, <1>2 DEF Tab, Kept, SamePlans
  <1>4. crawl.at \notin Before /\ crawl.at # "finish" /\ crawl.at \notin {"correct", "times-open"} /\ crawl.at \in Passes
    BY <1>1 DEF Flight, Passes, Sequential, Pooled, Before, Questions
  <1>5. TypedInv'
    <2>1. since' \in Nat
      BY <1>1 DEF Sent
    <2> QED BY <1>1, <1>3, <1>4, <2>1 DEF TypedInv, TypeOK, Flight, Unbegun, Passes
  <1>6. AfterCancel(crawl)'
    <2>1. since \in Nat /\ since <= crawl.tries /\ crawl.tries \in Nat /\ (~crawl.cancelled => since = 0)
      BY <1>1 DEF AfterCancel, Tab
    <2>2. since' <= crawl.tries + 1 /\ since' <= MaxRetries + 1 /\ (~crawl.cancelled => since' = 0)
      BY <1>1, <2>1, CrawlAssumption DEF Sent
    <2> QED BY <1>3, <1>4, <2>2 DEF AfterCancel
  <1>7. Pending(crawl)' = Pending(crawl)
    BY <1>3 DEF Pending
  <1>8. PagesInv' /\ PlanInv' /\ Streak(crawl)' /\ Challenges(crawl)'
    BY <1>1, <1>3, <1>4, <1>7, SamePages
  <1> QED BY <1>5, <1>6, <1>8 DEF CrawlInv
-----------------------------------------------------------------------------
(* A reply *)

Reading == [long : SUBSET Team, refs : SUBSET Event, swimmers : SUBSET Swimmer]
Unread == [long |-> {}, refs |-> {}, swimmers |-> {}]

(* What can be read on a page of a kind *)
ReadOn(page, reading) ==
  /\ page \in Mores \cup Results(Event) \cup Rosters \cup AllTimes => reading.long = {}
  /\ page \in Rosters \cup AllTimes => reading.refs = {}
  /\ page \notin Rosters => reading.swimmers = {}

LEMMA ReadingFacts ==
  ASSUME NEW page \in Page, NEW reading \in Readings(page) \cup {Unread}
  PROVE  reading \in Reading /\ ReadOn(page, reading)
  <1>1. CASE reading = Unread
    BY <1>1 DEF Unread, Reading, ReadOn
  <1>2. CASE page \in Firsts /\ reading \in Readings(page)
    <2>1. PICK t \in Team : page = First(t)
      BY <1>2 DEF Firsts
    <2>2. page[1] = "swims" /\ page[2] = t /\ page[3] = 1
      BY <2>1, PageKinds
    <2>3. reading \in [long : SUBSET {t}, refs : SUBSET Event, swimmers : {{}}]
      BY <1>2, <2>2 DEF Readings
    <2>4. page \notin Mores \cup Results(Event) \cup Rosters \cup AllTimes
      BY <2>1, PagesDiffer DEF Mores, Results, Rosters, AllTimes
    <2> QED BY <2>3, <2>4 DEF Reading, ReadOn
  <1>3. CASE page \in Mores /\ reading \in Readings(page)
    <2>1. PICK t \in Team : page = More(t)
      BY <1>3 DEF Mores
    <2>2. page[1] = "swims" /\ page[3] = 2
      BY <2>1, PageKinds
    <2>3. reading \in [long : {{}}, refs : SUBSET Event, swimmers : {{}}]
      BY <1>3, <2>2 DEF Readings
    <2>4. page \notin Rosters \cup AllTimes
      BY <2>1, PagesDiffer DEF Rosters, AllTimes
    <2> QED BY <2>3, <2>4 DEF Reading, ReadOn
  <1>4. CASE page \in Results(Event) /\ reading \in Readings(page)
    <2>1. PICK e \in Event : page = Result(e)
      BY <1>4 DEF Results
    <2>2. page[1] = "event"
      BY <2>1, PageKinds
    <2>3. reading \in [long : {{}}, refs : SUBSET Event, swimmers : {{}}]
      BY <1>4, <2>2 DEF Readings
    <2>4. page \notin Rosters \cup AllTimes
      BY <2>1, PagesDiffer DEF Rosters, AllTimes
    <2> QED BY <2>3, <2>4 DEF Reading, ReadOn
  <1>5. CASE page \in Rosters /\ reading \in Readings(page)
    <2>1. page[1] = "roster"
      BY <1>5, PageKinds DEF Rosters
    <2>2. reading \in [long : {{}}, refs : {{}}, swimmers : SUBSET Swimmer]
      BY <1>5, <2>1 DEF Readings
    <2> QED BY <1>5, <2>2 DEF Reading, ReadOn
  <1>6. CASE page \in AllTimes /\ reading \in Readings(page)
    <2>1. page[1] = "times"
      BY <1>6, PageKinds DEF AllTimes
    <2>2. reading \in [long : {{}}, refs : {{}}, swimmers : {{}}]
      BY <1>6, <2>1 DEF Readings
    <2> QED BY <1>6, <2>2 DEF Reading, ReadOn
  <1> QED BY <1>1, <1>2, <1>3, <1>4, <1>5, <1>6, PageKinds

(* The streak after a page, and whether the page ends its pass *)
Lost(c, relay) == CASE relay = "none" -> c.lost [] relay = "lost" -> c.lost + 1 [] relay = "landed" -> 0
Ends(c, answer, relay) ==
  \/ relay = "lost" /\ Lost(c, relay) >= StopAfterLost
  \/ IF c.at \in Sequential THEN StopsCrawl(answer) ELSE answer = "challenge"

LEMMA AnsweredFacts ==
  ASSUME NEW c \in Tab, c.page \in Page, c.at \in Passes, NEW answer \in Answers, NEW relay \in Relays,
         NEW reading \in Reading, NEW d, d = Answered(c, answer, relay, reading)
  PROVE  /\ d \in Tab /\ d.step = "head" /\ d.page = NoPage /\ d.tries = 0 /\ d.lost = Lost(c, relay)
         /\ d.fetched = c.fetched \cup {c.page} /\ d.todo = c.todo /\ d.held = c.held
         /\ d.long = c.long \cup reading.long /\ d.known = c.known \cup reading.refs
         /\ d.swimmers = c.swimmers \cup reading.swimmers /\ d.attempted = c.attempted
         /\ d.teams = c.teams /\ d.scope = c.scope /\ d.index = c.index /\ d.refresh = c.refresh
         /\ d.eventTotal = c.eventTotal /\ d.cancelled = c.cancelled
         /\ d.at = IF Ends(c, answer, relay) /\ c.at \in Sequential THEN "finish" ELSE c.at
         /\ d.at = "finish" => d.verdict = "partial"
         /\ d.stopped = IF Ends(c, answer, relay) /\ c.at \in Pooled THEN c.stopped \cup {c.at} ELSE c.stopped
  <1> DEFINE got == [Relayed(c, relay) EXCEPT !.step = "head", !.page = NoPage, !.tries = 0, !.fetched = @ \cup {c.page}]
             stops == IF c.at \in Sequential THEN StreakStops(got, relay) \/ StopsCrawl(answer)
                      ELSE StopsPass(got, answer, relay)
             offers == StreakStops(got, relay) \/ (IF c.at \in Sequential THEN OffersRetry(answer) ELSE answer = "challenge")
             next == [Learned(got, reading) EXCEPT !.retry = @ \/ offers]
  <1>1. Lost(c, relay) \in Nat
    BY DEF Lost, Tab, Relays
  <1>2. got = [c EXCEPT !.lost = Lost(c, relay), !.step = "head", !.page = NoPage, !.tries = 0, !.fetched = c.fetched \cup {c.page}]
    <2>1. Relayed(c, relay) = [c EXCEPT !.lost = Lost(c, relay)]
      BY DEF Relayed, Lost, Relays
    <2> QED BY <2>1 DEF Tab
  <1>3. got.lost = Lost(c, relay) /\ got.at = c.at /\ got.retry = c.retry
    BY <1>2 DEF Tab
  <1>4. stops <=> Ends(c, answer, relay)
    BY <1>3 DEF Ends, StreakStops, StopsPass
  <1>5. PICK b \in BOOLEAN : b = (c.retry \/ offers)
    OBVIOUS
  <1>6. d = CASE ~stops -> next
              [] stops /\ c.at \in Sequential -> Finishing(next, "partial")
              [] stops /\ c.at \in Pooled -> [next EXCEPT !.stopped = @ \cup {c.at}]
    BY DEF Answered
  <1>7. next = [Learned(got, reading) EXCEPT !.retry = b]
    <2>1. Learned(got, reading).retry = c.retry
      BY <1>2 DEF Learned, Tab
    <2> QED BY <1>5, <2>1
  <1> HIDE DEF got, stops, offers, next
  <1>8. /\ next.step = "head" /\ next.page = NoPage /\ next.tries = 0 /\ next.lost = Lost(c, relay)
        /\ next.fetched = c.fetched \cup {c.page} /\ next.todo = c.todo /\ next.held = c.held
        /\ next.long = c.long \cup reading.long /\ next.known = c.known \cup reading.refs
        /\ next.swimmers = c.swimmers \cup reading.swimmers /\ next.attempted = c.attempted
        /\ next.teams = c.teams /\ next.scope = c.scope /\ next.index = c.index /\ next.refresh = c.refresh
        /\ next.eventTotal = c.eventTotal /\ next.cancelled = c.cancelled /\ next.at = c.at /\ next.stopped = c.stopped
    BY <1>2, <1>7 DEF Learned, Tab
  <1>9. next \in Tab
    <2>1. ASSUME NEW g \in Tab, NEW e, e = [Learned(g, reading) EXCEPT !.retry = b] PROVE e \in Tab
      BY <2>1 DEF Learned, Tab, Reading
    <2>2. got \in Tab
      <3>1. ASSUME NEW n \in Nat, NEW k \in 0 .. MaxRetries + 1, NEW pages \in SUBSET Page, NEW e,
                   e = [c EXCEPT !.lost = n, !.step = "head", !.page = NoPage, !.tries = k, !.fetched = pages]
            PROVE  e \in Tab
        BY <3>1 DEF Tab
      <3>2. c.fetched \cup {c.page} \in SUBSET Page
        BY DEF Tab
      <3>3. 0 \in 0 .. MaxRetries + 1
        BY CrawlAssumption
      <3> QED BY <1>1, <1>2, <3>1, <3>2, <3>3, Zenon
    <2> QED BY <1>7, <2>1, <2>2
  <1>10. CASE ~stops
    BY <1>4, <1>6, <1>8, <1>9, <1>10 DEF Passes, Sequential, Pooled
  <1>11. CASE stops /\ c.at \in Sequential
    <2>1. d = Finishing(next, "partial") /\ c.at \notin Pooled
      BY <1>6, <1>11 DEF Sequential, Pooled
    <2>2. d \in Tab /\ Kept(next, d) /\ d.at = "finish" /\ d.todo = next.todo /\ d.step = "head" /\ d.page = next.page
          /\ d.attempted = next.attempted /\ d.eventTotal = next.eventTotal /\ d.verdict = "partial"
      BY <1>9, <2>1, FinishingKeeps
    <2> QED BY <1>4, <1>8, <1>11, <2>1, <2>2 DEF Kept, SamePlans
  <1>12. CASE stops /\ c.at \in Pooled
    <2>1. d = [next EXCEPT !.stopped = c.stopped \cup {c.at}] /\ c.at \notin Sequential /\ c.at # "finish"
      BY <1>6, <1>8, <1>12 DEF Sequential, Pooled
    <2>2. c.stopped \cup {c.at} \subseteq Pooled
      BY <1>12 DEF Tab
    <2>3. d \in Tab
      BY <1>9, <2>1, <2>2 DEF Tab
    <2>4. /\ d.step = next.step /\ d.page = next.page /\ d.tries = next.tries /\ d.lost = next.lost
          /\ d.fetched = next.fetched /\ d.todo = next.todo /\ d.held = next.held
          /\ d.long = next.long /\ d.known = next.known /\ d.swimmers = next.swimmers /\ d.attempted = next.attempted
          /\ d.teams = next.teams /\ d.scope = next.scope /\ d.index = next.index /\ d.refresh = next.refresh
          /\ d.eventTotal = next.eventTotal /\ d.cancelled = next.cancelled /\ d.at = next.at
          /\ d.stopped = c.stopped \cup {c.at}
      BY <1>9, <2>1 DEF Tab
    <2> QED BY <1>4, <1>8, <1>12, <2>1, <2>3, <2>4
  <1> QED BY <1>10, <1>11, <1>12 DEF Passes

LEMMA ReplyStep ==
  ASSUME CrawlInv, NEW answer \in Answers, NEW relay \in Relays, NEW reading \in Readings(crawl.page) \cup {Unread},
         Reply(answer, relay, reading)
  PROVE  CrawlInv'
  <1> USE InvFacts
  <1>1. /\ crawl.step = "asked" /\ crawl.page # NoPage /\ crawl.page \in Page /\ crawl.at \in Passes
        /\ crawl.page \notin crawl.todo /\ (crawl.at \in Pooled => crawl.at \notin crawl.stopped)
    BY DEF Reply, Flight, Tab
  <1>2. reading \in Reading /\ ReadOn(crawl.page, reading)
    BY <1>1, ReadingFacts
  <1> DEFINE ends == Ends(crawl, answer, relay)
  <1>3. /\ crawl' \in Tab /\ crawl'.step = "head" /\ crawl'.page = NoPage /\ crawl'.tries = 0 /\ crawl'.lost = Lost(crawl, relay)
        /\ crawl'.fetched = crawl.fetched \cup {crawl.page} /\ crawl'.todo = crawl.todo /\ crawl'.held = crawl.held
        /\ crawl'.long = crawl.long \cup reading.long /\ crawl'.known = crawl.known \cup reading.refs
        /\ crawl'.swimmers = crawl.swimmers \cup reading.swimmers /\ crawl'.attempted = crawl.attempted
        /\ crawl'.teams = crawl.teams /\ crawl'.scope = crawl.scope /\ crawl'.index = crawl.index
        /\ crawl'.refresh = crawl.refresh
        /\ crawl'.eventTotal = crawl.eventTotal /\ crawl'.cancelled = crawl.cancelled
        /\ crawl'.at = IF ends /\ crawl.at \in Sequential THEN "finish" ELSE crawl.at
        /\ crawl'.at = "finish" => crawl'.verdict = "partial"
        /\ crawl'.stopped = IF ends /\ crawl.at \in Pooled THEN crawl.stopped \cup {crawl.at} ELSE crawl.stopped
    BY <1>1, <1>2, AnsweredFacts DEF Reply
  <1>4. /\ planned' = planned /\ since' = since
        /\ challenged' = IF answer = "challenge" THEN challenged \cup {crawl.at} ELSE challenged
        /\ answer = "unreachable" <=> relay = "none"
    BY DEF Reply
  <1>5. answer = "challenge" => ends
    BY <1>1 DEF Ends, StopsCrawl, Passes
  <1>6. crawl.lost \in Nat /\ Lost(crawl, relay) \in Nat /\ StopAfterLost \in Nat \ {0} /\ Lost(crawl, relay) <= crawl.lost + 1
    BY CrawlAssumption DEF Tab, Lost, Relays
  <1>7. ~ends /\ crawl.at \in Sequential => Lost(crawl, relay) < StopAfterLost
    <2>1. ~ends /\ crawl.at \in Sequential => relay # "none"
      BY <1>4 DEF Ends, StopsCrawl
    <2> QED BY <2>1, <1>6 DEF Ends, Lost, Relays
  <1>8. ~ends => Lost(crawl, relay) < StopAfterLost \/ Lost(crawl, relay) = crawl.lost
    BY <1>6 DEF Ends, Lost, Relays
  <1> HIDE DEF ends
  <1>9. Pending(crawl) = Pending(crawl)' \cup {crawl.page} /\ crawl.page \notin Pending(crawl)'
    BY <1>1, <1>3 DEF Pending
  <1>10. Got(crawl)' = Got(crawl) \cup {crawl.page}
    BY <1>3 DEF Got
  <1>11. crawl.at \notin Before /\ crawl.at # "finish" /\ crawl.at \notin {"correct", "times-open", "events-open"}
         /\ Sequential \cap Pooled = {} /\ crawl'.at \notin Before
    BY <1>1, <1>3 DEF Passes, Sequential, Pooled, Before, Questions
  <1>12. TypedInv'
    <2>1. NoPage \notin crawl'.todo
      BY <1>3, PageKinds DEF Tab
    <2>2. challenged' \subseteq Sequential \cup Pooled
      BY <1>1, <1>4 DEF Passes
    <2>3. Flight(crawl)'
      BY <1>3, <1>11, <2>1 DEF Flight
    <2>4. Unbegun(crawl)'
      BY <1>11 DEF Unbegun
    <2> QED BY <1>3, <1>4, <2>2, <2>3, <2>4 DEF TypedInv, TypeOK
  <1>13. /\ crawl.at \in {"bulk", "events", "rosters", "times"} => crawl'.long = crawl.long
         /\ crawl.at \in {"rosters", "times"} => crawl'.known = crawl.known
         /\ crawl.at # "rosters" => crawl'.swimmers = crawl.swimmers
    <2>1. crawl.at = "sweep" => crawl.page \in Firsts
      BY <1>9 DEF Sorted
    <2>2. crawl.at = "bulk" => crawl.page \in Mores
      BY <1>9 DEF Sorted
    <2>3. crawl.at = "events" => crawl.page \in Results(Event)
      BY <1>9 DEF Sorted, Results, Tab
    <2>4. crawl.at = "rosters" => crawl.page \in Rosters
      BY <1>9 DEF Sorted
    <2>5. crawl.at = "times" => crawl.page \in AllTimes
      BY <1>9 DEF Sorted
    <2>6. (Firsts \cup Mores \cup Results(Event) \cup AllTimes) \cap Rosters = {}
      BY PagesDiffer DEF Firsts, Mores, Results, Rosters, AllTimes
    <2>7. crawl.at \in {"bulk", "events", "rosters", "times"} => reading.long = {}
      BY <1>2, <2>2, <2>3, <2>4, <2>5 DEF ReadOn
    <2>8. crawl.at \in {"rosters", "times"} => reading.refs = {}
      BY <1>2, <2>4, <2>5 DEF ReadOn
    <2>9. crawl.at # "rosters" => reading.swimmers = {}
      BY <1>1, <1>2, <2>1, <2>2, <2>3, <2>5, <2>6 DEF ReadOn, Passes, Sequential, Pooled
    <2> QED BY <1>3, <2>7, <2>8, <2>9
  <1>14. PagesInv'
    <2>1. Sorted(crawl)'
      BY <1>3, <1>9, <1>11 DEF Sorted
    <2>2. Found(crawl)'
      BY <1>3, <1>11, <1>13 DEF Found, Wants
    <2>3. Spared(crawl)'
      BY <1>3, <1>9, <1>11 DEF Spared
    <2> QED BY <2>1, <2>2, <2>3 DEF PagesInv
  <1>15. PlanInv'
    <2>1. RosterPlan(crawl)' = RosterPlan(crawl)
      BY <1>3 DEF RosterPlan, Wants
    <2>2. crawl.at # "sweep" => SwimsPlan(crawl)' = SwimsPlan(crawl)
      BY <1>1, <1>3, <1>13 DEF SwimsPlan, Wants, Passes, Sequential, Pooled
    <2>3. crawl.at # "rosters" => TimesPlan(crawl)' = TimesPlan(crawl)
      BY <1>3, <1>13 DEF TimesPlan, Wants
    <2>4. SwimsPlan(crawl)' # {} /\ crawl.teams # {} => SwimsPlan(crawl) # {}
      BY <1>3 DEF SwimsPlan, Wants
    <2>5. crawl'.at \in Passes => crawl'.at = crawl.at
      BY <1>3 DEF Passes, Sequential, Pooled
    <2>6. crawl'.at \in Passes \cup {"finish"}
      BY <1>1, <1>3
    <2>7. Covered(crawl)'
      <3>1. crawl'.at = "sweep" /\ SwimsPlan(crawl)' # {} =>
              \A t \in crawl'.teams : First(t) \in crawl'.fetched \cup Pending(crawl)'
        BY <1>3, <1>9, <2>4, <2>5 DEF Covered, Passes, Sequential
      <3>2. crawl'.at = "bulk" => SwimsPlan(crawl)' \subseteq Got(crawl)' \cup Pending(crawl)'
        BY <1>9, <1>10, <2>2, <2>5 DEF Covered, Passes, Sequential
      <3>3. crawl'.at \in {"events", "rosters", "times"} => SwimsPlan(crawl)' \subseteq Got(crawl)'
        BY <1>10, <2>2, <2>5 DEF Covered, Passes, Sequential, Pooled
      <3>4. crawl'.at = "events" => Results(crawl'.attempted) \subseteq Got(crawl)' \cup Pending(crawl)'
        BY <1>3, <1>9, <1>10, <2>5 DEF Covered, Passes, Pooled
      <3>5. crawl'.at \in {"rosters", "times"} /\ "events" \notin crawl'.stopped => Results(crawl'.attempted) \subseteq Got(crawl)'
        BY <1>3, <1>10, <2>5 DEF Covered, Passes, Sequential, Pooled
      <3>6. crawl'.at = "rosters" => RosterPlan(crawl)' \subseteq Got(crawl)' \cup Pending(crawl)'
        BY <1>9, <1>10, <2>1, <2>5 DEF Covered, Passes, Sequential
      <3>7. crawl'.at = "times" => RosterPlan(crawl)' \subseteq Got(crawl)'
        BY <1>10, <2>1, <2>5 DEF Covered, Passes, Pooled
      <3>8. crawl'.at = "times" => TimesPlan(crawl)' \subseteq Got(crawl)' \cup Pending(crawl)'
        BY <1>9, <1>10, <2>3, <2>5 DEF Covered, Passes, Pooled
      <3>9. crawl'.at \notin {"correct", "times-open", "events-open"}
        BY <2>6 DEF Passes, Sequential, Pooled
      <3> QED BY <3>1, <3>2, <3>3, <3>4, <3>5, <3>6, <3>7, <3>8, <3>9 DEF Covered
    <2>8. EventCount(crawl)'
      BY <1>3 DEF EventCount
    <2>9. Counted(crawl)'
      <3>1. crawl'.at \in {"bulk", "events", "rosters"} =>
              planned' \subseteq {Cardinality(SwimsPlan(crawl)' \cup RosterPlan(crawl)') + crawl'.eventTotal}
        BY <1>3, <1>4, <2>1, <2>2, <2>5 DEF Counted, Passes, Sequential, Pooled
      <3>2. crawl'.at = "times" =>
              planned' \subseteq {Cardinality(SwimsPlan(crawl)' \cup RosterPlan(crawl)') + crawl'.eventTotal + Cardinality(TimesPlan(crawl)')}
        BY <1>3, <1>4, <2>1, <2>2, <2>3, <2>5 DEF Counted, Passes, Pooled
      <3>3. crawl'.at # "times-open"
        BY <2>6 DEF Passes, Sequential, Pooled
      <3> QED BY <3>1, <3>2, <3>3 DEF Counted
    <2>10. CompleteIsTheWholePlan'
      BY <1>3 DEF CompleteIsTheWholePlan, Ending, At
    <2> QED BY <2>7, <2>8, <2>9, <2>10 DEF PlanInv
  <1>16. Streak(crawl)'
    <2>1. CASE crawl.at \in {"sweep", "bulk"}
      <3>1. crawl.lost < StopAfterLost /\ crawl'.at \in {crawl.at, "finish"} /\ (crawl'.at # "finish" => ~ends)
        BY <1>3, <2>1 DEF Streak, Sequential
      <3>2. crawl'.lost <= StopAfterLost /\ crawl'.lost <= StopAfterLost + 1 /\ (~ends => crawl'.lost < StopAfterLost)
        BY <1>3, <1>6, <1>7, <2>1, <3>1 DEF Sequential
      <3> QED BY <1>11, <2>1, <3>1, <3>2 DEF Streak
    <2>2. CASE crawl.at = "rosters"
      <3>1. crawl.lost <= StopAfterLost /\ crawl'.at \in {crawl.at, "finish"} /\ (crawl'.at # "finish" => ~ends)
        BY <1>3, <2>2 DEF Streak, Sequential
      <3>2. crawl'.lost <= StopAfterLost + 1 /\ (~ends => crawl'.lost <= StopAfterLost)
        BY <1>3, <1>6, <1>7, <2>2, <3>1 DEF Sequential
      <3> QED BY <1>11, <2>2, <3>1, <3>2 DEF Streak
    <2>3. CASE crawl.at = "events"
      <3>1. crawl.lost < StopAfterLost /\ crawl'.at = "events" /\ ("events" \notin crawl'.stopped => ~ends)
        BY <1>1, <1>3, <1>11, <2>3 DEF Streak, Pooled
      <3>2. crawl'.lost <= StopAfterLost /\ crawl'.lost <= StopAfterLost + 1 /\ (~ends => crawl'.lost < StopAfterLost)
        BY <1>3, <1>6, <1>8, <3>1
      <3> QED BY <1>11, <3>1, <3>2 DEF Streak
    <2>4. CASE crawl.at = "times"
      <3>1. crawl.lost <= StopAfterLost /\ crawl'.at = "times" /\ ("times" \notin crawl'.stopped => ~ends)
        BY <1>1, <1>3, <1>11, <2>4 DEF Streak, Pooled
      <3>2. crawl'.lost <= StopAfterLost + 1 /\ (~ends => crawl'.lost <= StopAfterLost)
        BY <1>3, <1>6, <1>8, <3>1
      <3> QED BY <1>11, <3>1, <3>2 DEF Streak
    <2> QED BY <1>1, <2>1, <2>2, <2>3, <2>4 DEF Passes, Sequential, Pooled
  <1>17. AfterCancel(crawl)'
    BY <1>3, <1>4, <1>11 DEF AfterCancel
  <1>18. Challenges(crawl)'
    BY <1>1, <1>3, <1>4, <1>5, <1>11 DEF Challenges, Passes
  <1> QED BY <1>12, <1>14, <1>15, <1>16, <1>17, <1>18 DEF CrawlInv
-----------------------------------------------------------------------------
(* The invariant is kept, and what follows from it *)

LEMMA StepInv == CrawlInv /\ [Next]_vars => CrawlInv'
  <1> SUFFICES ASSUME CrawlInv, [Next]_vars PROVE CrawlInv'
    OBVIOUS
  <1>1. CASE UNCHANGED vars
    BY <1>1 DEF vars, history, CrawlInv, TypedInv, TypeOK, PagesInv, PlanInv, CompleteIsTheWholePlan, Ending, At,
                Counted, AfterCancel, Challenges
  <1>2. CASE User
    <2>1. CASE ContinueAnyway
      BY <2>1, GoesOnStep DEF ContinueAnyway, At, Before, Questions
    <2> QED BY <1>2, <2>1, StartStep, CancelStep, EndsBeforeStep, PauseStep, CloseTabStep, ChooseStep DEF User
  <1>3. CASE Crawl
    <2>1. CASE \E stored \in Stored \cup {<<{}, {}>>} : ReadStored(stored[1], stored[2])
      BY <2>1, ReadStoredStep
    <2>2. CASE AppUnreachable
      BY <2>2, GoesOnStep DEF AppUnreachable, At, Before, Questions
    <2>3. CASE ReplyOk
      <3>1. PICK relay \in Relays, reading \in Readings(crawl.page) : Reply("ok", relay, reading)
        BY <2>3 DEF ReplyOk
      <3> QED BY <3>1, ReplyStep DEF Answers
    <2>4. CASE ReplyNotOk
      BY <2>4, ReplyStep DEF ReplyNotOk, Unread
    <2> QED BY <1>3, <2>1, <2>2, <2>3, <2>4, EndsBeforeStep, DiscoverStep, OpenCaptureStep, FinishStep, SweepDoneStep,
               BulkDoneStep, EventRoundStep, EventsDoneStep, RostersDoneStep, TimesDoneStep, ProceedStep, RequestStep,
               RateLimitedStep DEF Crawl
  <1> QED BY <1>1, <1>2, <1>3 DEF Next

LEMMA CrawlInvHolds == Spec => []CrawlInv
  <1>1. CrawlInv /\ [Next]_vars => CrawlInv'
    BY StepInv
  <1> QED BY InitInv, <1>1, PTL DEF Spec

(* The panel, the plan and the page in flight keep their types. *)
THEOREM TypeCorrect == Spec => []TypeOK
  <1>1. CrawlInv => TypeOK
    BY DEF CrawlInv, TypedInv
  <1> QED BY CrawlInvHolds, <1>1, PTL

(* A crawl that is about to call itself complete has every page of its     *)
(* plan, however the plan grew on the way, and told the app its size       *)
(* (finalizeCrawl, crawlFinalCompleteness, the openCaptureRecord calls).   *)
THEOREM CompleteIsAlwaysTheWholePlan == Spec => []CompleteIsTheWholePlan
  <1>1. CrawlInv => CompleteIsTheWholePlan
    BY DEF CrawlInv, PlanInv
  <1> QED BY CrawlInvHolds, <1>1, PTL

(* After Cancel the site sees one more page at most, and after a streak of *)
(* lost pages one more page at most is fetched for the app                 *)
(* (fetchPageWithRateLimitRetry, classifyRelayFailureStreak).              *)
THEOREM AlwaysStopsInTime == Spec => []StopsInTime
  <1>1. CrawlInv => StopsInTime
    BY DEF CrawlInv, StopsInTime, AfterCancel, Streak
  <1> QED BY CrawlInvHolds, <1>1, PTL

(* Only Request and PoolRequest put a page in flight. *)
LEMMA RequestedBy ==
  ASSUME CrawlInv, [Next]_vars, Requested
  PROVE  /\ Request \/ PoolRequest
         /\ crawl.todo # {} /\ crawl.page = NoPage /\ crawl' = Asking(crawl)
  <1> USE InvFacts
  <1>1. Next
    BY DEF Requested, vars
  <1>2. Request \/ PoolRequest
    <2>1. ASSUME crawl' = Over(crawl) \/ crawl' = NoCrawl PROVE FALSE
      BY <2>1, OverType DEF Requested, NoCrawl
    <2>2. ASSUME NEW c \in Tab, crawl' = Over(c) PROVE FALSE
      BY <2>2, OverType DEF Requested
    <2>3. ~Start
      <3>1. ASSUME NEW c \in Tab, c.step = "head"
            PROVE  [c EXCEPT !.retry = FALSE, !.at = "read"].step = "head" /\ [c EXCEPT !.retry = TRUE].step = "head"
        BY <3>1 DEF Tab
      <3> QED BY <3>1, OverType DEF Start, Requested
    <2>4. ~Cancel
      <3>1. [crawl EXCEPT !.cancelled = TRUE] \in Tab /\ [crawl EXCEPT !.cancelled = TRUE].step = crawl.step
        BY DEF Tab
      <3> QED BY <2>2, <3>1 DEF Cancel, Requested
    <2>5. ~(CancelAgain \/ CloseTab \/ DiscoverNone \/ Finish)
      BY <2>1 DEF CancelAgain, CloseTab, DiscoverNone, Finish
    <2>6. ~(TogglePause \/ ContinueAnyway \/ AppUnreachable \/ SweepDone)
      BY DEF TogglePause, ContinueAnyway, AppUnreachable, SweepDone, Requested, Tab
    <2>7. ASSUME NEW teams, NEW scope, NEW refresh PROVE ~Choose(teams, scope, refresh)
      BY DEF Choose, Requested, Tab
    <2>8. ASSUME NEW pages, NEW refs PROVE ~ReadStored(pages, refs) /\ ~Discover(refs)
      BY DEF ReadStored, Discover, Requested, Tab
    <2>9. ~(BulkDone \/ EventRound \/ EventsDone \/ RostersDone \/ TimesDone \/ Proceed)
      <3>1. ASSUME NEW c \in Tab, NEW pass, NEW pages
            PROVE  Enter(c, pass, pages).step = "head" /\ Finishing(c, pass).step = "head"
        BY <3>1 DEF Enter, Finishing, Tab
      <3>2. crawl \in Tab
        OBVIOUS
      <3>3. ~(BulkDone \/ EventsDone \/ TimesDone)
        BY <3>1, <3>2 DEF BulkDone, EventsDone, TimesDone, Requested
      <3>4. ~EventRound
        BY DEF EventRound, Requested, Tab
      <3>5. ~(RostersDone \/ Proceed)
        BY <3>1, <3>2 DEF RostersDone, Proceed, Requested, Tab
      <3> QED BY <3>3, <3>4, <3>5
    <2>10. ASSUME NEW taken PROVE ~OpenCapture(taken)
      BY DEF OpenCapture, At, Opens, Enter, Requested, Tab
    <2>11. ~RateLimited /\ ~ReplyOk /\ ~ReplyNotOk
      BY DEF RateLimited, ReplyOk, ReplyNotOk, Reply, Requested
    <2> QED BY <1>1, <2>3, <2>4, <2>5, <2>6, <2>7, <2>8, <2>9, <2>10, <2>11 DEF Next, User, Crawl
  <1>3. crawl' = Asking(crawl) /\ crawl.todo # {}
    BY <1>2 DEF Request, PoolRequest, Flight
  <1>4. crawl.page = NoPage
    BY DEF Requested, Flight
  <1> QED BY <1>2, <1>3, <1>4

(* No page is asked for twice, nor one the app had unless the code means   *)
(* to read it again, and none by a pass that met a challenge               *)
(* (partitionResumableSteps, stepsStillNeeded, attempted, haltAll).        *)
THEOREM RequestsAreAlwaysDue == Spec => RequestsAreDue
  <1>1. CrawlInv /\ [Next]_vars =>
          [Requested =>
             /\ crawl.at \notin challenged
             /\ crawl'.page \notin crawl.fetched
             /\ crawl'.page \in crawl.held =>
                  \/ crawl.at \in {"sweep", "rosters"}
                  \/ crawl.at = "times" /\ crawl.refresh]_vars
    <2> SUFFICES ASSUME CrawlInv, [Next]_vars, Requested
                 PROVE  /\ crawl.at \notin challenged
                        /\ crawl'.page \notin crawl.fetched
                        /\ crawl'.page \in crawl.held =>
                             \/ crawl.at \in {"sweep", "rosters"}
                             \/ crawl.at = "times" /\ crawl.refresh
      OBVIOUS
    <2> USE InvFacts
    <2>1. crawl'.page \in Pending(crawl)
      BY RequestedBy, AskingFacts DEF Pending
    <2>2. crawl.at \in Passes /\ (crawl.at \in Pooled => crawl.at \notin crawl.stopped)
      BY RequestedBy DEF Request, PoolRequest, Halted, At, Passes, Sequential, Pooled
    <2>3. crawl.at \notin challenged
      BY <2>2 DEF Challenges, Passes, Sequential, Pooled, Tab
    <2>4. crawl'.page \notin crawl.fetched
      BY <2>1 DEF Sorted
    <2>5. crawl'.page \in crawl.held => crawl.at \in {"sweep", "rosters"} \/ (crawl.at = "times" /\ crawl.refresh)
      BY <2>1, <2>2 DEF Spared, Passes, Sequential, Pooled
    <2> QED BY <2>3, <2>4, <2>5
  <1> QED BY CrawlInvHolds, <1>1, PTL DEF Spec, RequestsAreDue
=============================================================================
