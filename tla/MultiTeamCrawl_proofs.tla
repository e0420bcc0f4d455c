------------------------ MODULE MultiTeamCrawl_proofs -----------------------
(***************************************************************************)
(* Proofs about MultiTeamCrawl, for any teams, swimmers and bounds.        *)
(***************************************************************************)
EXTENDS MultiTeamCrawl, FiniteSetTheorems, TLAPS

RunType ==
  [at : Places, outcome : Outcomes, paused : BOOLEAN, cancelled : BOOLEAN,
   toRead : SUBSET Team, offers : SUBSET Team, chosen : SUBSET Team, opened : SUBSET Team,
   atStart : SUBSET Keys, roster : [Team -> [Gender -> Status]],
   swimmer : [Swimmer -> Status], listers : [Swimmer -> SUBSET Team],
   page : Page, of : SUBSET Team, attempt : 0 .. MaxRetries + 1,
   toFile : SUBSET Team, clean : BOOLEAN, missed : BOOLEAN,
   landed : [Team -> SUBSET (Gender \cup Swimmer)], planned : [Team -> Nat],
   corrected : BOOLEAN, recent429 : 0 .. StopAfter429, lost : 0 .. StopAfterLost]

(* A halted run is at its end: until then both streaks are short. *)
Streaks == ~At("mark") => run.recent429 < StopAfter429 /\ run.lost < StopAfterLost

(* As many requests as these pages can take *)
Rounds(pages) == pages * (MaxRetries + 1)

(* The answers 429 in a row are those of the pages given up and those of   *)
(* the page in flight; after Cancel, also those of a page that was dropped. *)
Refusals ==
  /\ At("off") => refused = 0
  /\ At("wait") \/ At("reply") => run.attempt > 0
  /\ IF At("mark") THEN refused <= Rounds(StopAfter429)
     ELSE refused <= Rounds(run.recent429) +
            (IF At("wait") \/ At("reply") THEN run.attempt - 1 ELSE IF run.cancelled THEN MaxRetries ELSE 0)

CrawlInv == TypeOK /\ Streaks /\ Refusals
-----------------------------------------------------------------------------
(* Type correctness *)

LEMMA NoRunType == NoRun \in RunType /\ Seasons \in Page
  BY CountAssumption DEF NoRun, RunType, Page, Places, Outcomes, Status, Keys

LEMMA WithType ==
  ASSUME NEW r \in RunType, NEW status \in Status, run \in RunType
  PROVE  With(r, status) \in RunType
  <1>1. CASE IsRoster
    BY <1>1 DEF With, RunType, IsRoster
  <1>2. CASE IsSwimmer /\ ~IsRoster
    BY <1>2 DEF With, RunType, IsSwimmer
  <1>3. CASE ~IsRoster /\ ~IsSwimmer
    BY <1>3 DEF With, RunType, IsSwimmer
  <1> QED BY <1>1, <1>2, <1>3

LEMMA EndedType ==
  ASSUME NEW r \in RunType, NEW how \in Outcomes PROVE Ended(r, how) \in RunType
  BY DEF Ended, RunType, Places

LEMMA BackType ==
  ASSUME NEW r \in RunType PROVE Back(r) \in RunType
  BY DEF Back, RunType, Places

LEMMA PlaceType ==
  ASSUME NEW r \in RunType, NEW place \in Places PROVE [r EXCEPT !.at = place] \in RunType
  BY DEF RunType

LEMMA FetchingType ==
  ASSUME NEW r \in RunType, NEW page \in Page, NEW teams \in SUBSET Team
  PROVE  Fetching(r, page, teams) \in RunType
  <1>1. 1 \in 0 .. MaxRetries + 1
    BY CountAssumption
  <1>2. [r EXCEPT !.at = "wait"] \in RunType
    BY DEF RunType, Places
  <1>3. [r EXCEPT !.at = "wait", !.page = page] \in RunType
    BY DEF RunType, Places
  <1> QED BY <1>1 DEF Fetching, RunType, Places

LEMMA FilingType ==
  ASSUME NEW r \in RunType, NEW clean \in BOOLEAN, run \in RunType
  PROVE  Filing(r, clean) \in RunType
  <1>1. Subjects \in SUBSET Team
    BY DEF RunType, Subjects, IsSwimmer
  <1> DEFINE q == [r EXCEPT !.at = "file", !.toFile = Subjects]
  <1>2. q \in RunType
    BY <1>1 DEF RunType, Places
  <1>3. Filing(r, clean) = [q EXCEPT !.clean = clean]
    BY DEF Filing, RunType
  <1> HIDE DEF q
  <1> QED BY <1>2, <1>3 DEF RunType

LEMMA AddSwimmersType ==
  ASSUME NEW r \in RunType, NEW t \in Team, NEW ss \in SUBSET Swimmer
  PROVE  AddSwimmers(r, t, ss) \in RunType
  <1> DEFINE l == [s \in Swimmer |-> IF s \in ss THEN r.listers[s] \cup {t} ELSE r.listers[s]]
             w == [s \in Swimmer |->
                     IF s \notin ss \/ t \in r.listers[s] THEN r.swimmer[s]
                     ELSE CASE r.swimmer[s] = "absent" /\ <<s, t>> \in r.atStart -> "skipped"
                            [] r.swimmer[s] \in {"absent", "skipped"} /\ <<s, t>> \notin r.atStart -> "pending"
                            [] OTHER -> r.swimmer[s]]
  <1>1. l \in [Swimmer -> SUBSET Team]
    BY DEF RunType
  <1>2. w \in [Swimmer -> Status]
    BY DEF RunType, Status
  <1>3. AddSwimmers(r, t, ss) = [r EXCEPT !.listers = l, !.swimmer = w]
    BY DEF AddSwimmers, RunType
  <1> DEFINE q == [r EXCEPT !.listers = l]
  <1>4. AddSwimmers(r, t, ss) = [q EXCEPT !.swimmer = w]
    BY <1>3
  <1> HIDE DEF l, w
  <1>5. q \in RunType
    BY <1>1 DEF RunType
  <1> HIDE DEF q
  <1> QED BY <1>2, <1>4, <1>5 DEF RunType

LEMMA SwimmersOfType ==
  ASSUME NEW r \in RunType, NEW t \in Team
  PROVE  IsFiniteSet(SwimmersOf(r, t)) /\ Cardinality(SwimmersOf(r, t)) \in Nat /\ Cardinality(Gender) \in Nat
  <1>1. SwimmersOf(r, t) \subseteq Swimmer
    BY DEF SwimmersOf
  <1> QED BY <1>1, PageAssumption, FS_Subset, FS_CardinalityType

LEMMA CorrectionsType ==
  ASSUME run \in RunType, NEW r \in Corrections PROVE r \in RunType
  <1>1. CASE run.corrected
    BY <1>1 DEF Corrections
  <1>2. CASE ~run.corrected
    <2>1. PICK took \in SUBSET run.chosen :
            r = [run EXCEPT !.corrected = TRUE,
                   !.planned = [t \in Team |-> IF t \in took
                                               THEN Cardinality(Gender) + Cardinality(SwimmersOf(run, t))
                                               ELSE run.planned[t]]]
      BY <1>2 DEF Corrections
    <2> DEFINE p == [t \in Team |-> IF t \in took
                                    THEN Cardinality(Gender) + Cardinality(SwimmersOf(run, t))
                                    ELSE run.planned[t]]
    <2>2. p \in [Team -> Nat]
      <3>1. \A t \in Team : run.planned[t] \in Nat
        BY DEF RunType
      <3>2. \A t \in Team : Cardinality(Gender) + Cardinality(SwimmersOf(run, t)) \in Nat
        BY SwimmersOfType
      <3> QED BY <3>1, <3>2
    <2>3. r = [run EXCEPT !.corrected = TRUE, !.planned = p]
      BY <2>1
    <2> HIDE DEF p
    <2> QED BY <2>2, <2>3 DEF RunType
  <1> QED BY <1>1, <1>2

-----------------------------------------------------------------------------
(* What the pieces of a step leave as it was *)

(* The fields that speak of the run as a whole *)
SameCourse(r, q) ==
  /\ r.cancelled = q.cancelled /\ r.recent429 = q.recent429 /\ r.lost = q.lost /\ r.attempt = q.attempt

(* Its queue *)
SameQueue(r, q) ==
  /\ r.chosen = q.chosen /\ r.opened = q.opened /\ r.atStart = q.atStart
  /\ r.roster = q.roster /\ r.swimmer = q.swimmer /\ r.listers = q.listers

(* Its page in flight *)
SamePage(r, q) ==
  /\ r.page = q.page /\ r.of = q.of
  /\ r.toFile = q.toFile /\ r.clean = q.clean /\ r.missed = q.missed

LEMMA CorrectionsKeep ==
  ASSUME run \in RunType, NEW q \in Corrections
  PROVE  q \in RunType /\ q.at = run.at /\ SameCourse(q, run) /\ SameQueue(q, run) /\ SamePage(q, run)
  <1>1. CASE run.corrected
    BY <1>1 DEF Corrections, SameCourse, SameQueue, SamePage
  <1>2. CASE ~run.corrected
    <2>1. \E p : q = [run EXCEPT !.corrected = TRUE, !.planned = p]
      BY <1>2 DEF Corrections
    <2>2. PICK p : q = [run EXCEPT !.corrected = TRUE, !.planned = p]
      BY <2>1
    <2>3. q.at = run.at /\ SameCourse(q, run)
      BY <2>2 DEF RunType, SameCourse
    <2>4. SameQueue(q, run)
      BY <2>2 DEF RunType, SameQueue
    <2>5. SamePage(q, run)
      BY <2>2 DEF RunType, SamePage
    <2> QED BY <2>3, <2>4, <2>5, CorrectionsType
  <1> QED BY <1>1, <1>2

LEMMA WithKeeps ==
  ASSUME run \in RunType, NEW q \in RunType, NEW status \in Status
  PROVE  LET w == With(q, status)
         IN  /\ w \in RunType /\ w.at = q.at /\ SameCourse(w, q) /\ SamePage(w, q)
             /\ w.chosen = q.chosen /\ w.opened = q.opened /\ w.atStart = q.atStart /\ w.listers = q.listers
             /\ w.roster = IF IsRoster THEN [t \in Team |-> IF t \in run.of THEN [q.roster[t] EXCEPT ![run.page] = status]
                                                            ELSE q.roster[t]]
                           ELSE q.roster
             /\ w.swimmer = IF IsSwimmer THEN [q.swimmer EXCEPT ![run.page] = status] ELSE q.swimmer
  <1> USE DEF SameCourse, SamePage
  <1>t. With(q, status) \in RunType
    BY WithType
  <1>1. CASE IsRoster
    <2>1. ~IsSwimmer
      BY <1>1, PageAssumption DEF IsRoster, IsSwimmer
    <2> DEFINE ro == [t \in Team |-> IF t \in run.of THEN [q.roster[t] EXCEPT ![run.page] = status]
                                    ELSE q.roster[t]]
    <2>2. With(q, status) = [q EXCEPT !.roster = ro]
      BY <1>1, <2>1 DEF With
    <2> HIDE DEF ro
    <2>3. /\ With(q, status).roster = ro /\ With(q, status).swimmer = q.swimmer
          /\ With(q, status).at = q.at /\ SameCourse(With(q, status), q) /\ SamePage(With(q, status), q)
      BY <2>2 DEF RunType
    <2>4. /\ With(q, status).chosen = q.chosen /\ With(q, status).opened = q.opened
          /\ With(q, status).atStart = q.atStart /\ With(q, status).listers = q.listers
      BY <2>2 DEF RunType
    <2> QED BY <1>1, <1>t, <2>1, <2>3, <2>4 DEF ro
  <1>2. CASE IsSwimmer
    <2>1. ~IsRoster
      BY <1>2, PageAssumption DEF IsRoster, IsSwimmer
    <2>2. With(q, status) = [q EXCEPT !.swimmer[run.page] = status]
      BY <1>2, <2>1 DEF With
    <2>3. /\ With(q, status).roster = q.roster /\ With(q, status).swimmer = [q.swimmer EXCEPT ![run.page] = status]
          /\ With(q, status).at = q.at /\ SameCourse(With(q, status), q) /\ SamePage(With(q, status), q)
      BY <2>2 DEF RunType
    <2>4. /\ With(q, status).chosen = q.chosen /\ With(q, status).opened = q.opened
          /\ With(q, status).atStart = q.atStart /\ With(q, status).listers = q.listers
      BY <2>2 DEF RunType
    <2> QED BY <1>2, <1>t, <2>1, <2>3, <2>4
  <1>3. CASE ~IsRoster /\ ~IsSwimmer
    <2>1. With(q, status) = q
      BY <1>3 DEF With
    <2> QED BY <1>3, <1>t, <2>1
  <1> QED BY <1>1, <1>2, <1>3

-----------------------------------------------------------------------------
(* What the steps of a run do to its type *)
LEMMA TypeStep == TypeOK /\ Streaks /\ [Next]_vars => TypeOK'
  <1> SUFFICES ASSUME TypeOK, Streaks, [Next]_vars PROVE TypeOK'
    OBVIOUS
  <1> USE CountAssumption
  <1>t. /\ run \in RunType /\ runs \in 0 .. MaxRuns /\ refused \in Nat /\ removed \in SUBSET Team
        /\ held \in [Team -> SUBSET (Gender \cup Swimmer)] /\ listed \in [Team -> SUBSET Swimmer]
        /\ mark \in [Team -> {"none", "in-progress", "partial", "complete"}]
        /\ saved \in [SUBSET Team -> SUBSET Keys]
    BY DEF TypeOK, RunType
  <1>u. ASSUME run' \in RunType, runs' \in 0 .. MaxRuns, refused' \in Nat, removed' \in SUBSET Team,
               held' \in [Team -> SUBSET (Gender \cup Swimmer)], listed' \in [Team -> SUBSET Swimmer],
               mark' \in [Team -> {"none", "in-progress", "partial", "complete"}],
               saved' \in [SUBSET Team -> SUBSET Keys]
        PROVE  TypeOK'
    BY <1>u DEF TypeOK, RunType
  (* The run moves alone. *)
  <1>v. ASSUME run' \in RunType, UNCHANGED <<app, saved, history>> PROVE TypeOK'
    BY <1>t, <1>u, <1>v DEF app, history
  <1>w. ASSUME run' \in RunType, refused' \in {0, refused + 1}, UNCHANGED <<app, saved, runs, listed, removed>>
        PROVE  TypeOK'
    BY <1>t, <1>u, <1>w DEF app
  <1>1. CASE Start
    <2>1. run' \in RunType
      BY <1>1, NoRunType, PlaceType DEF Start, Places
    <2> QED BY <2>1, <1>1, <1>t, <1>u DEF Start, app
  <1>2. CASE TogglePause
    BY <1>2, <1>t, <1>v DEF TogglePause, RunType
  <1>3. CASE Cancel
    BY <1>3, <1>t, <1>v DEF Cancel, RunType
  <1>4. CASE CloseTab
    BY <1>4, <1>t, <1>w, NoRunType DEF CloseTab
  <1>5. ASSUME NEW c \in SUBSET Team, Choose(c) PROVE TypeOK'
    <2>1. PICK finished \in {saved[c], {}} :
           run' = IF c = {} THEN Ended(run, "completed")
                  ELSE [run EXCEPT
                         !.at = "open", !.chosen = c, !.offers = {}, !.atStart = finished,
                         !.roster = [t \in Team |-> [g \in Gender |-> IF t \in c THEN "pending" ELSE "absent"]]]
      BY <1>5 DEF Choose
    <2>2. finished \in SUBSET Keys
      BY <1>t
    <2> DEFINE ro == [t \in Team |-> [g \in Gender |-> IF t \in c THEN "pending" ELSE "absent"]]
    <2>3. ro \in [Team -> [Gender -> Status]]
      BY DEF Status
    <2> HIDE DEF ro
    <2>4. [run EXCEPT !.at = "open", !.chosen = c, !.offers = {}, !.atStart = finished, !.roster = ro] \in RunType
      BY <1>t, <2>2, <2>3 DEF RunType, Places
    <2>5. run' \in RunType
      BY <1>t, <2>1, <2>4, EndedType DEF ro, Outcomes
    <2> QED BY <2>5, <1>5, <1>v DEF Choose
  <1>6. ASSUME NEW c \in SUBSET Team, Forget(c) PROVE TypeOK'
    BY <1>6, <1>t, <1>u DEF Forget, app, history
  <1>7. ASSUME NEW t \in Team, RemoveCapture(t) PROVE TypeOK'
    BY <1>7, <1>t, <1>u DEF RemoveCapture
  <1>8. ASSUME NEW t \in Team, ReadSeasons(t) PROVE TypeOK'
    <2> DEFINE r == [run EXCEPT !.toRead = @ \ {t}]
    <2>1. r \in RunType
      BY <1>t DEF RunType
    <2> HIDE DEF r
    <2>2. run' \in {Fetching(r, Seasons, {t}), Ended(r, "halted")}
      BY <1>8 DEF ReadSeasons, r
    <2>3. run' \in RunType
      BY <2>1, <2>2, FetchingType, EndedType, NoRunType DEF Outcomes
    <2> QED BY <2>3, <1>8, <1>v DEF ReadSeasons
  <1>9. CASE AskChoice
    <2>1. run' \in RunType
      BY <1>9, <1>t, EndedType, PlaceType DEF AskChoice, Outcomes, Places
    <2> QED BY <2>1, <1>9, <1>v DEF AskChoice
  <1>10. CASE StopCancelled
    BY <1>10, <1>t, <1>v, EndedType DEF StopCancelled, Outcomes
  <1>11. ASSUME NEW t \in Team, OpenSeason(t) PROVE TypeOK'
    <2>1. Cardinality(Gender) \in Nat
      BY PageAssumption, FS_CardinalityType
    <2>2. [run EXCEPT !.opened = @ \cup {t}, !.planned[t] = Cardinality(Gender),
                      !.at = IF run.chosen = run.opened \cup {t} THEN "loop" ELSE "open"] \in RunType
      BY <2>1, <1>t DEF RunType, Places
    <2>3. run' \in RunType
      BY <2>2, <1>11, <1>t, EndedType DEF OpenSeason, Outcomes
    <2> QED BY <2>3, <1>11, <1>t, <1>u DEF OpenSeason
  <1>12. ASSUME NEW t \in Team, NEW g \in Gender, NextRoster(t, g) PROVE TypeOK'
    <2> DEFINE r == [run EXCEPT !.roster[t][g] = "in-flight"]
    <2>1. r \in RunType
      BY <1>t DEF RunType, Status
    <2>2. run' = Fetching(r, g, {t})
      BY <1>12 DEF NextRoster
    <2> HIDE DEF r
    <2>3. run' \in RunType
      BY <2>1, <2>2, FetchingType DEF Page
    <2> QED BY <2>3, <1>12, <1>v DEF NextRoster
  <1>13. ASSUME NEW s \in Swimmer, NextSwimmer(s) PROVE TypeOK'
    <2>1. PICK q \in Corrections : run' = Fetching([q EXCEPT !.swimmer[s] = "in-flight"], s, {})
      BY <1>13 DEF NextSwimmer
    <2>2. q \in RunType
      BY <1>t, <2>1, CorrectionsType
    <2> DEFINE r == [q EXCEPT !.swimmer[s] = "in-flight"]
    <2>3. r \in RunType
      BY <2>2 DEF RunType, Status
    <2> HIDE DEF r
    <2>4. run' \in RunType
      BY <2>1, <2>3, FetchingType DEF Page, r
    <2> QED BY <2>4, <1>13, <1>v DEF NextSwimmer
  <1>14. CASE Drain
    <2>1. run' \in RunType
      BY <1>14, <1>t, CorrectionsType, EndedType DEF Drain, Outcomes
    <2> QED BY <2>1, <1>14, <1>t, <1>u DEF Drain, app, history
  <1>15. CASE Request
    BY <1>15, <1>t, <1>v, PlaceType DEF Request, Places
  <1>16. CASE AbortFetch
    BY <1>16, <1>t, <1>v, WithType, BackType DEF AbortFetch, Failed, Status
  <1>17. CASE RetryAfter429
    <2>1. [run EXCEPT !.at = "wait", !.attempt = @ + 1] \in RunType
      <3>1. run.attempt + 1 \in 0 .. MaxRetries + 1
        BY <1>17, <1>t DEF RetryAfter429, RunType
      <3> QED BY <3>1, <1>t DEF RunType, Places
    <2> QED BY <2>1, <1>17, <1>w DEF RetryAfter429
  <1>h. ASSUME NEW r \in RunType PROVE Halted(r) \in RunType /\ Failed(r) \in RunType
    BY <1>t, WithType, EndedType, BackType DEF Halted, Failed, Status, Outcomes
  <1>18. CASE GiveUpAfter429
    <2> DEFINE r == [run EXCEPT !.recent429 = @ + 1]
    <2>1. r \in RunType
      <3>1. run.recent429 + 1 \in 0 .. StopAfter429
        BY <1>18, <1>t DEF GiveUpAfter429, At, Streaks, RunType
      <3> QED BY <3>1, <1>t DEF RunType
    <2>2. run' = IF r.recent429 >= StopAfter429 THEN Halted(r) ELSE Filing(r, FALSE)
      BY <1>18 DEF GiveUpAfter429
    <2> HIDE DEF r
    <2>3. run' \in RunType
      BY <2>1, <2>2, <1>t, <1>h, FilingType
    <2> QED BY <2>3, <1>18, <1>w DEF GiveUpAfter429
  <1>r. Answered \in RunType
    <2>1. 0 \in 0 .. StopAfter429
      OBVIOUS
    <2> QED BY <2>1, <1>t DEF Answered, RunType
  <1>19. CASE AnswerFiled \/ AnswerRefused \/ AnswerStops
    <2>1. run' \in RunType
      BY <1>19, <1>t, <1>h, <1>r, FilingType DEF AnswerFiled, AnswerRefused, AnswerStops, Answer
    <2> QED BY <2>1, <1>19, <1>w DEF AnswerFiled, AnswerRefused, AnswerStops, Answer
  <1>s. ASSUME NEW t \in Team, Store(t) PROVE held' \in [Team -> SUBSET (Gender \cup Swimmer)]
    BY <1>s, <1>t DEF Store, RunType, Page
  <1>20. ASSUME NEW t \in Team, Landed(t) PROVE TypeOK'
    <2> DEFINE r == [run EXCEPT !.toFile = @ \ {t}, !.lost = 0,
                                !.landed[t] = IF run.page = Seasons THEN @ ELSE @ \cup {run.page}]
    <2>1. r \in RunType
      <3>1. 0 \in 0 .. StopAfterLost
        OBVIOUS
      <3>2. (IF run.page = Seasons THEN run.landed[t] ELSE run.landed[t] \cup {run.page})
              \in SUBSET (Gender \cup Swimmer)
        BY <1>t DEF RunType, Page
      <3> QED BY <3>1, <3>2, <1>t DEF RunType
    <2>2. run' = AfterFiling(r)
      BY <1>20 DEF Landed
    <2> HIDE DEF r
    <2>3. run' \in RunType
      BY <2>1, <2>2, PlaceType DEF AfterFiling, Places
    <2> QED BY <2>3, <1>20, <1>s, <1>t, <1>u DEF Landed, history
  <1>21. ASSUME NEW t \in Team, NotLanded(t) PROVE TypeOK'
    <2> DEFINE r == [run EXCEPT !.toFile = @ \ {t}, !.lost = @ + 1, !.missed = TRUE]
    <2>1. r \in RunType
      <3>1. run.lost + 1 \in 0 .. StopAfterLost
        BY <1>21, <1>t DEF NotLanded, At, Streaks, RunType
      <3> QED BY <3>1, <1>t DEF RunType
    <2>2. run' = IF r.lost >= StopAfterLost THEN Halted([r EXCEPT !.toFile = {}]) ELSE AfterFiling(r)
      BY <1>21 DEF NotLanded
    <2> HIDE DEF r
    <2>3. [r EXCEPT !.toFile = {}] \in RunType
      BY <2>1 DEF RunType
    <2>4. run' \in RunType
      BY <2>1, <2>2, <2>3, <1>h, PlaceType DEF AfterFiling, Places
    <2>5. held' \in [Team -> SUBSET (Gender \cup Swimmer)]
      BY <1>21, <1>s, <1>t DEF NotLanded
    <2> QED BY <2>4, <2>5, <1>21, <1>t, <1>u DEF NotLanded, history
  <1>22. CASE SettleSeasons
    <2>1. PICK ts \in SUBSET Team : run' = [Back(run) EXCEPT !.offers = @ \cup ts]
      BY <1>22, <1>t DEF SettleSeasons, RunType
    <2>2. PICK r \in RunType : r = Back(run)
      BY <1>t, BackType
    <2>3. [r EXCEPT !.offers = @ \cup ts] \in RunType
      BY DEF RunType
    <2> QED BY <2>1, <2>2, <2>3, <1>22, <1>v DEF SettleSeasons
  <1>23. CASE SettleBad
    BY <1>23, <1>t, <1>h, <1>v DEF SettleBad
  <1>24. ASSUME NEW t \in Team, NEW ss \in SUBSET Swimmer, SettleRoster(t, ss) PROVE TypeOK'
    <2>1. Back(With(AddSwimmers(run, t, ss), "done")) \in RunType
      BY <1>t, AddSwimmersType, WithType, BackType DEF Status
    <2>2. run' \in RunType
      BY <2>1, <1>24, <1>t, <1>h DEF SettleRoster
    <2>3. listed' \in [Team -> SUBSET Swimmer]
      BY <1>24, <1>t DEF SettleRoster
    <2> QED BY <2>2, <2>3, <1>24, <1>t, <1>u DEF SettleRoster, app
  <1>25. CASE SettleSwimmer
    <2> DEFINE r == With(run, "done")
    <2>1. r \in RunType
      BY <1>t, WithType DEF Status
    <2>2. run' = Back(r) /\ saved' \in {saved, [saved EXCEPT ![run.chosen] = run.atStart \cup FinishedKeys(r)]}
      BY <1>25 DEF SettleSwimmer
    <2>3. FinishedKeys(r) \subseteq Keys /\ run.atStart \subseteq Keys
      BY <1>t DEF FinishedKeys, RunType
    <2> HIDE DEF r
    <2>4. run' \in RunType /\ saved' \in [SUBSET Team -> SUBSET Keys]
      BY <1>t, <2>1, <2>2, <2>3, BackType
    <2> QED BY <2>4, <1>25, <1>t, <1>u DEF SettleSwimmer, app, history
  <1>26. CASE MarkCaptures
    <2>1. mark' \in [Team -> {"none", "in-progress", "partial", "complete"}]
      <3>1. PICK heard \in SUBSET run.opened :
             mark' = [t \in Team |->
                       IF t \notin heard THEN mark[t]
                       ELSE IF run.outcome = "completed" /\ EveryPlannedPage(t) THEN "complete" ELSE "partial"]
        BY <1>26 DEF MarkCaptures
      <3> QED BY <3>1, <1>t
    <2> QED BY <2>1, <1>26, <1>t, <1>u, NoRunType DEF MarkCaptures
  <1>27. CASE UNCHANGED vars
    BY <1>27, <1>t, <1>u DEF vars
  <1> QED
    BY <1>1, <1>2, <1>3, <1>4, <1>5, <1>6, <1>7, <1>8, <1>9, <1>10, <1>11, <1>12, <1>13, <1>14,
       <1>15, <1>16, <1>17, <1>18, <1>19, <1>20, <1>21, <1>22, <1>23, <1>24, <1>25, <1>26, <1>27
       DEF Next, Driver, User
-----------------------------------------------------------------------------
(* Refusals *)

LEMMA RoundsGrow ==
  ASSUME NEW n \in Nat
  PROVE  /\ Rounds(n) \in Nat /\ Rounds(0) = 0
         /\ Rounds(n + 1) = Rounds(n) + MaxRetries + 1
         /\ \A k \in Nat : n < k => Rounds(n) + MaxRetries + 1 <= Rounds(k)
         /\ \A k \in Nat : n <= k => Rounds(n) <= Rounds(k)
  <1> USE CountAssumption
  <1> DEFINE m == MaxRetries + 1
  <1>1. m \in Nat
    OBVIOUS
  <1>2. n * m \in Nat /\ 0 * m = 0 /\ (n + 1) * m = n * m + m
    BY <1>1
  <1>3. ASSUME NEW k \in Nat, n < k PROVE n * m + m <= k * m
    <2>1. k = n + 1 + (k - n - 1) /\ k - n - 1 \in Nat
      BY <1>3
    <2>2. k * m = (n + 1) * m + (k - n - 1) * m
      BY <1>1, <2>1
    <2>3. (k - n - 1) * m >= 0
      BY <1>1, <2>1
    <2>4. k * m \in Nat /\ (k - n - 1) * m \in Int
      BY <1>1, <2>1
    <2> QED BY <1>1, <1>2, <2>2, <2>3, <2>4
  <1>4. ASSUME NEW k \in Nat, n <= k PROVE n * m <= k * m
    <2>1. CASE n = k
      BY <1>1, <2>1
    <2>2. CASE n < k
      <3>1. k * m \in Nat
        BY <1>1
      <3> QED BY <1>1, <1>2, <1>3, <2>2, <3>1
    <2> QED BY <1>4, <2>1, <2>2
  <1> QED BY <1>1, <1>2, <1>3, <1>4 DEF Rounds

(* Ending a run, or reading or asking on, leaves its streaks as they were. *)
LEMMA EndedCourse ==
  ASSUME NEW r \in RunType, NEW how PROVE Ended(r, how).at = "mark" /\ SameCourse(Ended(r, how), r)
  BY DEF Ended, RunType, SameCourse

LEMMA RefusalStep == TypeOK /\ Streaks /\ Refusals /\ [Next]_vars => Streaks' /\ Refusals'
  <1> SUFFICES ASSUME TypeOK, Streaks, Refusals, [Next]_vars PROVE Streaks' /\ Refusals'
    OBVIOUS
  <1> USE CountAssumption
  <1>t. /\ run \in RunType /\ refused \in Nat /\ run.recent429 \in Nat /\ run.attempt \in Nat
        /\ run.attempt <= MaxRetries + 1 /\ run.lost \in Nat
    BY DEF TypeOK, RunType
  <1>p. /\ Rounds(run.recent429) \in Nat /\ Rounds(StopAfter429) \in Nat /\ Rounds(0) = 0
        /\ Rounds(run.recent429 + 1) = Rounds(run.recent429) + MaxRetries + 1
        /\ run.recent429 < StopAfter429 => Rounds(run.recent429) + MaxRetries + 1 <= Rounds(StopAfter429)
        /\ \A k \in Nat : Rounds(k) \in Nat
    BY <1>t, RoundsGrow
  (* The run is over, or another begins. *)
  <1>a. ASSUME run'.at \in {"off", "read"}, run'.recent429 = 0, run'.lost = 0, run'.cancelled = FALSE, refused' = 0
        PROVE  Streaks' /\ Refusals'
    BY <1>a, <1>p DEF Streaks, Refusals, At
  (* The run goes from one of its places to another, asking nothing. *)
  <1>b. ASSUME ~At("off"), ~At("mark"), run'.cancelled = run.cancelled, refused' = refused,
               run'.recent429 = run.recent429, run'.lost \in Nat, run'.attempt \in Nat,
               \/ run'.at = "mark"
               \/ /\ run'.lost < StopAfterLost
                  /\ \/ run'.at \notin {"off", "wait", "reply", "mark"} /\ ((~At("wait") /\ ~At("reply")) \/ run.cancelled)
                     \/ run'.at = "wait" /\ ~At("wait") /\ ~At("reply") /\ run'.attempt = 1 /\ ~run.cancelled
                     \/ At("wait") /\ run'.at = "reply" /\ run'.attempt = run.attempt
        PROVE  Streaks' /\ Refusals'
    BY <1>b, <1>t, <1>p DEF Streaks, Refusals, At
  <1>1. CASE Start
    BY <1>1, <1>a, <1>t, <1>p DEF Start, NoRun, At, Refusals
  <1>2. CASE TogglePause
    <2>1. /\ run'.at = run.at /\ run'.cancelled = run.cancelled /\ run'.recent429 = run.recent429
          /\ run'.lost = run.lost /\ run'.attempt = run.attempt /\ refused' = refused
      BY <1>2, <1>t DEF TogglePause, RunType, history
    <2> QED BY <2>1 DEF Streaks, Refusals, At
  <1>3. CASE Cancel
    <2>1. /\ run'.at = run.at /\ run'.cancelled = TRUE /\ run.cancelled = FALSE /\ run'.recent429 = run.recent429
          /\ run'.lost = run.lost /\ run'.attempt = run.attempt /\ refused' = refused
      BY <1>3, <1>t DEF Cancel, RunType, history
    <2> QED BY <2>1, <1>t, <1>p DEF Streaks, Refusals, At
  <1>4. CASE CloseTab \/ MarkCaptures
    <2>1. run' = NoRun /\ refused' = 0
      BY <1>4 DEF CloseTab, MarkCaptures
    <2>2. run'.at = "off" /\ run'.recent429 = 0 /\ run'.lost = 0 /\ run'.cancelled = FALSE
      BY <2>1 DEF NoRun
    <2> QED BY <2>1, <2>2, <1>a
  <1>5. ASSUME NEW c \in SUBSET Team, Choose(c) PROVE Streaks' /\ Refusals'
    <2>1. /\ At("choose") /\ run'.at \in {"mark", "open"} /\ run'.cancelled = run.cancelled /\ run'.recent429 = run.recent429
          /\ run'.lost = run.lost /\ run'.attempt = run.attempt /\ refused' = refused
      BY <1>5, <1>t DEF Choose, RunType, history, Ended
    <2> QED BY <2>1, <1>b, <1>t DEF At, Streaks
  <1>6. ASSUME NEW c \in SUBSET Team, Forget(c) PROVE Streaks' /\ Refusals'
    BY <1>6 DEF Forget, Streaks, Refusals, At, history
  <1>7. ASSUME NEW t \in Team, RemoveCapture(t) PROVE Streaks' /\ Refusals'
    BY <1>7 DEF RemoveCapture, Streaks, Refusals, At
  <1>8. ASSUME NEW t \in Team, ReadSeasons(t) PROVE Streaks' /\ Refusals'
    <2>1. /\ At("read") /\ run'.at \in {"mark", "wait"} /\ run'.cancelled = run.cancelled /\ run'.recent429 = run.recent429
          /\ run'.lost = run.lost /\ run'.attempt \in {run.attempt, 1} /\ (run'.at = "wait" => run'.attempt = 1)
          /\ ~run.cancelled /\ refused' = refused
      <3> DEFINE r == [run EXCEPT !.toRead = @ \ {t}]
      <3>1. r \in RunType /\ SameCourse(r, run)
        BY <1>t DEF RunType, SameCourse
      <3> HIDE DEF r
      <3>2. /\ run' = Fetching(r, Seasons, {t}) \/ run' = Ended(r, "halted")
            /\ At("read") /\ ~run.cancelled /\ refused' = refused
        BY <1>8 DEF ReadSeasons, r, Passes, history
      <3>3. CASE run' = Fetching(r, Seasons, {t})
        <4>1. /\ run'.at = "wait" /\ run'.attempt = 1 /\ run'.cancelled = r.cancelled
              /\ run'.recent429 = r.recent429 /\ run'.lost = r.lost
          BY <3>1, <3>3 DEF Fetching, RunType
        <4> QED BY <3>1, <3>2, <4>1 DEF SameCourse
      <3>4. CASE run' = Ended(r, "halted")
        BY <3>1, <3>2, <3>4, EndedCourse DEF SameCourse
      <3> QED BY <3>2, <3>3, <3>4
    <2> QED BY <2>1, <1>b, <1>t DEF At, Streaks
  <1>9. CASE AskChoice \/ StopCancelled \/ Drain \/ \E t \in Team : OpenSeason(t)
    <2>1. refused' = refused
      BY <1>9 DEF AskChoice, StopCancelled, Drain, OpenSeason, history
    <2>2. run'.at \in {"choose", "mark", "loop", "open"} /\ SameCourse(run', run)
      <3>1. CASE AskChoice \/ StopCancelled
        <4>1. [run EXCEPT !.at = "choose"].at = "choose" /\ SameCourse([run EXCEPT !.at = "choose"], run)
          BY <1>t DEF RunType, SameCourse
        <4> QED BY <1>t, <3>1, <4>1, EndedCourse DEF AskChoice, StopCancelled
      <3>2. CASE Drain
        <4>1. PICK q \in Corrections : run' = Ended(q, "completed")
          BY <3>2 DEF Drain
        <4>2. q \in RunType /\ SameCourse(q, run)
          BY <1>t, CorrectionsKeep
        <4> QED BY <4>1, <4>2 DEF RunType, Ended, SameCourse
      <3>3. ASSUME NEW t \in Team, OpenSeason(t)
            PROVE  run'.at \in {"choose", "mark", "loop", "open"} /\ SameCourse(run', run)
        <4>1. CASE run' = Ended(run, "halted")
          BY <1>t, <4>1, EndedCourse
        <4>2. CASE run' = [run EXCEPT !.opened = @ \cup {t}, !.planned[t] = Cardinality(Gender),
                             !.at = IF run.chosen = run.opened \cup {t} THEN "loop" ELSE "open"]
          BY <1>t, <4>2 DEF RunType, SameCourse
        <4> QED BY <3>3, <4>1, <4>2 DEF OpenSeason
      <3> QED BY <1>9, <3>1, <3>2, <3>3
    <2>3. At("read") \/ At("choose") \/ At("loop") \/ At("open")
      BY <1>9 DEF AskChoice, StopCancelled, Drain, OpenSeason
    <2> QED BY <2>1, <2>2, <2>3, <1>b, <1>t DEF At, Streaks, SameCourse
  <1>10. CASE (\E t \in Team, g \in Gender : NextRoster(t, g)) \/ \E s \in Swimmer : NextSwimmer(s)
    <2>1. refused' = refused
      BY <1>10 DEF NextRoster, NextSwimmer, history
    <2>2. /\ run'.at = "wait" /\ run'.cancelled = run.cancelled /\ run'.recent429 = run.recent429
          /\ run'.lost = run.lost /\ run'.attempt = 1
      <3>1. ASSUME NEW t \in Team, NEW g \in Gender, NextRoster(t, g)
            PROVE  /\ run'.at = "wait" /\ run'.cancelled = run.cancelled /\ run'.recent429 = run.recent429
                   /\ run'.lost = run.lost /\ run'.attempt = 1
        BY <3>1, <1>t DEF NextRoster, RunType, Fetching
      <3>2. ASSUME NEW s \in Swimmer, NextSwimmer(s)
            PROVE  /\ run'.at = "wait" /\ run'.cancelled = run.cancelled /\ run'.recent429 = run.recent429
                   /\ run'.lost = run.lost /\ run'.attempt = 1
        <4>1. PICK q \in Corrections : run' = Fetching([q EXCEPT !.swimmer[s] = "in-flight"], s, {})
          BY <3>2 DEF NextSwimmer
        <4>2. q \in RunType /\ SameCourse(q, run)
          BY <1>t, CorrectionsKeep
        <4> QED BY <4>1, <4>2 DEF RunType, Fetching, SameCourse
      <3> QED BY <1>10, <3>1, <3>2
    <2>3. At("loop") /\ ~run.cancelled
      BY <1>10 DEF NextRoster, NextSwimmer, Passes
    <2> QED BY <2>1, <2>2, <2>3, <1>b, <1>t DEF At, Streaks
  <1>11. CASE Request
    BY <1>11, <1>b, <1>t DEF Request, At, Streaks, RunType, history
  (* With, Back and Ended leave the streaks alone. *)
  <1>w. ASSUME NEW q \in RunType, NEW status \in Status
        PROVE  LET w == With(q, status)
               IN  /\ w.at = q.at /\ w.cancelled = q.cancelled /\ w.recent429 = q.recent429
                   /\ w.lost = q.lost /\ w.attempt = q.attempt /\ w \in RunType
    BY <1>t, WithKeeps DEF SameCourse
  <1>x. ASSUME NEW q \in RunType
        PROVE  /\ LET f == Failed(q)
                  IN  /\ f.at \in {"loop", "read"} /\ f.cancelled = q.cancelled /\ f.recent429 = q.recent429
                      /\ f.lost = q.lost /\ f.attempt = q.attempt
               /\ LET h == Halted(q)
                  IN  /\ h.at = "mark" /\ h.cancelled = q.cancelled /\ h.recent429 = q.recent429
                      /\ h.lost = q.lost /\ h.attempt = q.attempt
    <2>1. "failed" \in Status
      BY DEF Status
    <2> QED BY <1>w, <2>1 DEF Failed, Halted, Back, Ended, RunType
  <1>12. CASE AbortFetch
    <2>1. run' = Failed(run) /\ run.cancelled /\ At("wait") /\ refused' = refused
      BY <1>12 DEF AbortFetch, history
    <2> QED BY <2>1, <1>x, <1>b, <1>t DEF At, Streaks
  <1>13. CASE RetryAfter429
    <2>1. /\ At("reply") /\ run.attempt <= MaxRetries /\ run'.at = "wait" /\ run'.cancelled = run.cancelled
          /\ run'.recent429 = run.recent429 /\ run'.lost = run.lost /\ run'.attempt = run.attempt + 1
          /\ refused' = refused + 1
      BY <1>13, <1>t DEF RetryAfter429, RunType
    <2> QED BY <2>1, <1>t, <1>p DEF Streaks, Refusals, At
  <1>14. CASE GiveUpAfter429
    <2> DEFINE q == [run EXCEPT !.recent429 = @ + 1]
    <2>1. run' = (IF q.recent429 >= StopAfter429 THEN Halted(q) ELSE Filing(q, FALSE)) /\ At("reply")
          /\ refused' = refused + 1
      BY <1>14 DEF GiveUpAfter429
    <2>2. run.recent429 < StopAfter429
      BY <2>1 DEF Streaks, At
    <2>3. /\ q \in RunType /\ q.recent429 = run.recent429 + 1 /\ q.lost = run.lost
          /\ q.cancelled = run.cancelled
      <3>1. run.recent429 + 1 \in 0 .. StopAfter429
        BY <2>2, <1>t
      <3> QED BY <3>1, <1>t DEF RunType
    <2> HIDE DEF q
    <2>4. CASE q.recent429 >= StopAfter429
      <3>1. run'.at = "mark"
        BY <2>1, <2>3, <2>4, <1>x
      <3>2. refused + 1 <= Rounds(run.recent429) + run.attempt
        BY <2>1, <1>t, <1>p DEF Refusals, At
      <3>3. refused + 1 <= Rounds(StopAfter429)
        BY <3>2, <2>2, <1>t, <1>p
      <3> QED BY <2>1, <3>1, <3>3 DEF Streaks, Refusals, At
    <2>5. CASE ~(q.recent429 >= StopAfter429)
      <3>1. run'.at = "file" /\ run'.recent429 = q.recent429 /\ run'.lost = q.lost /\ run'.cancelled = q.cancelled
        BY <2>1, <2>3, <2>5 DEF Filing, RunType
      <3>2. refused + 1 <= Rounds(run.recent429) + run.attempt
        BY <2>1, <1>t, <1>p DEF Refusals, At
      <3>3. refused + 1 <= Rounds(run.recent429 + 1) /\ Rounds(run.recent429 + 1) \in Nat
        BY <3>2, <1>t, <1>p
      <3>a. run'.at = "file" /\ run'.recent429 = run.recent429 + 1 /\ run'.lost = run.lost
        BY <2>3, <3>1
      <3>b. refused' = refused + 1 /\ run.lost < StopAfterLost /\ run.recent429 + 1 < StopAfter429
        BY <2>1, <2>2, <2>3, <2>5, <1>t DEF Streaks, At
      <3>4. Refusals'
        BY <3>a, <3>b, <3>3, <1>t DEF Refusals, At
      <3>5. Streaks'
        BY <3>a, <3>b DEF Streaks, At
      <3> QED BY <3>4, <3>5
    <2> QED BY <2>4, <2>5
  <1>15. CASE AnswerFiled \/ AnswerRefused \/ AnswerStops
    <2>1. /\ Answered \in RunType /\ Answered.recent429 = 0 /\ Answered.lost = run.lost
      <3>1. 0 \in 0 .. StopAfter429
        OBVIOUS
      <3> QED BY <3>1, <1>t DEF Answered, RunType
    <2>2. refused' = 0 /\ At("reply")
      BY <1>15 DEF AnswerFiled, AnswerRefused, AnswerStops, Answer
    <2>3. \A clean \in BOOLEAN : LET f == Filing(Answered, clean)
                                 IN  f.at = "file" /\ f.recent429 = 0 /\ f.lost = run.lost
      BY <2>1 DEF Filing, RunType
    <2>4. run'.recent429 = 0 /\ run'.lost = run.lost /\ run'.at \in {"file", "loop", "read", "mark"}
      BY <1>15, <2>1, <2>3, <1>x DEF AnswerFiled, AnswerRefused, AnswerStops, Answer
    <2> QED BY <2>2, <2>4, <1>t, <1>p DEF Streaks, Refusals, At
  <1>16. ASSUME NEW t \in Team, Landed(t) PROVE Streaks' /\ Refusals'
    <2>1. /\ At("file") /\ run'.at \in {"file", "settle"} /\ run'.cancelled = run.cancelled
          /\ run'.recent429 = run.recent429 /\ run'.lost = 0 /\ run'.attempt = run.attempt /\ refused' = refused
      BY <1>16, <1>t DEF Landed, AfterFiling, RunType, history
    <2> QED BY <2>1, <1>b, <1>t DEF At
  <1>17. ASSUME NEW t \in Team, NotLanded(t) PROVE Streaks' /\ Refusals'
    <2> DEFINE q == [run EXCEPT !.toFile = @ \ {t}, !.lost = @ + 1, !.missed = TRUE]
    <2>1. /\ run' = (IF q.lost >= StopAfterLost THEN Halted([q EXCEPT !.toFile = {}]) ELSE AfterFiling(q))
          /\ At("file") /\ refused' = refused
      BY <1>17 DEF NotLanded, history
    <2>2. /\ q \in RunType /\ q.lost = run.lost + 1 /\ q.at = "file"
          /\ q.recent429 = run.recent429 /\ q.cancelled = run.cancelled /\ q.attempt = run.attempt
      <3>1. run.lost + 1 \in 0 .. StopAfterLost
        BY <2>1, <1>t DEF Streaks, At
      <3> QED BY <3>1, <2>1, <1>t DEF RunType, At
    <2> HIDE DEF q
    <2>3. CASE q.lost >= StopAfterLost
      <3> DEFINE e == [q EXCEPT !.toFile = {}]
      <3>1. /\ e \in RunType /\ e.lost = q.lost /\ e.recent429 = q.recent429 /\ e.cancelled = q.cancelled
            /\ e.attempt = q.attempt
        BY <2>2 DEF RunType
      <3> HIDE DEF e
      <3>2. run' = Halted(e)
        BY <2>1, <2>3 DEF e
      <3>3. /\ run'.at = "mark" /\ run'.cancelled = run.cancelled /\ run'.recent429 = run.recent429
            /\ run'.lost \in Nat /\ run'.attempt \in Nat
        BY <3>1, <3>2, <2>2, <1>x, <1>t
      <3> QED BY <3>3, <2>1, <1>b DEF At
    <2>4. CASE ~(q.lost >= StopAfterLost)
      <3>1. /\ run'.at \in {"file", "settle"} /\ run'.cancelled = run.cancelled
            /\ run'.recent429 = run.recent429 /\ run'.lost = q.lost /\ run'.attempt = run.attempt
        BY <2>1, <2>2, <2>4 DEF AfterFiling, RunType
      <3> QED BY <3>1, <2>1, <2>2, <2>4, <1>b, <1>t DEF At
    <2> QED BY <2>3, <2>4
  <1>18. CASE SettleSeasons \/ SettleBad \/ SettleSwimmer \/ \E t \in Team, ss \in SUBSET Swimmer : SettleRoster(t, ss)
    <2>1. At("settle") /\ refused' = refused
      BY <1>18 DEF SettleSeasons, SettleBad, SettleSwimmer, SettleRoster, history
    <2>2. /\ run'.at \in {"read", "loop"} /\ run'.cancelled = run.cancelled
          /\ run'.recent429 = run.recent429 /\ run'.lost = run.lost /\ run'.attempt = run.attempt
      <3>d. "done" \in Status
        BY DEF Status
      <3>1. CASE SettleSeasons
        BY <3>1, <1>t DEF SettleSeasons, Back, RunType
      <3>2. CASE SettleBad
        BY <3>2, <1>t, <1>x DEF SettleBad
      <3>3. CASE SettleSwimmer
        BY <3>3, <3>d, <1>t, <1>w DEF SettleSwimmer, Back, RunType
      <3>4. ASSUME NEW t \in Team, NEW ss \in SUBSET Swimmer, SettleRoster(t, ss)
            PROVE  /\ run'.at \in {"read", "loop"} /\ run'.cancelled = run.cancelled
                   /\ run'.recent429 = run.recent429 /\ run'.lost = run.lost /\ run'.attempt = run.attempt
        <4> DEFINE q == AddSwimmers(run, t, ss)
        <4>1. /\ q.cancelled = run.cancelled /\ q.recent429 = run.recent429 /\ q.lost = run.lost
              /\ q.attempt = run.attempt
          BY <1>t DEF AddSwimmers, RunType
        <4>2. q \in RunType
          BY <1>t, AddSwimmersType
        <4>3. run' = Back(With(q, "done")) \/ run' = Failed(run)
          BY <3>4 DEF SettleRoster
        <4> HIDE DEF q
        <4>4. CASE run' = Failed(run)
          BY <4>4, <1>t, <1>x
        <4>5. CASE run' = Back(With(q, "done"))
          BY <4>5, <4>1, <4>2, <3>d, <1>w DEF Back, RunType
        <4> QED BY <4>3, <4>4, <4>5
      <3> QED BY <1>18, <3>1, <3>2, <3>3, <3>4
    <2> QED BY <2>1, <2>2, <1>b, <1>t DEF At, Streaks
  <1>19. CASE UNCHANGED vars
    BY <1>19 DEF vars, Streaks, Refusals, At
  <1> QED
    BY <1>1, <1>2, <1>3, <1>4, <1>5, <1>6, <1>7, <1>8, <1>9, <1>10, <1>11, <1>12, <1>13, <1>14,
       <1>15, <1>16, <1>17, <1>18, <1>19 DEF Next, Driver, User
-----------------------------------------------------------------------------
LEMMA CrawlInvHolds == Spec => []CrawlInv
  <1>1. Init => CrawlInv
    <2> SUFFICES ASSUME Init PROVE CrawlInv
      OBVIOUS
    <2>1. run \in RunType /\ run = NoRun
      BY NoRunType DEF Init
    <2>2. TypeOK
      BY <2>1, CountAssumption DEF Init, TypeOK, RunType, Keys
    <2>3. run.at = "off" /\ run.recent429 = 0 /\ run.lost = 0 /\ run.cancelled = FALSE /\ refused = 0
      BY <2>1 DEF NoRun, Init
    <2>4. Rounds(0) = 0
      BY RoundsGrow
    <2> QED BY <2>2, <2>3, <2>4, CountAssumption DEF CrawlInv, Streaks, Refusals, At
  <1>2. CrawlInv /\ [Next]_vars => CrawlInv'
    BY TypeStep, RefusalStep DEF CrawlInv
  <1> QED BY <1>1, <1>2, PTL DEF Spec

(* Every run, every capture and what is saved have their types in every    *)
(* state.                                                                  *)
THEOREM TypeCorrect == Spec => []TypeOK
  <1>1. CrawlInv => TypeOK
    BY DEF CrawlInv
  <1> QED BY <1>1, CrawlInvHolds, PTL

(* However the runs, the user's buttons and the answers interleave, the    *)
(* site refuses at most StopAfter429 pages, each with all its retries,     *)
(* before a run leaves it alone.  (decideRateLimitRetry, shouldHalt)       *)
THEOREM RefusalsAlwaysBounded == Spec => []RefusalsAreBounded
  <1>1. CrawlInv => RefusalsAreBounded
    <2> SUFFICES ASSUME CrawlInv PROVE refused <= Rounds(StopAfter429)
      BY DEF RefusalsAreBounded, Rounds
    <2>t. /\ run.recent429 \in Nat /\ run.attempt \in Nat /\ refused \in Nat
          /\ run.attempt <= MaxRetries + 1 /\ MaxRetries \in Nat /\ StopAfter429 \in Nat
      BY CountAssumption DEF CrawlInv, TypeOK
    <2>1. CASE At("mark")
      BY <2>1 DEF CrawlInv, Refusals
    <2>2. CASE ~At("mark")
      <3>1. run.recent429 < StopAfter429
        BY <2>2 DEF CrawlInv, Streaks
      <3>2. Rounds(run.recent429) + MaxRetries + 1 <= Rounds(StopAfter429)
        BY <2>t, <3>1, RoundsGrow
      <3>3. Rounds(run.recent429) \in Nat /\ Rounds(StopAfter429) \in Nat
        BY <2>t, RoundsGrow
      <3>4. refused <= Rounds(run.recent429) + MaxRetries
        BY <2>2, <2>t, <3>3 DEF CrawlInv, Refusals, At
      <3> QED BY <2>t, <3>2, <3>3, <3>4
    <2> QED BY <2>1, <2>2
  <1> QED BY <1>1, CrawlInvHolds, PTL
-----------------------------------------------------------------------------
(* What a run files, saves, skips and calls complete *)

Flight == {"wait", "reply", "file", "settle"}

(* Nothing has been chosen yet. *)
Early == run.at \in {"off", "read", "choose"} \/ (run.at \in Flight /\ run.page = Seasons)

(* The teams of the queue, and the entries it has for them. *)
Queue ==
  /\ At("off") => run = NoRun
  /\ Early => run.chosen = {} /\ run.atStart = {}
  /\ run.opened \subseteq run.chosen
  /\ At("open") => \A s \in Swimmer : run.listers[s] = {}
  /\ At("loop") \/ (run.at \in Flight /\ run.page # Seasons) => run.opened = run.chosen
  /\ \A t \in Team, g \in Gender :
       /\ run.roster[t][g] # "skipped"
       /\ run.roster[t][g] = "absent" <=> t \notin run.chosen
  /\ \A s \in Swimmer :
       /\ run.swimmer[s] = "absent" <=> run.listers[s] = {}
       /\ run.listers[s] \subseteq run.opened

(* One entry is in flight, and no swimmer before the last roster. *)
InFlight ==
  /\ \A t \in Team, g \in Gender :
       run.roster[t][g] = "in-flight" => run.at \in Flight /\ run.page = g /\ run.of = {t}
  /\ \A s \in Swimmer : run.swimmer[s] = "in-flight" => run.at \in Flight /\ run.page = s
  /\ run.at \in Flight /\ run.page \in Gender =>
       \E t \in run.opened : run.of = {t} /\ run.roster[t][run.page] = "in-flight"
  /\ run.at \in Flight /\ run.page \in Swimmer => run.swimmer[run.page] = "in-flight"
  /\ (\E t \in Team, g \in Gender : run.roster[t][g] \in {"pending", "in-flight"})
       => \A s \in Swimmer : run.swimmer[s] \in {"absent", "pending", "skipped"}

(* A clean reply that has missed no capture so far is in those it is no    *)
(* longer to be relayed to.                                                *)
Relayed ==
  /\ At("settle") => run.toFile = {}
  /\ (At("file") \/ At("settle")) /\ run.page # Seasons /\ run.clean /\ ~run.missed
       => \A t \in Subjects : t \in run.toFile \/ run.page \in held[t]

(* What counts as done is filed, for every team that lists it. *)
DoneIsFiled ==
  /\ \A t \in Team, g \in Gender : run.roster[t][g] = "done" => g \in held[t]
  /\ \A s \in Swimmer : run.swimmer[s] = "done" => \A t \in run.listers[s] : s \in held[t]
  /\ \A s \in Swimmer : run.swimmer[s] = "skipped" => \A t \in run.listers[s] : <<s, t>> \in run.atStart
  /\ \A k \in run.atStart : k[1] \in held[k[2]] \/ k[2] \in removed

(* The captures of the run are open, and the run knows what they list. *)
Open ==
  \A t \in run.opened : mark[t] = "in-progress" /\ \A s \in listed[t] : t \in run.listers[s]

SavedIsFiled ==
  \A c \in SUBSET Team : \A k \in saved[c] : k[1] \in held[k[2]] \/ k[2] \in removed

-----------------------------------------------------------------------------
(* The queue and what is filed *)

Filed ==
  Queue /\ InFlight /\ Relayed /\ DoneIsFiled /\ Open /\ SavedIsFiled /\ CompleteIsWhole

(* The captures only grow, none is called complete, and nothing is saved. *)
AppGrows ==
  /\ \A t \in Team : held[t] \subseteq held'[t] /\ mark'[t] \in {mark[t], "in-progress"}
  /\ \A c \in SUBSET Team : saved'[c] \subseteq saved[c]
  /\ listed' = listed /\ removed' = removed

AppSame == UNCHANGED <<held, mark, saved, listed, removed>>

LEMMA SameGrows == AppSame => AppGrows
  BY DEF AppSame, AppGrows

LEMMA RunTyped ==
  ASSUME TypeOK
  PROVE  /\ run \in RunType /\ run.at \in Places /\ run.page \in Page /\ run.of \subseteq Team
         /\ run.roster \in [Team -> [Gender -> Status]] /\ run.swimmer \in [Swimmer -> Status]
         /\ run.listers \in [Swimmer -> SUBSET Team] /\ run.opened \subseteq Team /\ run.chosen \subseteq Team
         /\ run.atStart \subseteq Keys /\ run.toFile \subseteq Team
         /\ held \in [Team -> SUBSET (Gender \cup Swimmer)] /\ listed \in [Team -> SUBSET Swimmer]
         /\ mark \in [Team -> {"none", "in-progress", "partial", "complete"}]
         /\ saved \in [SUBSET Team -> SUBSET Keys]
  BY DEF TypeOK, RunType

LEMMA SavedKept ==
  ASSUME TypeOK, TypeOK', SavedIsFiled, CompleteIsWhole, AppGrows
  PROVE  SavedIsFiled' /\ CompleteIsWhole'
  <1>1. SavedIsFiled'
    <2> SUFFICES ASSUME NEW c \in SUBSET Team, NEW k \in saved'[c]
                 PROVE  k[1] \in held'[k[2]] \/ k[2] \in removed'
      BY DEF SavedIsFiled
    <2>1. k \in saved[c] /\ saved[c] \subseteq Keys
      BY RunTyped DEF AppGrows
    <2>2. k[2] \in Team
      BY <2>1 DEF Keys
    <2>3. k[1] \in held[k[2]] \/ k[2] \in removed
      BY <2>1 DEF SavedIsFiled
    <2> QED BY <2>2, <2>3 DEF AppGrows
  <1>2. CompleteIsWhole'
    <2> SUFFICES ASSUME NEW t \in Team, mark'[t] = "complete"
                 PROVE  Gender \cup listed[t] \subseteq held'[t] \/ t \in removed
      BY DEF CompleteIsWhole, Whole, AppGrows
    <2>1. mark[t] = "complete"
      BY DEF AppGrows
    <2> QED BY <2>1 DEF CompleteIsWhole, Whole, AppGrows
  <1> QED BY <1>1, <1>2

(* While the queue stays as it is, so does what it says is filed. *)
LEMMA QueueKept ==
  ASSUME TypeOK, TypeOK', DoneIsFiled, Open, SavedIsFiled, CompleteIsWhole, SameQueue(run', run), AppGrows
  PROVE  DoneIsFiled' /\ Open' /\ SavedIsFiled' /\ CompleteIsWhole'
  <1>1. DoneIsFiled'
    <2>1. \A k \in run.atStart : k[2] \in Team
      BY RunTyped DEF Keys
    <2>2. \A s \in Swimmer : run.listers[s] \subseteq Team
      BY RunTyped
    <2> QED BY <2>1, <2>2 DEF DoneIsFiled, SameQueue, AppGrows
  <1>2. Open'
    BY RunTyped DEF Open, SameQueue, AppGrows
  <1> QED BY <1>1, <1>2, SavedKept

(* A run that stays where it is, or none *)
LEMMA SitsStill ==
  ASSUME TypeOK, TypeOK', Filed, run'.at = run.at, run' = run \/ run.at # "off",
         SameQueue(run', run), SamePage(run', run), AppGrows
  PROVE  Filed'
  <1>1. Queue'
    BY DEF Filed, Queue, Early, SameQueue, SamePage, At
  <1>2. InFlight'
    BY DEF Filed, InFlight, SameQueue, SamePage
  <1>3. Relayed'
    <2>1. Subjects' = Subjects /\ Subjects \subseteq Team
      BY RunTyped DEF Subjects, IsSwimmer, SameQueue, SamePage
    <2> QED BY <2>1 DEF Filed, Relayed, SamePage, At, AppGrows
  <1> QED BY <1>1, <1>2, <1>3, QueueKept DEF Filed

(* Between its pages the run goes to its end, on to the choice, or back to *)
(* the season lists.                                                       *)
LEMMA MovesOn ==
  ASSUME TypeOK, TypeOK', Filed, SameQueue(run', run), run.at \notin Flight \/ run.page = Seasons,
         run'.at = "mark" \/ (run'.at \in {"choose", "read"} /\ Early), AppGrows
  PROVE  Filed'
  <1>1. run'.at \notin Flight /\ run'.at \notin {"off", "open", "loop", "file", "settle"}
    BY DEF Flight
  <1>2. Queue'
    BY <1>1 DEF Filed, Queue, Early, SameQueue, At
  <1>3. InFlight'
    BY <1>1, PageAssumption DEF Filed, InFlight, SameQueue
  <1>4. Relayed'
    BY <1>1 DEF Relayed, At
  <1> QED BY <1>2, <1>3, <1>4, QueueKept DEF Filed

(* A page in flight *)
LEMMA FlightKept ==
  ASSUME TypeOK, Queue, InFlight, SameQueue(run', run), run'.page = run.page, run'.of = run.of,
         run.at \in Flight, run'.at \in Flight
  PROVE  Queue' /\ InFlight'
  <1>1. run'.at \notin {"off", "open", "loop", "read", "choose"}
    BY DEF Flight
  <1>2. Queue'
    BY <1>1 DEF Queue, Early, SameQueue, At
  <1> QED BY <1>2 DEF InFlight, SameQueue

(* A run at its beginning, or none *)
LEMMA FreshHolds ==
  ASSUME TypeOK', run' \in {NoRun, [NoRun EXCEPT !.at = "read"]}
  PROVE  Queue' /\ InFlight' /\ Relayed' /\ DoneIsFiled' /\ Open'
  <1>0. PICK r \in RunType : r = NoRun
    BY NoRunType
  <1>z. /\ r.at = "off" /\ r.chosen = {} /\ r.opened = {} /\ r.atStart = {}
        /\ r.roster = [t \in Team |-> [g \in Gender |-> "absent"]]
        /\ r.swimmer = [s \in Swimmer |-> "absent"] /\ r.listers = [s \in Swimmer |-> {}]
    BY <1>0 DEF NoRun
  <1>1. /\ run'.at \in {"off", "read"} /\ (run'.at = "off" => run' = NoRun)
        /\ run'.chosen = {} /\ run'.opened = {} /\ run'.atStart = {}
        /\ run'.roster = [t \in Team |-> [g \in Gender |-> "absent"]]
        /\ run'.swimmer = [s \in Swimmer |-> "absent"] /\ run'.listers = [s \in Swimmer |-> {}]
    <2>1. CASE run' = r
      BY <2>1, <1>0, <1>z
    <2>2. CASE run' = [r EXCEPT !.at = "read"]
      <3>1. run'.at = "read" /\ SameQueue(run', r)
        BY <2>2 DEF RunType, SameQueue
      <3> QED BY <3>1, <1>z DEF SameQueue
    <2> QED BY <1>0, <2>1, <2>2
  <1>2. run'.at \notin Flight
    BY <1>1 DEF Flight
  <1>3. Queue'
    BY <1>1, <1>2 DEF Queue, Early, At
  <1>4. InFlight'
    BY <1>1, <1>2 DEF InFlight
  <1>5. Relayed'
    BY <1>1 DEF Relayed, At
  <1>6. DoneIsFiled' /\ Open'
    BY <1>1 DEF DoneIsFiled, Open
  <1> QED BY <1>3, <1>4, <1>5, <1>6

(* A page is given up: its entry has failed. *)
LEMMA FailKeeps ==
  ASSUME TypeOK, TypeOK', Filed, AppGrows, run.at \in Flight,
         run'.chosen = run.chosen, run'.opened = run.opened, run'.atStart = run.atStart,
         run'.listers = run.listers,
         run'.roster = IF IsRoster THEN [t \in Team |-> IF t \in run.of THEN [run.roster[t] EXCEPT ![run.page] = "failed"]
                                                       ELSE run.roster[t]]
                      ELSE run.roster,
         run'.swimmer = IF IsSwimmer THEN [run.swimmer EXCEPT ![run.page] = "failed"] ELSE run.swimmer,
         run'.at = "mark" \/ run'.at = IF IsRoster \/ IsSwimmer THEN "loop" ELSE "read"
  PROVE  Filed'
  <1> USE RunTyped, PageAssumption
  <1>a. Queue /\ InFlight /\ Relayed /\ DoneIsFiled /\ Open /\ SavedIsFiled /\ CompleteIsWhole
    BY DEF Filed
  <1>b. run'.at \notin Flight /\ run'.at \notin {"off", "choose", "open", "file", "settle"}
    BY DEF Flight
  <1>c. run.page \in Gender \/ run.page \in Swimmer \/ run.page = Seasons
    BY DEF Page
  <1>d. \A t \in Team, g \in Gender :
          \/ run'.roster[t][g] = run.roster[t][g] /\ ~(IsRoster /\ t \in run.of /\ g = run.page)
          \/ run'.roster[t][g] = "failed" /\ IsRoster /\ t \in run.of /\ g = run.page
    BY DEF IsRoster
  <1>e. \A s \in Swimmer :
          \/ run'.swimmer[s] = run.swimmer[s] /\ ~(IsSwimmer /\ s = run.page)
          \/ run'.swimmer[s] = "failed" /\ IsSwimmer /\ s = run.page
    BY DEF IsSwimmer
  <1>1. Queue'
    <2>1. \A t \in Team, g \in Gender :
            /\ run'.roster[t][g] # "skipped"
            /\ run'.roster[t][g] = "absent" <=> t \notin run'.chosen
      BY <1>a, <1>d DEF Queue, InFlight, IsRoster
    <2>2. \A s \in Swimmer :
            /\ run'.swimmer[s] = "absent" <=> run'.listers[s] = {}
            /\ run'.listers[s] \subseteq run'.opened
      BY <1>a, <1>e DEF Queue, InFlight, IsSwimmer
    <2>3. Early' => run'.chosen = {} /\ run'.atStart = {}
      BY <1>a, <1>b, <1>c DEF Queue, Early, IsRoster, IsSwimmer
    <2>4. At("loop")' => run'.opened = run'.chosen
      BY <1>a, <1>c DEF Queue, At, IsRoster, IsSwimmer
    <2> QED BY <1>a, <1>b, <2>1, <2>2, <2>3, <2>4 DEF Queue, At
  <1>2. InFlight'
    <2>1. \A t \in Team, g \in Gender : run'.roster[t][g] # "in-flight"
      BY <1>a, <1>d DEF InFlight, IsRoster
    <2>2. \A s \in Swimmer : run'.swimmer[s] # "in-flight"
      BY <1>a, <1>e DEF InFlight, IsSwimmer
    <2>3. ASSUME NEW t \in Team, NEW g \in Gender, run'.roster[t][g] = "pending", NEW s \in Swimmer
          PROVE  run'.swimmer[s] \in {"absent", "pending", "skipped"}
      <3>1. run.roster[t][g] = "pending"
        BY <1>d, <2>3
      <3>2. run.swimmer[s] \in {"absent", "pending", "skipped"}
        BY <1>a, <3>1 DEF InFlight
      <3>3. ~(IsSwimmer /\ s = run.page)
        BY <1>a, <3>2 DEF InFlight, IsSwimmer
      <3> QED BY <1>e, <3>2, <3>3
    <2> QED BY <1>b, <2>1, <2>2, <2>3 DEF InFlight
  <1>3. Relayed'
    BY <1>b DEF Relayed, At
  <1>4. DoneIsFiled'
    <2>1. \A k \in run.atStart : k[2] \in Team
      BY DEF Keys
    <2> QED BY <1>a, <1>d, <1>e, <2>1 DEF DoneIsFiled, AppGrows
  <1>5. Open'
    BY <1>a DEF Open, AppGrows
  <1> QED BY <1>a, <1>1, <1>2, <1>3, <1>4, <1>5, SavedKept DEF Filed

LEMMA FailedHolds ==
  ASSUME TypeOK, TypeOK', Filed, AppGrows, run.at \in Flight, NEW q \in RunType, SameQueue(q, run),
         run' = Failed(q) \/ run' = Halted(q)
  PROVE  Filed'
  <1> DEFINE w == With(q, "failed")
  <1>1. run \in RunType /\ "failed" \in Status
    BY RunTyped DEF Status
  <1>2. /\ w \in RunType
        /\ w.chosen = q.chosen /\ w.opened = q.opened /\ w.atStart = q.atStart /\ w.listers = q.listers
        /\ w.roster = IF IsRoster THEN [t \in Team |-> IF t \in run.of THEN [q.roster[t] EXCEPT ![run.page] = "failed"]
                                                       ELSE q.roster[t]]
                      ELSE q.roster
        /\ w.swimmer = IF IsSwimmer THEN [q.swimmer EXCEPT ![run.page] = "failed"] ELSE q.swimmer
    BY <1>1, WithKeeps
  <1>3. run' = Back(w) \/ run' = Ended(w, "halted")
    BY DEF Failed, Halted
  <1> HIDE DEF w
  <1>4. SameQueue(run', w) /\ (run'.at = "mark" \/ run'.at = IF IsRoster \/ IsSwimmer THEN "loop" ELSE "read")
    BY <1>2, <1>3 DEF Back, Ended, RunType, SameQueue
  <1>5. /\ run'.chosen = run.chosen /\ run'.opened = run.opened /\ run'.atStart = run.atStart
        /\ run'.listers = run.listers /\ run'.roster = w.roster /\ run'.swimmer = w.swimmer
    BY <1>2, <1>4 DEF SameQueue
  <1>6. q.roster = run.roster /\ q.swimmer = run.swimmer
    BY DEF SameQueue
  <1>7. /\ run'.roster = IF IsRoster THEN [t \in Team |-> IF t \in run.of THEN [run.roster[t] EXCEPT ![run.page] = "failed"]
                                                          ELSE run.roster[t]]
                         ELSE run.roster
        /\ run'.swimmer = IF IsSwimmer THEN [run.swimmer EXCEPT ![run.page] = "failed"] ELSE run.swimmer
    BY <1>2, <1>5, <1>6
  <1> QED BY <1>4, <1>5, <1>7, FailKeeps

(* A reply that is about to be relayed to its captures. *)
LEMMA FilingHolds ==
  ASSUME TypeOK, TypeOK', Filed, AppGrows, At("reply"), NEW q \in RunType, SameQueue(q, run), SamePage(q, run),
         NEW clean \in BOOLEAN, run' = Filing(q, clean)
  PROVE  Filed'
  <1>1. /\ run'.at = "file" /\ run'.toFile = Subjects /\ run'.page = q.page /\ run'.of = q.of
        /\ SameQueue(run', q)
    BY DEF Filing, RunType, SameQueue
  <1>2. SameQueue(run', run) /\ run'.page = run.page /\ run'.of = run.of
    BY <1>1 DEF SameQueue, SamePage
  <1>3. Queue' /\ InFlight'
    BY <1>1, <1>2, FlightKept DEF Filed, Flight, At
  <1>4. Relayed'
    <2>1. Subjects' = Subjects
      BY <1>2 DEF Subjects, IsSwimmer, SameQueue
    <2> QED BY <1>1, <2>1 DEF Relayed, At
  <1> QED BY <1>2, <1>3, <1>4, QueueKept DEF Filed

(* A capture is taken off the list of those the reply is to go to. *)
LEMMA AfterFilingHolds ==
  ASSUME TypeOK, TypeOK', Filed, AppGrows, At("file"), NEW q \in RunType, SameQueue(q, run), q.at = "file",
         q.page = run.page, q.of = run.of, NEW t \in run.toFile, q.toFile = run.toFile \ {t}, q.clean = run.clean,
         q.missed \/ (q.missed = run.missed /\ Store(t)), run' = AfterFiling(q)
  PROVE  Filed'
  <1> USE RunTyped
  <1>1. /\ run'.at = IF q.toFile = {} THEN "settle" ELSE "file"
        /\ SameQueue(run', q) /\ SamePage(run', q)
    BY DEF AfterFiling, RunType, SameQueue, SamePage
  <1>2. SameQueue(run', run) /\ run'.page = run.page /\ run'.of = run.of
    BY <1>1 DEF SameQueue, SamePage
  <1>3. Queue' /\ InFlight'
    BY <1>1, <1>2, FlightKept DEF Filed, Flight, At
  <1>4. Relayed'
    <2>1. Subjects' = Subjects /\ Subjects \subseteq Team
      BY <1>2 DEF Subjects, IsSwimmer, SameQueue
    <2>2. run'.toFile = run.toFile \ {t} /\ run'.clean = run.clean /\ run'.missed = q.missed
      BY <1>1 DEF SamePage
    <2>3. ASSUME run.page # Seasons, run.clean, ~q.missed, NEW u \in Subjects
          PROVE  u \in run'.toFile \/ run.page \in held'[u]
      <3>1. u \in run.toFile \/ run.page \in held[u]
        BY <2>3 DEF Filed, Relayed, At
      <3>2. CASE u = t
        BY <2>3, <3>2 DEF Store
      <3>3. CASE u # t /\ u \in run.toFile
        BY <3>3, <2>2
      <3>4. CASE run.page \in held[u]
        BY <3>4, <2>1, <2>3 DEF AppGrows
      <3> QED BY <3>1, <3>2, <3>3, <3>4
    <2>4. At("settle")' => run'.toFile = {}
      BY <1>1, <2>2 DEF At
    <2> QED BY <1>2, <2>1, <2>2, <2>3, <2>4 DEF Relayed
  <1> QED BY <1>2, <1>3, <1>4, QueueKept DEF Filed
-----------------------------------------------------------------------------
(* The choice and the captures of a run *)

LEMMA ChooseHolds ==
  ASSUME TypeOK, TypeOK', Filed, NEW c \in SUBSET Team, Choose(c)
  PROVE  Filed'
  <1> USE RunTyped
  <1>g. AppGrows /\ saved' = saved /\ held' = held /\ removed' = removed
    BY SameGrows DEF Choose, AppSame, app, history
  <1>1. PICK finished \in {saved[c], {}} :
         run' = IF c = {} THEN Ended(run, "completed")
                ELSE [run EXCEPT
                       !.at = "open", !.chosen = c, !.offers = {}, !.atStart = finished,
                       !.roster = [t \in Team |-> [g \in Gender |-> IF t \in c THEN "pending" ELSE "absent"]]]
    BY DEF Choose
  <1>2. run.at = "choose" /\ run.at \notin Flight
    BY DEF Choose, At, Flight
  <1>3. CASE c = {}
    <2>1. run'.at = "mark" /\ SameQueue(run', run)
      BY <1>1, <1>3 DEF Ended, RunType, SameQueue
    <2> QED BY <2>1, <1>2, <1>g, MovesOn
  <1>4. CASE c # {}
    <2>1. /\ run'.at = "open" /\ run'.chosen = c /\ run'.atStart = finished /\ run'.opened = run.opened
          /\ run'.swimmer = run.swimmer /\ run'.listers = run.listers
          /\ run'.roster = [t \in Team |-> [g \in Gender |-> IF t \in c THEN "pending" ELSE "absent"]]
      BY <1>1, <1>4 DEF RunType
    <2>2. run.chosen = {} /\ run.opened = {}
      BY <1>2 DEF Filed, Queue, Early
    <2>3. \A s \in Swimmer : run.listers[s] = {} /\ run.swimmer[s] = "absent"
      BY <2>2 DEF Filed, Queue
    <2>4. Queue'
      BY <2>1, <2>2, <2>3 DEF Queue, Early, Flight, At
    <2>5. InFlight'
      BY <2>1, <2>3 DEF InFlight, Flight
    <2>6. Relayed'
      BY <2>1 DEF Relayed, At
    <2>7. DoneIsFiled'
      <3>1. \A k \in finished : k[1] \in held[k[2]] \/ k[2] \in removed
        BY DEF Filed, SavedIsFiled
      <3> QED BY <1>g, <2>1, <2>3, <3>1 DEF DoneIsFiled
    <2>8. Open'
      BY <2>1, <2>2 DEF Open
    <2> QED BY <2>4, <2>5, <2>6, <2>7, <2>8, <1>g, SavedKept DEF Filed
  <1> QED BY <1>3, <1>4

LEMMA OpenHolds ==
  ASSUME TypeOK, TypeOK', Filed, NEW t \in Team, OpenSeason(t)
  PROVE  Filed'
  <1> USE RunTyped
  <1>1. /\ run.at = "open" /\ run.at \notin Flight /\ ~Early /\ t \in run.chosen
        /\ held' = held /\ saved' = saved /\ removed' = removed
    BY DEF OpenSeason, At, Flight, Early
  <1>2. CASE run' = Ended(run, "halted") /\ mark' \in {mark, [mark EXCEPT ![t] = "in-progress"]} /\ listed' = listed
    <2>1. AppGrows
      BY <1>1, <1>2 DEF AppGrows
    <2>2. run'.at = "mark" /\ SameQueue(run', run)
      BY <1>2 DEF Ended, RunType, SameQueue
    <2> QED BY <2>1, <2>2, <1>1, MovesOn
  <1>3. CASE /\ mark' = [mark EXCEPT ![t] = "in-progress"]
             /\ listed' = [listed EXCEPT ![t] = {}]
             /\ run' = [run EXCEPT !.opened = @ \cup {t}, !.planned[t] = Cardinality(Gender),
                                   !.at = IF run.chosen = run.opened \cup {t} THEN "loop" ELSE "open"]
    <2>1. /\ run'.at = (IF run.chosen = run.opened \cup {t} THEN "loop" ELSE "open")
          /\ run'.opened = run.opened \cup {t} /\ run'.chosen = run.chosen /\ run'.atStart = run.atStart
          /\ run'.roster = run.roster /\ run'.swimmer = run.swimmer /\ run'.listers = run.listers
      BY <1>3 DEF RunType
    <2>2. run'.at \in {"open", "loop"} /\ run'.at \notin Flight /\ (run'.at = "loop" => run'.opened = run'.chosen)
      BY <2>1 DEF Flight
    <2>3. Queue'
      BY <1>1, <2>1, <2>2 DEF Filed, Queue, Early, At
    <2>4. InFlight'
      BY <1>1, <2>1, <2>2 DEF Filed, InFlight
    <2>5. Relayed'
      BY <2>2 DEF Relayed, At
    <2>6. DoneIsFiled'
      BY <1>1, <2>1 DEF Filed, DoneIsFiled
    <2>7. Open'
      <3> SUFFICES ASSUME NEW u \in run.opened \cup {t}
                   PROVE  mark'[u] = "in-progress" /\ \A s \in listed'[u] : u \in run.listers[s]
        BY <2>1 DEF Open
      <3> QED BY <1>3 DEF Filed, Open
    <2>8. SavedIsFiled'
      BY <1>1 DEF Filed, SavedIsFiled
    <2>9. CompleteIsWhole'
      <3> SUFFICES ASSUME NEW u \in Team, mark'[u] = "complete"
                   PROVE  Gender \cup listed'[u] \subseteq held[u] \/ u \in removed
        BY <1>1 DEF CompleteIsWhole, Whole
      <3>1. mark[u] = "complete" /\ listed'[u] = listed[u]
        BY <1>3
      <3> QED BY <3>1 DEF Filed, CompleteIsWhole, Whole
    <2> QED BY <2>3, <2>4, <2>5, <2>6, <2>7, <2>8, <2>9 DEF Filed
  <1> QED BY <1>1, <1>2, <1>3 DEF OpenSeason

LEMMA MarkHolds ==
  ASSUME TypeOK, TypeOK', Filed, MarkCaptures
  PROVE  Filed'
  <1> USE RunTyped
  <1>1. /\ run' = NoRun /\ held' = held /\ saved' = saved /\ listed' = listed /\ removed' = removed
    BY DEF MarkCaptures
  <1>2. Queue' /\ InFlight' /\ Relayed' /\ DoneIsFiled' /\ Open'
    BY <1>1, FreshHolds
  <1>3. SavedIsFiled'
    BY <1>1 DEF Filed, SavedIsFiled
  <1>4. CompleteIsWhole'
    <2> SUFFICES ASSUME NEW t \in Team, mark'[t] = "complete"
                 PROVE  Gender \cup listed[t] \subseteq held[t] \/ t \in removed
      BY <1>1 DEF CompleteIsWhole, Whole
    <2>1. PICK heard \in SUBSET run.opened :
           mark' = [u \in Team |->
                     IF u \notin heard THEN mark[u]
                     ELSE IF run.outcome = "completed" /\ EveryPlannedPage(u) THEN "complete" ELSE "partial"]
      BY DEF MarkCaptures
    <2>2. CASE t \notin heard
      <3>1. mark[t] = "complete"
        BY <2>1, <2>2
      <3> QED BY <3>1 DEF Filed, CompleteIsWhole, Whole
    <2>3. CASE t \in heard
      <3>1. TeamDone(t) /\ t \in run.opened
        BY <2>1, <2>3 DEF EveryPlannedPage
      <3>2. \A g \in Gender : g \in held[t]
        BY <3>1 DEF TeamDone, Filed, DoneIsFiled
      <3>3. ASSUME NEW s \in listed[t] PROVE s \in held[t] \/ t \in removed
        <4>1. s \in Swimmer /\ t \in run.listers[s]
          BY <3>1 DEF Filed, Open
        <4>2. run.swimmer[s] \in {"done", "skipped"}
          BY <3>1, <4>1 DEF TeamDone, SwimmersOf
        <4>3. CASE run.swimmer[s] = "done"
          BY <4>1, <4>3 DEF Filed, DoneIsFiled
        <4>4. CASE run.swimmer[s] = "skipped"
          <5>1. <<s, t>> \in run.atStart
            BY <4>1, <4>4 DEF Filed, DoneIsFiled
          <5>2. <<s, t>>[1] \in held[<<s, t>>[2]] \/ <<s, t>>[2] \in removed
            BY <5>1 DEF Filed, DoneIsFiled
          <5> QED BY <5>2
        <4> QED BY <4>2, <4>3, <4>4
      <3> QED BY <3>2, <3>3
    <2> QED BY <2>2, <2>3
  <1> QED BY <1>2, <1>3, <1>4 DEF Filed

LEMMA RemoveHolds ==
  ASSUME TypeOK, TypeOK', Filed, NEW t \in Team, RemoveCapture(t)
  PROVE  Filed'
  <1> USE RunTyped
  <1>1. /\ run.at = "off" /\ run' = run /\ saved' = saved /\ listed' = listed /\ removed' = removed \cup {t}
        /\ held' = [held EXCEPT ![t] = {}] /\ mark' = [mark EXCEPT ![t] = "none"]
    BY DEF RemoveCapture, At
  <1>2. run' = NoRun
    BY <1>1 DEF Filed, Queue, At
  <1>3. Queue' /\ InFlight' /\ Relayed' /\ DoneIsFiled' /\ Open'
    BY <1>2, FreshHolds
  <1>4. SavedIsFiled'
    <2> SUFFICES ASSUME NEW c \in SUBSET Team, NEW k \in saved[c]
                 PROVE  k[1] \in held'[k[2]] \/ k[2] \in removed'
      BY <1>1 DEF SavedIsFiled
    <2>1. k[2] \in Team
      <3>1. saved[c] \subseteq Keys
        OBVIOUS
      <3> QED BY <3>1 DEF Keys
    <2>2. k[1] \in held[k[2]] \/ k[2] \in removed
      BY DEF Filed, SavedIsFiled
    <2> QED BY <1>1, <2>1, <2>2
  <1>5. CompleteIsWhole'
    <2> SUFFICES ASSUME NEW u \in Team, mark'[u] = "complete"
                 PROVE  Gender \cup listed[u] \subseteq held'[u] \/ u \in removed'
      BY <1>1 DEF CompleteIsWhole, Whole
    <2>1. u # t /\ mark[u] = "complete" /\ held'[u] = held[u]
      BY <1>1
    <2> QED BY <1>1, <2>1 DEF Filed, CompleteIsWhole, Whole
  <1> QED BY <1>3, <1>4, <1>5 DEF Filed
-----------------------------------------------------------------------------
(* One page, from the queue to its entry *)

LEMMA ReadSeasonsHolds ==
  ASSUME TypeOK, TypeOK', Filed, NEW t \in Team, ReadSeasons(t)
  PROVE  Filed'
  <1> DEFINE r == [run EXCEPT !.toRead = @ \ {t}]
  <1>1. AppGrows /\ run.at = "read" /\ run.at \notin Flight /\ run' \in {Fetching(r, Seasons, {t}), Ended(r, "halted")}
    BY SameGrows DEF ReadSeasons, AppSame, app, history, At, Flight
  <1>2. r \in RunType /\ SameQueue(r, run)
    BY RunTyped DEF RunType, SameQueue
  <1> HIDE DEF r
  <1>3. CASE run' = Ended(r, "halted")
    <2>1. run'.at = "mark" /\ SameQueue(run', run)
      BY <1>2, <1>3 DEF Ended, RunType, SameQueue
    <2> QED BY <2>1, <1>1, MovesOn
  <1>4. CASE run' = Fetching(r, Seasons, {t})
    <2>1. run'.at = "wait" /\ run'.page = Seasons /\ SameQueue(run', run)
      BY <1>2, <1>4 DEF Fetching, RunType, SameQueue
    <2>2. Queue'
      BY <1>1, <2>1 DEF Filed, Queue, Early, SameQueue, At
    <2>3. InFlight'
      BY <1>1, <2>1, PageAssumption DEF Filed, InFlight, SameQueue
    <2>4. Relayed'
      BY <2>1 DEF Relayed, At
    <2> QED BY <1>1, <2>1, <2>2, <2>3, <2>4, QueueKept DEF Filed
  <1> QED BY <1>1, <1>3, <1>4

LEMMA NextRosterHolds ==
  ASSUME TypeOK, TypeOK', Filed, NEW t \in Team, NEW g \in Gender, NextRoster(t, g)
  PROVE  Filed'
  <1> USE RunTyped, PageAssumption
  <1>1. AppGrows /\ run.at = "loop" /\ run.at \notin Flight
    BY SameGrows DEF NextRoster, AppSame, app, history, At, Flight
  <1>2. run.roster[t][g] = "pending"
    <2>1. <<t, g>>[1] = t /\ <<t, g>>[2] = g
      OBVIOUS
    <2> QED BY <2>1 DEF NextRoster, PendingRosters
  <1> DEFINE r == [run EXCEPT !.roster[t][g] = "in-flight"]
  <1>3. /\ r \in RunType /\ r.roster = [run.roster EXCEPT ![t][g] = "in-flight"]
        /\ r.swimmer = run.swimmer /\ r.listers = run.listers
        /\ r.chosen = run.chosen /\ r.opened = run.opened /\ r.atStart = run.atStart
    BY DEF RunType, Status
  <1>4. run' = Fetching(r, g, {t})
    BY DEF NextRoster
  <1> HIDE DEF r
  <1>5. /\ run'.at = "wait" /\ run'.page = g /\ run'.of = {t}
        /\ run'.roster = [run.roster EXCEPT ![t][g] = "in-flight"]
        /\ run'.swimmer = run.swimmer /\ run'.listers = run.listers
        /\ run'.chosen = run.chosen /\ run'.opened = run.opened /\ run'.atStart = run.atStart
    BY <1>3, <1>4 DEF Fetching, RunType
  <1>6. /\ run'.roster[t][g] = "in-flight"
        /\ \A u \in Team, h \in Gender : u # t \/ h # g => run'.roster[u][h] = run.roster[u][h]
    BY <1>5
  <1>7. t \in run.chosen /\ run.opened = run.chosen
    BY <1>1, <1>2 DEF Filed, Queue, At
  <1>8. Queue'
    BY <1>5, <1>6, <1>7, <1>1, <1>2 DEF Filed, Queue, Early, At
  <1>9. InFlight'
    <2>1. \A u \in Team, h \in Gender : run'.roster[u][h] = "in-flight" => u = t /\ h = g
      BY <1>1, <1>6 DEF Filed, InFlight
    <2>2. \A s \in Swimmer : run'.swimmer[s] # "in-flight"
      BY <1>1, <1>5 DEF Filed, InFlight
    <2>3. \A s \in Swimmer : run'.swimmer[s] \in {"absent", "pending", "skipped"}
      BY <1>2, <1>5 DEF Filed, InFlight
    <2> QED BY <1>5, <1>6, <1>7, <2>1, <2>2, <2>3 DEF InFlight, Flight
  <1>10. Relayed'
    BY <1>5 DEF Relayed, At
  <1>11. DoneIsFiled'
    <2>1. \A u \in Team, h \in Gender : run'.roster[u][h] = "done" => run.roster[u][h] = "done"
      BY <1>6
    <2>2. \A k \in run.atStart : k[2] \in Team
      BY DEF Keys
    <2> QED BY <1>1, <1>5, <2>1, <2>2 DEF Filed, DoneIsFiled, AppGrows
  <1>12. Open'
    BY <1>1, <1>5 DEF Filed, Open, AppGrows
  <1> QED BY <1>1, <1>8, <1>9, <1>10, <1>11, <1>12, SavedKept DEF Filed

LEMMA NextSwimmerHolds ==
  ASSUME TypeOK, TypeOK', Filed, NEW s \in Swimmer, NextSwimmer(s)
  PROVE  Filed'
  <1> USE RunTyped, PageAssumption
  <1>1. AppGrows /\ run.at = "loop" /\ run.at \notin Flight /\ run.swimmer[s] = "pending"
    BY SameGrows DEF NextSwimmer, PendingSwimmers, AppSame, app, history, At, Flight
  <1>2. \A u \in Team, h \in Gender : run.roster[u][h] # "pending"
    <2> SUFFICES ASSUME NEW u \in Team, NEW h \in Gender PROVE run.roster[u][h] # "pending"
      OBVIOUS
    <2>1. <<u, h>> \in Team \X Gender /\ <<u, h>>[1] = u /\ <<u, h>>[2] = h /\ <<u, h>> \notin PendingRosters
      BY DEF NextSwimmer
    <2> QED BY <2>1 DEF PendingRosters
  <1>3. PICK q \in Corrections : run' = Fetching([q EXCEPT !.swimmer[s] = "in-flight"], s, {})
    BY DEF NextSwimmer
  <1>4. q \in RunType /\ SameQueue(q, run)
    BY CorrectionsKeep
  <1> DEFINE r == [q EXCEPT !.swimmer[s] = "in-flight"]
  <1>5. /\ r \in RunType /\ r.swimmer = [q.swimmer EXCEPT ![s] = "in-flight"]
        /\ r.roster = q.roster /\ r.listers = q.listers
        /\ r.chosen = q.chosen /\ r.opened = q.opened /\ r.atStart = q.atStart
    BY <1>4 DEF RunType, Status
  <1> HIDE DEF r
  <1>6. /\ run'.at = "wait" /\ run'.page = s
        /\ run'.roster = r.roster /\ run'.swimmer = r.swimmer /\ run'.listers = r.listers
        /\ run'.chosen = r.chosen /\ run'.opened = r.opened /\ run'.atStart = r.atStart
    BY <1>3, <1>5 DEF Fetching, RunType, r
  <1>7. /\ run'.roster = run.roster /\ run'.listers = run.listers
        /\ run'.chosen = run.chosen /\ run'.opened = run.opened /\ run'.atStart = run.atStart
        /\ run'.swimmer = [run.swimmer EXCEPT ![s] = "in-flight"]
    BY <1>4, <1>5, <1>6 DEF SameQueue
  <1>8. run'.swimmer[s] = "in-flight" /\ \A v \in Swimmer : v # s => run'.swimmer[v] = run.swimmer[v]
    BY <1>7
  <1>9. Queue'
    BY <1>1, <1>6, <1>7, <1>8 DEF Filed, Queue, Early, At
  <1>10. InFlight'
    BY <1>1, <1>2, <1>6, <1>7, <1>8 DEF Filed, InFlight, Flight
  <1>11. Relayed'
    BY <1>6 DEF Relayed, At
  <1>12. DoneIsFiled'
    <2>1. \A v \in Swimmer : run'.swimmer[v] \in {"done", "skipped"} => run'.swimmer[v] = run.swimmer[v]
      BY <1>8
    <2>2. \A k \in run.atStart : k[2] \in Team
      BY DEF Keys
    <2> QED BY <1>1, <1>7, <2>1, <2>2 DEF Filed, DoneIsFiled, AppGrows
  <1>13. Open'
    BY <1>1, <1>7 DEF Filed, Open, AppGrows
  <1> QED BY <1>1, <1>9, <1>10, <1>11, <1>12, <1>13, SavedKept DEF Filed

LEMMA DrainHolds ==
  ASSUME TypeOK, TypeOK', Filed, Drain
  PROVE  Filed'
  <1>1. AppGrows /\ run.at = "loop" /\ run.at \notin Flight
    BY RunTyped DEF Drain, AppGrows, app, history, At, Flight
  <1>2. PICK q \in Corrections : run' = Ended(q, "completed")
    BY DEF Drain
  <1>3. q \in RunType /\ SameQueue(q, run)
    BY CorrectionsKeep, RunTyped
  <1>4. run'.at = "mark" /\ SameQueue(run', run)
    BY <1>2, <1>3 DEF Ended, RunType, SameQueue
  <1> QED BY <1>1, <1>4, MovesOn

LEMMA StoreGrows ==
  ASSUME TypeOK, NEW t \in Team, Store(t) \/ UNCHANGED held, UNCHANGED <<mark, saved, listed, removed>>
  PROVE  AppGrows
  BY RunTyped DEF Store, AppGrows

LEMMA LandedHolds ==
  ASSUME TypeOK, TypeOK', Filed, NEW t \in Team, Landed(t)
  PROVE  Filed'
  <1> DEFINE q == [run EXCEPT !.toFile = @ \ {t}, !.lost = 0,
                              !.landed[t] = IF run.page = Seasons THEN @ ELSE @ \cup {run.page}]
  <1>1. AppGrows /\ At("file") /\ t \in run.toFile /\ Store(t) /\ run' = AfterFiling(q)
    BY StoreGrows DEF Landed, history
  <1>2. q \in RunType
    <2>1. 0 \in 0 .. StopAfterLost
      BY CountAssumption
    <2>2. (IF run.page = Seasons THEN run.landed[t] ELSE run.landed[t] \cup {run.page})
            \in SUBSET (Gender \cup Swimmer)
      BY RunTyped DEF RunType, Page
    <2> QED BY <2>1, <2>2, RunTyped DEF RunType
  <1>3. /\ SameQueue(q, run) /\ q.at = "file" /\ q.page = run.page /\ q.of = run.of
        /\ q.toFile = run.toFile \ {t} /\ q.clean = run.clean /\ q.missed = run.missed
    BY <1>1, RunTyped DEF RunType, SameQueue, At
  <1> HIDE DEF q
  <1> QED BY <1>1, <1>2, <1>3, AfterFilingHolds

LEMMA NotLandedHolds ==
  ASSUME TypeOK, TypeOK', Streaks, Filed, NEW t \in Team, NotLanded(t)
  PROVE  Filed'
  <1> DEFINE q == [run EXCEPT !.toFile = @ \ {t}, !.lost = @ + 1, !.missed = TRUE]
             e == [q EXCEPT !.toFile = {}]
  <1>1. /\ AppGrows /\ At("file") /\ t \in run.toFile
        /\ run' = IF q.lost >= StopAfterLost THEN Halted(e) ELSE AfterFiling(q)
    BY StoreGrows DEF NotLanded, history
  <1>2. q \in RunType
    <2>1. run.lost + 1 \in 0 .. StopAfterLost
      BY <1>1, RunTyped, CountAssumption DEF RunType, Streaks, At
    <2> QED BY <2>1, RunTyped DEF RunType
  <1>3. /\ SameQueue(q, run) /\ q.at = "file" /\ q.page = run.page /\ q.of = run.of
        /\ q.toFile = run.toFile \ {t} /\ q.clean = run.clean /\ q.missed
    BY <1>1, RunTyped DEF RunType, SameQueue, At
  <1> HIDE DEF q
  <1>4. e \in RunType /\ SameQueue(e, run)
    BY <1>2, <1>3 DEF RunType, SameQueue
  <1> HIDE DEF e
  <1>5. CASE run' = Halted(e)
    BY <1>1, <1>4, <1>5, FailedHolds DEF Flight, At
  <1>6. CASE run' = AfterFiling(q)
    BY <1>1, <1>2, <1>3, <1>6, AfterFilingHolds
  <1> QED BY <1>1, <1>5, <1>6

LEMMA SettleSeasonsHolds ==
  ASSUME TypeOK, TypeOK', Filed, SettleSeasons
  PROVE  Filed'
  <1>1. AppGrows /\ run.at = "settle" /\ run.page = Seasons /\ Early
    BY SameGrows DEF SettleSeasons, AppSame, app, history, At, Early, Flight
  <1>2. PICK ts : run' = [Back(run) EXCEPT !.offers = @ \cup ts]
    BY DEF SettleSeasons
  <1>3. run \in RunType /\ ~IsRoster /\ ~IsSwimmer
    BY <1>1, RunTyped, PageAssumption DEF IsRoster, IsSwimmer
  <1>4. PICK r \in RunType : r = Back(run)
    BY <1>3, BackType
  <1>5. r.at = "read" /\ SameQueue(r, run)
    BY <1>3, <1>4 DEF Back, RunType, SameQueue
  <1>6. run'.at = "read" /\ SameQueue(run', run)
    BY <1>2, <1>4, <1>5 DEF RunType, SameQueue
  <1> QED BY <1>1, <1>6, MovesOn

(* An entry is done. *)
LEMMA DoneFields ==
  ASSUME TypeOK, NEW q \in RunType, run' = Back(With(q, "done")), run.page # Seasons
  PROVE  /\ run'.at = "loop" /\ run'.chosen = q.chosen /\ run'.opened = q.opened
         /\ run'.atStart = q.atStart /\ run'.listers = q.listers
         /\ run'.roster = IF IsRoster THEN [t \in Team |-> IF t \in run.of THEN [q.roster[t] EXCEPT ![run.page] = "done"]
                                                           ELSE q.roster[t]]
                          ELSE q.roster
         /\ run'.swimmer = IF IsSwimmer THEN [q.swimmer EXCEPT ![run.page] = "done"] ELSE q.swimmer
  <1> DEFINE w == With(q, "done")
  <1>1. run \in RunType /\ "done" \in Status /\ (IsRoster \/ IsSwimmer)
    BY RunTyped DEF Status, Page, IsRoster, IsSwimmer
  <1>2. /\ w \in RunType
        /\ w.chosen = q.chosen /\ w.opened = q.opened /\ w.atStart = q.atStart /\ w.listers = q.listers
        /\ w.roster = IF IsRoster THEN [t \in Team |-> IF t \in run.of THEN [q.roster[t] EXCEPT ![run.page] = "done"]
                                                       ELSE q.roster[t]]
                      ELSE q.roster
        /\ w.swimmer = IF IsSwimmer THEN [q.swimmer EXCEPT ![run.page] = "done"] ELSE q.swimmer
    BY <1>1, WithKeeps
  <1> HIDE DEF w
  <1>3. run' = Back(w)
    BY DEF w
  <1>4. run'.at = "loop" /\ SameQueue(run', w)
    BY <1>1, <1>2, <1>3 DEF Back, RunType, SameQueue
  <1> QED BY <1>2, <1>4 DEF SameQueue

LEMMA SettleRosterHolds ==
  ASSUME TypeOK, TypeOK', Filed, NEW t \in Team, NEW ss \in SUBSET Swimmer, SettleRoster(t, ss)
  PROVE  Filed'
  <1> USE RunTyped, PageAssumption
  <1>1. /\ run.at = "settle" /\ run.page \in Gender /\ t \in run.of /\ run.clean /\ ~run.missed
        /\ held' = held /\ mark' = mark /\ saved' = saved /\ removed' = removed
    BY DEF SettleRoster, At, IsRoster, Good, app
  <1>2. CASE run' = Failed(run) /\ listed' = listed
    <2>1. AppGrows
      BY <1>1, <1>2, SameGrows DEF AppSame
    <2>2. SameQueue(run, run)
      BY DEF SameQueue
    <2> QED BY <1>1, <1>2, <2>1, <2>2, FailedHolds DEF Flight
  <1>3. CASE run' = Back(With(AddSwimmers(run, t, ss), "done")) /\ listed' = [listed EXCEPT ![t] = @ \cup ss]
    <2> DEFINE g == run.page
               q == AddSwimmers(run, t, ss)
               l == [s \in Swimmer |-> IF s \in ss THEN run.listers[s] \cup {t} ELSE run.listers[s]]
               w == [s \in Swimmer |->
                       IF s \notin ss \/ t \in run.listers[s] THEN run.swimmer[s]
                       ELSE CASE run.swimmer[s] = "absent" /\ <<s, t>> \in run.atStart -> "skipped"
                              [] run.swimmer[s] \in {"absent", "skipped"} /\ <<s, t>> \notin run.atStart -> "pending"
                              [] OTHER -> run.swimmer[s]]
    <2>1. q \in RunType
      BY AddSwimmersType
    <2>2. /\ q.listers = l /\ q.swimmer = w /\ q.roster = run.roster
          /\ q.chosen = run.chosen /\ q.opened = run.opened /\ q.atStart = run.atStart
      <3>1. q = [run EXCEPT !.listers = l, !.swimmer = w]
        BY DEF AddSwimmers, RunType
      <3> HIDE DEF l, w, q
      <3> QED BY <3>1 DEF RunType
    <2>3. run.of = {t} /\ run.roster[t][g] = "in-flight" /\ t \in run.opened
      BY <1>1 DEF Filed, InFlight, Flight
    <2>4. IsRoster /\ ~IsSwimmer /\ run.page # Seasons
      BY <1>1 DEF IsRoster, IsSwimmer
    <2>5. run' = Back(With(q, "done"))
      BY <1>3
    <2> HIDE DEF q
    <2>6. /\ run'.at = "loop" /\ run'.chosen = q.chosen /\ run'.opened = q.opened
          /\ run'.atStart = q.atStart /\ run'.listers = q.listers /\ run'.swimmer = q.swimmer
          /\ run'.roster = [u \in Team |-> IF u \in run.of THEN [q.roster[u] EXCEPT ![run.page] = "done"]
                                           ELSE q.roster[u]]
      BY <2>1, <2>4, <2>5, DoneFields
    <2>7. /\ run'.at = "loop" /\ run'.chosen = run.chosen /\ run'.opened = run.opened /\ run'.atStart = run.atStart
          /\ run'.listers = l /\ run'.swimmer = w
          /\ run'.roster = [u \in Team |-> IF u \in run.of THEN [run.roster[u] EXCEPT ![run.page] = "done"]
                                           ELSE run.roster[u]]
      BY <2>2, <2>6
    <2>8. \A u \in Team, h \in Gender :
            \/ u = t /\ h = g /\ run'.roster[u][h] = "done"
            \/ ~(u = t /\ h = g) /\ run'.roster[u][h] = run.roster[u][h]
      BY <2>3, <2>7
    (* The entries of the swimmers *)
    <2>9. \A s \in Swimmer : run.swimmer[s] \in {"absent", "pending", "skipped"}
      BY <1>1, <2>3 DEF Filed, InFlight
    <2>10. \A s \in Swimmer :
             \/ run'.listers[s] = run.listers[s] /\ run'.swimmer[s] = run.swimmer[s] /\ (s \in ss => t \in run.listers[s])
             \/ run'.listers[s] = run.listers[s] \cup {t} /\ s \in ss /\ run'.swimmer[s] = "pending"
             \/ /\ run'.listers[s] = run.listers[s] \cup {t} /\ s \in ss /\ run'.swimmer[s] = "skipped"
                /\ <<s, t>> \in run.atStart /\ run.swimmer[s] \in {"absent", "skipped"}
      <3> SUFFICES ASSUME NEW s \in Swimmer
                   PROVE  \/ l[s] = run.listers[s] /\ w[s] = run.swimmer[s] /\ (s \in ss => t \in run.listers[s])
                          \/ l[s] = run.listers[s] \cup {t} /\ s \in ss /\ w[s] = "pending"
                          \/ /\ l[s] = run.listers[s] \cup {t} /\ s \in ss /\ w[s] = "skipped"
                             /\ <<s, t>> \in run.atStart /\ run.swimmer[s] \in {"absent", "skipped"}
        BY <2>7
      <3>1. CASE s \notin ss \/ t \in run.listers[s]
        <4>1. l[s] = run.listers[s] /\ w[s] = run.swimmer[s]
          <5>1. CASE s \notin ss
            BY <5>1
          <5>2. CASE t \in run.listers[s]
            <6>1. run.listers[s] \cup {t} = run.listers[s]
              BY <5>2
            <6> QED BY <5>2, <6>1
          <5> QED BY <3>1, <5>1, <5>2
        <4> QED BY <3>1, <4>1
      <3>2. CASE s \in ss /\ t \notin run.listers[s]
        <4>1. l[s] = run.listers[s] \cup {t}
          BY <3>2
        <4>2. w[s] = CASE run.swimmer[s] = "absent" /\ <<s, t>> \in run.atStart -> "skipped"
                       [] run.swimmer[s] \in {"absent", "skipped"} /\ <<s, t>> \notin run.atStart -> "pending"
                       [] OTHER -> run.swimmer[s]
          BY <3>2
        <4> HIDE DEF l, w
        <4>3. w[s] = "pending" \/ (w[s] = "skipped" /\ <<s, t>> \in run.atStart /\ run.swimmer[s] \in {"absent", "skipped"})
          BY <2>9, <4>2
        <4> QED BY <3>2, <4>1, <4>3
      <3> QED BY <3>1, <3>2
    <2> HIDE DEF l, w
    <2>11. Queue'
      <3>1. \A u \in Team, h \in Gender :
              run'.roster[u][h] # "skipped" /\ (run'.roster[u][h] = "absent" <=> u \notin run'.chosen)
        BY <2>3, <2>7, <2>8 DEF Filed, Queue
      <3>2. \A s \in Swimmer :
              (run'.swimmer[s] = "absent" <=> run'.listers[s] = {}) /\ run'.listers[s] \subseteq run'.opened
        <4> SUFFICES ASSUME NEW s \in Swimmer
                     PROVE  (run'.swimmer[s] = "absent" <=> run'.listers[s] = {}) /\ run'.listers[s] \subseteq run.opened
          BY <2>7
        <4>1. (run.swimmer[s] = "absent" <=> run.listers[s] = {}) /\ run.listers[s] \subseteq run.opened
          BY DEF Filed, Queue
        <4>2. CASE run'.listers[s] = run.listers[s] /\ run'.swimmer[s] = run.swimmer[s]
          BY <4>1, <4>2
        <4>3. CASE run'.listers[s] = run.listers[s] \cup {t} /\ run'.swimmer[s] \in {"pending", "skipped"}
          BY <2>3, <4>1, <4>3
        <4> QED BY <2>10, <4>2, <4>3
      <3>3. run.opened = run.chosen
        BY <1>1, <2>4 DEF Filed, Queue, Flight
      <3> QED BY <2>7, <3>1, <3>2, <3>3 DEF Filed, Queue, Early, Flight, At
    <2>12. InFlight'
      <3>1. \A u \in Team, h \in Gender : run'.roster[u][h] # "in-flight"
        <4> SUFFICES ASSUME NEW u \in Team, NEW h \in Gender, run'.roster[u][h] = "in-flight" PROVE FALSE
          OBVIOUS
        <4>1. ~(u = t /\ h = g) /\ run.roster[u][h] = "in-flight"
          BY <2>8
        <4>2. g = h /\ run.of = {u}
          BY <4>1 DEF Filed, InFlight
        <4>3. u = t
          BY <2>3, <4>2
        <4> QED BY <4>1, <4>2, <4>3
      <3>2. \A s \in Swimmer : run'.swimmer[s] \in {"absent", "pending", "skipped"}
        BY <2>9, <2>10
      <3> QED BY <2>7, <3>1, <3>2 DEF InFlight, Flight
    <2>13. Relayed'
      BY <2>7 DEF Relayed, At
    <2>14. DoneIsFiled'
      <3>1. g \in held[t]
        BY <1>1, <2>3, <2>4 DEF Filed, Relayed, Subjects, At
      <3>2. \A u \in Team, h \in Gender : run'.roster[u][h] = "done" => h \in held[u]
        BY <2>8, <3>1 DEF Filed, DoneIsFiled
      <3>3. \A s \in Swimmer : run'.swimmer[s] # "done"
        BY <2>9, <2>10
      <3>4. ASSUME NEW s \in Swimmer, run'.swimmer[s] = "skipped", NEW u \in run'.listers[s]
            PROVE  <<s, u>> \in run.atStart
        <4>1. CASE run.swimmer[s] = "skipped" /\ u \in run.listers[s]
          BY <4>1 DEF Filed, DoneIsFiled
        <4>2. CASE run.swimmer[s] = "absent"
          <5>1. run.listers[s] = {}
            BY <4>2 DEF Filed, Queue
          <5>2. run'.listers[s] = {} \cup {t} /\ <<s, t>> \in run.atStart
            BY <2>10, <3>4, <4>2, <5>1
          <5>3. u = t
            BY <5>2
          <5> QED BY <5>2, <5>3
        <4>3. CASE run.swimmer[s] = "skipped" /\ u \notin run.listers[s]
          <5>1. run'.listers[s] = run.listers[s] \cup {t} /\ <<s, t>> \in run.atStart
            BY <2>10, <3>4, <4>3
          <5>2. u = t
            BY <4>3, <5>1
          <5> QED BY <5>1, <5>2
        <4>4. run.swimmer[s] \in {"absent", "skipped"}
          BY <2>10, <3>4
        <4> QED BY <4>1, <4>2, <4>3, <4>4
      <3> QED BY <1>1, <2>7, <3>2, <3>3, <3>4 DEF Filed, DoneIsFiled
    <2>15. Open'
      <3> SUFFICES ASSUME NEW u \in run.opened, NEW s \in listed'[u]
                   PROVE  mark[u] = "in-progress" /\ u \in run'.listers[s]
        BY <1>1, <2>7 DEF Filed, Open
      <3>1. mark[u] = "in-progress" /\ s \in Swimmer
        <4>1. u \in Team /\ listed'[u] \subseteq Swimmer
          BY <1>3
        <4> QED BY <4>1 DEF Filed, Open
      <3>2. CASE s \in listed[u]
        <4>1. u \in run.listers[s]
          BY <3>2 DEF Filed, Open
        <4> QED BY <2>10, <3>1, <4>1
      <3>3. CASE s \notin listed[u]
        <4>1. u = t /\ s \in ss
          BY <1>3, <3>3
        <4> QED BY <2>10, <3>1, <4>1
      <3> QED BY <3>2, <3>3
    <2>16. SavedIsFiled'
      BY <1>1 DEF Filed, SavedIsFiled
    <2>17. CompleteIsWhole'
      <3> SUFFICES ASSUME NEW u \in Team, mark[u] = "complete"
                   PROVE  Gender \cup listed'[u] \subseteq held[u] \/ u \in removed
        BY <1>1 DEF CompleteIsWhole, Whole
      <3>1. u # t
        BY <2>3 DEF Filed, Open
      <3>2. listed'[u] = listed[u]
        BY <1>3, <3>1
      <3> QED BY <3>2 DEF Filed, CompleteIsWhole, Whole
    <2> QED BY <2>11, <2>12, <2>13, <2>14, <2>15, <2>16, <2>17 DEF Filed
  <1> QED BY <1>2, <1>3 DEF SettleRoster

LEMMA SettleSwimmerHolds ==
  ASSUME TypeOK, TypeOK', Filed, SettleSwimmer
  PROVE  Filed'
  <1> USE RunTyped, PageAssumption
  <1> DEFINE r == With(run, "done")
             p == run.page
  <1>1. /\ run.at = "settle" /\ p \in Swimmer /\ run.clean /\ ~run.missed /\ run' = Back(r)
        /\ held' = held /\ mark' = mark /\ listed' = listed /\ removed' = removed
        /\ saved' \in {saved, [saved EXCEPT ![run.chosen] = run.atStart \cup FinishedKeys(r)]}
    BY DEF SettleSwimmer, At, IsSwimmer, Good, app, history
  <1>2. IsSwimmer /\ ~IsRoster /\ p # Seasons
    BY <1>1 DEF IsRoster, IsSwimmer
  <1>3. /\ run'.at = "loop" /\ run'.chosen = run.chosen /\ run'.opened = run.opened
        /\ run'.atStart = run.atStart /\ run'.listers = run.listers /\ run'.roster = run.roster
        /\ run'.swimmer = [run.swimmer EXCEPT ![p] = "done"]
    BY <1>1, <1>2, DoneFields
  <1>4. r.swimmer = run'.swimmer /\ r.listers = run'.listers
    BY <1>2, <1>3, WithKeeps DEF Status
  <1>5. run'.swimmer[p] = "done" /\ \A s \in Swimmer : s # p => run'.swimmer[s] = run.swimmer[s]
    BY <1>1, <1>3
  <1>6. run.swimmer[p] = "in-flight"
    BY <1>1 DEF Filed, InFlight, Flight
  <1> HIDE DEF r
  <1>7. Queue'
    <2>1. run.opened = run.chosen
      BY <1>1, <1>2 DEF Filed, Queue, Flight
    <2>2. \A s \in Swimmer :
            (run'.swimmer[s] = "absent" <=> run'.listers[s] = {}) /\ run'.listers[s] \subseteq run'.opened
      BY <1>3, <1>5, <1>6 DEF Filed, Queue
    <2> QED BY <1>3, <2>1, <2>2 DEF Filed, Queue, Early, Flight, At
  <1>8. InFlight'
    <2>1. \A t \in Team, g \in Gender : run'.roster[t][g] \notin {"pending", "in-flight"}
      BY <1>1, <1>3, <1>6 DEF Filed, InFlight
    <2>2. \A s \in Swimmer : run'.swimmer[s] # "in-flight"
      BY <1>1, <1>5 DEF Filed, InFlight
    <2> QED BY <1>3, <2>1, <2>2 DEF InFlight, Flight
  <1>9. Relayed'
    BY <1>3 DEF Relayed, At
  <1>10. DoneIsFiled'
    <2>1. \A t \in run.listers[p] : p \in held[t]
      BY <1>1, <1>2 DEF Filed, Relayed, Subjects, At
    <2> QED BY <1>1, <1>3, <1>5, <2>1 DEF Filed, DoneIsFiled
  <1>11. Open'
    BY <1>1, <1>3 DEF Filed, Open
  <1>12. SavedIsFiled'
    <2> SUFFICES ASSUME NEW c \in SUBSET Team, NEW k \in saved'[c]
                 PROVE  k[1] \in held[k[2]] \/ k[2] \in removed
      BY <1>1 DEF SavedIsFiled
    <2>1. CASE k \in saved[c] \/ k \in run.atStart
      BY <2>1 DEF Filed, SavedIsFiled, DoneIsFiled
    <2>2. CASE k \in FinishedKeys(r)
      <3>1. k \in Keys /\ k[1] \in Swimmer /\ k[2] \in Team /\ k = <<k[1], k[2]>>
        BY <2>2 DEF FinishedKeys, Keys
      <3>2. run'.swimmer[k[1]] \in {"done", "skipped"} /\ k[2] \in run'.listers[k[1]]
        BY <1>4, <2>2 DEF FinishedKeys
      <3>3. CASE run'.swimmer[k[1]] = "done"
        BY <1>1, <1>10, <3>1, <3>2, <3>3 DEF DoneIsFiled
      <3>4. CASE run'.swimmer[k[1]] = "skipped"
        <4>1. <<k[1], k[2]>> \in run'.atStart
          BY <1>10, <3>1, <3>2, <3>4 DEF DoneIsFiled
        <4> QED BY <1>1, <1>10, <3>1, <4>1 DEF DoneIsFiled
      <3> QED BY <3>2, <3>3, <3>4
    <2> QED BY <1>1, <2>1, <2>2
  <1>13. CompleteIsWhole'
    BY <1>1 DEF Filed, CompleteIsWhole, Whole
  <1> QED BY <1>7, <1>8, <1>9, <1>10, <1>11, <1>12, <1>13 DEF Filed
-----------------------------------------------------------------------------
LEMMA FiledStep == TypeOK /\ TypeOK' /\ Streaks /\ Filed /\ [Next]_vars => Filed'
  <1> SUFFICES ASSUME TypeOK, TypeOK', Streaks, Filed, [Next]_vars PROVE Filed'
    OBVIOUS
  <1> USE RunTyped
  <1>s. SameQueue(run, run) /\ SamePage(run, run)
    BY DEF SameQueue, SamePage
  <1>1. CASE Start \/ CloseTab
    <2>1. AppGrows
      BY <1>1, SameGrows DEF Start, CloseTab, AppSame, app
    <2>2. run' \in {NoRun, [NoRun EXCEPT !.at = "read"]}
      BY <1>1 DEF Start, CloseTab
    <2> QED BY <2>1, <2>2, FreshHolds, SavedKept DEF Filed
  <1>2. CASE TogglePause \/ Cancel
    <2>1. AppGrows /\ run.at # "off"
      BY <1>2, SameGrows DEF TogglePause, Cancel, AppSame, app, history, At
    <2>2. run'.at = run.at /\ SameQueue(run', run) /\ SamePage(run', run)
      <3>1. CASE TogglePause
        BY <3>1 DEF TogglePause, RunType, SameQueue, SamePage
      <3>2. CASE Cancel
        BY <3>2 DEF Cancel, RunType, SameQueue, SamePage
      <3> QED BY <1>2, <3>1, <3>2
    <2> QED BY <2>1, <2>2, SitsStill
  <1>3. ASSUME NEW c \in SUBSET Team, Forget(c) PROVE Filed'
    <2>1. AppGrows /\ run' = run
      BY <1>3 DEF Forget, AppGrows, app, history
    <2> QED BY <2>1, <1>s, SitsStill
  <1>4. CASE AskChoice \/ StopCancelled
    <2>1. AppGrows
      BY <1>4, SameGrows DEF AskChoice, StopCancelled, AppSame, app, history
    <2>2. /\ run.at \notin Flight /\ SameQueue(run', run)
          /\ run'.at = "mark" \/ (run'.at = "choose" /\ Early)
      <3>1. run.at \in {"read", "choose", "loop"}
        BY <1>4 DEF AskChoice, StopCancelled, At
      <3>2. \A how : LET e == Ended(run, how) IN e.at = "mark" /\ SameQueue(e, run)
        BY DEF Ended, RunType, SameQueue
      <3>3. LET c == [run EXCEPT !.at = "choose"] IN c.at = "choose" /\ SameQueue(c, run)
        BY DEF RunType, SameQueue
      <3>4. CASE AskChoice
        BY <3>1, <3>2, <3>3, <3>4 DEF AskChoice, Early, Flight, At
      <3>5. CASE StopCancelled
        BY <3>1, <3>2, <3>5 DEF StopCancelled, Flight
      <3> QED BY <1>4, <3>4, <3>5
    <2> QED BY <2>1, <2>2, MovesOn
  <1>5. CASE Request \/ RetryAfter429
    <2>1. AppGrows /\ run.at \in Flight
      BY <1>5, SameGrows DEF Request, RetryAfter429, AppSame, app, history, Flight, At
    <2>2. run'.at \in {"wait", "reply"} /\ SameQueue(run', run) /\ run'.page = run.page /\ run'.of = run.of
      BY <1>5 DEF Request, RetryAfter429, RunType, SameQueue
    <2>3. Queue' /\ InFlight'
      BY <2>1, <2>2, FlightKept DEF Filed, Flight
    <2>4. Relayed'
      BY <2>2 DEF Relayed, At
    <2> QED BY <2>1, <2>2, <2>3, <2>4, QueueKept DEF Filed
  <1>6. CASE AbortFetch \/ SettleBad
    <2>1. AppGrows /\ run.at \in Flight /\ run' = Failed(run)
      BY <1>6, SameGrows DEF AbortFetch, SettleBad, AppSame, app, history, Flight, At
    <2> QED BY <2>1, <1>s, FailedHolds
  <1>7. CASE GiveUpAfter429
    <2> DEFINE q == [run EXCEPT !.recent429 = @ + 1]
    <2>1. /\ AppGrows /\ At("reply") /\ run.at \in Flight
          /\ run' = IF q.recent429 >= StopAfter429 THEN Halted(q) ELSE Filing(q, FALSE)
      BY <1>7, SameGrows DEF GiveUpAfter429, AppSame, app, Flight, At
    <2>2. q \in RunType /\ SameQueue(q, run) /\ SamePage(q, run)
      <3>1. run.recent429 + 1 \in 0 .. StopAfter429
        BY <2>1, CountAssumption DEF Streaks, RunType, At
      <3> QED BY <3>1 DEF RunType, SameQueue, SamePage
    <2> HIDE DEF q
    <2> QED BY <2>1, <2>2, FailedHolds, FilingHolds
  <1>8. CASE AnswerFiled \/ AnswerRefused \/ AnswerStops
    <2>1. /\ AppGrows /\ At("reply") /\ run.at \in Flight
          /\ \/ \E clean \in BOOLEAN : run' = Filing(Answered, clean)
             \/ run' = Failed(Answered) \/ run' = Halted(Answered)
      BY <1>8, SameGrows DEF AnswerFiled, AnswerRefused, AnswerStops, Answer, AppSame, app, Flight, At
    <2>2. Answered \in RunType /\ SameQueue(Answered, run) /\ SamePage(Answered, run)
      <3>1. 0 \in 0 .. StopAfter429
        BY CountAssumption
      <3> QED BY <3>1 DEF Answered, RunType, SameQueue, SamePage
    <2> QED BY <2>1, <2>2, FailedHolds, FilingHolds
  <1>9. CASE UNCHANGED vars
    <2>1. run' = run /\ AppGrows
      BY <1>9, SameGrows DEF vars, AppSame
    <2> QED BY <2>1, <1>s, SitsStill
  <1> QED
    BY <1>1, <1>2, <1>3, <1>4, <1>5, <1>6, <1>7, <1>8, <1>9, ChooseHolds, OpenHolds, MarkHolds, RemoveHolds,
       ReadSeasonsHolds, NextRosterHolds, NextSwimmerHolds, DrainHolds, LandedHolds, NotLandedHolds,
       SettleSeasonsHolds, SettleRosterHolds, SettleSwimmerHolds
       DEF Next, Driver, User
-----------------------------------------------------------------------------
IInv == CrawlInv /\ Filed

LEMMA IInvHolds == Spec => []IInv
  <1>1. Init => Filed
    <2> SUFFICES ASSUME Init PROVE Filed
      OBVIOUS
    <2>1. run \in RunType /\ run = NoRun
      BY NoRunType DEF Init
    <2>2. /\ run.at = "off" /\ run.chosen = {} /\ run.opened = {} /\ run.atStart = {}
          /\ run.roster = [t \in Team |-> [g \in Gender |-> "absent"]]
          /\ run.swimmer = [s \in Swimmer |-> "absent"] /\ run.listers = [s \in Swimmer |-> {}]
      BY <2>1 DEF NoRun
    <2>3. Queue
      BY <2>1, <2>2 DEF Queue, Early, Flight, At
    <2>4. InFlight /\ Relayed
      BY <2>2 DEF InFlight, Relayed, Flight, At
    <2>5. DoneIsFiled /\ Open
      BY <2>2 DEF DoneIsFiled, Open
    <2>6. SavedIsFiled /\ CompleteIsWhole
      BY DEF Init, SavedIsFiled, CompleteIsWhole
    <2> QED BY <2>3, <2>4, <2>5, <2>6 DEF Filed
  <1>2. CrawlInv /\ CrawlInv' /\ Filed /\ [Next]_vars => Filed'
    BY FiledStep DEF CrawlInv
  <1> QED BY <1>1, <1>2, CrawlInvHolds, PTL DEF Spec, IInv

(* A swimmer remembered as finished for a team, or skipped, is filed in    *)
(* that team's capture unless the user removed it: whatever was lost,      *)
(* refused, cancelled or closed on the way, for any selections of teams    *)
(* and however often a run is started anew.  (persist, addSwimmers)        *)
THEOREM FinishedIsAlwaysFiled == Spec => []FinishedIsFiled
  <1>1. IInv => FinishedIsFiled
    <2> SUFFICES ASSUME IInv, NEW s \in Swimmer, run.swimmer[s] = "skipped", NEW t \in run.listers[s]
                 PROVE  s \in held[t] \/ t \in removed
      BY DEF FinishedIsFiled, IInv, Filed, SavedIsFiled
    <2>1. <<s, t>> \in run.atStart
      BY DEF IInv, Filed, DoneIsFiled
    <2>2. <<s, t>>[1] \in held[<<s, t>>[2]] \/ <<s, t>>[2] \in removed
      BY <2>1 DEF IInv, Filed, DoneIsFiled
    <2> QED BY <2>2
  <1> QED BY <1>1, IInvHolds, PTL

(* A capture the crawl calls complete holds every roster page and every    *)
(* swimmer those rosters listed, unless the user removed it, for any       *)
(* number of pages although the code compares only their count.            *)
(* (captureHasEveryPlannedPage, queueProgress)                             *)
THEOREM CompleteIsAlwaysWhole == Spec => []CompleteIsWhole
  <1>1. IInv => CompleteIsWhole
    BY DEF IInv, Filed
  <1> QED BY <1>1, IInvHolds, PTL

(* The saved progress of a selection is forgotten by a run only when       *)
(* everything the run was to fetch is filed.  (clearIfClean)               *)
THEOREM ForgetsOnlyWhenWhole == Spec => ForgetsWhenWhole
  <1>1. IInv /\ [Next]_vars =>
          (At("loop") /\ run # run' /\ saved[run.chosen] # {} /\ saved'[run.chosen] = {}
             => \A t \in run.chosen \ removed : Whole(t))
    <2> SUFFICES ASSUME IInv, [Next]_vars, At("loop"), run # run', saved[run.chosen] # saved'[run.chosen],
                        NEW t \in run.chosen \ removed
                 PROVE  Gender \cup listed[t] \subseteq held[t]
      BY DEF Whole
    <2> USE RunTyped
    <2>t. TypeOK /\ Filed
      BY DEF IInv, CrawlInv
    <2>1. Drain
      <3>1. CASE \E c \in SUBSET Team : Choose(c) \/ Forget(c)
        BY <3>1 DEF Choose, Forget, At
      <3>2. CASE \E u \in Team : \/ RemoveCapture(u) \/ ReadSeasons(u) \/ OpenSeason(u)
                                 \/ Landed(u) \/ NotLanded(u)
        BY <3>2 DEF RemoveCapture, ReadSeasons, OpenSeason, Landed, NotLanded, At
      <3>3. CASE \/ Start \/ TogglePause \/ Cancel \/ CloseTab \/ AskChoice \/ StopCancelled \/ MarkCaptures
        BY <3>3 DEF Start, TogglePause, Cancel, CloseTab, AskChoice, StopCancelled, MarkCaptures
      <3>4. CASE \/ \E u \in Team, g \in Gender : NextRoster(u, g)
                 \/ \E s \in Swimmer : NextSwimmer(s)
        BY <3>4 DEF NextRoster, NextSwimmer
      <3>5. CASE \/ Request \/ AbortFetch \/ RetryAfter429 \/ GiveUpAfter429
                 \/ AnswerFiled \/ AnswerRefused \/ AnswerStops
        BY <3>5 DEF Request, AbortFetch, RetryAfter429, GiveUpAfter429, AnswerFiled, AnswerRefused, AnswerStops, Answer
      <3>6. CASE \/ SettleSeasons \/ SettleBad \/ SettleSwimmer
                 \/ \E u \in Team, ss \in SUBSET Swimmer : SettleRoster(u, ss)
        BY <3>6 DEF SettleSeasons, SettleBad, SettleSwimmer, SettleRoster, At
      <3>7. CASE UNCHANGED vars
        BY <3>7 DEF vars
      <3> QED BY <3>1, <3>2, <3>3, <3>4, <3>5, <3>6, <3>7 DEF Next, Driver, User
    <2>2. NoFailure /\ PendingRosters = {} /\ PendingSwimmers = {}
      BY <2>1 DEF Drain
    <2>3. t \in Team /\ t \in run.opened /\ run.at \notin Flight
      BY <2>t DEF Filed, Queue, Flight, At
    <2>4. ASSUME NEW g \in Gender PROVE g \in held[t]
      <3>1. run.roster[t][g] # "pending"
        <4>1. <<t, g>> \in Team \X Gender /\ <<t, g>>[1] = t /\ <<t, g>>[2] = g /\ <<t, g>> \notin PendingRosters
          BY <2>2, <2>3
        <4> QED BY <4>1 DEF PendingRosters
      <3>2. run.roster[t][g] # "failed"
        BY <2>2 DEF NoFailure
      <3>3. run.roster[t][g] \notin {"absent", "skipped", "in-flight"}
        BY <2>t, <2>3 DEF Filed, Queue, InFlight
      <3>4. run.roster[t][g] \in Status
        BY <2>t, <2>3
      <3>5. run.roster[t][g] = "done"
        BY <3>1, <3>2, <3>3, <3>4 DEF Status
      <3> QED BY <3>5, <2>t, <2>3 DEF Filed, DoneIsFiled
    <2>5. ASSUME NEW s \in listed[t] PROVE s \in held[t]
      <3>1. s \in Swimmer /\ t \in run.listers[s]
        <4>1. listed[t] \subseteq Swimmer
          BY <2>t, <2>3
        <4> QED BY <4>1, <2>t, <2>3 DEF Filed, Open
      <3>2. run.swimmer[s] # "failed" /\ run.swimmer[s] # "pending"
        BY <2>2, <3>1 DEF NoFailure, PendingSwimmers
      <3>3. run.swimmer[s] # "absent" /\ run.swimmer[s] # "in-flight"
        BY <2>t, <2>3, <3>1 DEF Filed, Queue, InFlight
      <3>4. run.swimmer[s] \in Status
        BY <2>t, <3>1
      <3>5. CASE run.swimmer[s] = "done"
        BY <3>1, <3>5, <2>t DEF Filed, DoneIsFiled
      <3>6. CASE run.swimmer[s] = "skipped"
        <4>1. <<s, t>> \in run.atStart
          BY <3>1, <3>6, <2>t DEF Filed, DoneIsFiled
        <4>2. <<s, t>>[1] \in held[<<s, t>>[2]] \/ <<s, t>>[2] \in removed
          BY <4>1, <2>t DEF Filed, DoneIsFiled
        <4> QED BY <4>2
      <3> QED BY <3>2, <3>3, <3>4, <3>5, <3>6 DEF Status
    <2> QED BY <2>4, <2>5
  <1> QED BY <1>1, IInvHolds, PTL DEF Spec, ForgetsWhenWhole
=============================================================================
