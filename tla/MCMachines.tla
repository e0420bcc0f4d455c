----------------------------- MODULE MCMachines -----------------------------
(***************************************************************************)
(* The smaller machines side by side for TLC.  They do not share state:    *)
(* a behaviour is one of a single machine, the one `part` names, and the   *)
(* others rest.  Two crawls of the extension cannot run at a time either   *)
(* (crawlLock.ts), and the worker's fallback store is one for both.        *)
(***************************************************************************)
EXTENDS MeetCrawl, MeetScoring

CONSTANTS
  Parts,                                                \* the machines of this run
  t1, t2, e1, e2, s1,
  Gender, Seasons, StopAfter429, MaxRuns, MaxRemovals,  \* of MultiTeamCrawl, with some of MeetCrawl
  Lane, Items, Stagger,                                 \* of FetchPool
  FallbackPage, MaxListed, MaxDeaths,                   \* of FallbackStore
  Capture, Url, Body, Asker, MaxPlan, MaxRequests, MaxCrashes, DeletesOverlap,
  Missing, Torn, Omitted,                               \* of CaptureStore
  Full, Trimmed, Keep, SameName, MaxAsked,              \* of Backups
  Workspace, Mark, MaxApplied                           \* of OptimizeStep

VARIABLES
  part,
  held, mark, saved, run, runs, listed, refused, removed,
  lane, wait, chain, cursor, halt, paused, gap, late,
  slot, index, files, worker, answered, deaths,
  record, cache, archive, sums, locks, writer, at, req, new, sweep, made, crashes, cut, spoilt, behind, broke,
  store, backups, clock, task, born, asked, died,
  cached, stored, unsaved, painted, view, jobs, summary, flow, blocked, claim

Teams == INSTANCE MultiTeamCrawl WITH Team <- {t1}
Pool == INSTANCE FetchPool WITH held <- late
Fallback == INSTANCE FallbackStore WITH Page <- FallbackPage
Captures == INSTANCE CaptureStore WITH Request <- Asker, index <- sums, chain <- locks
Safety == INSTANCE Backups WITH Request <- Asker, MaxDied <- MaxCrashes
Optimize == INSTANCE OptimizeStep

teams == <<held, mark, saved, run, runs, listed, refused, removed>>
lanes == <<lane, wait, chain, cursor, halt, paused, gap, late>>
fallback == <<slot, index, files, worker, answered, deaths>>
captures == <<record, cache, archive, sums, locks, writer, at, req, new, sweep, made, crashes, cut, spoilt, behind, broke>>
safety == <<store, backups, clock, task, born, asked, died>>
optimize == <<cached, stored, unsaved, painted, view, jobs, summary, flow, blocked, claim>>
all == <<part, vars, teams, lanes, fallback, captures, scoringVars, safety, optimize>>

(* Pages of each kind, and the event they name *)
MCStored == {<<{First(t1), More(t1), Result(e1), Roster(t1), Times(s1)}, {e1}>>}

(* The rules of the meets that are scored *)
MCTable == <<300, 180, 120, 60, 0>>
Swims == {"finals", "finals overall", "timed final", "relay"}
Rules(clubs, kinds, rows) ==
  [scope |-> "none", cap |-> 0, placeCap |-> 0, behavior |-> "holds-place", relayCap |-> 1,
   roster |-> Athlete, teams |-> clubs, kinds |-> kinds, rows |-> rows, events |-> 1]
PoolRules == [Rules({1}, {"finals", "dive", "timed final"}, 4) EXCEPT !.scope = "meet", !.cap = 4, !.events = 2]
PlaceRules == [Rules(Club, Swims \ {"relay"}, 3) EXCEPT !.placeCap = 1]

(* No caps, and results down to the last place of the table, which is      *)
(* worth 0; one scorer a team and event; one contestant a team and event,  *)
(* holding the place or removed; both, with one who is not on the roster;  *)
(* a pool of one swimmer and a diver, and one of all but the last.         *)
MCMeets ==
  {[Rules({1}, Swims, 4) EXCEPT !.relayCap = 4],
   [Rules({1}, {"timed final", "relay"}, 5) EXCEPT !.relayCap = 5],
   [Rules(Club, Swims, 3) EXCEPT !.scope = "event", !.cap = 1],
   PlaceRules,
   [PlaceRules EXCEPT !.behavior = "removed"],
   [PlaceRules EXCEPT !.behavior = "removed", !.placeCap = 2, !.scope = "event", !.cap = 1, !.teams = {1},
                      !.roster = Athlete \ {<<1, 1>>}],
   PoolRules,
   [PoolRules EXCEPT !.kinds = {"timed final"}, !.rows = 5, !.cap = 12, !.events = 1]}
MCRosterMeets == {[PoolRules EXCEPT !.roster = {<<1, 1>>}]}

(* A quota of backups for each pool *)
MCKeep == [manual |-> 1, restore |-> 2, other |-> 2]

MCInit ==
  /\ part \in Parts
  /\ Init /\ ScoringInit /\ Teams!Init /\ Pool!Init /\ Fallback!Init /\ Captures!Init /\ Safety!Init /\ Optimize!Init

MCNext ==
  /\ UNCHANGED part
  /\ \/ part = "meet" /\ Next /\ UNCHANGED <<teams, lanes, fallback, captures, scoringVars, safety, optimize>>
     \/ part = "teams" /\ Teams!Next /\ UNCHANGED <<vars, lanes, fallback, captures, scoringVars, safety, optimize>>
     \/ part = "pool" /\ Pool!Next /\ UNCHANGED <<vars, teams, fallback, captures, scoringVars, safety, optimize>>
     \/ part = "fallback" /\ Fallback!Next /\ UNCHANGED <<vars, teams, lanes, captures, scoringVars, safety, optimize>>
     \/ part = "captures" /\ Captures!Next /\ UNCHANGED <<vars, teams, lanes, fallback, scoringVars, safety, optimize>>
     \/ part = "scoring" /\ ScoringNext /\ UNCHANGED <<vars, teams, lanes, fallback, captures, safety, optimize>>
     \/ part = "backups" /\ Safety!Next /\ UNCHANGED <<vars, teams, lanes, fallback, captures, scoringVars, optimize>>
     \/ part = "optimize" /\ Optimize!Next /\ UNCHANGED <<vars, teams, lanes, fallback, captures, scoringVars, safety>>

MCSpec == MCInit /\ [][MCNext]_all

(* The fairness of each machine, asked of the behaviours that are its own. *)
MCFairSpec ==
  /\ MCSpec
  /\ WF_vars(part = "meet" /\ Crawl)
  /\ WF_teams(part = "teams" /\ Teams!Driver)
  /\ WF_lanes(part = "pool" /\ Pool!Step)
  /\ WF_lanes(part = "pool" /\ Pool!Tick)
  /\ \A l \in Lane : WF_lanes(part = "pool" /\ \E stops \in BOOLEAN : Pool!Settle(l, stops))
  /\ \A o \in Asker : WF_captures(part = "captures" /\ Captures!Step(o))
-----------------------------------------------------------------------------
(* The types of the machines; a slot of the pool is no further off than    *)
(* its lanes take it.                                                      *)
TypesOK ==
  TypeOK /\ ScoringTypeOK /\ Pool!TypeOK /\ Fallback!TypeOK /\ Safety!TypeOK /\ Optimize!TypeOK

(* FetchPool: nothing starts too late, after Cancel, or too early, within  *)
(* the stagger.                                                            *)
StartsAreDue == Pool!StartsAreDue

(* FallbackStore: what was answered as saved is listed or downloaded. *)
AnsweredIsKept == Fallback!AnsweredIsKept

(* Backups: what an operation takes away is in a backup, or it was told. *)
LossIsBackedUp == Safety!LossIsBackedUp

(* Backups: a backup is whole, and gives way to later ones of its kind only. *)
BackupsStand == Safety!BackupsStand

(* OptimizeStep: what it does to a lineup, the coach asked for; and what   *)
(* he has on screen no run takes away.                                     *)
LineupIsTheCoachs == Optimize!LineupIsTheCoachs

(* Every crawl comes to its end and a cancelled pool resolves: a cancelled *)
(* crawl whatever it waits for, any other unless it waits for the user.    *)
CrawlsEnd ==
  /\ CancelEnds /\ CrawlEnds
  /\ Teams!CancelEnds /\ Teams!RunEnds
  /\ Pool!CancelEndsThePool

(* CaptureStore: every request is answered, whatever it waits for or finds. *)
RequestsEnd == Captures!EveryRequestEnds
=============================================================================
