---------------------------- MODULE MeetScoring ----------------------------
(***************************************************************************)
(* Team points of a meet, event by event, as calculatePoints gives them:   *)
(* individualScoring.ts with its place caps and tie groups, the scorer     *)
(* pool of meetPool.ts that one event leaves to the next, and the relay    *)
(* entries of relayScoring.ts.                                             *)
(*                                                                         *)
(* A row is what the meet printed of one athlete in one event: round, rank *)
(* and whether the swim counts.  Ranks are those of a competition: 1, 2,   *)
(* 2, 4.  Points are whole numbers, since every tie's size divides what    *)
(* the table holds; pool weights are in thirds of a swimmer.  Prelims, time *)
(* trials and events past the program score nothing and are left out, and  *)
(* so are tables of their own for relays and dives, and relay rules that   *)
(* no preset switches on.                                                  *)
(***************************************************************************)
EXTENDS Integers, SequencesExt, FiniteSets

CONSTANTS
  Club,     \* the teams
  Number,   \* athletes are numbered within their team, in the order of names
  Table,    \* scoringPoints
  Bracket,  \* aFinalBracketSize
  Meet      \* the meets to explore: their rules, teams, kinds and numbers of events and rows

Athlete == Club \X Number
Kind == {"finals", "finals overall", "dive", "timed final", "relay"}

Rule == [scope : {"none", "event", "meet"}, cap : Nat, placeCap : Nat, behavior : {"holds-place", "removed"},
         relayCap : Nat, roster : SUBSET Athlete, teams : SUBSET Club, kinds : SUBSET Kind, rows : Nat, events : Nat]

(* Finitely many athletes a team, a table of points, and rules of the      *)
(* kinds there are.                                                        *)
ASSUME MeetSizes ==
  /\ Number \subseteq Nat /\ IsFiniteSet(Number) /\ Bracket \in Nat
  /\ Table \in Seq(Nat) /\ Meet \subseteq Rule

(* Every tie that a meet has rows for divides every place: small parts of  *)
(* a point stand for the code's fractions.                                 *)
ASSUME TableIsShared == \A m \in Meet : \A k \in 1 .. m.rows : \A p \in DOMAIN Table : Table[p] % k = 0

VARIABLES
  stage,    \* "settings", "between", "reading" or "scored"
  meet,
  event,
  field,    \* the rows of the event read so far
  pool,     \* poolWeights: what each athlete takes of the team's pool
  points,   \* of the athletes of the last event scored
  before,   \* history: the pool that event found
  rowsLeft, eventsLeft

scoringVars == <<stage, meet, event, field, pool, points, before, rowsLeft, eventsLeft>>

NoRules == [scope |-> "none", cap |-> 0, placeCap |-> 0, behavior |-> "holds-place", relayCap |-> 0,
            roster |-> Athlete, teams |-> {}, kinds |-> {}, rows |-> 0, events |-> 0]

ScoringInit ==
  /\ stage = "settings" /\ meet = NoRules /\ event = "finals" /\ field = {}
  /\ pool = [a \in Athlete |-> 0] /\ before = pool /\ points = [a \in {} |-> 0]
  /\ rowsLeft = 0 /\ eventsLeft = 0
-----------------------------------------------------------------------------
(* Place values.  A table says nothing of a place past its end, where a    *)
(* tie adds nothing; that is not a place worth 0, which somebody may take. *)
InTable(place) == place \in 1 .. Len(Table)

Value(place) == IF InTable(place) THEN Table[place] ELSE 0

(* A plausible bug: a tie is divided among the places the table reaches. *)
ShareOfReached(place, tied) ==
  LET reached == {p \in place .. place + tied - 1 : InTable(p)}
  IN IF reached = {} THEN 0 ELSE MapThenSumSet(Value, reached) \div Cardinality(reached)

(* tiedPlaceShare, where it is not null: the places the tie spans, added,  *)
(* over its size.                                                          *)
Share(place, tied) == MapThenSumSet(Value, place .. place + tied - 1) \div tied

(* A plausible bug: a rank is read as an overall place in either final. *)
OverallPlace(r) == IF r.rank <= Len(Table) THEN r.rank ELSE 0

(* placeRowIndex, from 1: the B final may print in-heat or overall places. *)
Place(r) ==
  IF r.tier = "B"
  THEN IF r.rank > Bracket
       THEN IF r.rank <= Len(Table) /\ r.rank <= 2 * Bracket THEN r.rank ELSE 0
       ELSE IF Bracket + r.rank <= Len(Table) THEN Bracket + r.rank ELSE 0
  ELSE IF r.rank <= Len(Table) THEN r.rank ELSE 0

TierOrder == [A |-> 1, FIN |-> 1, B |-> 2]
Ahead(rows, r) == {q \in rows : q.tier = r.tier /\ q.rank < r.rank}
Exhibitions(f) == {r \in f : r.kind = "exhibition"}

(* rankAsIfExhibitionAbsent *)
MovedUp(f) ==
  LET out == Exhibitions(f)
      Moved(r) == LET gone == r.rank - Cardinality(Ahead(out, r))
                      least == 1 + Cardinality(Ahead(f \ out, r))
                  IN [r EXCEPT !.rank = IF gone > least THEN gone ELSE least]
  IN {IF r \in out \/ \A x \in out : x.tier # r.tier THEN r ELSE Moved(r) : r \in f}

(* A plausible bug: an exhibition swim stays in the tie it is in. *)
EligibleWithExhibition(g) == {r \in g : r.kind # "disqualified"}

(* eligibleIndividualGroupOrNull: what is left of a tie group. *)
Eligible(g) == {r \in g : r.kind = "legal"}

Ranked(r) == <<TierOrder[r.tier], r.rank>>
RankedAbove(q, r) ==
  \/ TierOrder[q.tier] < TierOrder[r.tier]
  \/ TierOrder[q.tier] = TierOrder[r.tier] /\ q.rank < r.rank

(* The groups of rows that share a round and a rank, in scoring order: the *)
(* i-th has i - 1 groups above it.                                         *)
Groups(f) ==
  LET Above(r) == {Ranked(q) : q \in {p \in f : RankedAbove(p, r)}}
  IN [i \in 1 .. Cardinality({Ranked(r) : r \in f}) |-> {r \in f : Cardinality(Above(r)) = i - 1}]
-----------------------------------------------------------------------------
(* Caps.  acc is what the groups scored so far have come to.               *)

Weight(ev) == IF ev = "dive" THEN 1 ELSE 3
TeamWeight(p, t) == MapThenSumSet(LAMBDA n : p[<<t, n>>], Number)
Earlier(names, a) == {b \in names : b[1] = a[1] /\ b[2] <= a[2]}

(* A plausible bug: each name is weighed against the pool as it stood. *)
AdmittedTogether(rule, ev, acc, names) ==
  CASE rule.scope = "none" -> names
    [] rule.scope = "event" -> {a \in names : acc.used[a[1]] + Cardinality(Earlier(names, a)) <= rule.cap}
    [] rule.scope = "meet" ->
         {a \in names : acc.pool[a] > 0 \/ TeamWeight(acc.pool, a[1]) + Weight(ev) <= rule.cap}

(* A plausible bug: a group that does not fit as a whole scores nothing. *)
AdmittedAllOrNone(rule, ev, acc, names) ==
  CASE rule.scope = "none" -> names
    [] rule.scope = "event" -> {a \in names : acc.used[a[1]] + Cardinality({b \in names : b[1] = a[1]}) <= rule.cap}
    [] rule.scope = "meet" ->
         {a \in names : TeamWeight(acc.pool, a[1])
                          + Weight(ev) * Cardinality({b \in names : b[1] = a[1] /\ acc.pool[b] = 0}) <= rule.cap}

(* admitTieGroupToEventCap, admitTieGroupToMeetPool: by name within a tie, *)
(* each admission counted for the next.                                    *)
Admitted(rule, ev, acc, names) ==
  CASE rule.scope = "none" -> names
    [] rule.scope = "event" -> {a \in names : acc.used[a[1]] + Cardinality(Earlier(names, a)) <= rule.cap}
    [] rule.scope = "meet" ->
         {a \in names : \/ acc.pool[a] > 0
                        \/ TeamWeight(acc.pool, a[1])
                             + Weight(ev) * Cardinality({b \in Earlier(names, a) : acc.pool[b] = 0}) <= rule.cap}

(* A plausible bug: who is in the pool already is weighed again. *)
AwardedAnew(rule, ev, acc, admitted, each) ==
  [acc EXCEPT
     !.points = [a \in DOMAIN acc.points |-> IF a \in admitted THEN each ELSE acc.points[a]],
     !.pool = [a \in Athlete |->
                 IF rule.scope = "meet" /\ a \in admitted THEN acc.pool[a] + Weight(ev) ELSE acc.pool[a]],
     !.used = [t \in Club |-> acc.used[t] + Cardinality({a \in admitted : a[1] = t})]]

(* What a group that is paid `each` leaves behind. *)
Awarded(rule, ev, acc, admitted, each) ==
  [acc EXCEPT
     !.points = [a \in DOMAIN acc.points |-> IF a \in admitted THEN each ELSE acc.points[a]],
     !.pool = [a \in Athlete |->
                 IF rule.scope = "meet" /\ a \in admitted /\ acc.pool[a] = 0 THEN Weight(ev) ELSE acc.pool[a]],
     !.used = [t \in Club |-> acc.used[t] + Cardinality({a \in admitted : a[1] = t})]]

Names(rows) == {r.who : r \in rows}
Nothing(f, p) == [place |-> 0, pool |-> p, used |-> [t \in Club |-> 0], points |-> [a \in Names(f) |-> 0]]
-----------------------------------------------------------------------------
(* The first place a group takes, or one the table has not. *)
FirstPlace(ev, acc, g) ==
  LET rows == Eligible(g)
  IN IF rows = {} THEN 0 ELSE IF ev = "timed final" THEN acc.place + 1 ELSE Place(CHOOSE r \in rows : TRUE)

(* A plausible bug: the tie is shared among those the caps admit. *)
FinalsGroupRedistributed(rule, ev, acc, g) ==
  LET rows == Eligible(g)
      first == FirstPlace(ev, acc, g)
      admitted == Admitted(rule, ev, acc, Names(rows) \cap rule.roster)
  IN IF InTable(first) /\ admitted # {}
     THEN Awarded(rule, ev, acc, admitted, Share(first, Cardinality(admitted))) ELSE acc

(* A plausible bug: a place worth 0 is taken for no place. *)
FinalsGroupWorthless(rule, ev, acc, g) ==
  LET rows == Eligible(g)
      each == Share(FirstPlace(ev, acc, g), Cardinality(rows))
  IN IF rows # {} /\ each # 0
     THEN Awarded(rule, ev, acc, Admitted(rule, ev, acc, Names(rows) \cap rule.roster), each) ELSE acc

(* scoreIndividualsInEvent, one group: the share is fixed by the place,    *)
(* then the roster and the caps say who gets it.  Whoever takes a place    *)
(* that is worth 0 is counted by the caps all the same.                    *)
FinalsGroup(rule, ev, acc, g) ==
  LET rows == Eligible(g)
      first == FirstPlace(ev, acc, g)
  IN IF InTable(first)
     THEN Awarded(rule, ev, acc, Admitted(rule, ev, acc, Names(rows) \cap rule.roster), Share(first, Cardinality(rows)))
     ELSE acc

(* awardTimedFinalPointEligibleGroup: the ladder goes on by the places of  *)
(* a group that anyone of was paid for: by more than 0, where there are    *)
(* caps.  The roster is not asked.                                         *)
TimedGroup(rule, ev, acc, g) ==
  LET rows == Eligible(g)
      first == FirstPlace(ev, acc, g)
      each == Share(first, Cardinality(rows))
      admitted == Admitted(rule, ev, acc, Names(rows))
      anyAwarded == admitted # {} /\ (rule.scope = "none" \/ each > 0)
      next == acc.place + Cardinality(rows)
  IN IF InTable(first)
     THEN [Awarded(rule, ev, acc, admitted, each) EXCEPT
             !.place = IF ~anyAwarded THEN @ ELSE IF next < Len(Table) THEN next ELSE Len(Table)]
     ELSE acc

(* scoreRelaysInEvent, with relayMultiplier 2: no entry is moved up, and   *)
(* the cap counts a team's entries of this event.  An entry is on the      *)
(* roster when enough of its legs are.                                     *)
RelayGroup(rule, ev, acc, g) ==
  LET rows == Eligible(g)
      first == FirstPlace(ev, acc, g)
      limit == [rule EXCEPT !.scope = "event", !.cap = rule.relayCap]
  IN IF InTable(first)
     THEN Awarded(limit, ev, acc, Admitted(limit, ev, acc, Names(rows) \cap rule.roster), 2 * Share(first, Cardinality(rows)))
     ELSE acc

GroupScored(rule, ev, acc, g) ==
  CASE ev = "relay" -> RelayGroup(rule, ev, acc, g)
    [] ev = "timed final" -> TimedGroup(rule, ev, acc, g)
    [] OTHER -> FinalsGroup(rule, ev, acc, g)

(* The groups in scoring order, each after what the earlier ones took. *)
Standings(rule, ev, f, p) ==
  LET after[i \in 0 .. Len(Groups(f))] ==
        IF i = 0 THEN Nothing(f, p) ELSE GroupScored(rule, ev, after[i - 1], Groups(f)[i])
  IN after

Lined(ev, f) == IF ev \in {"relay", "timed final"} THEN f ELSE MovedUp(f)

Unplaced(rule, ev, f, p) ==
  LET lines == Lined(ev, f)
  IN Standings(rule, ev, lines, p)[Len(Groups(lines))]

(* placeOrderCompare *)
FinishedBefore(q, r) == RankedAbove(q, r) \/ (Ranked(q) = Ranked(r) /\ q.who[2] < r.who[2])

(* overCapRowIds: contestants past their team's place cap, paid or not. *)
OverCap(rule, f) ==
  {r \in Eligible(f) :
     Cardinality({q \in Eligible(f) : q.who[1] = r.who[1] /\ FinishedBefore(q, r)}) >= rule.placeCap}

(* A plausible bug: those behind move up across the rounds. *)
ShiftedAcrossRounds(f, gone) ==
  {[r EXCEPT !.rank = @ - Cardinality({x \in gone : FinishedBefore(x, r) /\ x.rank # r.rank})] : r \in f}

(* shiftRanksAfterRemoval *)
Shifted(f, gone) == {[r EXCEPT !.rank = @ - Cardinality(Ahead(gone, r))] : r \in f}

OverPlaceCap(rule, ev, f) == IF ev = "relay" \/ rule.placeCap = 0 THEN {} ELSE OverCap(rule, f)
Remaining(rule, ev, f) ==
  LET over == OverPlaceCap(rule, ev, f)
  IN IF rule.behavior = "removed" THEN Shifted(f \ over, over) ELSE f

(* runIndividualScoringForEvent and scoreRelaysInEvent: points and pool *)
(* after the event.                                                     *)
Scored(rule, ev, f, p) ==
  LET result == Unplaced(rule, ev, Remaining(rule, ev, f), p)
  IN [pool |-> result.pool,
      points |-> [a \in Names(f) |-> IF a \in Names(OverPlaceCap(rule, ev, f)) THEN 0 ELSE result.points[a]]]
-----------------------------------------------------------------------------
SetUp(m) ==
  /\ stage = "settings" /\ stage' = "between"
  /\ meet' = m /\ rowsLeft' = m.rows /\ eventsLeft' = m.events
  /\ UNCHANGED <<event, field, pool, points, before>>

OpenEvent(kind) ==
  /\ stage \in {"between", "scored"} /\ eventsLeft > 0 /\ rowsLeft > 0 /\ stage' = "reading"
  /\ event' = kind /\ eventsLeft' = eventsLeft - 1
  /\ field' = {} /\ points' = [a \in {} |-> 0] /\ before' = pool
  /\ UNCHANGED <<meet, pool, rowsLeft>>

Tiers == IF event \in {"timed final", "relay"} THEN {"FIN"} ELSE {"A", "B"}
InTier(tier) == {r \in field : r.tier = tier}
Base(tier) == IF tier = "B" /\ event = "finals overall" THEN Bracket ELSE 0

(* Athletes of whom the model knows the same are entered in their order. *)
InOrder(a) ==
  \A n \in Number : n < a[2] /\ pool[<<a[1], n>>] = pool[a] /\ (<<a[1], n>> \in meet.roster <=> a \in meet.roster)
    => <<a[1], n>> \in Names(field)

(* The next line of the results: behind the last one of its round, or tied *)
(* with it.                                                                *)
ReadRow(a, tier, kind, tied) ==
  /\ stage = "reading" /\ rowsLeft > 0 /\ a \notin Names(field) /\ InOrder(a)
  /\ tier \in {"A", "B"} => Cardinality(InTier(tier)) < Bracket
  /\ tier = "A" => InTier("B") = {}
  /\ tied => InTier(tier) # {}
  /\ LET rank == IF tied THEN Max({r.rank : r \in InTier(tier)})
                 ELSE Base(tier) + Cardinality(InTier(tier)) + 1
     IN field' = field \cup {[who |-> a, tier |-> tier, rank |-> rank, kind |-> kind]}
  /\ rowsLeft' = rowsLeft - 1
  /\ UNCHANGED <<stage, meet, event, pool, points, before, eventsLeft>>

ScoreEvent ==
  /\ stage = "reading" /\ field # {} /\ stage' = "scored"
  /\ LET result == Scored(meet, event, field, pool)
     IN points' = result.points /\ pool' = result.pool
  /\ UNCHANGED <<meet, event, field, before, rowsLeft, eventsLeft>>

ScoringNext ==
  \/ \E m \in Meet : SetUp(m)
  \/ \E kind \in meet.kinds : OpenEvent(kind)
  \/ \E a \in meet.teams \X Number, tier \in Tiers, kind \in {"legal", "exhibition", "disqualified"}, tied \in BOOLEAN :
       ReadRow(a, tier, kind, tied)
  \/ ScoreEvent

ScoringSpec == ScoringInit /\ [][ScoringNext]_scoringVars
-----------------------------------------------------------------------------
ScoringTypeOK ==
  /\ stage \in {"settings", "between", "reading", "scored"} /\ meet \in Meet \cup {NoRules} /\ event \in Kind
  /\ \A r \in field : r.who \in Athlete /\ r.tier \in Tiers /\ r.rank \in Nat \ {0}
  /\ pool \in [Athlete -> {0, 1, 3}] /\ before \in [Athlete -> {0, 1, 3}]
  /\ \A a \in DOMAIN points : points[a] \in Nat
  /\ rowsLeft \in Nat /\ eventsLeft \in Nat

NoCaps == [meet EXCEPT !.scope = "none", !.placeCap = 0, !.relayCap = Cardinality(Number), !.roster = Athlete]

(* The ranks the meet would have printed for these rows alone. *)
Reprinted(f) == {[r EXCEPT !.rank = Base(r.tier) + 1 + Cardinality(Ahead(f, r))] : r \in f}

(* Decision E2 (individualExhibitionTie.test.ts): "every other row earns   *)
(* what it would with that swimmer absent", whatever ties and caps say.    *)
ExhibitionsAreAsAbsent ==
  stage = "scored" /\ event # "relay" =>
    LET others == field \ Exhibitions(field)
        result == Scored(meet, event, Reprinted(others), before)
    IN /\ result.pool = pool
       /\ \A a \in Names(others) : points[a] = result.points[a]

(* A contestant removed by the place cap leaves the others as if they had  *)
(* raced without, under a rule that has no such cap:                       *)
(* shiftRanksAfterRemoval.                                                 *)
RemovedAreAsAbsent ==
  stage = "scored" /\ event # "relay" /\ meet.behavior = "removed" =>
    LET rest == field \ OverPlaceCap(meet, event, field)
        result == Scored([meet EXCEPT !.placeCap = 0], event, Reprinted(rest), before)
    IN /\ result.pool = pool
       /\ \A a \in Names(rest) : points[a] = result.points[a]

(* Whoever does not count leaves the others as if they had swum alone. *)
OthersAreUndisturbed == ExhibitionsAreAsAbsent /\ RemovedAreAsAbsent

(* The place a row takes, counted from how many finished ahead: a          *)
(* disqualified swim holds its place in a final and none in a timed final. *)
PlaceTaken(r) ==
  LET hold == IF event = "timed final" THEN Eligible(field) ELSE field \ Exhibitions(field)
  IN (IF r.tier = "B" THEN Bracket ELSE 0) + 1 + Cardinality(Ahead(hold, r))

(* Without caps a tie group is paid what stands at the places it takes.    *)
PlacesAreCounted ==
  stage = "scored" /\ event # "relay" /\ meet.scope = "none" /\ meet.placeCap = 0 =>
    \A r \in Eligible(field) : r.who \in meet.roster =>
      LET tied == {q \in Eligible(field) : q.tier = r.tier /\ q.rank = r.rank}
      IN points[r.who] * Cardinality(tied)
           = MapThenSumSet(Value, PlaceTaken(r) .. PlaceTaken(r) + Cardinality(tied) - 1)

(* No event pays more than its table, whoever is moved up or struck. *)
EventPaysItsTable ==
  stage = "scored" =>
    MapThenSumSet(LAMBDA a : points[a], DOMAIN points)
      <= (IF event = "relay" THEN 2 ELSE 1) * MapThenSumSet(LAMBDA p : Table[p], DOMAIN Table)

(* Ties, bracket edges and the table's end: every place is paid once. *)
PlacesPayTheTable == PlacesAreCounted /\ EventPaysItsTable

(* "An athlete the pool cannot take forfeits their share rather than       *)
(* handing it to a teammate, and a rival's points never move"              *)
(* (meetPool.ts, admitTieGroupToMeetPool); and whoever the pool has taken  *)
(* forfeits nothing.                                                       *)
RivalsKeepTheirPoints ==
  stage = "scored" /\ event # "timed final" /\ meet.behavior = "holds-place" =>
    LET free == Scored(NoCaps, event, field, before).points
        Held(a) == meet.scope = "meet" /\ event # "relay" /\ meet.placeCap = 0 /\ a \in meet.roster /\ pool[a] > 0
    IN \A a \in DOMAIN points : points[a] = free[a] \/ (points[a] = 0 /\ ~Held(a))

(* The pool is never overdrawn, over all events, and whoever scored in it  *)
(* is in it.                                                               *)
PoolHolds ==
  meet.scope = "meet" =>
    /\ \A t \in Club : TeamWeight(pool, t) <= meet.cap
    /\ stage = "scored" /\ event # "relay" => \A a \in DOMAIN points : points[a] > 0 => pool[a] > 0

Falls == \A p \in DOMAIN Table : p > 1 => Table[p] <= Table[p - 1]

(* Whoever takes a place of the table, be it worth 0, and is turned away   *)
(* by a cap found no room, and no teammate from behind has taken any.  Who *)
(* an event's cap turned away is told by points, and in a table that rises *)
(* they do not tell.                                                       *)
SlotsGoToTheFirst ==
  stage = "scored" /\ event # "relay" /\ meet.scope # "none" =>
    LET free == Scored(NoCaps, event, field, before).points
        contestants == Eligible(field) \ OverPlaceCap(meet, event, field)
        TurnedAway(r) ==
          IF meet.scope = "meet" THEN pool[r.who] = 0 ELSE Falls /\ free[r.who] > 0 /\ points[r.who] = 0
        TookASlot(q) == IF meet.scope = "meet" THEN pool[q.who] # before[q.who] ELSE points[q.who] > 0
    IN \A r \in contestants :
         (r.who \in meet.roster \/ event = "timed final") /\ InTable(PlaceTaken(r)) /\ TurnedAway(r) =>
           /\ \A q \in contestants : q.who[1] = r.who[1] /\ FinishedBefore(r, q) => ~TookASlot(q)
           /\ meet.scope = "meet" => TeamWeight(pool, r.who[1]) + Weight(event) > meet.cap

(* A cap takes from whoever it turns away and from no one else. *)
CapsAreKept == RivalsKeepTheirPoints /\ PoolHolds /\ SlotsGoToTheFirst

(* "exhibition, non-roster, and pool-blocked swimmers do not consume       *)
(* ladder slots" (individualScoring.ts, timed finals): who is off the      *)
(* scorer roster earns nothing.                                            *)
NonRosterScoresNothing ==
  stage = "scored" /\ event # "relay" => \A a \in DOMAIN points \ meet.roster : points[a] = 0
=============================================================================
