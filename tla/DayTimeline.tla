---------------------------- MODULE DayTimeline ----------------------------
(***************************************************************************)
(* The timeline of a day: _refresh_timeline of planner.py makes it of the  *)
(* agenda the LLM wrote, as far as it goes with what is left in the day,   *)
(* or else of the places of the day.  Places go from the day when limits   *)
(* and wishes are enforced; the next refresh starts anew.                  *)
(*                                                                         *)
(* Minutes count from midnight.  Of an entry only its kind, its place and  *)
(* its time matter; an entry that is a ride leads from its origin.         *)
(***************************************************************************)
EXTENDS Integers, Sequences, SequencesExt, FiniteSetsExt, Selections

CONSTANTS
  Sights, Kitchens,    \* attractions and restaurants, by name
  Similar,             \* <<title, name>>: one is part of the other
  Hours,               \* the hours a visit takes, 0 when that is not said
  Days,                \* the places of a day: [sights |-> ..., kitchens |-> ...]
  Ways,                \* from each place to each: a leg of the route, or how far it is
  Agendas,             \* the entries an LLM may write
  MaxTaken             \* bound on the places taken out of the day

ASSUME DaysAssumption ==
  /\ "nowhere" \notin Sights \cup Kitchens
  /\ Hours \in [Sights -> Nat]
  /\ Days \subseteq [sights : Seq(Sights), kitchens : Seq(Kitchens)]
  /\ Ways \subseteq [(Sights \cup Kitchens) \X (Sights \cup Kitchens) ->
                     [leg : BOOLEAN, minutes : Nat, tenths : Nat]]
  /\ \A entries \in Agendas :
       entries \in Seq([clock : Nat, kind : STRING, title : STRING, minutes : Int])
  /\ MaxTaken \in Nat

VARIABLES
  today, way, agenda,
  timeline,
  drawn,               \* was it made of the day as it is now?
  taken                \* how many places were taken out of the day

timelineVars == <<today, way, agenda, timeline, drawn, taken>>

-----------------------------------------------------------------------------
Morning == 9 * 60
Night == 22 * 60
Midnight == 24 * 60
Nowhere == "nowhere"

TodaysPlaces == ToSet(today.sights) \cup ToSet(today.kitchens)

Between(low, n, high) == Max({low, Min({n, high})})

TimelineTypeOK ==
  /\ today.sights \in Seq(Sights) /\ today.kitchens \in Seq(Kitchens)
  /\ \A i \in DOMAIN timeline :
       timeline[i].kind \in {"attraction", "food", "rest", "ride", "hotel_return"}
  /\ \A i \in DOMAIN timeline :
       timeline[i].start \in Nat /\ timeline[i].end \in Nat
  /\ drawn \in BOOLEAN
  /\ taken \in 0 .. MaxTaken

TimelineInit ==
  /\ today \in Days
  /\ way \in Ways
  /\ agenda \in Agendas
  /\ timeline = << >>
  /\ drawn = FALSE
  /\ taken = 0

-----------------------------------------------------------------------------
(* _make_transport_leg: the minutes of a leg that is known, else what the  *)
(* distance (in tenths of a kilometre, 0 if not known) asks for, on foot,  *)
(* by bicycle, by bus or by taxi.                                          *)
RideTime(from, to) ==
  LET w == way[<<from, to>>] IN
  IF w.leg
  THEN IF w.minutes = 0 THEN 30 ELSE w.minutes
  ELSE CASE w.tenths = 0 -> 20
         [] w.tenths \in 1 .. 11 -> Max({8, (6 * w.tenths) \div 5})
         [] w.tenths \in 12 .. 29 -> Max({10, (2 * w.tenths) \div 5})
         [] w.tenths \in 30 .. 79 -> Max({15, (6 * w.tenths + 250) \div 25})
         [] OTHER -> Max({20, (3 * w.tenths + 160) \div 20})

Entry(kind, place, from, start, end) ==
  [kind |-> kind, place |-> place, from |-> from, start |-> start, end |-> end]

RideTo(place, from, arrival) ==
  IF from = Nowhere THEN << >>
  ELSE <<Entry("ride", place, from, arrival - RideTime(from, place), arrival)>>

(* Back to the hotel, when the day has anything in it and is not over.     *)
Finished(day) ==
  IF day.entries # << >> /\ day.until < Night
  THEN LET t == Min({day.until + 10, Night})
       IN Append(day.entries, Entry("hotel_return", Nowhere, Nowhere, t, t))
  ELSE day.entries

DayStarts == [entries |-> << >>, until |-> Morning, at |-> Nowhere, full |-> FALSE]

-----------------------------------------------------------------------------
(* _build_day_timeline                                                     *)

(* What a day has room for, in its order: attractions with the minutes     *)
(* they get at most, meals with their time and their minutes.              *)
Sight(i, cap) ==
  IF i \in DOMAIN today.sights
  THEN <<[kind |-> "attraction", place |-> today.sights[i], from |-> 0, cap |-> cap]>>
  ELSE << >>

Meal(i, from, cap) ==
  IF i \in DOMAIN today.kitchens
  THEN <<[kind |-> "food", place |-> today.kitchens[i], from |-> from, cap |-> cap]>>
  ELSE << >>

Blocks ==
  FlattenSeq(
    << Sight(1, 180), Meal(1, 12 * 60 + 30, 55), Sight(2, 150), Meal(2, 15 * 60 + 30, 35),
       Sight(3, 150), Meal(3, 18 * 60 + 30, 55) >>
    \o [i \in 1 .. Max({0, Len(today.kitchens) - 3}) |-> Meal(i + 3, 20 * 60, 35)])

(* 1.3 times the hours a visit takes, at least one and a half.             *)
Visit(block) ==
  LET hours == IF Hours[block.place] = 0 THEN 3 ELSE Hours[block.place]
  IN Min({Max({78 * hours, 90}), block.cap})

(* One block more.  The ride to a meal that comes too late stays in.       *)
Visited(day, block) ==
  LET arrival == IF day.at = Nowhere THEN day.until
                 ELSE day.until + RideTime(day.at, block.place)
      ride == RideTo(block.place, day.at, arrival)
      start == Max({arrival, block.from})
      end == IF block.kind = "food" THEN start + block.cap
             ELSE IF start + Visit(block) + 15 > Night
                  THEN start + Max({60, Night - 15 - Min({start, Night - 15})})
                  ELSE start + Visit(block)
  IN IF day.full \/ day.until >= Night \/ (day.at # Nowhere /\ arrival + 10 > Night)
     THEN [day EXCEPT !.full = TRUE]
     ELSE IF block.kind = "food" /\ start + block.cap + 15 > Night
     THEN [day EXCEPT !.full = TRUE, !.until = arrival, !.entries = @ \o ride]
     ELSE [day EXCEPT !.until = end, !.at = block.place,
                      !.entries = @ \o ride
                        \o <<Entry(block.kind, block.place, Nowhere, start, end)>>]

OwnTimeline == Finished(FoldLeft(Visited, DayStarts, Blocks))

-----------------------------------------------------------------------------
(* _normalize_llm_timeline: entries without a time of the day, of another  *)
(* kind or without a title go; the others get a length and are sorted.     *)
Usable(e) ==
  /\ e.clock < Midnight
  /\ e.kind \in {"attraction", "food", "rest"}
  /\ e.title # Nowhere

WithLength(e) ==
  LET usual == CASE e.kind = "food" -> 55 [] e.kind = "attraction" -> 120 [] OTHER -> 30
  IN [e EXCEPT !.minutes = Between(20, IF @ = 0 THEN usual ELSE @, 240)]

Sorted(s, e) ==
  InsertAt(s, 1 + Cardinality({i \in DOMAIN s : s[i].clock <= e.clock}), WithLength(e))

Normalized(entries) == FoldLeft(Sorted, << >>, Chosen(entries, Usable))

(* _resolve_day_item: the first attraction, else the first restaurant of   *)
(* the day that the title may mean.                                        *)
Meant(title) ==
  LET meant(names) == Chosen(names, LAMBDA n : <<title, n>> \in Similar)
      all == meant(today.sights) \o meant(today.kitchens)
  IN IF all = << >> THEN Nowhere ELSE Head(all)

KindOf(name) == IF name \in ToSet(today.sights) THEN "attraction" ELSE "food"

Shown(day) == {day.entries[i].place : i \in DOMAIN day.entries}

(* Mutant: the next place does not wait for the ride. *)
FollowedAtOnce(day, e) ==
  LET start == Max({day.until, e.clock})
      place == IF e.kind = "rest" THEN Nowhere ELSE Meant(e.title)
      end == start + Between(30, e.minutes, 90)
  IN IF start >= Night \/ place = Nowhere \/ place \in Shown(day) THEN day
     ELSE [day EXCEPT !.until = end, !.at = place,
                      !.entries = @ \o RideTo(place, day.at, start)
                        \o <<Entry(KindOf(place), place, Nowhere, start, end)>>]

(* One entry more: a rest, or a place of the day that is not yet in; not   *)
(* before the one before is over and the ride has arrived.                 *)
Followed(day, e) ==
  LET earliest == Max({day.until, e.clock})
      place == IF e.kind = "rest" THEN Nowhere ELSE Meant(e.title)
      arrival == IF day.at = Nowhere \/ place = Nowhere THEN earliest
                 ELSE Max({earliest, day.until + RideTime(day.at, place)})
      stay == IF e.kind = "rest" THEN Between(20, e.minutes, 90)
              ELSE IF KindOf(place) = "food" THEN Between(30, e.minutes, 90)
              ELSE Between(60, e.minutes, 180)
      pointless == IF e.kind = "rest" THEN e.title = "hotel"
                   ELSE place = Nowhere \/ place \in Shown(day)
  IN IF day.full \/ earliest >= Night THEN [day EXCEPT !.full = TRUE]
     ELSE IF pointless THEN day
     ELSE IF e.kind = "rest"
     THEN [day EXCEPT !.until = arrival + stay,
                      !.entries = Append(@, Entry("rest", Nowhere, Nowhere,
                                                  arrival, arrival + stay))]
     ELSE IF arrival >= Night THEN [day EXCEPT !.full = TRUE]
     ELSE [day EXCEPT !.until = arrival + stay, !.at = place,
                      !.entries = @ \o RideTo(place, day.at, arrival)
                        \o <<Entry(KindOf(place), place, Nowhere, arrival, arrival + stay)>>]

(* _materialize_llm_timeline: nothing when it is left with one meal. *)
Materialized ==
  LET day == FoldLeft(Followed, DayStarts, Normalized(agenda))
      meals == Chosen(day.entries, LAMBDA e : e.kind = "food")
  IN IF Len(meals) < 2 THEN << >> ELSE Finished(day)

-----------------------------------------------------------------------------
RefreshTimeline ==
  /\ ~drawn
  /\ timeline' = IF Materialized # << >> THEN Materialized ELSE OwnTimeline
  /\ drawn' = TRUE
  /\ UNCHANGED <<today, way, agenda, taken>>

(* The limits, or the user, take a place out of the day. *)
TakeOut(place) ==
  /\ place \in TodaysPlaces
  /\ taken < MaxTaken
  /\ taken' = taken + 1
  /\ today' = [sights |-> Chosen(today.sights, LAMBDA n : n # place),
               kitchens |-> Chosen(today.kitchens, LAMBDA n : n # place)]
  /\ drawn' = FALSE
  /\ UNCHANGED <<way, agenda, timeline>>

TimelineNext == RefreshTimeline \/ \E place \in Sights \cup Kitchens : TakeOut(place)

TimelineSpec == TimelineInit /\ [][TimelineNext]_timelineVars

-----------------------------------------------------------------------------
(* Whoever follows a timeline is never in two places at once: what is done *)
(* there ends before the next begins, between two places there is a ride   *)
(* from the one to the other that takes as long as it takes, nothing       *)
(* begins at ten in the evening or later, and only places of the day are   *)
(* gone to, also when the LLM means another day (planner.py 1335, 1493).   *)
TimelineHolds ==
  LET stops == Chosen(timeline, LAMBDA e : e.kind # "ride")
      places == Chosen(timeline, LAMBDA e : e.kind \in {"attraction", "food"})
  IN drawn =>
     /\ \A i, j \in DOMAIN timeline : i < j => timeline[i].end <= timeline[j].start
     /\ \A i \in DOMAIN places : places[i].start < Night /\ places[i].place \in TodaysPlaces
     /\ \A i \in DOMAIN stops : stops[i].start <= Night
     /\ \A i \in 2 .. Len(places) :
          \E j \in DOMAIN timeline :
            /\ timeline[j].kind = "ride"
            /\ timeline[j].from = places[i - 1].place /\ timeline[j].place = places[i].place
            /\ timeline[j].end - timeline[j].start = RideTime(places[i - 1].place, places[i].place)
            /\ places[i - 1].end <= timeline[j].start /\ timeline[j].end <= places[i].start
=============================================================================
