----------------------------- MODULE PlanRules -----------------------------
(***************************************************************************)
(* What happens to an itinerary on its way from the first draft to the row *)
(* of the trip: SynthesisAgent._run, the tuning after the review, and the  *)
(* prices of the reference book (planner.py, specialists.py,               *)
(* price_enrich.py).  Every stage changes what earlier ones arranged: it   *)
(* fills days up, drops what is too dear, adds what the minimum asks for,  *)
(* removes what the user does not want and lets prices move.               *)
(*                                                                         *)
(* A plan is its days; of an item only its name, its kind and its price    *)
(* matter, of the way through a day only what it costs: nothing along a    *)
(* bare route, a ride for each leg of a timeline, a fare for a day without *)
(* either; and what the hotel of the trip costs.  The order in which a day *)
(* visits its places is left as it is.                                     *)
(***************************************************************************)
EXTENDS Integers, Sequences, SequencesExt, FiniteSetsExt, Selections

CONSTANTS
  Spots, Foods,          \* attractions and restaurants, by name
  FreeWalk, LocalFood,   \* what stands in when a plan has none
  Cost,                  \* the price a document says
  Corpus,                \* build_docs() for the city
  Fare, Ride,            \* 60 and 3 yuan a head
  RoomNight,             \* what a night in the cheapest hotel costs
  Requests,              \* what users ask for
  Findings,              \* what the agents may find: sequences of items
  Drafts,                \* the days an LLM may write, << >> when there is none
  Existing,              \* the days of the trip that is adjusted
  Volatile, Rises        \* the items whose price may move, and by how much

VARIABLES
  ask,                   \* the request
  found,                 \* docs
  draft,
  plan,
  stage                  \* what is next

planVars == <<ask, found, draft, plan, stage>>

-----------------------------------------------------------------------------
Items == Spots \cup Foods
Kind == {"spots", "foods"}
Wishes == {"new", "date", "city", "remove", "more", "easy", "add", "longer", "shorter"}

(* own: what the timeline of the LLM goes to; legs of the route; blocks of *)
(* the timeline, 0 when there is none                                      *)
Day == [spots : Seq(Items), foods : Seq(Items), own : Seq(Items), legs : Nat,
        blocks : Nat]

Request ==
  [wish : Wishes, gone : SUBSET Items, wanted : Items, days : 1 .. 7,
   pace : {2, 3},         \* attractions a day: two if the interests say so
   travelers : Nat \ {0}, minimum : Nat, budget : Nat, thrifty : BOOLEAN]

Plan == [days : Seq(Day), price : [Items -> Int], total : Int,
         hotel : Nat,        \* what all its nights cost, once a live price was known
         told : BOOLEAN,     \* is it among the issues that the plan is too dear?
         twins : BOOLEAN]    \* have the last two days one and the same list of meals?

Stages == {"draft", "correct", "optimize", "transport", "removals", "live",
           "reflect", "prices", "stored"}

ASSUME PlanAssumption ==
  /\ FreeWalk \in Spots /\ LocalFood \in Foods
  /\ Cost \in [Items -> Nat]
  /\ Corpus \in Seq(Items)
  /\ Fare \in Nat /\ Ride \in Nat /\ RoomNight \in Nat
  /\ Requests \subseteq Request
  /\ Findings \subseteq Seq(Items)
  /\ Drafts \subseteq Seq(Day)
  /\ Existing \subseteq Seq(Day) \ {<< >>}
  /\ Volatile \subseteq Items /\ Rises \subseteq Int

PlanTypeOK ==
  /\ ask \in Request
  /\ found \in Seq(Items)
  /\ plan \in Plan
  /\ stage \in Stages

-----------------------------------------------------------------------------
OfKind(kind, docs) == Chosen(docs, LAMBDA x : x \in IF kind = "spots" THEN Spots ELSE Foods)

Without(docs, out) == Chosen(docs, LAMBDA x : x \notin out)

FirstN(seq, n) == SubSeq(seq, 1, Min({n, Len(seq)}))

(* Each item once, where it came first. *)
Once(seq) == Picked(seq, {i \in DOMAIN seq : \A j \in 1 .. i - 1 : seq[j] # seq[i]})

SumOf(seq) == FoldLeft(LAMBDA a, b : a + b, 0, seq)

Iterate(Step(_), p, n) == FoldLeft(LAMBDA q, i : Step(q), p, [i \in 1 .. n |-> i])

InPlan(p) ==
  UNION {ToSet(p.days[d].spots) \cup ToSet(p.days[d].foods) : d \in DOMAIN p.days}

(* The days whose list of that kind is the one of day d. *)
Alike(p, d, kind) ==
  IF p.twins /\ kind = "foods" /\ d >= Len(p.days) - 1
  THEN {Len(p.days) - 1, Len(p.days)} ELSE {d}

EachDay(p, Change(_)) == [p EXCEPT !.days = [d \in DOMAIN @ |-> Change(@[d])]]

-----------------------------------------------------------------------------
(* Costs.                                                                  *)

(* _transport_cost, for all travellers *)
Transport(day) ==
  ask.travelers * (IF day.blocks > 0 THEN (day.blocks - 1) * Ride
                   ELSE IF day.legs > 0 THEN 0 ELSE Fare)

PricesOf(price, seq) == SumOf([i \in DOMAIN seq |-> price[seq[i]]])

DayCost(price, day) == ask.travelers * PricesOf(price, day.spots \o day.foods) + Transport(day)

Total(p) == p.hotel + SumOf([d \in DOMAIN p.days |-> DayCost(p.price, p.days[d])])

TooDear(total) == ask.budget > 0 /\ total > ask.budget

(* _recompute_costs *)
Costing(p, total) == [p EXCEPT !.total = total, !.told = @ \/ TooDear(total)]

Costed(p) == Costing(p, Total(p))

-----------------------------------------------------------------------------
(* _enforce_min_spend: while the plan costs too little, the dearest item   *)
(* that is not in it, of docs, else of the corpus, is added to its first   *)
(* day, up to thirty times.                                                *)

Dearest(docs) ==
  docs[CHOOSE i \in DOMAIN docs : \A j \in DOMAIN docs :
         Cost[docs[i]] > Cost[docs[j]] \/ (Cost[docs[i]] = Cost[docs[j]] /\ i <= j)]

(* The list of that kind that day d has, and those alike, becomes seq.     *)
WithList(p, d, kind, seq) ==
  [p EXCEPT !.days = [e \in DOMAIN @ |-> IF e \in Alike(p, d, kind)
                                         THEN [@[e] EXCEPT ![kind] = seq] ELSE @[e]]]

WithItem(p, x) ==
  LET kind == IF x \in Spots THEN "spots" ELSE "foods"
  IN Costed([WithList(p, 1, kind, Append(p.days[1][kind], x)) EXCEPT !.price[x] = Cost[x]])

MinimumAskedFor == ask.minimum > 0 /\ ~TooDear(ask.minimum)

TowardsMinimum(q, docs) ==
  LET new == Without(docs, InPlan(q))
      more == IF new # << >> THEN new ELSE Without(Corpus, InPlan(q))
  IN IF q.total >= ask.minimum \/ more = << >> THEN q ELSE WithItem(q, Dearest(more))

ReachMinimum(p, docs) ==
  IF ask.minimum = 0 THEN p
  ELSE IF MinimumAskedFor
  THEN Iterate(LAMBDA q : TowardsMinimum(q, docs), Costed(p), Min({30, Len(docs) + Len(Corpus)}))
  ELSE Costed(p)

Positions(p, kind) == UNION {{d} \X DOMAIN p.days[d][kind] : d \in DOMAIN p.days}

PriceAt(p, kind, at) == p.price[p.days[at[1]][kind][at[2]]]

(* Mutant: whatever has a price may go. *)
AnyMayGo(p, kind) == {at \in Positions(p, kind) : PriceAt(p, kind, at) > 0}

(* The dearest item of a kind that may go: the minimum is compared with    *)
(* what is left when one traveller does without it.                        *)
MayGo(p, kind) ==
  {at \in Positions(p, kind) :
     /\ PriceAt(p, kind, at) > 0
     /\ ask.minimum > 0 => p.total - PriceAt(p, kind, at) >= ask.minimum}

Dropped(p, kind) ==
  LET price(at) == PriceAt(p, kind, at)
      first(a, b) == a[1] < b[1] \/ (a[1] = b[1] /\ a[2] <= b[2])
      at == CHOOSE a \in MayGo(p, kind) : \A b \in MayGo(p, kind) :
              price(a) > price(b) \/ (price(a) = price(b) /\ first(a, b))
  IN Costed(WithList(p, at[1], kind, RemoveAt(p.days[at[1]][kind], at[2])))

(* autocorrect_plan: no place twice in a day, the route anew, and the      *)
(* issues start from nothing.                                              *)
Autocorrected(p) ==
  [EachDay(p, LAMBDA day :
             LET spots == Once(day.spots)
             IN [day EXCEPT !.spots = spots, !.legs = Max({0, Len(spots) - 1})])
   EXCEPT !.told = FALSE]

(* What is too dear loses its dearest attractions, then its dearest meals. *)
TowardsBudget(q) ==
  IF ~TooDear(q.total) THEN q
  ELSE IF MayGo(q, "spots") # {} THEN Dropped(q, "spots")
  ELSE IF MayGo(q, "foods") # {} THEN Dropped(q, "foods")
  ELSE q

Fitted(p) ==
  LET stops == [d \in DOMAIN p.days |-> Len(p.days[d].spots) + Len(p.days[d].foods)]
  IN IF ask.budget = 0 THEN p
     ELSE Autocorrected(Iterate(TowardsBudget, p, SumOf(stops)))

(* _enforce_budget *)
Limited(p, docs) == Fitted(Costed(ReachMinimum(Costed(p), docs)))

-----------------------------------------------------------------------------
(* Days.                                                                   *)

(* _refresh_timeline: that of the LLM, if two meals of it are left, else   *)
(* three attractions and the meals; these fill a day: a ride to a seventh  *)
(* stop is charged, though the stop itself is left out.                    *)
Refreshed(p) ==
  EachDay(p, LAMBDA day :
    LET kept == ToSet(day.own) \cap (ToSet(day.spots) \cup ToSet(day.foods))
    IN [day EXCEPT !.blocks =
          IF Cardinality(kept \ ToSet(day.spots)) >= 2 THEN Cardinality(kept)
          ELSE Min({7, Min({3, Len(day.spots)}) + Len(day.foods)})])

(* _ensure_min_spend: three attractions and three meals for each day, of   *)
(* docs, first what no day before was given.  Not for who wants to save.   *)
FillDay(kind, docs, acc, day) ==
  LET have == day[kind]
      supply == Without(OfKind(kind, docs), ToSet(have))
      order == Without(supply, acc.used) \o Chosen(supply, LAMBDA x : x \in acc.used)
      more == FirstN(order, Max({0, 3 - Len(have)}))
  IN [days |-> Append(acc.days, [day EXCEPT ![kind] = have \o more]),
      used |-> acc.used \cup ToSet(more)]

Filled(p, kind, docs) ==
  [p EXCEPT !.days = FoldLeft(LAMBDA acc, day : FillDay(kind, docs, acc, day),
                              [days |-> << >>, used |-> {}], @).days]

FilledUp(p, docs) ==
  Costed(IF ask.thrifty THEN p ELSE Filled(Filled(p, "spots", docs), "foods", docs))

(* _decorate_plan, with _fill_empty_days: a day without attractions takes  *)
(* one of another day's, meals are added up to three from the corpus, then *)
(* from the plan, over and over; a plan without any gets the one stand-in.  *)
OrElse(seq, x) == IF seq = << >> THEN <<x>> ELSE seq

(* The elements of seq over and over: the one at the i-th place.           *)
Cyclic(seq, i) == seq[((i - 1) % Len(seq)) + 1]

Decorate(spots, foods, pool, acc, day) ==
  LET Meal(n) == IF n <= Len(pool) THEN pool[n] ELSE Cyclic(foods, n - Len(pool))
      missing == Max({0, 3 - Len(day.foods)})
      bare == day.spots = << >>
  IN [days |-> Append(acc.days,
        [day EXCEPT !.spots = IF bare THEN <<Cyclic(spots, acc.spot + 1)>> ELSE @,
                    !.foods = @ \o [n \in 1 .. missing |-> Meal(acc.meal + n)]]),
      spot |-> acc.spot + (IF bare THEN 1 ELSE 0),
      meal |-> acc.meal + missing]

Decorated(p) ==
  LET Everything(kind) == FlattenSeq([d \in DOMAIN p.days |-> p.days[d][kind]])
      spots == OrElse(Everything("spots"), FreeWalk)
      eaten == Everything("foods")
      foods == OrElse(eaten, LocalFood)
      pool == IF eaten = << >> THEN << >> ELSE Without(OfKind("foods", Corpus), ToSet(eaten))
  IN Refreshed([p EXCEPT
       !.days = FoldLeft(LAMBDA acc, day : Decorate(spots, foods, pool, acc, day),
                         [days |-> << >>, spot |-> 0, meal |-> 0], @).days])

StoredPlan(days) ==
  [days |-> days, price |-> Cost, total |-> 0, hotel |-> 0, told |-> FALSE, twins |-> FALSE]

Nights(days) == Max({0, Len(days) - 1})

(* build_itinerary: the attractions dealt out in threes, or twos, the      *)
(* meals in twos, both from the start again when they run out.             *)
Built(docs, n) ==
  LET spots == OrElse(OfKind("spots", docs), FreeWalk)
      foods == OfKind("foods", docs)
      Dealt(i) ==
        [spots |-> [k \in 1 .. ask.pace |-> Cyclic(spots, ask.pace * (i - 1) + k)],
         foods |-> IF foods = << >> THEN << >>
                   ELSE LET from == (2 * (i - 1)) % Len(foods)
                        IN SubSeq(foods, from + 1, Min({from + 2, Len(foods)})),
         own |-> << >>, legs |-> ask.pace - 1, blocks |-> 0]
  IN Refreshed(Limited(Decorated(FilledUp(Autocorrected(
       StoredPlan([i \in 1 .. n |-> Dealt(i)])), docs)), docs))

(* More days: those of a plan built anew, as far as it goes, else the last *)
(* one again, a shallow copy.  Fewer: the last ones go.                    *)
Lengthened(p, n, base) ==
  [p EXCEPT
     !.days = [d \in 1 .. n |-> IF d <= Len(@) THEN @[d]
                                ELSE IF d <= Len(base) THEN base[d] ELSE @[Len(@)]],
     !.twins = n > Len(base)]

OfLength(p, n, docs) ==
  IF n <= Len(p.days) THEN [p EXCEPT !.days = FirstN(@, n)]
  ELSE Lengthened(p, n, Built(docs, ask.days).days)

(* The user's "without ...", in apply_adjustment: what goes is replaced by *)
(* other attractions, each given out once.                                 *)
Refill(acc, day) ==
  LET more == FirstN(acc.supply, Max({0, 3 - Len(day.spots)}))
  IN [days |-> Append(acc.days, [day EXCEPT !.spots = @ \o more]),
      supply |-> SubSeq(acc.supply, Len(more) + 1, Len(acc.supply))]

RemovedAndRefilled(p, docs) ==
  LET left == EachDay(p, LAMBDA day : [day EXCEPT !.spots = Without(@, ask.gone),
                                                  !.foods = Without(@, ask.gone)])
      spots(q) == UNION {ToSet(q.days[d].spots) : d \in DOMAIN q.days}
      removed == spots(p) \cap ask.gone
      supply == Without(OfKind("spots", docs), spots(left) \cup removed)
  IN IF removed = {} THEN left
     ELSE [left EXCEPT !.days =
             FoldLeft(Refill, [days |-> << >>, supply |-> supply], @).days]

WithWanted(p, docs, kind) ==
  [p EXCEPT !.days[1][kind] =
     IF ask.wanted \notin ToSet(OfKind(kind, docs)) \/ ask.wanted \in ToSet(@) THEN @
     ELSE Append(@, ask.wanted)]

(* What apply_adjustment makes of a plan that has its days. *)
Changed(p, docs) ==
  CASE ask.wish = "easy" -> EachDay(p, LAMBDA day : [day EXCEPT !.spots = FirstN(@, 2)])
    [] ask.wish = "remove" -> RemovedAndRefilled(p, docs)
    [] ask.wish = "add" -> WithWanted(WithWanted(p, docs, "spots"), docs, "foods")
    [] OTHER -> p

(* The city of the plan is not that of the request: an LLM writes its plan *)
(* for the city of the request.                                            *)
Elsewhere == ask.wish = "city" /\ draft = << >>

(* apply_adjustment: another city, more spending, or anything else. *)
Adjusted(p, docs) ==
  LET n == CASE ask.wish = "longer" -> Min({7, Len(p.days) + 1})
             [] ask.wish = "shorter" -> Max({1, Len(p.days) - 1})
             [] OTHER -> Min({7, ask.days})
      base == IF Elsewhere THEN Autocorrected(Built(docs, ask.days))
              ELSE IF ask.wish = "more" /\ n < Len(p.days) THEN p
              ELSE OfLength(p, n, docs)
  IN Limited(IF Elsewhere \/ ask.wish = "more" THEN FilledUp(base, docs)
             ELSE Autocorrected(Changed(base, docs)), docs)

-----------------------------------------------------------------------------
(* SynthesisAgent.                                                         *)

(* _correct_plan, the first half: meals an LLM took for attractions go to  *)
(* the meals, attractions among the meals go, nothing is there twice.      *)
Tidied(p) ==
  [EachDay(p, LAMBDA day :
     [day EXCEPT !.foods = Once(OfKind("foods", @) \o OfKind("foods", day.spots)),
                 !.spots = Once(OfKind("spots", @))])
   EXCEPT !.twins = FALSE]

Corrected(p, docs) ==
  LET full == IF Len(p.days) < ask.days THEN OfLength(Tidied(p), ask.days, docs)
              ELSE Tidied(p)
  IN Refreshed(Autocorrected(Decorated(Limited(FilledUp(full, docs), << >>))))

(* _optimize_plan: what an earlier day has too is replaced, as long as     *)
(* docs have something else.                                               *)
Vary(docs, acc, x) ==
  LET other == Without(OfKind(IF x \in Spots THEN "spots" ELSE "foods", docs), acc.used)
      y == IF x \in acc.used /\ other # << >> THEN Head(other) ELSE x
  IN [seq |-> Append(acc.seq, y), used |-> acc.used \cup {y}]

VariedList(docs, used, seq) ==
  FoldLeft(LAMBDA acc, x : Vary(docs, acc, x), [seq |-> << >>, used |-> used], seq)

VaryDay(docs, acc, day) ==
  LET foods == VariedList(docs, acc.foods, day.foods)
      spots == VariedList(docs, acc.spots, day.spots)
  IN [days |-> Append(acc.days, [day EXCEPT !.foods = foods.seq, !.spots = spots.seq]),
      foods |-> foods.used, spots |-> spots.used]

Varied(p, docs) ==
  [p EXCEPT !.days = FoldLeft(LAMBDA acc, day : VaryDay(docs, acc, day),
                              [days |-> << >>, foods |-> {}, spots |-> {}], @).days]

Optimized(p, docs) == Costed(Refreshed(Limited(Varied(p, docs), << >>)))

(* _enforce_removals *)
ForcedOut(p) ==
  Costed(Refreshed(EachDay(p, LAMBDA day : [day EXCEPT !.spots = Without(@, ask.gone),
                                                       !.foods = Without(@, ask.gone)])))

Repriced(p, x, by) == [p EXCEPT !.price[x] = Max({0, @ + by})]

(* apply_reflection_tuning: days with too long ways lose their last stop.  *)
Shorter(day) == [day EXCEPT !.spots = FirstN(@, Len(@) - 1)]

Tuned(p, long) ==
  LET shorter == [p EXCEPT !.days =
                    [d \in DOMAIN @ |-> IF d \in long THEN Shorter(@[d]) ELSE @[d]]]
  IN Limited(Costed(Autocorrected(shorter)), << >>)

-----------------------------------------------------------------------------
PlanInit ==
  /\ ask \in Requests
  /\ found \in Findings
  /\ draft \in Drafts
  /\ \E days \in IF ask.wish = "new" THEN {<< >>} ELSE Existing :
       \E hotel \in {0, Nights(days) * RoomNight} :
         plan = [StoredPlan(days) EXCEPT !.hotel = hotel]
  /\ stage = "draft"

Goes(from, to) == stage = from /\ stage' = to /\ UNCHANGED <<ask, found, draft>>

(* A new date leaves the days alone and skips all the rest. *)
DateOnly ==
  /\ Goes("draft", "live")
  /\ ask.wish = "date"
  /\ plan' = Costed(plan)

(* The plan of the LLM, if there is one, is filled up and limited; what    *)
(* the user asks for is then applied to it or to the plan there was.       *)
MakePlan ==
  /\ Goes("draft", "correct")
  /\ ask.wish # "date"
  /\ LET written == Limited(FilledUp(StoredPlan(draft), found), << >>)
         base == IF draft = << >> THEN plan ELSE written
     IN plan' = IF ask.wish # "new" THEN Adjusted(base, found)
                ELSE IF draft = << >> THEN Built(found, ask.days) ELSE written

CorrectPlan ==
  /\ Goes("correct", "optimize")
  /\ plan' = Corrected(plan, found)

OptimizePlan ==
  /\ Goes("optimize", "transport")
  /\ plan' = Optimized(plan, found)

(* With or without the legs of the transport agent. *)
MergeTransport ==
  /\ Goes("transport", "removals")
  /\ \/ plan' = Limited(Costed(Refreshed(plan)), << >>)
     \/ UNCHANGED plan

\* Mutant: nothing is removed by force.
RemovalsForgotten ==
  /\ Goes("removals", "live")
  /\ UNCHANGED plan

EnforceRemovals ==
  /\ Goes("removals", "live")
  /\ plan' = IF ask.wish = "remove" THEN ForcedOut(plan) ELSE plan

(* A forecast, if there is one for the date, lays the timeline anew.  Then *)
(* LiveDataService.enrich_plan moves prices and adds a hotel, if there are *)
(* nights and it learns of a price: else that of an earlier version, and   *)
(* of as many nights as it had, stays.  Then the minimum, once more, and   *)
(* the timeline of the LLM is forgotten.                                   *)
GoLive ==
  /\ Goes("live", "reflect")
  /\ \E forecast, known \in BOOLEAN, x \in Volatile, by \in Rises \cup {0} :
       LET dated == IF forecast THEN Refreshed(plan) ELSE plan
           hotel == IF known /\ Nights(plan.days) > 0 THEN Nights(plan.days) * RoomNight
                    ELSE plan.hotel
           live == [Repriced(dated, x, by) EXCEPT !.hotel = hotel]
       IN plan' = EachDay(Costed(ReachMinimum(live, found)),
                          LAMBDA day : [day EXCEPT !.own = << >>])

(* The tuning, which a local adjustment does not get. *)
Reflect ==
  /\ Goes("reflect", "prices")
  /\ \/ UNCHANGED plan
     \/ \E long \in (SUBSET {d \in DOMAIN plan.days : Len(plan.days[d].spots) > 1}) \ {{}} :
          plan' = Tuned(plan, long)

(* Mutant: the plan is stored with the costs it has. *)
PriceAndStoreUncosted ==
  /\ Goes("prices", "stored")
  /\ UNCHANGED plan

(* enrich_plan_with_prices, if the book has any, and _recompute_costs. *)
PriceAndStore ==
  /\ Goes("prices", "stored")
  /\ \/ plan' = Costed(plan)
     \/ \E x \in Volatile, by \in Rises \cup {0} :
          plan' = Costed(Limited(Costed(Repriced(plan, x, by)), << >>))

PlanNext ==
  \/ DateOnly \/ MakePlan \/ CorrectPlan \/ OptimizePlan \/ MergeTransport
  \/ EnforceRemovals \/ GoLive \/ Reflect \/ PriceAndStore

PlanSpec == PlanInit /\ [][PlanNext]_planVars

-----------------------------------------------------------------------------
Stored == stage = "stored"

(* A trip that is stored says what it costs, and that this is too much if  *)
(* it is, although autocorrect_plan empties the list of issues after the   *)
(* limits were enforced (planner.py 626, 850; routes.py 604).              *)
BudgetTold ==
  Stored => plan.total = Total(plan) /\ (TooDear(plan.total) => plan.told)

(* The plan costs what the minimum asks for, or the city has nothing more  *)
(* to offer.                                                               *)
Reached(p) == Total(p) >= ask.minimum \/ ToSet(Corpus) \subseteq InPlan(p)

(* Each day has its timeline, and no place twice.                          *)
Steady(p) == \A d \in DOMAIN p.days : p.days[d].blocks > 0 /\ IsInjective(p.days[d].spots)

(* Once live prices are known the minimum is reached, and the tuning and   *)
(* the prices of the book do not undo this.  If there is a budget too this *)
(* is so for one traveller and a steady plan: else autocorrect_plan, the   *)
(* last step of the limits, takes a repeated place away, or the fare of a  *)
(* day that had no way, after the minimum was compared (planner.py 626,    *)
(* 695, 787, 850; specialists.py 637).  Thirty items are all that is added.*)
MinimumKept ==
  [][MinimumAskedFor /\ Len(found) + Len(Corpus) <= 30 =>
       /\ stage' = "reflect" => Reached(plan')
       /\ /\ stage' \in {"prices", "stored"} /\ Reached(plan)
          /\ ask.budget > 0 => ask.travelers = 1 /\ Steady(plan)
          => Reached(plan')]_planVars

(* What the user does not want any more is not in the trip that is stored, *)
(* though days are filled up again three times on the way (specialists.py  *)
(* 1126).  Without a minimum spend.                                        *)
RemovalHolds ==
  Stored /\ ask.wish = "remove" /\ ask.minimum = 0 => InPlan(plan) \cap ask.gone = {}

(* specialists.py:1126: what the user wants removed is removed by force    *)
(* from the final result, lest later steps add it back.                    *)
RemovedStaysOut ==
  Stored /\ ask.wish = "remove" => InPlan(plan) \cap ask.gone = {}
=============================================================================
