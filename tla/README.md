# Verification of 星旅 Agent (ai-travel-agent)

TLA+ models of the server and of the part of its web client that keeps a
session, with TLC runs on small instances and TLAPS proofs for every instance.
Paths below are those of the repository; `routes.py` is `app/api/routes.py`,
`multi_graph.py` is `app/agent/multi_graph.py`, `app.js` is
`frontend/assets/app.js`.

`PROJECT.json` maps every definition to the lines it models and lists the runs,
a mutant of the code for each checked property, the findings, the hazards and
the theorems.

    tlc -workers 2 -config chat_faults.cfg MCTripChat.tla
    tlc -workers 2 -config services.cfg MCServices.tla
    tlapm TripChatProofs.tla      # and every other *Proofs module

## 1. Inventory

One uvicorn process serves everything: FastAPI handlers on one event loop, a
pool of threads for synchronous dependencies, one PostgreSQL database, and
state in the memory of the process that a restart loses. `Database.execute`
commits every statement by itself; there are no transactions of several
statements.

| Component | State | Operations | Module |
|---|---|---|---|
| Chat, trips, run ledger (`routes.py` chat 550-794, live-alerts, departure-date, publish, delete, copy; `db.py`) | rows of `trips`, `itinerary_versions`, `conversations`, `agent_runs`; `_PLAN_CACHE` | chat, as a stream or not; refresh of alerts; change of date; publish; delete; copy | `TripChat`, `RunLedger` |
| Agent graph (`multi_graph.py`, `agent/state.py`, `agent/agents/*`) | the channels of `TravelState`, for one message | main_parse, dispatch, specialists, route_optimize, validate, synthesis, reflect, finish; three routers | `AgentGraph`, `PlanPipeline` |
| Account sessions (`routes.py` 271-437, `deps.py`, `db.py`, `app.js` 21-58, 523-539) | `refresh_tokens`, the lock and failure count of `users`, localStorage | login, refresh, logout, wrong password, new password, ban; a client's call with its retry | `LoginSessions` |
| Registration, codes (`routes.py` 179-243, 383-436, `db.py` 476-500) | `verification_codes`, `users` | send a code, register, forgot, reset | `Accounts` |
| Two-factor login (`routes.py` 439-479, `deps.py` 28) | `users.totp_secret`, the row a request has read | set up, enable, disable | `SecondFactor` |
| Rate limiter (`routes.py` 72-104) | `_rate_buckets` in memory | check and count | `Accounts` (four of its windows) |
| Community (`routes.py` 1071-1330, 1491-1600, `db.py` 1291-1900) | `guides`, `likes`, `favorites`, `comments`, `reviews`, slots | create, upload, delete, like, favourite, comment, decide, page through; clean-up at the start | `Community`, `Moderation` (slots and follows: no) |
| Price references (`routes.py` 1358-1403, `price_enrich.py`, `db.py` 1696-1833) | `place_prices`, `price_feedback` | record, report, decide, enrich | `PriceBook` |
| Plan algorithms (`services/planner.py`, `specialists.py` 461-660, 1125-1459, `geo.py`, `live_data.py` 63-112) | the plan of a run | costs, budget and minimum spend, filling up, adjustments, repairs; the timeline of a day | `PlanRules`, `DayTimeline` |
| Evaluation (`eval/runner.py`, `db.py` 1057-1243) | `eval_failures`, `user_feedback` | evaluate, rate, mark as fixed | `FailureSamples` |
| Observability (`observability/metrics.py`, `llm.py`) | counters of the process | count, reset, charge a run | `RunCosts` |
| Search, corpus, tools (`rag/`, `tools/`) | caches with a time to live | search, forecast, complete | not modelled: a call that succeeds or fails |
| Web client without its tokens | Vue state | send, stream, poll | not modelled |
| Start-up, settings, scripts, tests | none | - | not modelled |

**Interactions.** A chat handler reads the conversation, registers its run in
the ledger, runs the graph, refreshes weather and prices of the plan, and
stores trip, version, last trip, conversation and verdict one after the other.
The graph's first node reads the trip, its last one stores the plan for the
first time and puts it into the plan cache, whose objects several runs share.
Alerts, changes of date, publications, copies and deletions work on the same
rows without knowing of the chat. The web client polls the ledger
(`/chat/status`) for a run it left. Every authenticated request passes
`get_current_user`; the client answers a 401 with a refresh of its own. A chat's
plan takes prices from the price book and its run writes those it found back for
review; its run is charged what the process-wide token counters grew by.

**What is hard here.** Handlers interleave at every await, and hold rows they
read before it. Statements commit one by one, so a failing one or a crash
leaves a prefix. Agents, weather and LLM fail at any time and their failures
become ordinary results. Specialists end in any order and their updates are
merged by channel, undeclared keys being dropped. Calls of one page refresh the
same token at once. A plan passes nine stages, each of which may undo what an
earlier one arranged. The 40 hazards of `PROJECT.json` name the lines.

**What correctness means**, component by component:

- chat and trips: a trip's content is always a saved version; nothing is left of
  a deleted trip; a conversation consists of whole exchanges; a run in the
  ledger tells the truth, is settled once, and a success is really stored;
- agent graph: a plan uses what every specialist found, is reviewed, and a run
  ends with one answer;
- sessions: one live token per session, ended sessions stay ended, a lock and a
  new password end all of them, and a client's call ends;
- registration and codes: only the newest code sent for a purpose works, once,
  for its own phone and in time; no window lets too many calls through;
- second factor: taken away only by who has it;
- community: a verdict is final, reviews agree with their guide, the counts and
  the pages with the rows;
- price book: a reused price was approved by an administrator, and only
  administrators change an approved one;
- plan algorithms: a stored plan says what it costs and whether that is too
  much, reaches the minimum spend if anything can, leaves out what the user does
  not want, and its timelines can be followed;
- evaluation and costs: what went wrong is found again; a run pays for what it used.

## 2. How the models correspond to the code

### TripChat (composed with RunLedger)

Each request is a process with a program counter `pc` and local variables `req`.
`loop` is the request whose block runs between two awaits (`None` while the
event loop is free): `Await` gives it up, `Continue` keeps it, and no other
request moves meanwhile. A block is cut into its database statements because
`Database.execute` commits each; `DbError` may end a block before any of them
and `Crash` may end everything between any two.

| Code | Actions |
|---|---|
| `chat` up to its first await | `ChatStart` |
| `main_parse` (reads the trip, waits for the LLM, looks into the cache) | `ParseRead`, `CacheHit`, `Route`, `AnswerFails` |
| dispatch ... reflect, seen from outside | `Generate`, `GenerateFails` |
| `finish` with `create_trip` / `update_trip`, two statements each | `FinishInsert`, `FinishUpdate`, `FinishVersion`, `FinishOnly` |
| back in `chat`: prices, `_sync_weather` | `PostCached`, `DropWeather`, `SyncWeather`, `WeatherFails` |
| the storing block | `StoreTrip`, `StoreNoTrip`, `StoreVersion`, `StoreLast`, `StoreConv`, `StoreRun` |
| the except clause | `SaveFailed` |
| `trip_live_alerts`, `update_departure_date` | `RefreshRead`, `RefreshWrite`, `RefreshEnds`, `WriteVersion` |
| publish, copy, delete | `Publish`, `CopyTrip`, `DeleteTrip`, `DeleteVersions` |

A plan is abstracted to the set of requests whose effect it carries and to
whether it says anything of the weather. The streaming and the plain branch of
`chat` do the same in the same order and are one. Trip ids are fresh
(`create_trip` draws a random one). The cache keeps, per key, whose plan object
it holds, so that sharing an object is modelled. The program counters never
return to `idle`: each element of `Chats` is one request, so the number of
requests is the size of the set. `RunLedger` is the abstract specification of
`agent_runs`; `LedgerKept` says that `TripChat` implements it, `RunsSettle`
that it does so with its liveness.

### AgentGraph (implements PlanPipeline)

One run of the graph. `tasks` are the unfinished tasks of the current superstep,
`writes` what the finished ones will add to `agent_results`; the merge happens
when the last specialist ends. `Updated` models the channels of
LangGraph: an update of a key that `TravelState` does not declare is lost.
`Router`, `FanOut` and `QualityRouter` are the three conditional edges,
`Subtasks` the rules by which the main agent asks specialists again. A plan is
told by whose findings it uses. `PlanPipeline` is the abstract promise
(understand, gather from all that are asked, build, review at most
`MaxBuilds` times, one answer); `PL` is the refinement mapping, the phase being
computed from the tasks. The module models a message with one intent, read or
guessed; which words lead to it is data.

### LoginSessions

One account. The server's part are the rows of `refresh_tokens`, the failure
count and lock, the ban and the number of password changes; each `/auth` handler
is one action, with `Raises` for a statement that fails half-way. The clients'
part is, for every browser, the stored tokens and the calls of its page.
A call goes from `asked` to `denied` (401), `refreshing`, `granted` or
`refused`, exactly as `request` and `refreshTokens` do, reading localStorage
when they read it. `Lose` is a fetch that raises: the answer is gone but what
the server did is done. An access token and the refresh token issued along with
it are one number; `AccessExpires` and `RefreshLapses` make them too old. A code
for TOTP and the rate limits of login are left out: they only forbid steps.

### Community (implements Moderation)

The tables of guides, likes, favourites, comments and reviews. No handler but the
upload awaits, so a handler is one action, of which the first `n` statements
commit: `n` is chosen, and a handler that breaks off counts against
`MaxBreaks` and leaves in `torn` which part of which guide it left undone
(`Commits`). The properties claim nothing of a torn part until a whole handler
mends it. `UploadStarts` and `UploadEnds` are the two halves of
`create_guide_upload` around its await; the second does not look whether the guide
is still there, and its review may outlive it. `ServerStarts` is the clean-up of
`init_db`. `ReviewIfMissing` keeps both branches of the code although a new guide never
has a review. `MarkedTotal` and `MarkedItems` are the two queries of a page: the
count of the reader's rows, and those rows joined with their guides, by `created_at`,
which is a second (`InsertGuide` may put any number of guides into one) and the only key
they are ordered by (`db.py` 20, 1476, 1622). So `MarkedItems` is a set of orders, and each page
is read in one of its own. What holds is `PagesShow`: all pages together show as many as the
total says, only marked guides, and of every second as many as are marked. What does not hold
is that each mark is shown once: two guides of one second, such as `seed.py` inserts in a
loop, may change places between two pages, one be shown twice and the other never. `Moderation` is the promise: a guide waits,
is decided on once, and is gone for good when withdrawn; `Desk` maps the rows to it.
`Selections` has what a query or a loop with a condition keeps of a list; `PriceBook` and
`DayTimeline` use it too.

### Accounts and SecondFactor

`Accounts` has the codes and the windows. A handler is one action, `Spend` and
`SaveCode` choose whether their second statement fails. `Asks` is the sequence of windows a handler
asks, the first refusal ending it. A code is its row: whoever sends a value sends that of
some row or of none. `let` remembers when windows let calls through since the
start of the process. In `SecondFactor` a call reads the row of the account (on a worker
thread) in a step of its own and acts on it later.

### PriceBook, RunCosts, FailureSamples

`PriceBook` keeps the table in the order of `updated_at`, on which the
matching of names depends. `RunEndsWith` is the end of a run: prices from the
book into the plan (`Enriched`), then what it found into the book
(`Recorded`). `endorsed` is what administrators ever approved. `RunCosts` has the
counters, which runs, alerts and evaluations share. `FailureSamples` has evaluations
and ratings with the samples they open.

### PlanRules

One plan from its draft to its row. `stage` is where the code is: `MakePlan`
(the LLM's draft or `build_itinerary`, and `apply_adjustment`), `CorrectPlan`,
`OptimizePlan`, `MergeTransport`, `EnforceRemovals`, `GoLive` (live prices, a hotel, the
minimum again), `Reflect` (`apply_reflection_tuning`) and `PriceAndStore`; `DateOnly` skips
most of it. The operators are the functions of `planner.py` and of
`SynthesisAgent` under names for what they do: `Costed` is
`_recompute_costs`, `ReachMinimum` `_enforce_min_spend`, `Limited`
`_enforce_budget`, `FilledUp` `_ensure_min_spend`, `Decorated` `_decorate_plan`, `Adjusted`
`apply_adjustment`, `Autocorrected` `autocorrect_plan`. Loops are folds, `while` loops
iterate as often as they can at most (for the budget that is a theorem, `BudgetLoopEnds`). Two details of the code are kept because
the results depend on them: `autocorrect_plan` empties the list of issues
(`told`), and a trip made longer by the shallow copy of its last day has one list of
meals for two days (`twins`). Items are told by name, kind and price.
`pace` is how many attractions a new plan has a day, `Elsewhere` when a plan is for another
city than the request, and in `GoLive` a known forecast redraws the timeline before prices move.
The stored list `activities` of a day, which `_enforce_removals` does not filter, is left
out: neither the costs nor the client read it, and the properties on removals speak of attractions and meals.

`MinimumKept` says when the minimum spend is reached and kept, and each of its conditions
is there for something the code does. Thirty items are all `_enforce_min_spend` adds. The
docstring of `_enforce_budget` (`planner.py` 790) promises a plan not below the minimum, but
the loop compares the minimum with the total less *one* traveller's price (816), and
`autocorrect_plan`, called after the loop (850), can take a repeated attraction away or give a day
the route it lacked, so that its flat fare is no longer charged: the plan
then costs less than was compared. So with a budget the property is about one traveller and a plan
in which each day has its timeline and no place twice (`Steady`).
An earlier invariant without the last condition held on the small instance only; the
attempt to prove it showed these two cases.

### DayTimeline

The two ways a day gets its timeline: from the entries an LLM wrote
(`Normalized`, then `Followed` entry by entry in `Materialized`) or laid out by the
code (`OwnTimeline`), in minutes, with the rides between places (`RideTime`, from the legs
of the transport agent or from a distance). `TakeOut` removes a place, after which the
timeline is made anew.

### MCServices

These eight components share no state in the parts modelled, so they are checked by one run
in which `focus` says which of them runs while the others stay as they begin: its
states are the sum, not the product, of theirs.

## 3. Runs

| Run | Expect | What it checks |
|---|---|---|
| `chat_faults` | pass | two chats of one session, alerts and a deletion of one trip, agents that fail, one failing statement, one crash: `CurrentVersionSaved`, `NoOrphanVersions`, `RunningIsInProgress`, `ConversationPaired`, `FailedTurnsUnseen`, `SuccessIsStored`, `DeletedStaysDeleted`, `LedgerKept` |
| `chat_live` | pass | a chat next to a change of date, a publication, a copy and a deletion: `CurrentVersionSaved`, and that runs are settled and requests end (`RunsSettle`, `RequestsEnd`) |
| `chat_question` | violation | `QuestionsKeepThePlan`: a question about an open trip replaces its plan by an empty one |
| `chat_stale` | violation | `RefreshKeepsContent`: a change of date undoes an adjustment stored during its weather call |
| `chat_history` | violation | `AnswersStayInHistory`: of two overlapping chats of a session one erases the other |
| `chat_restart` | violation | `StatusSurvivesRestart`: after a restart a run stays `running` for ever |
| `graph` | pass | every route through the graph with agents that fail: `PlanUsesFindings`, `NothingUnreviewed`, `PipelineKept`, `RunEnds` |
| `graph_retry` | violation | `FailedReviewIsRetried`: the retry loop of the review never runs |
| `session` | pass | two browsers, overlapping calls and every fault: `OneTokenPerLogin`, `EndedStaysEnded`, `LockedIsLoggedOut`, `NewPasswordEndsSessions`, `CallsEnd` |
| `session_refresh` | violation | `SessionsLast`: two calls that refresh at once log the user out |
| `services` | pass | each service on its own instance: `CountsMatchRows`, `PagesShowAllMarks`, `ReviewsFollowGuides`, `ModerationKept` (community); `AcceptedIsNewest`, `WindowKept` (accounts); `SecondFactorHeld`; `ReusedPricesReviewed`, `ReviewedPricesKept`, `ReportsAppliedOnce` (price book); `RunsPayTheirOwn`; `LowScoresTracked`; `TimelineHolds`; `BudgetTold`, `MinimumKept`, `RemovalHolds` (plan) |
| `plan_removal` | violation | `RemovedStaysOut`: the minimum spend brings back what the user wanted removed |

**Findings.** The seven violation runs are disagreements between the code and
its documents; `PROJECT.json` quotes the lines. Their traces are short: in
`session_refresh`, a page loads and asks for trips and guides together after the
access token has expired; both get 401, both send the same refresh token; the
first gets new tokens and stores them, the second gets 401 and removes them. In
`plan_removal`, a user with a minimum spend removes an attraction; it is removed, and when the
live prices are in, the dearest document that is not in the plan is added, which is
that attraction. `RemovalHolds` is what does hold: without a minimum spend the
removed places stay out.

**Bounds.** Two chats are enough for every lost update and shared cache object;
a third adds no new pair. One more writer of the trip (alerts, date) and one
deletion give every three-way overlap on a row. Three trip ids allow one insertion per chat
next to the trip that exists. One session and one cache key force the chats to
meet; with more they only meet less. One crash and one failing statement can fall between any
two statements; the theorems need no bound. `graph` takes a field of each kind
the rules of `_build_adjust_subtasks` tell apart, and the retry limit the main
agent sets. In `session` one call overlaps with one other of its page, while the second
browser logs in and out; two logins, one expired access token and
one lapsed refresh token, two wrong passwords to a lock (the code has more, the
count does not matter), one new password, and one lost answer or one failing
statement. `CHECK_DEADLOCK FALSE` stands in every run because requests are
finitely many: the system really stops when the last has ended.

`services`: two guides and one reader (marks of two readers never meet), guides created in either of two
seconds (`MaxSecond`: the same one or two, pages of one row or two), up to four review
rows, which is two per guide, and one broken handler; two names for one phone and
three codes, so that a code can be replaced and a code of another purpose
be around, with clocks in which a minute is one tick, a code lives two and an hour is three; three
calls of the second factor, two of which can read before the third changes it; two
places of which one's name is part of the other's, two reports, one failing statement;
two overlapping runs and one reset; one case that does well, misses a check or
fails, two evaluations and two ratings; seven places for a day and agendas that overlap, come
late or out of order; plans of one to three days over three attractions and three restaurants with
distinct and equal prices, one and two travellers, with and without a budget, a minimum,
a draft of the LLM and findings, for each kind of request, and at the easy pace for new plans
and wishes for one. Fares are scaled down
with the prices. The symmetry is that of the two guides and of the two names.

`chat_faults` uses the symmetry of the two chats, which no definition tells
apart, and checks no liveness.

**Fairness.** `TripChat`: weak fairness of every started request, since the loop runs ready tasks
and every external call has a timeout; none for the arrival of requests, crashes
or errors. `AgentGraph`: weak fairness of the engine, for the same
reason. `LoginSessions`: weak fairness of the server's answer to a call and of the client's
reaction to it, and of the end of a logout, whose fetch ends in any case; none
of users, time or loss. `CallsEnd` is not vacuous for lost answers: `Lose`
ends a call too.

## 4. Proofs

Every theorem holds for every value of the constants that the named `ASSUME`s allow, and
for behaviours of any length; the runs evaluate those `ASSUME`s. They say what the code
guarantees or the types of what is left to choose: the kinds of requests are disjoint and
`None` is no id (`TripChat`); bounds are numbers; pages have browsers and secrets are not
`NoSecret`; limits and window lengths are numbers (`LimitsAssumption`); places are finitely many
(`PricesAssumption`) and a name matches itself, and another one both ways (`MatchingAssumption`);
`Nowhere` is no place, hours and ways are numbers (`DaysAssumption`); the checks of an evaluation are four; what is asked
for, found, drafted and stored before are requests, sequences of items and plans, a plan that is adjusted
has a day, and prices and fares are numbers (`PlanAssumption`).

| Module | Theorem | Says |
|---|---|---|
| `TripChatProofs` | `TypeCorrect`, `VersionsAreSaved`, `VersionsHaveTrips`, `RunsAreTruthful` | `Spec => []TypeOK`, `[]CurrentVersionSaved`, `[]NoOrphanVersions`, `[]RunningIsInProgress` |
| | `ConversationsArePaired`, `FailuresAreUnseen` | `Spec => []ConversationPaired`, `[]FailedTurnsUnseen` |
| | `SuccessesAreStored` | `Spec => SuccessIsStored` |
| | `DeletionIsFinal` | `Spec => DeletedStaysDeleted` |
| | `LedgerIsKept` | `Spec => LedgerKept`, the implementation of `RunLedger` |
| `AgentGraphProofs` | `GraphTyped`, `FindingsReachThePlan`, `PlansAreReviewed` | `Spec => []TypeOK`, `[]PlanUsesFindings`, `[]NothingUnreviewed` |
| | `PipelineIsKept` | `Spec => PipelineKept`, the implementation of `PlanPipeline` |
| `AccountsProofs` | `WindowsAreKept`, `CodesAreNewest` | `AccountsSpec => []WindowKept`, `AccountsSpec => AcceptedIsNewest` |
| | `AccountsTypeCorrect` | `AccountsSpec => []AccountsTypeOK` |
| | `SecondFactorIsHeld`, `FactorTypeCorrect` | `FactorSpec => SecondFactorHeld`, `[]FactorTypeOK` |
| | `SessionsTyped`, `RefreshTokensTakeTurns`, `LocksEndSessions`, `PasswordsEndSessions` | `Spec => []TypeOK`, `[]OneTokenPerLogin`, `[]LockedIsLoggedOut`, `[]NewPasswordEndsSessions` (of `LoginSessions`) |
| | `EndedSessionsStayEnded` | `Spec => EndedStaysEnded` |
| `CommunityProofs` | `CommunityModerates` | `CommunitySpec => ModerationKept`, the implementation of `Moderation` |
| | `CountsAreTrue`, `ReviewsAreTrue` | `CommunitySpec => []CountsMatchRows`, `[]ReviewsFollowGuides` |
| | `PagesAreTrue`, `PagesOfAnySizeAreTrue` | `CommunitySpec => []PagesShowAllMarks`, and the same for pages of any size: in whatever order each page is read, what is shown is what is marked, second by second |
| | `CommunityTypeCorrect` | `CommunitySpec => []CommunityTypeOK` |
| `BookkeepingProofs` | `ReportsAreAppliedOnce`, `ReusedAreReviewed` | `PricesSpec => []ReportsAppliedOnce`, `[]ReusedPricesReviewed` |
| | `ReviewedAreKept`, `PricesTypeCorrect` | `PricesSpec => ReviewedPricesKept`, `[]PricesTypeOK` |
| | `RunsPay`, `CostsTypeCorrect`, `WrongIsTracked`, `SamplesTypeCorrect` | `CostsSpec => []RunsPayTheirOwn`, `[]CostsTypeOK`, `SamplesSpec => []LowScoresTracked`, `[]SamplesTypeOK` |
| `ItineraryProofs` | `TimelinesHold`, `TimelineTypeCorrect` | `TimelineSpec => []TimelineHolds`, `[]TimelineTypeOK` |
| `PlanProofs` | `BudgetIsTold`, `RemovalsHold`, `PlanTypeCorrect` | `PlanSpec => []BudgetTold`, `[]RemovalHolds`, `[]PlanTypeOK` |
| | `MinimumIsKept` | `PlanSpec => MinimumKept` |
| | `DaysHaveTheirOwnMeals` | `PlanSpec => []OwnMeals`: once corrected, no two days share one list of meals |
| | `BudgetLoopEnds`, `AdjustmentEnds` | the unbounded loop of `_enforce_budget` ends, for every plan and for every adjustment of one |

`SequenceFacts` has the lemmas they share. The library states induction for a formula, an
operator that no installed prover can instantiate; `SequenceFacts` states it for a *set* of
numbers (`Induction`, from `LeastNumber`), and from that what recursive functions and folds
compute: a function that obeys its recursion exists (`Recursion`, `FoldRecursion`), what a
fold makes stays in a set that every step keeps (`FoldStays`), and what a selection keeps of
a sequence, in which order (`PickedElements`, `PickedPlaces`). The models therefore select
with `Chosen` of `Selections`, a recursive function, where the standard `SelectSeq` would do
for TLC alone.

The arguments. None of these invariants is inductive by itself.

* `TripChat`. `TypeOK` needs that local variables are set where the steps use them
  (`ChatLocals`, `RefreshLocals`) and that plan objects, cached ones included, exist
  (`CachedPlans`). The relation between a trip's row and its versions is broken in the middle
  of every block that writes both; what holds there is that the missing version is
  `pending`, that only the request on the loop can be in such a block, and that its trip is
  there and as `pending` says (`LoopBlock`). `Shape` is the conjunction of these five. On
  top of it `Saved`, `Orphans` (a version without a trip belongs to the deletion on the loop)
  and `RunPhase` (the program counter determines what the ledger holds) are each inductive.
  The refinement of the ledger follows from `RunPhase`: only `ChatStart`
  registers, only `StoreRun` and `SaveFailed` settle. Conversations need `Turns` (every one is
  made of whole exchanges, a request under way holds one with its own question added, and one
  that has not begun is in none), `Heard` (unless something failed, who is heard in a conversation
  has succeeded or is at his last write) and, for `SuccessIsStored`, `StoredSoFar` (what the
  storing block has behind it at each point).
* `AgentGraph`. `GraphInv` follows a finding from the specialist to the row: a superstep is
  one node or specialists (`Supersteps`); only who was asked is at work or has answered
  (`OnlyAsked`); while they gather everyone asked is at work or has written, afterwards
  everyone has answered (`AllAreHeard`); a plan that was built uses what the successful
  ones found (`PlanIsComplete`); nothing is stored before the end (`StoredAtEnd`). As
  `quality_ok` is no channel, a review never sends a plan back, so there is one build
  (`BuiltOnce`), which is how the refinement gets by with any `MaxRetries`. The refinement
  also needs that who is at work has not answered before (`StillMissing`): then the
  missing of the pipeline are the tasks of the superstep (`MissingIsAtWork`).
* `LoginSessions`. All steps do one of four things to the rows (`StepsOnRows`): some
  sessions end, all end, a login opens one, or a refresh renews one that works. The three
  invariants and the action property are each kept by these four. `TypeOK` needs that a call
  that refreshes holds a row (`CallsHaveRows`), and a login needs a number of its own
  (`LoginsAreCounted`).
* `Accounts`. The bucket of a window is the end of what it let through, and what fell out of
  it is too old to count (`Remembers`); so the call let through a limit ago is out of the
  window. For the codes: an older code of a phone and purpose is used up once a newer one
  is there (`OlderAreUsed`), and what was accepted is used up (`AcceptedAreUsed`), whichever
  second statements failed. `SecondFactor`: a call that is not outdated has read the row as it is
  (`RowsFresh`).
* `Community`. A review that can be decided on belongs to a guide that waits or is gone
  (`PendingWait`), which is why no verdict is given twice although the code does
  not look at the guide; a guide whose upload is not over has no review to decide on
  (`UploadsWait`), which keeps this true when the upload ends late. Counts and rows change
  together or the guide is in `torn` (`CountsInv`); a guide that waits has exactly one review, which
  waits, and one that was decided on has reviews that say so, or it is torn
  (`ReviewsSettled`); no mark outlives its guide and every guide was created once (`MarksLive`), so the
  two queries of a page, which join differently, agree (`MarksAreCounted`). A page cut from any order
  shows a row at its place in that order (`PagesRead`), and two orders, newest first, have the same
  second at the same place (`NoneIsNewer`, by the pigeonhole principle), so whatever each page was read from,
  of each second as many rows are shown as are marked (`PagesShowMarks`).
* `PriceBook`. What was applied is marked or its marking failed, and no two applications are of
  one report (`AppliedAreMarked`, `AppliedDiffer`); a price that is approved in the table
  was endorsed by an administrator with that value, and recording what a run found, entry by
  entry, keeps it (`BookInv`). `RunCosts`: the counter is ahead of
  what each open run used since it began, and a run that did not begin used nothing
  (`CounterAhead`, `NewRunsUnused`). `FailureSamples`: the samples are those that are wanted,
  and the threshold of 0.75 lets a plan pass only if it missed none of four
  checks (`ThresholdIsAllChecks`).
* `DayTimeline`. While a day is laid out, entry by entry, its entries are in order, each
  ride lies between the visits it joins and takes as long as the way does, everything is over
  by `until`, and the last visit was at `at` (`Followable`, `OverBy`, `LeadsTo`). One stop
  more keeps this (`FollowedIsGood`, `VisitedIsGood`), therefore the folds over agenda and
  blocks do. The proof found that three `CASE` expressions of the model had arms that
  overlapped, between which TLA+ leaves the choice open while the code tries them in
  order; they are `IF`s now.
* `PlanRules`. `PlanIn(I)` are the plans of at least one day all of whose items are in `I`. Every
  stage keeps `PlanIn(Items)` (`HasDays`), by a lemma for each loop of the planner; the loops are folds
  over named bodies for that reason, and the choices of a dearest or cheapest place have a lemma of
  their own. From that every cost and total is a number. A removal by the traveller leaves a
  plan in `PlanIn(Items \ ask.gone)`, and when no minimum is asked for, the stages after it only take
  items away or change their prices (`LimitedAddsNothing`), so it is still there when the row is
  written (`StaysOut`). `Costed` leaves a plan whose total is what it
  costs and which warns when that is too much (`CostsSaid`); it is the last step on every way to
  the row, so every stored plan says what it costs (`Says`).
* The minimum (`MinimumIsKept`). As long as the plan is too cheap, each round of
  `_enforce_min_spend` adds an item that was not in it (`OneMoreAdded`), so
  after n rounds the plan has reached the minimum or at least n items of those on offer; with thirty
  items or fewer the rounds do not run out first (`MinimumMet`). `MayGo` compares the total less the price of *one*
  traveller, so a plan that loses an item stays above the minimum only for one, and only if
  the item was one list's alone: hence `OwnMeals`, an invariant of its own, for
  which a family of lemmas (`CostedShape` to `BuiltShape`) says that no stage but a lengthening
  makes days share a list. Dropping an item leaves the timeline and the rest of the day as they
  were (`FittedReaches`), and `autocorrect_plan` after it changes nothing that costs
  if no place is there twice and each day has its timeline (`AutocorrectedSteady`).
* The end of the budget loop (`BudgetLoopEnds`). The code says `while total_cost() > budget` and
  bounds it by nothing; the model takes as many rounds as the plan has stops. Each round takes a stop away, of both days
  if they share the list (`StopsFewer`), so after n rounds the loop has
  settled or n stops are gone, and a plan without stops has nothing that may go (`NoStopsSettled`):
  the bound of the model is no restriction. Days that share their meals must have
  the same meals for this (`Shared`), which the lengthening sees to (`LengthenedShared`) and every
  step on the way to the limits keeps (`RearrangedShared`).

Only model-checked:

* `TypesOK` as it stands, of eight components side by side in one run; the type invariant of each
  of the eight is a theorem of that component's own specification.
* All liveness (`RunsSettle`, `RequestsEnd`, `RunEnds`, `CallsEnd`): liveness under fairness and
  `ENABLED` are beyond the prover.

## 5. What is not modelled

Words and layout: how a request is read out of a message, names and their
clean-up, summaries and answers. The order in which a day visits its places, and
distances. Search, maps, weather and the LLM beyond success and failure and what
they change in a plan; the SSE framing and the client's rendering; TOTP
arithmetic and hashing; the page's own time-outs. Recommendation slots, follows,
profiles and lists that only read: single statements without a relation to keep. `get_current_user` runs on a worker thread before the
handler; only `SecondFactor` splits the two, where it matters most. The timeline of
a day whose places the limits removed is not redrawn by the last stages; `DayTimeline` checks a
timeline when it is drawn. The minimum spend is not claimed where the code
does not keep it (section on `PlanRules`). Several
processes behind one database are outside: the deployment runs one.

## 6. Plan

Done: every module above is checked, and the safety properties of every component are
proved. Left:

1. The web client's stream and poll next to the ledger.
