------------------------------ MODULE TripChat ------------------------------
(***************************************************************************)
(* The planning core of the server: the rows of trips, itinerary_versions, *)
(* conversations and agent_runs, the in-memory plan cache, and every       *)
(* handler of app/api/routes.py that reads or writes them.                 *)
(*                                                                         *)
(* One uvicorn process runs all handlers on one event loop.  A handler     *)
(* gives the loop up only at an await, so the statements between two       *)
(* awaits form a block no other handler interleaves with (the variable     *)
(* loop names the request whose block is running).  Database.execute       *)
(* commits every statement by itself, so a crash or a database error can   *)
(* cut a block short after any statement: each statement is one action.    *)
(*                                                                         *)
(* A plan is abstracted to the set of requests whose effect it carries     *)
(* (marks) and to whether it says anything about the weather, a forecast   *)
(* or an explicit notice (weather).                                        *)
(***************************************************************************)
EXTENDS Naturals, Sequences

CONSTANTS
  Chats, Alerts, Dates, Publishes, Copies, Deletes,  \* requests, by handler
  Trips,          \* trip ids, those of rows not yet created included
  Existing,       \* the trips that are there at the start
  Sessions,       \* chat sessions of the user
  Keys,           \* values of _plan_cache_key
  Intents,        \* what the main agent may read out of a message
  AgentFailures,  \* may the LLM, the weather service or a sub-agent fail?
  MaxCrashes, MaxDbErrors,  \* bounds on faults
  Seed,           \* the content the existing trips start with
  None

Requests == Chats \cup Alerts \cup Dates \cup Publishes \cup Copies \cup Deletes

ASSUME DistinctKinds ==
  /\ Chats \cap (Alerts \cup Dates \cup Publishes \cup Copies \cup Deletes) = {}
  /\ Alerts \cap (Dates \cup Publishes \cup Copies \cup Deletes) = {}
  /\ Dates \cap (Publishes \cup Copies \cup Deletes) = {}
  /\ Publishes \cap (Copies \cup Deletes) = {}
  /\ Copies \cap Deletes = {}
ASSUME NoneIsNoId ==
  None \notin Requests \cup Trips \cup Sessions \cup Keys
ASSUME BoundsAreNat == MaxCrashes \in Nat /\ MaxDbErrors \in Nat
ASSUME KnownIntents == Intents \subseteq {"create", "adjust", "ask"}
ASSUME SomeTripsExist == Existing \subseteq Trips
ASSUME FailuresIsBool == AgentFailures \in BOOLEAN

VARIABLES
  \* the database
  trips,      \* the row of each trip, or None
  versions,   \* the rows of itinerary_versions
  conv,       \* conversations.messages of each session
  lastTrip,   \* conversations.last_trip_id
  runs,       \* agent_runs.status of each chat request
  \* the memory of the process
  cache,      \* _PLAN_CACHE: whose plan object each key holds, or None
  mem,        \* the plan object each chat request has built
  pc, req,    \* where each request is, and its local variables
  loop,       \* the request whose block the event loop is running, or None
  pending,    \* the arguments of the save_version call to come
  \* history and bounds
  used,       \* trip ids ever inserted
  crashes, dbErrors

db == <<trips, versions, conv, lastTrip, runs>>
process == <<cache, mem, pc, req, loop, pending>>
faults == <<crashes, dbErrors>>
vars == <<db, process, used, faults>>

-----------------------------------------------------------------------------
Marks == Requests \cup {Seed}
Plan == [marks : SUBSET Marks, weather : BOOLEAN]

\* The dict a failed synthesis ends up as: no days, nothing about the weather.
EmptyPlan == [marks |-> {}, weather |-> FALSE]

TripStatus == {"draft", "published"}
TripRow == [version : Nat, status : TripStatus, plan : Plan]
VersionRow == [trip : Trips, version : Nat, plan : Plan]
Message == Chats \X {"user", "assistant"}

ASSUME NoneIsNoRow ==
  None \notin Plan /\ None \notin TripRow /\ None \notin VersionRow

Local == [sess : Sessions \cup {None}, trip : Trips \cup {None},
          key : Keys \cup {None}, intent : Intents \cup {None},
          obj : Chats \cup {None}, base : TripRow \cup {None},
          version : Nat, hist : Seq(Message)]
Blank == [sess |-> None, trip |-> None, key |-> None, intent |-> None,
          obj |-> None, base |-> None, version |-> 1, hist |-> <<>>]

PC == {"idle", "done", "parsing", "planning", "generating", "finishing",
       "finishVersion", "posting", "weather", "storing", "storeVersion",
       "storeLast", "storeConv", "storeRun", "failing", "refreshing",
       "writeVersion", "deleteVersions"}

TypeOK ==
  /\ trips \in [Trips -> TripRow \cup {None}]
  /\ versions \subseteq VersionRow
  /\ conv \in [Sessions -> Seq(Message)]
  /\ lastTrip \in [Sessions -> Trips \cup {None}]
  /\ runs \in [Chats -> {"none", "running", "success", "failed"}]
  /\ cache \in [Keys -> Chats \cup {None}]
  /\ mem \in [Chats -> Plan \cup {None}]
  /\ pc \in [Requests -> PC]
  /\ req \in [Requests -> Local]
  /\ loop \in Requests \cup {None}
  /\ pending \in VersionRow \cup {None}
  /\ used \subseteq Trips
  /\ crashes \in 0 .. MaxCrashes
  /\ dbErrors \in 0 .. MaxDbErrors

Init ==
  LET first == [marks |-> {Seed}, weather |-> TRUE] IN
  /\ trips = [t \in Trips |->
       IF t \in Existing
       THEN [version |-> 1, status |-> "draft", plan |-> first] ELSE None]
  /\ versions = {[trip |-> t, version |-> 1, plan |-> first] : t \in Existing}
  /\ conv = [s \in Sessions |-> <<>>]
  /\ lastTrip = [s \in Sessions |-> None]
  /\ runs = [r \in Chats |-> "none"]
  /\ cache = [k \in Keys |-> None]
  /\ mem = [r \in Chats |-> None]
  /\ pc = [r \in Requests |-> "idle"]
  /\ req = [r \in Requests |-> Blank]
  /\ loop = None
  /\ pending = None
  /\ used = Existing
  /\ crashes = 0
  /\ dbErrors = 0

-----------------------------------------------------------------------------
(* Control: a request moves to a point of its code, keeping or giving up   *)
(* the event loop.                                                         *)

AtAwait(r, label) == loop = None /\ pc[r] = label
InBlock(r, label) == loop = r /\ pc[r] = label

Goto(r, label) == pc' = [pc EXCEPT ![r] = label]
Await(r, label) == Goto(r, label) /\ loop' = None
Continue(r, label) == Goto(r, label) /\ loop' = r
Return(r) == Await(r, "done") /\ req' = [req EXCEPT ![r] = Blank]

(* Database.update_trip and create_trip, first statement: the row.  The    *)
(* version row both save next is kept in pending.                          *)
WriteRow(t, version, status, plan) ==
  /\ trips' = [trips EXCEPT ![t] =
                 [version |-> version, status |-> status, plan |-> plan]]
  /\ pending' = [trip |-> t, version |-> version, plan |-> plan]

SaveVersion ==
  /\ versions' = versions \cup {pending}
  /\ pending' = None

InsertTrip(t, plan) ==
  /\ t \in Trips \ used
  /\ used' = used \cup {t}
  /\ WriteRow(t, 1, "draft", plan)

-----------------------------------------------------------------------------
(* POST /chat.                                                             *)

(* Mutant: the question is stored at once, not with its answer. *)
ChatStartStores(r, s, t, k) ==
  /\ AtAwait(r, "idle")
  /\ t \in used \cup {None}
  /\ req' = [req EXCEPT ![r] = [Blank EXCEPT !.sess = s, !.trip = t, !.key = k,
               !.obj = r, !.hist = Append(conv[s], <<r, "user">>)]]
  /\ runs' = [runs EXCEPT ![r] = "running"]
  /\ conv' = [conv EXCEPT ![s] = Append(@, <<r, "user">>)]
  /\ Await(r, "parsing")
  /\ UNCHANGED <<trips, versions, lastTrip, cache, mem, pending, used,
                 faults>>

(* The handler up to its first await: the history is read and the run      *)
(* registered.                                                             *)
ChatStart(r, s, t, k) ==
  /\ AtAwait(r, "idle")
  /\ t \in used \cup {None}
  /\ req' = [req EXCEPT ![r] = [Blank EXCEPT !.sess = s, !.trip = t, !.key = k,
               !.obj = r, !.hist = Append(conv[s], <<r, "user">>)]]
  /\ runs' = [runs EXCEPT ![r] = "running"]
  /\ Await(r, "parsing")
  /\ UNCHANGED <<trips, versions, conv, lastTrip, cache, mem, pending, used, faults>>

(* main_parse reads the trip, then waits for the main agent's LLM.         *)
ParseRead(r) ==
  /\ AtAwait(r, "parsing")
  /\ req' = [req EXCEPT ![r].base =
               IF req[r].trip = None THEN None ELSE trips[req[r].trip]]
  /\ Await(r, "planning")
  /\ UNCHANGED <<db, cache, mem, pending, used, faults>>

(* A create request without a trip may find its plan in the cache, unless  *)
(* the entry is too old: it then shares the cached plan object.            *)
CacheHit(r) ==
  /\ AtAwait(r, "planning")
  /\ "create" \in Intents
  /\ req[r].trip = None /\ cache[req[r].key] # None
  /\ req' = [req EXCEPT ![r].intent = "create", ![r].obj = cache[req[r].key]]
  /\ Await(r, "finishing")
  /\ UNCHANGED <<db, cache, mem, pending, used, faults>>

(* Mutant: a question is parsed over and over. *)
RouteAgain(r, intent) ==
  /\ AtAwait(r, "planning")
  /\ req' = [req EXCEPT ![r].intent = intent]
  /\ Await(r, IF intent = "ask" THEN "parsing" ELSE "generating")
  /\ UNCHANGED <<db, cache, mem, pending, used, faults>>

(* Otherwise the intent decides: a question is answered without a plan,    *)
(* anything else is generated.                                             *)
Route(r, intent) ==
  /\ AtAwait(r, "planning")
  /\ req' = [req EXCEPT ![r].intent = intent]
  /\ Await(r, IF intent = "ask" THEN "finishing" ELSE "generating")
  /\ UNCHANGED <<db, cache, mem, pending, used, faults>>

(* The answer to a question comes straight from the LLM, whose error ends  *)
(* the run.                                                                *)
AnswerFails(r) ==
  /\ AgentFailures /\ "ask" \in Intents
  /\ AtAwait(r, "planning")
  /\ Continue(r, "failing")
  /\ UNCHANGED <<db, cache, mem, req, pending, used, faults>>

(* dispatch, the specialists, synthesis and reflect.  An adjustment works  *)
(* on the plan that was read; a create request on an open trip may start   *)
(* afresh.  A new plan of an existing one is always numbered 2.            *)
Generated(r) ==
  LET base == req[r].base IN
  IF base = None THEN {{r}}
  ELSE IF req[r].intent = "adjust" THEN {base.plan.marks \cup {r}}
  ELSE {{r}, base.plan.marks \cup {r}}

Generate(r) ==
  /\ AtAwait(r, "generating")
  /\ \E marks \in Generated(r) :
       mem' = [mem EXCEPT ![r] = [marks |-> marks, weather |-> TRUE]]
  /\ req' = [req EXCEPT ![r].version = IF req[r].base = None THEN 1 ELSE 2]
  /\ Await(r, "finishing")
  /\ UNCHANGED <<db, cache, pending, used, faults>>

(* SynthesisAgent raises (its weather call, for one): BaseTravelAgent.run  *)
(* turns that into an empty result.  The reflection makes a dict with only *)
(* notes of it, except after a local adjustment, which it does not review. *)
GenerateFails(r) ==
  /\ AgentFailures
  /\ AtAwait(r, "generating")
  /\ \E plan \in {EmptyPlan} \cup (IF req[r].intent = "adjust" THEN {None} ELSE {}) :
       mem' = [mem EXCEPT ![r] = plan]
  /\ Await(r, "finishing")
  /\ UNCHANGED <<db, req, cache, pending, used, faults>>

PlanOf(r) == mem[req[r].obj]

(* The finish node: a new trip is inserted, an open one is overwritten and *)
(* becomes a draft again; a create request leaves its plan in the cache.   *)
CachePlan(r) ==
  cache' = IF req[r].intent = "create" /\ PlanOf(r) # None
           THEN [cache EXCEPT ![req[r].key] = req[r].obj] ELSE cache

FinishInsert(r, t) ==
  /\ AtAwait(r, "finishing")
  /\ PlanOf(r) # None /\ req[r].intent = "create" /\ req[r].trip = None
  /\ InsertTrip(t, PlanOf(r))
  /\ req' = [req EXCEPT ![r].trip = t]
  /\ Continue(r, "finishVersion")
  /\ UNCHANGED <<versions, conv, lastTrip, runs, cache, mem, faults>>

FinishUpdate(r) ==
  LET t == req[r].trip IN
  /\ AtAwait(r, "finishing")
  /\ PlanOf(r) # None /\ t # None
  /\ trips[t] # None
  /\ WriteRow(t, req[r].version, "draft", PlanOf(r))
  /\ Continue(r, "finishVersion")
  /\ UNCHANGED <<versions, conv, lastTrip, runs, cache, mem, req, used, faults>>

(* Mutant: the finish node writes the row but no version. *)
FinishNoVersion(r) ==
  /\ InBlock(r, "finishVersion")
  /\ pending' = None
  /\ CachePlan(r)
  /\ Await(r, "posting")
  /\ UNCHANGED <<db, mem, req, used, faults>>

FinishVersion(r) ==
  /\ InBlock(r, "finishVersion")
  /\ SaveVersion
  /\ CachePlan(r)
  /\ Await(r, "posting")
  /\ UNCHANGED <<trips, conv, lastTrip, runs, mem, req, used, faults>>

FinishOnly(r) ==
  LET t == req[r].trip IN
  /\ AtAwait(r, "finishing")
  /\ \/ PlanOf(r) = None
     \/ t = None /\ req[r].intent # "create"
     \/ t # None /\ trips[t] = None
  /\ CachePlan(r)
  /\ Await(r, "posting")
  /\ UNCHANGED <<db, mem, req, pending, used, faults>>

(* Back in the handler.  A plan from the cache is stored as it is; any     *)
(* other has its weather refreshed first, which drops what it said before  *)
(* the wait.  {} stands for a missing itinerary from here on.              *)
Cached(r) == req[r].obj # r
SetWeather(r, known) ==
  mem' = [mem EXCEPT ![req[r].obj] =
            [(IF @ = None THEN EmptyPlan ELSE @) EXCEPT !.weather = known]]

PostCached(r) ==
  /\ AtAwait(r, "posting") /\ Cached(r)
  /\ Continue(r, "storing")
  /\ UNCHANGED <<db, cache, mem, req, pending, used, faults>>

DropWeather(r) ==
  /\ AtAwait(r, "posting") /\ ~Cached(r)
  /\ SetWeather(r, FALSE)
  /\ Await(r, "weather")
  /\ UNCHANGED <<db, cache, req, pending, used, faults>>

SyncWeather(r) ==
  /\ AtAwait(r, "weather")
  /\ SetWeather(r, TRUE)
  /\ Continue(r, "storing")
  /\ UNCHANGED <<db, cache, req, pending, used, faults>>

(* Mutant: the weather is refreshed outside the try statement. *)
WeatherFailsUncaught(r) ==
  /\ AgentFailures
  /\ AtAwait(r, "weather")
  /\ Return(r)
  /\ UNCHANGED <<db, cache, mem, pending, used, faults>>

WeatherFails(r) ==
  /\ AgentFailures
  /\ AtAwait(r, "weather")
  /\ Continue(r, "failing")
  /\ UNCHANGED <<db, cache, mem, req, pending, used, faults>>

(* The final block: update_trip, set_last_trip_id, upsert_conversation,    *)
(* save_agent_run.                                                         *)
StoreTrip(r) ==
  LET t == req[r].trip IN
  /\ InBlock(r, "storing")
  /\ t # None /\ trips[t] # None
  /\ WriteRow(t, req[r].version, trips[t].status, PlanOf(r))
  /\ Continue(r, "storeVersion")
  /\ UNCHANGED <<versions, conv, lastTrip, runs, cache, mem, req, used, faults>>

(* Mutants: without a row, update_trip saves a version all the same, of the *)
(* trip that is gone or of none at all.                                    *)
StoreOrphan(r) ==
  LET t == req[r].trip IN
  /\ InBlock(r, "storing")
  /\ t # None /\ trips[t] = None
  /\ pending' = [trip |-> t, version |-> req[r].version, plan |-> PlanOf(r)]
  /\ Continue(r, "storeVersion")
  /\ UNCHANGED <<db, cache, mem, req, used, faults>>

StoreNothing(r) ==
  /\ InBlock(r, "storing")
  /\ req[r].trip = None
  /\ Continue(r, "storeVersion")
  /\ UNCHANGED <<db, cache, mem, req, pending, used, faults>>

StoreNoTrip(r) ==
  LET t == req[r].trip IN
  /\ InBlock(r, "storing")
  /\ \/ t = None /\ Continue(r, "storeConv")
     \/ t # None /\ trips[t] = None /\ Continue(r, "storeLast")
  /\ UNCHANGED <<db, cache, mem, req, pending, used, faults>>

StoreVersion(r) ==
  /\ InBlock(r, "storeVersion")
  /\ SaveVersion
  /\ Continue(r, "storeLast")
  /\ UNCHANGED <<trips, conv, lastTrip, runs, cache, mem, req, used,
                 faults>>

StoreLast(r) ==
  /\ InBlock(r, "storeLast")
  /\ lastTrip' = [lastTrip EXCEPT ![req[r].sess] = req[r].trip]
  /\ Continue(r, "storeConv")
  /\ UNCHANGED <<trips, versions, conv, runs, cache, mem, req, pending, used, faults>>

(* Mutant: only the answer is added, to the conversation as it is now. *)
StoreAnswer(r) ==
  LET s == req[r].sess IN
  /\ InBlock(r, "storeConv")
  /\ conv' = [conv EXCEPT ![s] = Append(@, <<r, "assistant">>)]
  /\ Continue(r, "storeRun")
  /\ UNCHANGED <<trips, versions, lastTrip, runs, cache, mem, req, pending, used, faults>>

StoreConv(r) ==
  /\ InBlock(r, "storeConv")
  /\ conv' = [conv EXCEPT ![req[r].sess] = Append(req[r].hist, <<r, "assistant">>)]
  /\ Continue(r, "storeRun")
  /\ UNCHANGED <<trips, versions, lastTrip, runs, cache, mem, req, pending, used, faults>>

StoreRun(r) ==
  /\ InBlock(r, "storeRun")
  /\ runs' = [runs EXCEPT ![r] = "success"]
  /\ Return(r)
  /\ UNCHANGED <<trips, versions, conv, lastTrip, cache, mem, pending, used, faults>>

(* Mutant: the except clause only reports the error to the client. *)
SaveNoVerdict(r) ==
  /\ InBlock(r, "failing")
  /\ Return(r)
  /\ UNCHANGED <<db, cache, mem, pending, used, faults>>

(* The except clause: the run is saved as failed; what was already written *)
(* stays.                                                                  *)
SaveFailed(r) ==
  /\ InBlock(r, "failing")
  /\ runs' = [runs EXCEPT ![r] = "failed"]
  /\ Return(r)
  /\ UNCHANGED <<trips, versions, conv, lastTrip, cache, mem, pending, used, faults>>

-----------------------------------------------------------------------------
(* GET /trips/{id}/live-alerts and POST /trips/{id}/departure-date: both   *)
(* read the row, wait for the weather service and write the whole row back *)
(* as it was read, refreshed.                                              *)

RefreshRead(r, t) ==
  /\ AtAwait(r, "idle")
  /\ trips[t] # None
  /\ req' = [req EXCEPT ![r].trip = t, ![r].base = trips[t]]
  /\ Await(r, "refreshing")
  /\ UNCHANGED <<db, cache, mem, pending, used, faults>>

(* Mutant: the row is written without looking whether it is still there. *)
RefreshUpsert(r) ==
  LET t == req[r].trip
      base == req[r].base IN
  /\ AtAwait(r, "refreshing")
  /\ WriteRow(t, base.version, base.status,
              [marks |-> base.plan.marks, weather |-> TRUE])
  /\ Continue(r, "writeVersion")
  /\ UNCHANGED <<versions, conv, lastTrip, runs, cache, mem, req, used, faults>>

RefreshWrite(r) ==
  LET t == req[r].trip
      base == req[r].base
      edit == IF r \in Dates THEN {r} ELSE {} IN
  /\ AtAwait(r, "refreshing")
  /\ trips[t] # None
  /\ WriteRow(t, base.version, base.status,
              [marks |-> base.plan.marks \cup edit, weather |-> TRUE])
  /\ Continue(r, "writeVersion")
  /\ UNCHANGED <<versions, conv, lastTrip, runs, cache, mem, req, used, faults>>

(* Mutant: without a row, update_trip saves a version all the same. *)
RefreshOrphan(r) ==
  LET base == req[r].base IN
  /\ AtAwait(r, "refreshing")
  /\ trips[req[r].trip] = None
  /\ pending' = [trip |-> req[r].trip, version |-> base.version, plan |-> base.plan]
  /\ Continue(r, "writeVersion")
  /\ UNCHANGED <<db, cache, mem, req, used, faults>>

(* The weather call fails, or the trip has been deleted meanwhile: nothing *)
(* is written.                                                             *)
RefreshEnds(r) ==
  /\ AtAwait(r, "refreshing")
  /\ AgentFailures \/ trips[req[r].trip] = None
  /\ Return(r)
  /\ UNCHANGED <<db, cache, mem, pending, used, faults>>

(* POST /trips/{id}/publish.                                               *)
Publish(r, t) ==
  /\ AtAwait(r, "idle")
  /\ trips[t] # None
  /\ WriteRow(t, trips[t].version, "published", trips[t].plan)
  /\ Continue(r, "writeVersion")
  /\ UNCHANGED <<versions, conv, lastTrip, runs, cache, mem, req, used, faults>>

(* POST /guides/{id}/copy-trip, for a guide linked to trip t.              *)
CopyTrip(r, t, new) ==
  /\ AtAwait(r, "idle")
  /\ trips[t] # None
  /\ InsertTrip(new, trips[t].plan)
  /\ Continue(r, "writeVersion")
  /\ UNCHANGED <<versions, conv, lastTrip, runs, cache, mem, req, faults>>

(* Mutant: the row is written but no version. *)
WriteNoVersion(r) ==
  /\ InBlock(r, "writeVersion")
  /\ pending' = None
  /\ Return(r)
  /\ UNCHANGED <<db, cache, mem, used, faults>>

WriteVersion(r) ==
  /\ InBlock(r, "writeVersion")
  /\ SaveVersion
  /\ Return(r)
  /\ UNCHANGED <<trips, conv, lastTrip, runs, cache, mem, used, faults>>

(* DELETE /trips/{id}: the row, then its versions.                         *)
DeleteTrip(r, t) ==
  /\ AtAwait(r, "idle")
  /\ trips[t] # None
  /\ trips' = [trips EXCEPT ![t] = None]
  /\ req' = [req EXCEPT ![r].trip = t]
  /\ Continue(r, "deleteVersions")
  /\ UNCHANGED <<versions, conv, lastTrip, runs, cache, mem, pending, used, faults>>

DeleteVersions(r) ==
  /\ InBlock(r, "deleteVersions")
  /\ versions' = {v \in versions : v.trip # req[r].trip}
  /\ Return(r)
  /\ UNCHANGED <<trips, conv, lastTrip, runs, cache, mem, pending, used, faults>>

-----------------------------------------------------------------------------
(* Faults.                                                                 *)

(* Mutant: errors of the storing statements are swallowed. *)
DbErrorSwallowed(r) ==
  /\ dbErrors < MaxDbErrors
  /\ dbErrors' = dbErrors + 1
  /\ loop = r /\ pc[r] \in {"storeVersion", "storeLast", "storeConv"}
  /\ Continue(r, "storeRun")
  /\ pending' = None
  /\ UNCHANGED <<db, cache, mem, req, used, crashes>>

(* A statement raises.  A chat request goes to its except clause (unless   *)
(* it is there already); any other request ends with an error.             *)
DbError(r) ==
  /\ dbErrors < MaxDbErrors
  /\ dbErrors' = dbErrors + 1
  /\ loop = r \/ \E here \in {"parsing", "finishing", "posting", "refreshing"} :
                    AtAwait(r, here)
  /\ IF r \in Chats /\ pc[r] # "failing"
     THEN Continue(r, "failing") /\ UNCHANGED req
     ELSE Return(r)
  /\ pending' = None
  /\ UNCHANGED <<db, cache, mem, used, crashes>>

(* Mutant: the restart settles every run, the finished ones included. *)
CrashFailsRuns ==
  /\ crashes < MaxCrashes
  /\ crashes' = crashes + 1
  /\ runs' = [r \in Chats |-> IF runs[r] = "none" THEN "none" ELSE "failed"]
  /\ pc' = [r \in Requests |-> IF pc[r] = "idle" THEN "idle" ELSE "done"]
  /\ req' = [r \in Requests |-> Blank]
  /\ cache' = [k \in Keys |-> None]
  /\ mem' = [r \in Chats |-> None]
  /\ loop' = None
  /\ pending' = None
  /\ UNCHANGED <<trips, versions, conv, lastTrip, used, dbErrors>>

(* The process dies and is started again: requests under way and the cache *)
(* are gone, the database stays.  Nothing revisits the runs left open.     *)
Crash ==
  /\ crashes < MaxCrashes
  /\ crashes' = crashes + 1
  /\ pc' = [r \in Requests |-> IF pc[r] = "idle" THEN "idle" ELSE "done"]
  /\ req' = [r \in Requests |-> Blank]
  /\ cache' = [k \in Keys |-> None]
  /\ mem' = [r \in Chats |-> None]
  /\ loop' = None
  /\ pending' = None
  /\ UNCHANGED <<db, used, dbErrors>>

-----------------------------------------------------------------------------
ChatStep(r) ==
  \/ ParseRead(r) \/ CacheHit(r) \/ (\E i \in Intents : Route(r, i))
  \/ AnswerFails(r) \/ Generate(r) \/ GenerateFails(r)
  \/ (\E t \in Trips : FinishInsert(r, t)) \/ FinishUpdate(r)
  \/ FinishVersion(r) \/ FinishOnly(r)
  \/ PostCached(r) \/ DropWeather(r) \/ SyncWeather(r) \/ WeatherFails(r)
  \/ StoreTrip(r) \/ StoreNoTrip(r) \/ StoreVersion(r) \/ StoreLast(r)
  \/ StoreConv(r) \/ StoreRun(r) \/ SaveFailed(r)

RefreshStep(r) == RefreshWrite(r) \/ RefreshEnds(r) \/ WriteVersion(r)

Next ==
  \/ \E r \in Chats :
       \/ \E s \in Sessions, t \in Trips \cup {None}, k \in Keys :
            ChatStart(r, s, t, k)
       \/ ChatStep(r)
  \/ \E r \in Alerts \cup Dates :
       (\E t \in Trips : RefreshRead(r, t)) \/ RefreshStep(r)
  \/ \E r \in Publishes : (\E t \in Trips : Publish(r, t)) \/ WriteVersion(r)
  \/ \E r \in Copies :
       (\E t, new \in Trips : CopyTrip(r, t, new)) \/ WriteVersion(r)
  \/ \E r \in Deletes : (\E t \in Trips : DeleteTrip(r, t)) \/ DeleteVersions(r)
  \/ \E r \in Requests : DbError(r)
  \/ Crash

Spec == Init /\ [][Next]_vars

(* The loop keeps running the tasks that are ready, and every call a       *)
(* handler waits for ends (the HTTP clients have timeouts): a request that *)
(* has begun goes on.  No user is obliged to send one.                     *)
Fairness ==
  /\ \A r \in Chats : WF_vars(ChatStep(r))
  /\ \A r \in Alerts \cup Dates : WF_vars(RefreshStep(r))
  /\ \A r \in Publishes \cup Copies : WF_vars(WriteVersion(r))
  /\ \A r \in Deletes : WF_vars(DeleteVersions(r))

LiveSpec == Spec /\ Fairness
-----------------------------------------------------------------------------
(* What the core is to do right.                                           *)

Idle == loop = None
Unharmed == crashes = 0 /\ dbErrors = 0
InProgress(r) == pc[r] \notin {"idle", "done"}
Says(messages, m) == \E i \in DOMAIN messages : messages[i] = m

(* However the handlers interleave, a trip that exists has its current     *)
(* content and number among its saved versions: create_trip and update_trip *)
(* write the row and the version in one block.                             *)
CurrentVersionSaved ==
  Unharmed /\ Idle =>
    \A t \in Trips : trips[t] # None =>
      [trip |-> t, version |-> trips[t].version, plan |-> trips[t].plan] \in versions

(* A handler that was waiting when its trip was deleted leaves no version  *)
(* of it behind: update_trip looks the row up again.                       *)
NoOrphanVersions ==
  Unharmed /\ Idle => \A v \in versions : trips[v.trip] # None

(* As long as no process dies and no statement fails, agent_runs tells the *)
(* truth about which runs are in progress, which the web client relies on  *)
(* to block and unblock its input.                                         *)
RunningIsInProgress ==
  Unharmed => \A r \in Chats : runs[r] = "running" <=> InProgress(r)

(* A stored conversation is a sequence of complete exchanges, a question   *)
(* and its own answer, each of them once: chats that overlap, fail or die  *)
(* never leave half an exchange, nor the same one twice.                   *)
ConversationPaired ==
  \A s \in Sessions :
    /\ Len(conv[s]) % 2 = 0
    /\ \A i \in DOMAIN conv[s] :
         IF i % 2 = 1 THEN conv[s][i][2] = "user"
                      ELSE conv[s][i] = <<conv[s][i - 1][1], "assistant">>
    /\ \A i, j \in DOMAIN conv[s] : conv[s][i] = conv[s][j] => i = j

(* The exchange of a run that ended as failed does not show up in the      *)
(* conversation, so the user may simply send the message again.  (A        *)
(* statement that fails between the last two writes breaks this.)          *)
FailedTurnsUnseen ==
  Unharmed =>
    \A r \in Chats, s \in Sessions :
      Says(conv[s], <<r, "user">>) => runs[r] = "success" \/ pc[r] = "storeRun"

(* A run is called a success only when everything it promised is stored:   *)
(* its answer ends the conversation, which points at its trip, and the trip *)
(* (unless it has been deleted) is what the run made of it, kept as a      *)
(* version.  Faults in between must not produce a success.                 *)
StoredBy(r) ==
  LET s == req[r].sess
      t == req[r].trip IN
  /\ conv[s] # <<>> /\ conv[s][Len(conv[s])] = <<r, "assistant">>
  /\ t # None =>
       /\ lastTrip[s] = t
       /\ trips[t] # None =>
            /\ trips[t].plan = PlanOf(r)
            /\ [trip |-> t, version |-> req[r].version, plan |-> PlanOf(r)]
                 \in versions

SuccessIsStored ==
  [][\A r \in Chats : runs[r] # "success" /\ runs'[r] = "success" => StoredBy(r)]_vars

(* A trip that has been deleted never comes back, whatever was waiting on  *)
(* it, and no id is inserted twice.                                        *)
DeletedStaysDeleted ==
  [][\A t \in used : trips[t] = None => trips'[t] = None]_vars

(* agent_runs implements the abstract ledger: registered first, settled at *)
(* most once and for good, through crashes and errors.                     *)
RL == INSTANCE RunLedger WITH Runs <- Chats, ledger <- runs
LedgerKept == RL!Spec

(* Every registered run is settled, as long as the process lives.          *)
RunsSettle == RL!LiveSpec

(* Every request that has begun ends, and the loop is given up again.      *)
RequestsEnd ==
  \A r \in Requests : (InProgress(r) ~> pc[r] = "done") /\ ((loop = r) ~> Idle)

-----------------------------------------------------------------------------
(* What the documents say of the core and the code does not do.            *)

(* docs/OPTIMIZATION_PLAN.md:61: the parts of a trip that a message does    *)
(* not concern are kept as they are; a question concerns none.             *)
QuestionsKeepThePlan ==
  [][\A r \in Chats : loop = r /\ req[r].intent = "ask" =>
       \A t \in Trips : trips[t] # None /\ trips'[t] # None =>
         trips'[t].plan.marks = trips[t].plan.marks]_vars

(* docs/INTERVIEW_Q_A.md:29: a change of date keeps the content of the     *)
(* trip; nor does showing the alerts of a trip drop any.                   *)
RefreshKeepsContent ==
  [][\A r \in Alerts \cup Dates :
       pc[r] = "refreshing" /\ pc'[r] = "writeVersion" =>
         trips[req[r].trip].plan.marks \subseteq trips'[req[r].trip].plan.marks]_vars

(* docs/OPTIMIZATION_PLAN.md:99: a task goes on while the user is elsewhere, *)
(* and coming back shows the conversation and the result.                  *)
AnswersStayInHistory ==
  Unharmed =>
    \A r \in Chats : runs[r] = "success" =>
      \E s \in Sessions : Says(conv[s], <<r, "assistant">>)

(* docs/OPTIMIZATION_PLAN.md:95: the web client can ask about a task that   *)
(* is in progress by its run.  The status it gets stays true over a crash. *)
StatusSurvivesRestart ==
  \A r \in Chats : runs[r] = "running" => InProgress(r)
=============================================================================
