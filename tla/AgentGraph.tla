----------------------------- MODULE AgentGraph -----------------------------
(***************************************************************************)
(* The LangGraph graph of app/agent/multi_graph.py that turns one message  *)
(* into one answer: main_parse, dispatch, the specialists in parallel,     *)
(* route_optimize, validate, synthesis, reflect, finish.                   *)
(*                                                                         *)
(* The engine runs the graph in supersteps: every task of a superstep      *)
(* reads the state as it was when the superstep began, and their updates   *)
(* are merged, channel by channel, when all of them are done.  Only the    *)
(* keys TravelState declares are channels: an update of any other key is   *)
(* dropped, and reading it gives the default.                              *)
(*                                                                         *)
(* One run is independent of every other (there is no checkpointer), so    *)
(* the module has one.  What the runs of different requests share, the     *)
(* rows and the plan cache, is in TripChat.                                *)
(***************************************************************************)
EXTENDS Naturals

CONSTANTS
  Fields,        \* what a change may concern, as the main agent names it
  Failures,      \* may the LLM, a tool or a sub-agent fail?
  MaxRetries     \* retry_policy.max_retries of the task plan

Specialists == {"attraction", "food", "transport"}
LocalFields == {"date", "budget", "days", "food", "attraction", "remove"}

ASSUME MaxRetriesIsNat == MaxRetries \in Nat
ASSUME FailuresIsBool == Failures \in BOOLEAN

VARIABLES
  \* channels
  intent,       \* create, adjust or ask (chat is treated as ask is)
  open,         \* is there an open trip, with a plan to start from?
  changed,      \* task_plan.changed_fields
  cached,       \* cached_plan
  results,      \* agent_results: which agent answered, and how
  itinerary,    \* the plan, or NoPlan for {}
  qualityOk, retryCount,
  \* the engine
  tasks,        \* the tasks of this superstep that are not done
  writes,       \* what those that are done add to agent_results
  ended,        \* did the run end, and how?
  \* history
  asked,        \* the specialists that were asked
  verdict,      \* what the last review said
  builds,       \* how often synthesis ran
  stored        \* what finish stored in a trip, or NoPlan

channels == <<intent, open, changed, cached, results, itinerary, qualityOk,
              retryCount>>
engine == <<tasks, writes, ended>>
history == <<asked, verdict, builds, stored>>
vars == <<channels, engine, history>>

-----------------------------------------------------------------------------
Nodes == {"main_parse", "dispatch", "route_optimize", "validate", "synthesis",
          "reflect", "finish"} \cup Specialists
Status == {"success", "failed"}
Agents == Specialists \cup {"RouteAgent", "ValidatorAgent", "SynthesisAgent",
                            "ReflectionAgent"}

(* A plan, told by whether a synthesis built it (or it came from the cache) *)
(* and whose findings it uses.                                             *)
NoPlan == [exists |-> FALSE, built |-> FALSE, uses |-> {}]
Plan == {NoPlan} \cup [exists : {TRUE}, built : BOOLEAN, uses : SUBSET Specialists]

TypeOK ==
  /\ intent \in {"unknown", "create", "adjust", "ask"}
  /\ open \in BOOLEAN /\ cached \in BOOLEAN
  /\ changed \subseteq Fields
  /\ results \subseteq Agents \X Status
  /\ itinerary \in Plan /\ stored \in Plan
  /\ qualityOk \in BOOLEAN /\ retryCount \in Nat
  /\ tasks \subseteq Nodes
  /\ writes \subseteq Specialists \X Status
  /\ ended \in {"no", "answered", "raised"}
  /\ ended = "no" <=> tasks # {}
  /\ asked \subseteq Specialists
  /\ verdict \in BOOLEAN
  /\ builds \in Nat

Init ==
  /\ intent = "unknown" /\ open \in BOOLEAN /\ changed = {} /\ cached = FALSE
  /\ results = {} /\ itinerary = NoPlan
  /\ qualityOk = TRUE /\ retryCount = 0
  /\ tasks = {"main_parse"} /\ writes = {} /\ ended = "no"
  /\ asked = {} /\ verdict = TRUE /\ builds = 0 /\ stored = NoPlan

-----------------------------------------------------------------------------
(* The engine.                                                             *)

(* Mutant: quality_ok is declared, retry_count is forgotten. *)
TravelStateUncounted ==
  {"cached_plan", "intent", "task_plan", "agent_results", "itinerary", "quality_ok"}

TravelState ==
  {"cached_plan", "user_input", "user_id", "trip_id", "intent", "params", "docs",
   "task_plan", "agent_results", "existing_trip", "existing_plan", "itinerary",
   "version", "validation", "response", "history", "tool_calls", "errors"}

(* The value of a key after an update of it. *)
Updated(key, old, new) == IF key \in TravelState THEN new ELSE old

(* A superstep of one task ends with it, and its edges say what is next.   *)
RunAlone(node, next) ==
  /\ tasks = {node}
  /\ tasks' = next
  /\ UNCHANGED <<writes, ended>>

EndRun(how) == tasks' = {} /\ ended' = how /\ UNCHANGED writes

-----------------------------------------------------------------------------
(* The routers.                                                            *)

Local(fields) == fields # {} /\ fields \subseteq LocalFields
LocalAdjust == intent = "adjust" /\ Local(changed)

(* _router, of what main_parse returns. *)
Router(i, fields) ==
  IF i = "ask" THEN {"finish"}
  ELSE IF i = "adjust" /\ fields = {"date"} THEN {"synthesis"}
  ELSE {"dispatch"}

(* _build_adjust_subtasks; cheap says that the message complains of a plan *)
(* that costs too little.                                                  *)
Subtasks(fields, cheap) ==
  IF fields = {} THEN {}
  ELSE (IF "city" \in fields THEN Specialists ELSE {})
       \cup (IF cheap \/ fields \cap {"days", "budget"} # {}
             THEN {"attraction", "food"} ELSE {})
       \cup (fields \cap Specialists)

(* Mutant: nothing is sent when no specialist is needed. *)
FanOutNothing(subtasks) == IF LocalAdjust THEN {"synthesis"} ELSE subtasks

FanOut(subtasks) ==
  IF LocalAdjust THEN {"synthesis"}
  ELSE IF subtasks = {} THEN {"route_optimize"} ELSE subtasks

QualityRouter(ok, retries) ==
  IF ~ok /\ retries < MaxRetries THEN "synthesis" ELSE "finish"

-----------------------------------------------------------------------------
(* The nodes.  A sub-agent never raises: BaseTravelAgent.run turns what    *)
(* _run raises into a result with status failed and no data.               *)

Outcome == IF Failures THEN Status ELSE {"success"}

MainParse ==
  /\ \E i \in {"create", "adjust", "ask"} :
     \E fields \in (IF i = "adjust" THEN SUBSET Fields ELSE {{}}) :
       /\ intent' = i /\ changed' = fields
       /\ RunAlone("main_parse", Router(i, fields))
  /\ UNCHANGED <<open, cached, results, itinerary, qualityOk, retryCount, history>>

(* A create request without a trip is answered with a cached plan. *)
MainParseCached ==
  /\ ~open
  /\ intent' = "create" /\ cached' = TRUE
  /\ \E uses \in SUBSET Specialists :
       itinerary' = [exists |-> TRUE, built |-> TRUE, uses |-> uses]
  /\ RunAlone("main_parse", {"finish"})
  /\ UNCHANGED <<open, changed, results, qualityOk, retryCount, history>>

(* The LLM fails to answer a question. *)
MainParseRaises ==
  /\ Failures
  /\ tasks = {"main_parse"}
  /\ EndRun("raised")
  /\ UNCHANGED <<channels, history>>

(* dispatch empties agent_results; its edges fan out.  The specialists it  *)
(* asks are those of the task plan.                                        *)
Dispatch ==
  /\ results' = {}
  /\ \E cheap \in BOOLEAN :
       LET subtasks == IF intent = "create" THEN Specialists
                       ELSE Subtasks(changed, cheap) IN
       /\ RunAlone("dispatch", FanOut(subtasks))
       /\ asked' = IF LocalAdjust THEN {} ELSE subtasks
  /\ UNCHANGED <<intent, open, changed, cached, itinerary, qualityOk, retryCount,
                 verdict, builds, stored>>

(* Mutant: the route is computed as soon as one specialist is done. *)
SpecialistHurries(s) ==
  /\ s \in tasks
  /\ \E status \in Outcome : results' = results \cup {<<s, status>>}
  /\ tasks' = {"route_optimize"}
  /\ UNCHANGED <<intent, open, changed, cached, itinerary, qualityOk, retryCount,
                 writes, ended, history>>

(* The specialists of a superstep end in any order, their answers are      *)
(* merged when the last one is done, by the reducer of agent_results.      *)
Specialist(s) ==
  /\ s \in tasks
  /\ \E status \in Outcome : writes' = writes \cup {<<s, status>>}
  /\ tasks' = tasks \ {s}
  /\ tasks' # {}
  /\ UNCHANGED <<channels, ended, history>>

LastSpecialist(s) ==
  /\ tasks = {s} /\ s \in Specialists
  /\ \E status \in Outcome : results' = results \cup writes \cup {<<s, status>>}
  /\ writes' = {}
  /\ tasks' = {"route_optimize"}
  /\ UNCHANGED <<intent, open, changed, cached, itinerary, qualityOk, retryCount,
                 ended, history>>

Answers(agent, status) == results' = results \cup {<<agent, status>>}

RouteOptimize ==
  /\ RunAlone("route_optimize", {"validate"})
  /\ \E status \in Outcome : Answers("RouteAgent", status)
  /\ UNCHANGED <<intent, open, changed, cached, itinerary, qualityOk, retryCount,
                 history>>

Validate ==
  /\ RunAlone("validate", {"synthesis"})
  /\ \E status \in Outcome : Answers("ValidatorAgent", status)
  /\ UNCHANGED <<intent, open, changed, cached, itinerary, qualityOk, retryCount,
                 history>>

(* Mutant: the plan goes straight to the user. *)
SynthesisUnreviewed ==
  /\ RunAlone("synthesis", {"finish"})
  /\ builds' = builds + 1
  /\ Answers("SynthesisAgent", "success")
  /\ itinerary' = [exists |-> TRUE, built |-> TRUE, uses |-> {}]
  /\ UNCHANGED <<intent, open, changed, cached, qualityOk, retryCount, asked,
                 verdict, stored>>

(* The synthesis uses what the specialists found, those that failed found  *)
(* nothing; when it fails itself, there is no plan.                        *)
Synthesis ==
  /\ RunAlone("synthesis", {"reflect"})
  /\ builds' = builds + 1
  /\ \E status \in Outcome :
       /\ Answers("SynthesisAgent", status)
       /\ itinerary' = IF status = "failed" THEN NoPlan
                       ELSE [exists |-> TRUE, built |-> TRUE,
                             uses |-> {s \in Specialists : <<s, "success">> \in results}]
  /\ UNCHANGED <<intent, open, changed, cached, qualityOk, retryCount, asked,
                 verdict, stored>>

(* The result of a local adjustment is not reviewed. *)
SkipReview ==
  /\ LocalAdjust
  /\ qualityOk' = Updated("quality_ok", qualityOk, TRUE)
  /\ verdict' = TRUE
  /\ RunAlone("reflect", {QualityRouter(qualityOk', retryCount)})
  /\ UNCHANGED <<intent, open, changed, cached, results, itinerary, retryCount,
                 asked, builds, stored>>

(* The review finds fault or not.  It finds none in an empty plan, which   *)
(* it turns into one with nothing but notes.  When it fails, the plan      *)
(* stays and counts as good.                                               *)
Reflect ==
  /\ ~LocalAdjust
  /\ \E status \in Outcome, ok \in BOOLEAN :
       /\ status = "failed" => ok /\ itinerary.exists
       /\ ~itinerary.exists => ok
       /\ Answers("ReflectionAgent", status)
       /\ itinerary' = [itinerary EXCEPT !.exists = TRUE]
       /\ qualityOk' = Updated("quality_ok", qualityOk, ok)
       /\ retryCount' = Updated("retry_count", retryCount,
                                IF ok THEN retryCount ELSE retryCount + 1)
       /\ verdict' = ok
  /\ RunAlone("reflect", {QualityRouter(qualityOk', retryCount')})
  /\ UNCHANGED <<intent, open, changed, cached, asked, builds, stored>>

(* finish stores the plan in a new trip or in the open one. *)
Finish ==
  /\ tasks = {"finish"}
  /\ stored' = IF itinerary.exists /\ (open \/ intent = "create")
               THEN itinerary ELSE stored
  /\ EndRun("answered")
  /\ UNCHANGED <<channels, asked, verdict, builds>>

-----------------------------------------------------------------------------
Next ==
  \/ MainParse \/ MainParseCached \/ MainParseRaises \/ Dispatch
  \/ \E s \in Specialists : Specialist(s) \/ LastSpecialist(s)
  \/ RouteOptimize \/ Validate \/ Synthesis \/ SkipReview \/ Reflect \/ Finish

Spec == Init /\ [][Next]_vars

(* The engine runs the tasks of a superstep until all are done, and every  *)
(* call a node waits for ends: the LLM and HTTP clients have timeouts.     *)
LiveSpec == Spec /\ WF_vars(Next)

-----------------------------------------------------------------------------
(* What the graph is to do right.                                          *)

Answered(s) == \E status \in Status : <<s, status>> \in results

(* A plan that is stored uses the findings of every specialist that was    *)
(* asked and succeeded, whatever order they ended in and whichever failed: *)
(* none is lost in the merge, and the synthesis waits for all of them.     *)
PlanUsesFindings ==
  stored.built /\ ~cached =>
    /\ \A s \in asked : Answered(s)
    /\ stored.uses = {s \in asked : <<s, "success">> \in results}

(* No plan that was generated gets to the user unreviewed, except that of  *)
(* a local adjustment.                                                     *)
NothingUnreviewed ==
  ended = "answered" /\ builds > 0 /\ ~LocalAdjust => Answered("ReflectionAgent")

(* The supersteps implement the pipeline of PlanPipeline, retries included. *)
Phase ==
  CASE tasks = {"main_parse"} -> "understand"
    [] tasks = {"dispatch"} -> "understand"
    [] tasks \cap Specialists # {} -> "gather"
    [] tasks # {} /\ tasks \subseteq {"route_optimize", "validate", "synthesis"} ->
         "prepare"
    [] tasks = {"reflect"} -> "review"
    [] tasks = {"finish"} -> "answer"
    [] OTHER -> "ended"
Missing ==
  IF Phase = "understand" THEN {}
  ELSE {s \in asked : ~Answered(s) /\ \A status \in Status : <<s, status>> \notin writes}

PL == INSTANCE PlanPipeline WITH
        MaxBuilds <- 1 + MaxRetries, phase <- Phase, missing <- Missing
PipelineKept == PL!Spec

(* Every run ends: no superstep is left without tasks, no loop goes on.    *)
RunEnds == <>(ended # "no")

-----------------------------------------------------------------------------
(* What the documents say of the graph and the code does not do.           *)

(* docs/INTERVIEW_Q_A.md:17: a review that finds fault sends the plan back *)
(* to synthesis, at most twice.                                            *)
FailedReviewIsRetried ==
  [][tasks = {"reflect"} /\ ~verdict' /\ builds <= MaxRetries =>
       tasks' = {"synthesis"}]_vars
=============================================================================
