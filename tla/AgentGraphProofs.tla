-------------------------- MODULE AgentGraphProofs --------------------------
(***************************************************************************)
(* What TLAPS proves about AgentGraph, for any fields, failures and number *)
(* of retries: no finding is lost on the way to the plan that is stored,   *)
(* no plan goes out unreviewed, and the graph implements the pipeline.     *)
(***************************************************************************)
EXTENDS AgentGraph, TLAPS

Understanding == tasks = {"main_parse"} \/ tasks = {"dispatch"}
Gathering == tasks # {} /\ tasks \subseteq Specialists
Alone == \E n \in Nodes \ Specialists : tasks = {n}

(* A superstep is one node, or specialists.                                *)
Supersteps == tasks = {} \/ Alone \/ Gathering

Wrote(s) == \E status \in Status : <<s, status>> \in writes

(* Before the specialists are sent there is no plan, and nobody was asked; *)
(* whoever is at work, or was, has been asked.                             *)
NothingBefore ==
  Understanding =>
    asked = {} /\ results = {} /\ builds = 0 /\ ~itinerary.built /\ ~cached

OnlyAsked ==
  /\ tasks \cap Specialists \subseteq asked
  /\ \A s \in Specialists : Wrote(s) \/ Answered(s) => s \in asked

(* While the specialists gather, nothing is built, and everyone asked is   *)
(* at work or has written; afterwards everyone has answered.               *)
AllAreHeard ==
  /\ Gathering => /\ builds = 0 /\ ~itinerary.built
                  /\ \A s \in asked : s \in tasks \/ Wrote(s)
  /\ ~Gathering => writes = {}
  /\ ~Gathering /\ ~Understanding => \A s \in asked : Answered(s)

(* Who is at work has not answered in this superstep, nor in one before.   *)
StillMissing ==
  Gathering => \A s \in Specialists : ~Answered(s) /\ (s \in tasks => ~Wrote(s))

(* A plan that was built uses what those who succeeded found.              *)
PlanIsComplete ==
  itinerary.built /\ ~cached =>
    itinerary.uses = {s \in Specialists : <<s, "success">> \in results}

(* Nothing is stored before the end, and then it is the plan.              *)
StoredAtEnd == stored = NoPlan \/ (tasks = {} /\ stored = itinerary)

(* No review has sent the plan back: what it would count is not kept.      *)
BuiltOnce ==
  /\ qualityOk = TRUE
  /\ tasks \in {{"route_optimize"}, {"validate"}, {"synthesis"}} => builds = 0
  /\ builds \in {0, 1}

Reviewed ==
  builds > 0 /\ ~LocalAdjust => tasks = {"reflect"} \/ Answered("ReflectionAgent")

GraphInv ==
  /\ TypeOK /\ Supersteps
  /\ NothingBefore /\ OnlyAsked /\ AllAreHeard /\ PlanIsComplete
  /\ StoredAtEnd /\ BuiltOnce /\ Reviewed
-----------------------------------------------------------------------------
LEMMA GraphInitially == Init => GraphInv
<1> SUFFICES ASSUME Init PROVE GraphInv
  OBVIOUS
<1>1. /\ tasks = {"main_parse"} /\ writes = {} /\ results = {} /\ asked = {}
      /\ builds = 0 /\ retryCount = 0 /\ itinerary = NoPlan /\ stored = NoPlan
      /\ changed = {} /\ ended = "no" /\ intent = "unknown"
  BY DEF Init
<1>2. open \in BOOLEAN /\ cached = FALSE /\ qualityOk = TRUE /\ verdict = TRUE
  BY Zenon DEF Init
<1>3. TypeOK
  BY <1>1, <1>2 DEF TypeOK, NoPlan, Plan, Nodes
<1>4. Supersteps
  BY <1>1 DEF Supersteps, Alone, Nodes, Specialists
<1>5. ~Gathering
  BY <1>1 DEF Gathering, Specialists
<1>6. NothingBefore /\ OnlyAsked /\ AllAreHeard /\ PlanIsComplete
  BY <1>1, <1>2, <1>5 DEF NothingBefore, OnlyAsked, AllAreHeard, PlanIsComplete,
       Wrote, Answered, Specialists, NoPlan, Understanding
<1>7. StoredAtEnd /\ BuiltOnce /\ Reviewed
  BY <1>1, <1>2 DEF StoredAtEnd, BuiltOnce, Reviewed
<1>8. QED
  BY <1>3, <1>4, <1>6, <1>7 DEF GraphInv

(* What main_parse leaves alone: everything but the intent and the fields. *)
LEMMA MainParseKeeps ==
  ASSUME GraphInv, MainParse
  PROVE  GraphInv'
<1> USE DEF GraphInv
<1>1. PICK i \in {"create", "adjust", "ask"} :
      \E fields \in (IF i = "adjust" THEN SUBSET Fields ELSE {{}}) :
        /\ intent' = i /\ changed' = fields
        /\ RunAlone("main_parse", Router(i, fields))
  BY DEF MainParse
<1>2. /\ tasks = {"main_parse"} /\ intent' \in {"create", "adjust", "ask"}
      /\ tasks' \in {{"finish"}, {"synthesis"}, {"dispatch"}}
      /\ changed' \subseteq Fields
  BY <1>1 DEF RunAlone, Router
<1>3. UNCHANGED <<open, cached, results, itinerary, qualityOk, retryCount, writes, ended,
                  asked, verdict, builds, stored>>
  BY DEF MainParse, RunAlone, history
<1>4. /\ asked = {} /\ results = {} /\ builds = 0 /\ ~itinerary.built /\ ~cached
      /\ writes = {} /\ ended = "no"
  BY <1>2 DEF NothingBefore, Understanding, AllAreHeard, Gathering, Specialists, TypeOK
<1>5. TypeOK'
  BY <1>2, <1>3, <1>4 DEF TypeOK, Nodes
<1>6. Supersteps' /\ ~Gathering'
  BY <1>2 DEF Supersteps, Alone, Nodes, Specialists, Gathering
<1>7. NothingBefore' /\ OnlyAsked' /\ AllAreHeard' /\ PlanIsComplete'
  BY <1>2, <1>3, <1>4, <1>6
  DEF NothingBefore, OnlyAsked, AllAreHeard, PlanIsComplete, Wrote, Answered,
      Specialists
<1>8. StoredAtEnd' /\ BuiltOnce' /\ Reviewed'
  BY <1>2, <1>3, <1>4 DEF StoredAtEnd, BuiltOnce, Reviewed
<1>9. QED
  BY <1>5, <1>6, <1>7, <1>8

LEMMA MainParseEndsKeeps ==
  ASSUME GraphInv, MainParseCached \/ MainParseRaises
  PROVE  GraphInv'
<1> USE DEF GraphInv
<1>1. /\ tasks = {"main_parse"} /\ tasks' \in {{"finish"}, {}}
      /\ ended' = IF tasks' = {} THEN "raised" ELSE ended
      /\ UNCHANGED <<open, changed, results, qualityOk, retryCount, writes, asked,
                     verdict, builds, stored>>
  BY DEF MainParseCached, MainParseRaises, RunAlone, EndRun, channels, history
<1>2. /\ asked = {} /\ results = {} /\ builds = 0 /\ writes = {}
      /\ ~itinerary.built /\ ~cached /\ ended = "no"
  BY <1>1 DEF NothingBefore, Understanding, AllAreHeard, Gathering, Specialists, TypeOK
<1>3. /\ intent' \in {"unknown", "create", "adjust", "ask"}
      /\ cached' \in BOOLEAN /\ itinerary' \in Plan
      /\ ~itinerary'.built \/ cached'
  <2>1. CASE MainParseCached
    <3>1. PICK uses \in SUBSET Specialists :
            itinerary' = [exists |-> TRUE, built |-> TRUE, uses |-> uses]
      BY <2>1 DEF MainParseCached
    <3>2. intent' = "create" /\ cached' = TRUE
      BY <2>1 DEF MainParseCached
    <3>3. QED
      BY <3>1, <3>2 DEF Plan
  <2>2. CASE MainParseRaises
    BY <1>2, <2>2 DEF MainParseRaises, channels, TypeOK
  <2>3. QED
    BY <2>1, <2>2
<1>4. TypeOK'
  BY <1>1, <1>2, <1>3 DEF TypeOK, Nodes
<1>5. Supersteps' /\ ~Gathering'
  BY <1>1 DEF Supersteps, Alone, Nodes, Specialists, Gathering
<1>6. NothingBefore' /\ OnlyAsked' /\ AllAreHeard' /\ PlanIsComplete'
  BY <1>1, <1>2, <1>3, <1>5
  DEF NothingBefore, OnlyAsked, AllAreHeard, PlanIsComplete, Wrote, Answered,
      Specialists, Understanding
<1>7. stored = NoPlan
  BY <1>1 DEF StoredAtEnd
<1>8. StoredAtEnd' /\ BuiltOnce' /\ Reviewed'
  BY <1>1, <1>2, <1>7 DEF StoredAtEnd, BuiltOnce, Reviewed
<1>9. QED
  BY <1>4, <1>5, <1>6, <1>8

LEMMA DispatchKeeps ==
  ASSUME GraphInv, Dispatch
  PROVE  GraphInv'
<1> USE DEF GraphInv
<1>1. PICK subtasks \in SUBSET Specialists :
        /\ RunAlone("dispatch", FanOut(subtasks))
        /\ asked' = IF LocalAdjust THEN {} ELSE subtasks
  BY DEF Dispatch, Subtasks, Specialists
<1>2. /\ tasks = {"dispatch"} /\ results' = {}
      /\ UNCHANGED <<intent, open, changed, cached, itinerary, qualityOk, retryCount,
                     writes, ended, verdict, builds, stored>>
  BY <1>1 DEF Dispatch, RunAlone
<1>3. /\ asked' \subseteq Specialists
      /\ \/ tasks' \in {{"synthesis"}, {"route_optimize"}} /\ asked' = {}
         \/ tasks' = asked' /\ asked' # {}
  BY <1>1 DEF RunAlone, FanOut
<1>4. /\ builds = 0 /\ ~itinerary.built /\ ~cached /\ writes = {} /\ ended = "no"
  BY <1>2 DEF NothingBefore, Understanding, AllAreHeard, Gathering, Specialists, TypeOK
<1>5. TypeOK'
  BY <1>2, <1>3, <1>4 DEF TypeOK, Nodes
<1>6. Supersteps' /\ ~Understanding' /\ (Gathering' => tasks' = asked')
      /\ (~Gathering' => asked' = {})
  BY <1>3 DEF Supersteps, Alone, Nodes, Specialists, Gathering, Understanding
<1>7. NothingBefore' /\ OnlyAsked' /\ AllAreHeard' /\ PlanIsComplete'
  BY <1>2, <1>3, <1>4, <1>6
  DEF NothingBefore, OnlyAsked, AllAreHeard, PlanIsComplete, Wrote, Answered,
      Specialists
<1>8. stored = NoPlan
  BY <1>2 DEF StoredAtEnd
<1>9. StoredAtEnd' /\ BuiltOnce' /\ Reviewed'
  BY <1>2, <1>4, <1>8 DEF StoredAtEnd, BuiltOnce, Reviewed
<1>10. QED
  BY <1>5, <1>6, <1>7, <1>9

-----------------------------------------------------------------------------
(* The specialists end one after the other.                                *)
LEMMA SpecialistKeeps ==
  ASSUME GraphInv, NEW s \in Specialists, Specialist(s)
  PROVE  GraphInv'
<1> USE DEF GraphInv
<1>1. PICK status \in Status : writes' = writes \cup {<<s, status>>}
  BY DEF Specialist, Outcome, Status
<1>2. /\ s \in tasks /\ tasks' = tasks \ {s} /\ tasks' # {}
      /\ UNCHANGED <<channels, ended, history>>
  BY DEF Specialist
<1>3. UNCHANGED <<intent, open, changed, cached, results, itinerary, qualityOk,
                  retryCount, ended, asked, verdict, builds, stored>>
  BY <1>2 DEF channels, history
<1>4. Gathering /\ Gathering' /\ ~Understanding'
  BY <1>2 DEF Supersteps, Alone, Gathering, Understanding, Specialists
<1>5. TypeOK'
  BY <1>1, <1>2, <1>3 DEF TypeOK
<1>6. \A t \in Specialists : Wrote(t)' <=> Wrote(t) \/ t = s
  BY <1>1 DEF Wrote
<1>7. NothingBefore' /\ OnlyAsked' /\ AllAreHeard' /\ PlanIsComplete'
  <2>1. asked \subseteq Specialists
    BY DEF TypeOK
  <2>2. NothingBefore' /\ PlanIsComplete'
    BY <1>3, <1>4 DEF NothingBefore, PlanIsComplete
  <2>3. OnlyAsked'
    BY <1>2, <1>3, <1>6 DEF OnlyAsked, Answered
  <2>4. AllAreHeard'
    BY <1>2, <1>3, <1>4, <1>6, <2>1 DEF AllAreHeard
  <2>5. QED
    BY <2>2, <2>3, <2>4
<1>8. Supersteps'
  BY <1>4 DEF Supersteps
<1>9. StoredAtEnd' /\ BuiltOnce' /\ Reviewed'
  BY <1>2, <1>3, <1>4 DEF StoredAtEnd, BuiltOnce, Reviewed, AllAreHeard
<1>10. QED
  BY <1>5, <1>7, <1>8, <1>9

LEMMA LastSpecialistKeeps ==
  ASSUME GraphInv, NEW s \in Specialists, LastSpecialist(s)
  PROVE  GraphInv'
<1> USE DEF GraphInv
<1>1. PICK status \in Status : results' = results \cup writes \cup {<<s, status>>}
  BY DEF LastSpecialist, Outcome, Status
<1>2. /\ tasks = {s} /\ writes' = {} /\ tasks' = {"route_optimize"}
      /\ UNCHANGED <<intent, open, changed, cached, itinerary, qualityOk, retryCount,
                     ended, asked, verdict, builds, stored>>
  BY DEF LastSpecialist, history
<1>3. Gathering /\ ~Gathering' /\ ~Understanding' /\ asked \subseteq Specialists
  BY <1>2 DEF Gathering, Understanding, Specialists, TypeOK
<1>4. TypeOK'
  BY <1>1, <1>2 DEF TypeOK, Nodes, Agents
<1>5. \A t \in Specialists : Answered(t)' <=> Answered(t) \/ Wrote(t) \/ t = s
  BY <1>1 DEF Wrote, Answered
<1>6. NothingBefore' /\ OnlyAsked' /\ AllAreHeard' /\ PlanIsComplete'
  <2>1. NothingBefore' /\ PlanIsComplete'
    BY <1>2, <1>3 DEF NothingBefore, PlanIsComplete, AllAreHeard
  <2>2. OnlyAsked'
    BY <1>2, <1>3, <1>5 DEF OnlyAsked, Wrote, Specialists
  <2>3. AllAreHeard'
    BY <1>2, <1>3, <1>5 DEF AllAreHeard
  <2>4. QED
    BY <2>1, <2>2, <2>3
<1>7. Supersteps'
  BY <1>2 DEF Supersteps, Alone, Nodes, Specialists
<1>8. StoredAtEnd' /\ BuiltOnce' /\ Reviewed'
  BY <1>2, <1>3 DEF StoredAtEnd, BuiltOnce, Reviewed, AllAreHeard
<1>9. QED
  BY <1>4, <1>6, <1>7, <1>8

-----------------------------------------------------------------------------
(* The agents after them answer for nobody but themselves.                 *)
LEMMA AnswersApart ==
  ASSUME NEW agent \in Agents \ Specialists, NEW status \in Status, Answers(agent, status)
  PROVE  /\ \A s \in Specialists : \A st : <<s, st>> \in results' <=> <<s, st>> \in results
         /\ \A s \in Specialists : Answered(s)' <=> Answered(s)
         /\ Answered(agent)'
         /\ Answered("ReflectionAgent") => Answered("ReflectionAgent")'
  BY DEF Answers, Answered

(* What holds of the specialists goes on to hold when they are done.       *)
LEMMA HeardKeeps ==
  ASSUME GraphInv, ~Gathering, ~Gathering', ~Understanding, ~Understanding',
         tasks' \cap Specialists = {},
         UNCHANGED <<writes, asked>>,
         \A s \in Specialists : Answered(s)' <=> Answered(s)
  PROVE  NothingBefore' /\ OnlyAsked' /\ AllAreHeard'
<1>1. NothingBefore'
  BY DEF NothingBefore
<1>2. OnlyAsked'
  BY DEF GraphInv, OnlyAsked, Wrote
<1>3. AllAreHeard'
  BY DEF GraphInv, AllAreHeard, TypeOK
<1>4. QED
  BY <1>1, <1>2, <1>3

LEMMA PrepareKeeps ==
  ASSUME GraphInv, RouteOptimize \/ Validate
  PROVE  GraphInv'
<1> USE DEF GraphInv
<1>1. /\ tasks \in {{"route_optimize"}, {"validate"}}
      /\ tasks' \in {{"validate"}, {"synthesis"}}
      /\ UNCHANGED <<intent, open, changed, cached, itinerary, qualityOk, retryCount,
                     writes, ended, asked, verdict, builds, stored>>
  BY DEF RouteOptimize, Validate, RunAlone, history
<1>2. PICK agent \in {"RouteAgent", "ValidatorAgent"}, status \in Status :
        Answers(agent, status)
  BY DEF RouteOptimize, Validate, Outcome, Status
<1>3. agent \in Agents \ Specialists
  BY DEF Agents, Specialists
<1>4. /\ ~Gathering /\ ~Gathering' /\ ~Understanding /\ ~Understanding' /\ Supersteps'
      /\ tasks' \cap Specialists = {}
  BY <1>1 DEF Supersteps, Alone, Gathering, Understanding, Nodes, Specialists
<1>5. TypeOK'
  BY <1>1, <1>2, <1>3 DEF TypeOK, Nodes, Answers
<1>6. NothingBefore' /\ OnlyAsked' /\ AllAreHeard'
  BY <1>1, <1>2, <1>3, <1>4, AnswersApart, HeardKeeps
<1>7. PlanIsComplete'
  BY <1>1, <1>2, <1>3, AnswersApart DEF PlanIsComplete
<1>8. StoredAtEnd' /\ BuiltOnce' /\ Reviewed'
  BY <1>1 DEF StoredAtEnd, BuiltOnce, Reviewed
<1>9. QED
  BY <1>4, <1>5, <1>6, <1>7, <1>8

LEMMA SynthesisKeeps ==
  ASSUME GraphInv, Synthesis
  PROVE  GraphInv'
<1> USE DEF GraphInv
<1>1. PICK status \in Status :
        /\ Answers("SynthesisAgent", status)
        /\ itinerary' = IF status = "failed" THEN NoPlan
                        ELSE [exists |-> TRUE, built |-> TRUE,
                              uses |-> {s \in Specialists : <<s, "success">> \in results}]
  BY DEF Synthesis, Outcome, Status
<1>2. /\ tasks = {"synthesis"} /\ tasks' = {"reflect"} /\ builds' = builds + 1
      /\ UNCHANGED <<intent, open, changed, cached, qualityOk, retryCount, writes, ended,
                     asked, verdict, stored>>
  BY DEF Synthesis, RunAlone
<1>3. "SynthesisAgent" \in Agents \ Specialists
  BY DEF Agents, Specialists
<1>4. /\ ~Gathering /\ ~Gathering' /\ ~Understanding /\ ~Understanding' /\ Supersteps'
      /\ tasks' \cap Specialists = {}
  BY <1>2 DEF Supersteps, Alone, Gathering, Understanding, Nodes, Specialists
<1>5. itinerary' \in Plan
  BY <1>1 DEF Plan
<1>6. TypeOK'
  BY <1>1, <1>2, <1>3, <1>5 DEF TypeOK, Nodes, Answers
<1>7. NothingBefore' /\ OnlyAsked' /\ AllAreHeard'
  BY <1>1, <1>2, <1>3, <1>4, AnswersApart, HeardKeeps
<1>8. PlanIsComplete'
  <2>1. {s \in Specialists : <<s, "success">> \in results'}
          = {s \in Specialists : <<s, "success">> \in results}
    BY <1>1, <1>3, AnswersApart
  <2>2. QED
    BY <1>1, <2>1 DEF PlanIsComplete, NoPlan
<1>9. stored = NoPlan /\ builds = 0
  BY <1>2 DEF StoredAtEnd, BuiltOnce
<1>10. StoredAtEnd' /\ BuiltOnce' /\ Reviewed'
  BY <1>2, <1>9 DEF StoredAtEnd, BuiltOnce, Reviewed
<1>11. QED
  BY <1>4, <1>6, <1>7, <1>8, <1>10

(* The review does not keep quality_ok and retry_count, no channel does.   *)
LEMMA NotKept ==
  ASSUME NEW key \in {"quality_ok", "retry_count"}, NEW old, NEW new
  PROVE  Updated(key, old, new) = old
  BY DEF Updated, TravelState

LEMMA SkipReviewKeeps ==
  ASSUME GraphInv, SkipReview
  PROVE  GraphInv'
<1> USE DEF GraphInv
<1>1. qualityOk' = qualityOk /\ verdict' = TRUE /\ LocalAdjust
  BY NotKept DEF SkipReview
<1>2. /\ tasks = {"reflect"} /\ tasks' = {"finish"}
      /\ UNCHANGED <<intent, open, changed, cached, results, itinerary, retryCount,
                     writes, ended, asked, builds, stored>>
  BY <1>1 DEF SkipReview, RunAlone, QualityRouter, BuiltOnce
<1>3. /\ ~Gathering /\ ~Gathering' /\ ~Understanding /\ ~Understanding' /\ Supersteps'
      /\ tasks' \cap Specialists = {}
  BY <1>2 DEF Supersteps, Alone, Gathering, Understanding, Nodes, Specialists
<1>4. TypeOK'
  BY <1>1, <1>2 DEF TypeOK, Nodes
<1>5. NothingBefore' /\ OnlyAsked' /\ AllAreHeard'
  BY <1>2, <1>3, HeardKeeps DEF Answered
<1>6. PlanIsComplete'
  BY <1>2 DEF PlanIsComplete
<1>7. StoredAtEnd' /\ BuiltOnce' /\ Reviewed'
  BY <1>1, <1>2 DEF StoredAtEnd, BuiltOnce, Reviewed, LocalAdjust
<1>8. QED
  BY <1>3, <1>4, <1>5, <1>6, <1>7

LEMMA ReflectKeeps ==
  ASSUME GraphInv, Reflect
  PROVE  GraphInv'
<1> USE DEF GraphInv
<1>1. PICK status \in Status : Answers("ReflectionAgent", status)
  BY DEF Reflect, Outcome, Status
<1>2. /\ qualityOk' = qualityOk /\ retryCount' = retryCount
      /\ itinerary' = [itinerary EXCEPT !.exists = TRUE]
      /\ verdict' \in BOOLEAN
  BY NotKept DEF Reflect
<1>3. /\ tasks = {"reflect"} /\ tasks' = {"finish"}
      /\ UNCHANGED <<intent, open, changed, cached, writes, ended, asked, builds, stored>>
  BY <1>2 DEF Reflect, RunAlone, QualityRouter, BuiltOnce
<1>4. "ReflectionAgent" \in Agents \ Specialists
  BY DEF Agents, Specialists
<1>5. /\ ~Gathering /\ ~Gathering' /\ ~Understanding /\ ~Understanding' /\ Supersteps'
      /\ tasks' \cap Specialists = {}
  BY <1>3 DEF Supersteps, Alone, Gathering, Understanding, Nodes, Specialists
<1>6. /\ itinerary' \in Plan
      /\ itinerary'.built = itinerary.built /\ itinerary'.uses = itinerary.uses
  <2>1. itinerary = NoPlan \/ itinerary \in [exists : {TRUE}, built : BOOLEAN, uses : SUBSET Specialists]
    BY DEF TypeOK, Plan
  <2>2. CASE itinerary = NoPlan
    BY <1>2, <2>2 DEF Plan, NoPlan
  <2>3. CASE itinerary \in [exists : {TRUE}, built : BOOLEAN, uses : SUBSET Specialists]
    <3>1. itinerary' \in [exists : {TRUE}, built : BOOLEAN, uses : SUBSET Specialists]
      BY <1>2, <2>3
    <3>2. QED
      BY <1>2, <2>3, <3>1 DEF Plan
  <2>4. QED
    BY <2>1, <2>2, <2>3
<1>7. TypeOK'
  BY <1>1, <1>2, <1>3, <1>4, <1>6 DEF TypeOK, Nodes, Answers
<1>8. NothingBefore' /\ OnlyAsked' /\ AllAreHeard'
  BY <1>1, <1>3, <1>4, <1>5, AnswersApart, HeardKeeps
<1>9. PlanIsComplete'
  BY <1>1, <1>3, <1>4, <1>6, AnswersApart DEF PlanIsComplete
<1>10. stored = NoPlan /\ Answered("ReflectionAgent")'
  BY <1>1, <1>3, <1>4, AnswersApart DEF StoredAtEnd
<1>11. StoredAtEnd' /\ BuiltOnce' /\ Reviewed'
  BY <1>2, <1>3, <1>10 DEF StoredAtEnd, BuiltOnce, Reviewed
<1>12. QED
  BY <1>5, <1>7, <1>8, <1>9, <1>11

LEMMA FinishKeeps ==
  ASSUME GraphInv, Finish
  PROVE  GraphInv'
<1> USE DEF GraphInv
<1>1. /\ tasks = {"finish"} /\ tasks' = {} /\ ended' = "answered"
      /\ stored' \in {itinerary, stored}
      /\ UNCHANGED <<intent, open, changed, cached, results, itinerary, qualityOk,
                     retryCount, writes, asked, verdict, builds>>
  BY DEF Finish, EndRun, channels
<1>2. stored = NoPlan
  BY <1>1 DEF StoredAtEnd
<1>3. /\ ~Gathering /\ ~Gathering' /\ ~Understanding /\ ~Understanding' /\ Supersteps'
      /\ tasks' \cap Specialists = {}
  BY <1>1 DEF Supersteps, Alone, Gathering, Understanding, Nodes, Specialists
<1>4. TypeOK'
  BY <1>1 DEF TypeOK
<1>5. NothingBefore' /\ OnlyAsked' /\ AllAreHeard'
  BY <1>1, <1>3, HeardKeeps DEF Answered
<1>6. PlanIsComplete'
  BY <1>1 DEF PlanIsComplete
<1>7. StoredAtEnd' /\ BuiltOnce' /\ Reviewed'
  BY <1>1, <1>2 DEF StoredAtEnd, BuiltOnce, Reviewed, LocalAdjust, Answered
<1>8. QED
  BY <1>3, <1>4, <1>5, <1>6, <1>7

-----------------------------------------------------------------------------
LEMMA GraphStep == GraphInv /\ [Next]_vars => GraphInv'
<1> SUFFICES ASSUME GraphInv, [Next]_vars PROVE GraphInv'
  OBVIOUS
<1>1. CASE UNCHANGED vars
  BY <1>1 DEF vars, channels, engine, history, GraphInv, TypeOK, Supersteps, Alone,
       NothingBefore, OnlyAsked, AllAreHeard, PlanIsComplete, StoredAtEnd, BuiltOnce,
       Reviewed, Understanding, Gathering, Wrote, Answered, LocalAdjust
<1>2. QED
  BY <1>1, MainParseKeeps, MainParseEndsKeeps, DispatchKeeps, SpecialistKeeps,
     LastSpecialistKeeps, PrepareKeeps, SynthesisKeeps, SkipReviewKeeps, ReflectKeeps,
     FinishKeeps
  DEF Next

(* The channels and the engine hold what they may hold, and a run that is  *)
(* not over has a task.                                                    *)
THEOREM GraphTyped == Spec => []TypeOK
<1>1. GraphInv => TypeOK
  BY DEF GraphInv
<1>2. QED
  BY GraphInitially, GraphStep, <1>1, PTL DEF Spec

(* What is stored uses the findings of all who were asked and succeeded,   *)
(* whatever order the specialists ended in.                                *)
THEOREM FindingsReachThePlan == Spec => []PlanUsesFindings
<1>1. GraphInv => PlanUsesFindings
  <2> SUFFICES ASSUME GraphInv, stored.built, ~cached
               PROVE  /\ \A s \in asked : Answered(s)
                      /\ stored.uses = {s \in asked : <<s, "success">> \in results}
    BY DEF PlanUsesFindings
  <2>1. tasks = {} /\ stored = itinerary
    BY DEF GraphInv, StoredAtEnd, NoPlan
  <2>2. ~Gathering /\ ~Understanding
    BY <2>1 DEF Gathering, Understanding
  <2>3. \A s \in asked : Answered(s)
    BY <2>2 DEF GraphInv, AllAreHeard
  <2>4. stored.uses = {s \in Specialists : <<s, "success">> \in results}
    BY <2>1 DEF GraphInv, PlanIsComplete
  <2>5. \A s \in Specialists : <<s, "success">> \in results => s \in asked
    BY DEF GraphInv, OnlyAsked, Answered, Status
  <2>6. asked \subseteq Specialists
    BY DEF GraphInv, TypeOK
  <2>7. QED
    BY <2>3, <2>4, <2>5, <2>6
<1>2. QED
  BY GraphInitially, GraphStep, <1>1, PTL DEF Spec

(* No answer carries a plan that was built and that nobody looked at.      *)
THEOREM PlansAreReviewed == Spec => []NothingUnreviewed
<1>1. GraphInv => NothingUnreviewed
  BY DEF GraphInv, NothingUnreviewed, Reviewed, TypeOK
<1>2. QED
  BY GraphInitially, GraphStep, <1>1, PTL DEF Spec

-----------------------------------------------------------------------------
(* The pipeline.                                                           *)

LEMMA StillMissingInitially == Init => StillMissing
  BY DEF Init, StillMissing, Gathering, Specialists

(* Nobody is sent twice, and nobody is at work after the last one.         *)
LEMMA StillMissingStep == GraphInv /\ StillMissing /\ [Next]_vars => StillMissing'
<1> SUFFICES ASSUME GraphInv, StillMissing, [Next]_vars PROVE StillMissing'
  OBVIOUS
<1>1. CASE UNCHANGED vars
  BY <1>1 DEF vars, channels, engine, StillMissing, Gathering, Wrote, Answered
<1>2. CASE Dispatch
  <2>1. tasks = {"dispatch"} /\ results' = {} /\ writes' = writes
    BY <1>2 DEF Dispatch, RunAlone
  <2>2. writes = {}
    BY <2>1 DEF GraphInv, AllAreHeard, Gathering, Specialists
  <2>3. QED
    BY <2>1, <2>2 DEF StillMissing, Answered, Wrote
<1>3. ASSUME NEW s \in Specialists, Specialist(s)
      PROVE  StillMissing'
  <2>1. PICK status \in Status : writes' = writes \cup {<<s, status>>}
    BY <1>3 DEF Specialist, Outcome, Status
  <2>2. s \in tasks /\ tasks' = tasks \ {s} /\ results' = results
    BY <1>3 DEF Specialist, channels
  <2>3. Gathering
    BY <2>2 DEF GraphInv, Supersteps, Alone, Gathering, Specialists
  <2>4. QED
    BY <2>1, <2>2, <2>3 DEF StillMissing, Answered, Wrote
<1>4. CASE \/ MainParse \/ MainParseCached \/ MainParseRaises
           \/ \E s \in Specialists : LastSpecialist(s)
           \/ RouteOptimize \/ Validate \/ Synthesis \/ SkipReview \/ Reflect \/ Finish
  <2>1. \/ tasks' = {}
        \/ \E n \in {"finish", "synthesis", "dispatch", "route_optimize", "validate",
                      "reflect"} : tasks' = {n}
    BY <1>4 DEF MainParse, MainParseCached, MainParseRaises, LastSpecialist, RouteOptimize,
         Validate, Synthesis, SkipReview, Reflect, Finish, RunAlone, EndRun, Router,
         QualityRouter
  <2>2. ~Gathering'
    BY <2>1 DEF Gathering, Specialists
  <2>3. QED
    BY <2>2 DEF StillMissing
<1>5. QED
  BY <1>1, <1>2, <1>3, <1>4 DEF Next

(* Which phase a superstep belongs to.                                     *)
PhasesFollowTasks ==
  /\ Understanding => Phase = "understand"
  /\ Gathering => Phase = "gather"
  /\ tasks \in {{"route_optimize"}, {"validate"}, {"synthesis"}} => Phase = "prepare"
  /\ tasks = {"reflect"} => Phase = "review"
  /\ tasks = {"finish"} => Phase = "answer"
  /\ tasks = {} => Phase = "ended"

LEMMA PhasesNowAndNext == PhasesFollowTasks /\ PhasesFollowTasks'
<1>1. PhasesFollowTasks
  BY DEF PhasesFollowTasks, Phase, Understanding, Gathering, Specialists
<1>2. PhasesFollowTasks'
  BY DEF PhasesFollowTasks, Phase, Understanding, Gathering, Specialists
<1>3. QED
  BY <1>1, <1>2

(* Who is missing: while the specialists gather those at work, else nobody. *)
MissingIsAtWork == Missing = IF Gathering THEN tasks ELSE {}

LEMMA MissingNow ==
  ASSUME GraphInv, StillMissing
  PROVE  MissingIsAtWork
<1> DEFINE silent == {s \in asked : ~Answered(s) /\ \A status \in Status : <<s, status>> \notin writes}
<1>1. asked \subseteq Specialists /\ PhasesFollowTasks
  BY PhasesNowAndNext DEF GraphInv, TypeOK
<1>2. Missing = IF Phase = "understand" THEN {} ELSE silent
  BY DEF Missing
<1>3. CASE Gathering
  <2>1. Phase = "gather"
    BY <1>1, <1>3 DEF PhasesFollowTasks
  <2>2. tasks \subseteq Specialists /\ tasks \subseteq asked
    BY <1>3 DEF Gathering, GraphInv, OnlyAsked
  <2>3. silent = tasks
    BY <1>1, <1>3, <2>2 DEF GraphInv, AllAreHeard, StillMissing, Wrote
  <2>4. QED
    BY <1>2, <1>3, <2>1, <2>3 DEF MissingIsAtWork
<1>4. CASE Understanding
  BY <1>1, <1>2, <1>4 DEF PhasesFollowTasks, MissingIsAtWork, Understanding, Gathering,
     Specialists
<1>5. CASE ~Gathering /\ ~Understanding
  <2>1. silent = {}
    BY <1>5 DEF GraphInv, AllAreHeard
  <2>2. QED
    BY <1>2, <1>5, <2>1 DEF MissingIsAtWork
<1>6. QED
  BY <1>3, <1>4, <1>5

(* Every step of the graph is one of the pipeline, or none.                *)
LEMMA StepIsPiped ==
  ASSUME GraphInv, StillMissing, GraphInv', MissingIsAtWork', [Next]_vars
  PROVE  PL!Next \/ UNCHANGED PL!vars
<1>1. /\ PhasesFollowTasks /\ PhasesFollowTasks'
      /\ MissingIsAtWork /\ MissingIsAtWork'
  BY PhasesNowAndNext, MissingNow
<1> USE MaxRetriesIsNat DEF PhasesFollowTasks, MissingIsAtWork, Understanding, Gathering,
    Specialists
<1>2. CASE MainParse
  <2>1. /\ tasks = {"main_parse"} /\ builds' = builds
        /\ tasks' \in {{"finish"}, {"synthesis"}, {"dispatch"}}
    BY <1>2 DEF MainParse, RunAlone, Router, history
  <2>2. QED
    BY <1>1, <2>1 DEF PL!Next, PL!Understand, PL!vars
<1>3. CASE MainParseCached \/ MainParseRaises
  <2>1. /\ tasks = {"main_parse"} /\ builds' = builds /\ tasks' \in {{"finish"}, {}}
    BY <1>3 DEF MainParseCached, MainParseRaises, RunAlone, EndRun, history
  <2>2. QED
    BY <1>1, <2>1 DEF PL!Next, PL!Understand, PL!GiveUp
<1>4. CASE Dispatch
  <2>1. PICK subtasks \in SUBSET Specialists : RunAlone("dispatch", FanOut(subtasks))
    BY <1>4 DEF Dispatch, Subtasks
  <2>2. tasks = {"dispatch"} /\ builds' = builds
    BY <1>4 DEF Dispatch, RunAlone
  <2>3. CASE tasks' \in {{"synthesis"}, {"route_optimize"}}
    BY <1>1, <2>2, <2>3 DEF PL!Next, PL!Understand
  <2>4. CASE tasks' # {} /\ tasks' \subseteq Specialists
    BY <1>1, <2>2, <2>4 DEF PL!Next, PL!Understand
  <2>5. QED
    BY <2>1, <2>3, <2>4 DEF RunAlone, FanOut
<1>5. ASSUME NEW s \in Specialists, Specialist(s)
      PROVE  PL!Next
  <2>1. s \in tasks /\ tasks' = tasks \ {s} /\ tasks' # {} /\ builds' = builds
    BY <1>5 DEF Specialist, history
  <2>2. Gathering /\ Gathering'
    BY <2>1 DEF GraphInv, Supersteps, Alone
  <2>3. QED
    BY <1>1, <2>1, <2>2 DEF PL!Next, PL!Hear
<1>6. ASSUME NEW s \in Specialists, LastSpecialist(s)
      PROVE  PL!Next
  <2>1. tasks = {s} /\ tasks' = {"route_optimize"} /\ builds' = builds
    BY <1>6 DEF LastSpecialist, history
  <2>2. Gathering /\ ~Gathering'
    BY <2>1
  <2>3. QED
    BY <1>1, <2>1, <2>2 DEF PL!Next, PL!Hear
<1>7. CASE RouteOptimize \/ Validate
  <2>1. /\ tasks \in {{"route_optimize"}, {"validate"}}
        /\ tasks' \in {{"validate"}, {"synthesis"}} /\ builds' = builds
    BY <1>7 DEF RouteOptimize, Validate, RunAlone, history
  <2>2. QED
    BY <1>1, <2>1 DEF PL!vars
<1>8. CASE Synthesis
  <2>1. tasks = {"synthesis"} /\ tasks' = {"reflect"} /\ builds' = builds + 1
    BY <1>8 DEF Synthesis, RunAlone
  <2>2. builds = 0 /\ builds < 1 + MaxRetries
    BY <2>1 DEF GraphInv, BuiltOnce
  <2>3. QED
    BY <1>1, <2>1, <2>2 DEF PL!Next, PL!Build
<1>9. CASE SkipReview \/ Reflect
  <2>1. tasks = {"reflect"} /\ tasks' = {"finish"} /\ builds' = builds
    <3>1. qualityOk' = TRUE
      BY <1>9, NotKept DEF SkipReview, Reflect, GraphInv, BuiltOnce
    <3>2. QED
      BY <1>9, <3>1 DEF SkipReview, Reflect, RunAlone, QualityRouter
  <2>2. QED
    BY <1>1, <2>1 DEF PL!Next, PL!Review
<1>10. CASE Finish
  <2>1. tasks = {"finish"} /\ tasks' = {} /\ builds' = builds
    BY <1>10 DEF Finish, EndRun
  <2>2. QED
    BY <1>1, <2>1 DEF PL!Next, PL!Answer
<1>11. CASE UNCHANGED vars
  <2>1. tasks' = tasks /\ builds' = builds /\ Phase' = Phase
    BY <1>11 DEF vars, engine, history, Phase
  <2>2. QED
    BY <1>1, <2>1 DEF PL!vars
<1>12. QED
  BY <1>2, <1>3, <1>4, <1>5, <1>6, <1>7, <1>8, <1>9, <1>10, <1>11 DEF Next

(* The supersteps keep the promises of the pipeline, with any number of    *)
(* retries.                                                                *)
THEOREM PipelineIsKept == Spec => PipelineKept
<1>1. Init => PL!Init
  <2> SUFFICES ASSUME Init PROVE PL!Init
    OBVIOUS
  <2>1. Phase = "understand"
    BY PhasesNowAndNext DEF Init, PhasesFollowTasks, Understanding
  <2>2. QED
    BY <2>1 DEF Init, PL!Init, Missing
<1>2. GraphInv /\ StillMissing => MissingIsAtWork
  BY MissingNow
<1>3. /\ GraphInv /\ StillMissing /\ GraphInv' /\ MissingIsAtWork' /\ [Next]_vars
        => [PL!Next]_(PL!vars)
  BY StepIsPiped
<1>4. QED
  BY GraphInitially, GraphStep, StillMissingInitially, StillMissingStep, <1>1, <1>2, <1>3, PTL
  DEF Spec, PipelineKept, PL!Spec
=============================================================================
