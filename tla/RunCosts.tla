------------------------------ MODULE RunCosts ------------------------------
(***************************************************************************)
(* What the runs cost: the counters of AgentMetrics belong to the process, *)
(* and a run is charged what they grew by between its begin and its end    *)
(* (chat of routes.py).  Runs wait for the LLM and overlap; alerts and     *)
(* evaluations ask it too; administrators reset the counters.              *)
(*                                                                         *)
(* One counter stands for prompt and completion tokens, which go together. *)
(***************************************************************************)
EXTENDS Integers, FiniteSetsExt

CONSTANTS
  Runs,
  MaxTokens,           \* bound on the counter
  MaxResets            \* bound on resets and restarts

ASSUME TokensAssumption == MaxTokens \in Nat /\ MaxResets \in Nat

VARIABLES
  counted,             \* metrics, since it was reset last
  runState,            \* "new", "running", "ended" or "lost"
  before,              \* the counter when the run began
  used,                \* the tokens of the run itself
  beside,              \* those counted for others while it ran
  charged,             \* what its row in agent_runs says
  cut,                 \* the runs under way at a reset
  resets

costVars == <<counted, runState, before, used, beside, charged, cut, resets>>

Running == {r \in Runs : runState[r] = "running"}

CostsTypeOK ==
  /\ counted \in 0 .. MaxTokens
  /\ runState \in [Runs -> {"new", "running", "ended", "lost"}]
  /\ before \in [Runs -> 0 .. MaxTokens]
  /\ used \in [Runs -> Nat]
  /\ beside \in [Runs -> Nat]
  /\ charged \in [Runs -> Nat]
  /\ cut \subseteq Runs
  /\ resets \in 0 .. MaxResets

CostsInit ==
  /\ counted = 0
  /\ runState = [r \in Runs |-> "new"]
  /\ before = [r \in Runs |-> 0]
  /\ used = [r \in Runs |-> 0]
  /\ beside = [r \in Runs |-> 0]
  /\ charged = [r \in Runs |-> 0]
  /\ cut = {}
  /\ resets = 0

-----------------------------------------------------------------------------
(* Mutant: the counter is not read when the run begins. *)
RunBeginsUnread(r) ==
  /\ runState[r] = "new"
  /\ runState' = [runState EXCEPT ![r] = "running"]
  /\ UNCHANGED <<counted, before, used, beside, charged, cut, resets>>

(* start_agent_run stores a row without tokens. *)
RunBegins(r) ==
  /\ runState[r] = "new"
  /\ runState' = [runState EXCEPT ![r] = "running"]
  /\ before' = [before EXCEPT ![r] = counted]
  /\ UNCHANGED <<counted, used, beside, charged, cut, resets>>

(* The LLM has answered; only an answer is counted. *)
Counts(asking) ==
  /\ counted < MaxTokens
  /\ counted' = counted + 1
  /\ used' = [r \in Runs |-> used[r] + (IF r \in asking THEN 1 ELSE 0)]
  /\ beside' = [r \in Runs |-> beside[r] + (IF r \in Running \ asking THEN 1 ELSE 0)]
  /\ UNCHANGED <<runState, before, charged, cut, resets>>

RunAnswered(r) == r \in Running /\ Counts({r})

(* An alert or an evaluation was answered. *)
OtherAnswered == Counts({})

(* Mutant: the difference is stored as it is. *)
RunEndsUnclamped(r) ==
  /\ r \in Running
  /\ runState' = [runState EXCEPT ![r] = "ended"]
  /\ charged' = [charged EXCEPT ![r] = counted - before[r]]
  /\ UNCHANGED <<counted, before, used, beside, cut, resets>>

(* save_agent_run, whether the run succeeded or failed. *)
RunEndsCharged(r) ==
  /\ r \in Running
  /\ runState' = [runState EXCEPT ![r] = "ended"]
  /\ charged' = [charged EXCEPT ![r] = Max({0, counted - before[r]})]
  /\ UNCHANGED <<counted, before, used, beside, cut, resets>>

ResetMetrics ==
  /\ resets < MaxResets
  /\ resets' = resets + 1
  /\ counted' = 0
  /\ cut' = cut \cup Running
  /\ UNCHANGED <<runState, before, used, beside, charged>>

(* The process starts again: the runs under way are lost. *)
ProcessRestarts ==
  /\ resets < MaxResets
  /\ resets' = resets + 1
  /\ counted' = 0
  /\ runState' = [r \in Runs |-> IF r \in Running THEN "lost" ELSE runState[r]]
  /\ UNCHANGED <<before, used, beside, charged, cut>>

CostsNext ==
  \/ \E r \in Runs : RunBegins(r) \/ RunAnswered(r) \/ RunEndsCharged(r)
  \/ OtherAnswered \/ ResetMetrics \/ ProcessRestarts

CostsSpec == CostsInit /\ [][CostsNext]_costVars

-----------------------------------------------------------------------------
(* Overlapping runs pay for each other, but no run pays for more than was  *)
(* counted while it ran, and, unless the counters were reset meanwhile, it *)
(* pays for all it used itself; a run that was alone pays just that        *)
(* (routes.py 565, 643, 752).                                              *)
RunsPayTheirOwn ==
  \A r \in Runs : runState[r] = "ended" =>
    /\ charged[r] <= used[r] + beside[r]
    /\ r \notin cut => charged[r] >= used[r]
=============================================================================
