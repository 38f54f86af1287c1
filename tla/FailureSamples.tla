--------------------------- MODULE FailureSamples ---------------------------
(***************************************************************************)
(* The samples that wait to be improved on: an evaluation stores those of  *)
(* its cases that failed or scored low, a rating of one or two stars adds  *)
(* one (eval/runner.py, eval_failures and user_feedback of db.py), and     *)
(* administrators mark them as fixed or open them again.                   *)
(*                                                                         *)
(* An evaluation stores all its samples in one transaction, a rating and   *)
(* its sample are two.  What a case scores does not matter here, but       *)
(* whether it passed and which checks of its plan it missed.               *)
(***************************************************************************)
EXTENDS Naturals, Sequences, SequencesExt, FiniteSetsExt

CONSTANTS
  Cases,               \* the cases, each also asked of the main agent
  Checks,              \* budget, days, route and source
  Targets,             \* what users rate
  Reports,             \* what evaluations may find
  MaxEvaluations,          \* bound on evaluations
  MaxRatings,          \* bound on ratings
  MaxFailures          \* bound on statements that fail

VARIABLES
  evaluations,         \* the evaluations that were stored, in order
  ratings,             \* user_feedback
  samples,             \* eval_failures: the status by <<run, case>>
  untracked,           \* the ratings whose sample could not be stored
  verdicts,            \* the last word of an administrator on a sample
  failures

sampleVars == <<evaluations, ratings, samples, untracked, verdicts, failures>>

-----------------------------------------------------------------------------
Result == [passed : BOOLEAN, missed : SUBSET Checks]
Evaluation == [plans : [Cases -> Result], mains : [Cases -> BOOLEAN]]
Rating == [stars : 1 .. 5, target : Targets]

ASSUME ReportsAssumption ==
  /\ Reports \subseteq Evaluation /\ IsFiniteSet(Checks) /\ Cardinality(Checks) = 4
  /\ MaxEvaluations \in Nat /\ MaxRatings \in Nat /\ MaxFailures \in Nat

SampleKeys ==
  ({"eval"} \X (1 .. MaxEvaluations) \X ({"plan", "main"} \X Cases))
    \cup ({"feedback"} \X (1 .. MaxRatings) \X Targets)

SamplesTypeOK ==
  /\ evaluations \in Seq(Evaluation)
  /\ ratings \in Seq(Rating)
  /\ DOMAIN samples \subseteq SampleKeys
  /\ \A k \in DOMAIN samples : samples[k] \in {"open", "fixed"}
  /\ untracked \subseteq DOMAIN ratings
  /\ DOMAIN verdicts \subseteq DOMAIN samples
  /\ failures \in 0 .. MaxFailures

SamplesInit ==
  /\ evaluations = << >>
  /\ ratings = << >>
  /\ samples = << >>
  /\ untracked = {}
  /\ verdicts = << >>
  /\ failures = 0

-----------------------------------------------------------------------------
(* save_eval_failures: a sample that is there already is opened again. *)
Opened(keys) ==
  [k \in DOMAIN samples \cup keys |-> IF k \in keys THEN "open" ELSE samples[k]]

(* _low_score_records: LOW_SCORE_THRESHOLD is 0.75, three checks of four.  *)
Low(report) ==
  {<<"plan", c>> : c \in {c \in Cases :
      ~ /\ report.plans[c].passed
        /\ 4 * (Cardinality(Checks) - Cardinality(report.plans[c].missed))
             > 3 * Cardinality(Checks)}}
  \cup {<<"main", c>> : c \in {c \in Cases : ~report.mains[c]}}

(* run_demo_eval, which draws a fresh id. *)
Evaluate(report) ==
  /\ Len(evaluations) < MaxEvaluations
  /\ evaluations' = Append(evaluations, report)
  /\ samples' = Opened({<<"eval", Len(evaluations) + 1, c>> : c \in Low(report)})
  /\ UNCHANGED <<ratings, untracked, verdicts, failures>>

(* Mutant: the samples of ratings share one run. *)
RateInOneRun(rating) ==
  /\ Len(ratings) < MaxRatings
  /\ ratings' = Append(ratings, rating)
  /\ samples' = IF rating.stars <= 2 THEN Opened({<<"feedback", 1, rating.target>>}) ELSE samples
  /\ UNCHANGED <<evaluations, untracked, verdicts, failures>>

(* save_user_feedback: the id of the rating makes the run of its sample. *)
Rate(rating) ==
  LET id == Len(ratings) + 1
      key == <<"feedback", id, rating.target>>
  IN /\ id <= MaxRatings
     /\ ratings' = Append(ratings, rating)
     /\ \/ /\ samples' = IF rating.stars <= 2 THEN Opened({key}) ELSE samples
           /\ UNCHANGED <<untracked, failures>>
        \/ /\ rating.stars <= 2
           /\ failures < MaxFailures
           /\ failures' = failures + 1
           /\ untracked' = untracked \cup {id}
           /\ UNCHANGED samples
     /\ UNCHANGED <<evaluations, verdicts>>

(* update_eval_failure_status *)
MarkSample(k, status) ==
  /\ k \in DOMAIN samples
  /\ samples' = [samples EXCEPT ![k] = status]
  /\ verdicts' = [j \in DOMAIN verdicts \cup {k} |-> IF j = k THEN status ELSE verdicts[j]]
  /\ UNCHANGED <<evaluations, ratings, untracked, failures>>

SamplesNext ==
  \/ \E report \in Reports : Evaluate(report)
  \/ \E rating \in Rating : Rate(rating)
  \/ \E k \in DOMAIN samples, status \in {"open", "fixed"} : MarkSample(k, status)

SamplesSpec == SamplesInit /\ [][SamplesNext]_sampleVars

-----------------------------------------------------------------------------
(* What went wrong is found again: each low rating and each case that      *)
(* failed or missed a check has a sample of its own, nothing else has one, *)
(* and a sample is open until an administrator says otherwise, however     *)
(* often the same case fails or the same trip is rated again (db.py 1057,  *)
(* 1201; runner.py 159).                                                   *)
LowScoresTracked ==
  LET wrong(i) ==
        {<<"eval", i, <<"main", c>>>> : c \in {c \in Cases : ~evaluations[i].mains[c]}}
        \cup {<<"eval", i, <<"plan", c>>>> :
               c \in {c \in Cases : evaluations[i].plans[c] # [passed |-> TRUE, missed |-> {}]}}
      unhappy == {i \in DOMAIN ratings : ratings[i].stars \in {1, 2}}
  IN /\ DOMAIN samples = (UNION {wrong(i) : i \in DOMAIN evaluations})
                          \cup {<<"feedback", i, ratings[i].target>> : i \in unhappy \ untracked}
     /\ \A k \in DOMAIN samples :
          samples[k] = IF k \in DOMAIN verdicts THEN verdicts[k] ELSE "open"
=============================================================================
