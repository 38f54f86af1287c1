---------------------------- MODULE PlanPipeline ----------------------------
(***************************************************************************)
(* What the planning graph promises, whatever route a message takes: the   *)
(* message is understood first; the specialists that are asked have all    *)
(* answered before a plan is built; a plan that is built is reviewed, at   *)
(* most MaxBuilds times, or is the result of a local edit, which needs no  *)
(* review; and the conversation gets exactly one answer.                   *)
(***************************************************************************)
EXTENDS Naturals

CONSTANTS Specialists, MaxBuilds

VARIABLES phase, missing, builds
vars == <<phase, missing, builds>>

Init == phase = "understand" /\ missing = {} /\ builds = 0

Understand ==
  /\ phase = "understand"
  /\ \/ phase' = "answer" /\ UNCHANGED missing
     \/ phase' = "prepare" /\ UNCHANGED missing
     \/ phase' = "gather" /\ missing' \in (SUBSET Specialists) \ {{}}
  /\ UNCHANGED builds

Hear(s) ==
  /\ phase = "gather" /\ s \in missing
  /\ missing' = missing \ {s}
  /\ phase' = IF missing' = {} THEN "prepare" ELSE "gather"
  /\ UNCHANGED builds

Build ==
  /\ phase = "prepare" /\ builds < MaxBuilds
  /\ phase' = "review"
  /\ builds' = builds + 1
  /\ UNCHANGED missing

Review ==
  /\ phase = "review"
  /\ phase' \in {"answer", "prepare"}
  /\ UNCHANGED <<missing, builds>>

Answer ==
  /\ phase = "answer"
  /\ phase' = "ended"
  /\ UNCHANGED <<missing, builds>>

GiveUp ==
  /\ phase = "understand"
  /\ phase' = "ended"
  /\ UNCHANGED <<missing, builds>>

Next ==
  Understand \/ (\E s \in Specialists : Hear(s)) \/ Build \/ Review \/ Answer
  \/ GiveUp

Spec == Init /\ [][Next]_vars

(* Every message is answered, or given up for an error. *)
LiveSpec == Spec /\ WF_vars(Next)
=============================================================================
