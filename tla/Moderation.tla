----------------------------- MODULE Moderation -----------------------------
(* What the community promises the author of a guide: a guide waits until an    *)
(* administrator has decided on it, is decided on once, and is gone for good    *)
(* when its author takes it back. Community implements this with five tables.   *)

CONSTANT Guides

VARIABLE desk  \* where each guide is

Verdicts == {"approved", "rejected"}

States == {"new", "waiting", "withdrawn"} \cup Verdicts

Init == desk = [g \in Guides |-> "new"]

Submit(g) ==
  /\ desk[g] = "new"
  /\ desk' = [desk EXCEPT ![g] = "waiting"]

Decide(g, v) ==
  /\ desk[g] = "waiting"
  /\ desk' = [desk EXCEPT ![g] = v]

Withdraw(g) ==
  /\ desk[g] \in {"waiting"} \cup Verdicts
  /\ desk' = [desk EXCEPT ![g] = "withdrawn"]

Next ==
  \E g \in Guides :
    \/ Submit(g) \/ Withdraw(g)
    \/ \E v \in Verdicts : Decide(g, v)

Spec == Init /\ [][Next]_desk
=============================================================================
