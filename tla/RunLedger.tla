----------------------------- MODULE RunLedger -----------------------------
(***************************************************************************)
(* What the agent_runs table promises to the people who read it (the chat  *)
(* status poll of the web client, the operations dashboard): a run is      *)
(* registered before any work is done for it, is settled at most once, and *)
(* its verdict is final.  Live says that every registered run is settled.  *)
(*                                                                         *)
(* TripChat is shown to implement this specification.                      *)
(***************************************************************************)
CONSTANT Runs

VARIABLE ledger

Status == {"none", "running", "success", "failed"}

Init == ledger = [r \in Runs |-> "none"]

Register(r) ==
  /\ ledger[r] = "none"
  /\ ledger' = [ledger EXCEPT ![r] = "running"]

Settle(r) ==
  /\ ledger[r] = "running"
  /\ \E verdict \in {"success", "failed"} :
       ledger' = [ledger EXCEPT ![r] = verdict]

Next == \E r \in Runs : Register(r) \/ Settle(r)

Spec == Init /\ [][Next]_ledger

Live == \A r \in Runs : WF_ledger(Settle(r))

LiveSpec == Spec /\ Live
=============================================================================
