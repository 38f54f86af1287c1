---------------------------- MODULE MCAgentGraph ----------------------------
(* A small instance of AgentGraph for TLC. *)
EXTENDS AgentGraph

(* A field of each kind: local edits with and without specialists of their *)
(* own, one for each other rule of _build_adjust_subtasks, and one that no *)
(* rule knows.                                                             *)
MCFields == {"date", "budget", "food", "attraction", "city", "transport", "travelers"}
=============================================================================
