----------------------------- MODULE MCTripChat -----------------------------
(* Small instances of TripChat for TLC. *)
EXTENDS TripChat, TLC

CONSTANTS c1, c2

(* The two chats are interchangeable. *)
Symmetry == Permutations({c1, c2})
=============================================================================
