-------------------------- MODULE MCLoginSessions --------------------------
(* Two browsers of one account: two calls of d1's page overlap, d2 only    *)
(* logs in and out.                                                        *)
EXTENDS LoginSessions

CONSTANTS d1, d2, c1, c2

MCCalls == {c1, c2}
MCPageOf == [c \in MCCalls |-> d1]
=============================================================================
