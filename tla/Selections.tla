----------------------------- MODULE Selections -----------------------------
(***************************************************************************)
(* What a loop over a list, or a query with a condition, keeps of it.      *)
(***************************************************************************)
EXTENDS Naturals, Sequences

(* The elements at the places in I, in the order they have.                *)
Picked(s, I) ==
  LET f[n \in 0 .. Len(s)] ==
        IF n = 0 THEN << >>
        ELSE IF n \in I THEN Append(f[n - 1], s[n]) ELSE f[n - 1]
  IN f[Len(s)]

(* The elements that pass a test, in the order they have.                  *)
Chosen(s, Test(_)) == Picked(s, {i \in DOMAIN s : Test(s[i])})
=============================================================================
