--------------------------- MODULE SequenceFacts ---------------------------
(***************************************************************************)
(* Facts about numbers and sequences that the proofs of the components     *)
(* share.  The induction theorems of the library take the formula they are *)
(* about as an operator; here a set of numbers stands for it, and its      *)
(* least element for the step of the induction.                            *)
(***************************************************************************)
EXTENDS SequencesExt, Selections, WellFoundedInduction, TLAPS

(* The natural numbers are well founded: a set of them that holds anything *)
(* has a least element, and a greatest one if it is bounded.               *)
LEMMA LeastNumber ==
  ASSUME NEW S \in SUBSET Nat, S # {}
  PROVE  \E m \in S : \A k \in S : m <= k
<1>1. PICK m \in S : \A k \in S : ~ (<<k, m>> \in OpToRel(<, Nat))
  BY NatLessThanWellFounded, WFMin
<1>2. \A k \in S : ~ (k < m)
  BY <1>1 DEF OpToRel
<1>3. QED
  BY <1>2

LEMMA GreatestNumber ==
  ASSUME NEW b \in Nat, NEW S \in SUBSET (0 .. b), S # {}
  PROVE  \E m \in S : \A k \in S : k <= m
<1> DEFINE T == {b - k : k \in S}
<1>1. \A k \in S : k \in 0 .. b /\ b - k \in Nat
  OBVIOUS
<1>2. T \in SUBSET Nat
  BY <1>1
<1>3. T # {}
  OBVIOUS
<1>4. PICK d \in T : \A e \in T : d <= e
  BY <1>2, <1>3, LeastNumber
<1>5. PICK m \in S : d = b - m
  BY <1>4
<1>6. ASSUME NEW k \in S PROVE k <= m
  <2>1. b - m <= b - k
    BY <1>4, <1>5
  <2>2. QED
    BY <1>1, <2>1
<1>7. QED
  BY <1>6

(* Induction: what holds of 0, and of n if it holds of n - 1, holds up to  *)
(* b.  Good is the set of the numbers it holds of.                         *)
LEMMA Induction ==
  ASSUME NEW b \in Nat, NEW Good, 0 \in Good, \A n \in 1 .. b : n - 1 \in Good => n \in Good
  PROVE  \A n \in 0 .. b : n \in Good
<1> DEFINE Bad == {n \in 0 .. b : n \notin Good}
<1> SUFFICES ASSUME Bad # {} PROVE FALSE
  OBVIOUS
<1>0. Bad \in SUBSET Nat
  OBVIOUS
<1>1. PICK m \in Bad : \A k \in Bad : m <= k
  BY <1>0, LeastNumber, Zenon
<1>2. m \in 1 .. b /\ m - 1 \in 0 .. b /\ m - 1 \notin Bad
  BY <1>1
<1>3. QED
  BY <1>1, <1>2

StepFunctions(b, X) == [(1 .. b) \X X -> X]

Follows(f, b, x0, G) == f[0] = x0 /\ \A n \in 1 .. b : f[n] = G[<<n, f[n - 1]>>]

(* A function may be defined by what it is at 0 and by how each value      *)
(* follows from the one before.                                            *)
LEMMA Recursion ==
  ASSUME NEW b \in Nat, NEW X, NEW x0 \in X, NEW G \in StepFunctions(b, X)
  PROVE  \E f \in [0 .. b -> X] : Follows(f, b, x0, G)
<1> USE DEF StepFunctions, Follows
<1> DEFINE Runs(f, m) == f[0] = x0 /\ \A n \in 1 .. m : f[n] = G[<<n, f[n - 1]>>]
           Good == {m \in 0 .. b : \E f \in [0 .. m -> X] : Runs(f, m)}
<1>1. 0 \in Good
  <2> DEFINE f == [n \in 0 .. 0 |-> x0]
  <2>1. f \in [0 .. 0 -> X] /\ f[0] = x0
    OBVIOUS
  <2>2. \A n \in 1 .. 0 : f[n] = G[<<n, f[n - 1]>>]
    OBVIOUS
  <2>3. 0 \in 0 .. b
    OBVIOUS
  <2> HIDE DEF f
  <2>4. QED
    BY <2>1, <2>2, <2>3
<1>2. ASSUME NEW m \in 1 .. b, m - 1 \in Good PROVE m \in Good
  <2>1. PICK f \in [0 .. m - 1 -> X] : Runs(f, m - 1)
    BY <1>2
  <2> DEFINE x == G[<<m, f[m - 1]>>]
             g == [n \in 0 .. m |-> IF n = m THEN x ELSE f[n]]
  <2>2. f[m - 1] \in X /\ x \in X
    OBVIOUS
  <2>3. g \in [0 .. m -> X]
    BY <2>2
  <2>4. \A n \in 0 .. m - 1 : g[n] = f[n]
    OBVIOUS
  <2>5. g[m] = x
    OBVIOUS
  <2> HIDE DEF g, x
  <2>6. ASSUME NEW n \in 1 .. m PROVE g[n] = G[<<n, g[n - 1]>>]
    <3>1. CASE n = m
      <4>1. m - 1 \in 0 .. m - 1
        OBVIOUS
      <4>2. g[m - 1] = f[m - 1]
        BY <2>4, <4>1
      <4>3. QED
        BY <3>1, <2>5, <4>2, Zenon DEF x
    <3>2. CASE n # m
      <4>1. n \in 1 .. m - 1 /\ n \in 0 .. m - 1 /\ n - 1 \in 0 .. m - 1
        BY <3>2
      <4>2. f[n] = G[<<n, f[n - 1]>>]
        BY <2>1, <4>1
      <4>3. QED
        BY <2>4, <4>1, <4>2, Zenon
    <3>3. QED
      BY <3>1, <3>2
  <2>7. Runs(g, m)
    BY <2>1, <2>4, <2>6
  <2>8. QED
    BY <2>3, <2>7
<1> HIDE DEF Good
<1>3. b \in Good
  BY <1>1, <1>2, Induction
<1>4. QED
  BY <1>3 DEF Good

(* Picking goes through the sequence once.                                 *)
Picks(f, s, I) ==
  /\ f[0] = << >>
  /\ \A n \in 1 .. Len(s) : f[n] = IF n \in I THEN Append(f[n - 1], s[n]) ELSE f[n - 1]

LEMMA PickedStepwise ==
  ASSUME NEW X, NEW s \in Seq(X), NEW I
  PROVE  \E f \in [0 .. Len(s) -> Seq(X)] : Picks(f, s, I) /\ Picked(s, I) = f[Len(s)]
<1> DEFINE G == [p \in (1 .. Len(s)) \X Seq(X) |->
                   IF p[1] \in I THEN Append(p[2], s[p[1]]) ELSE p[2]]
           F(f) == [n \in 0 .. Len(s) |->
                      IF n = 0 THEN << >>
                      ELSE IF n \in I THEN Append(f[n - 1], s[n]) ELSE f[n - 1]]
<1>1. Len(s) \in Nat /\ << >> \in Seq(X)
  OBVIOUS
<1>2. G \in [(1 .. Len(s)) \X Seq(X) -> Seq(X)]
  OBVIOUS
<1>3. \A n \in 1 .. Len(s) : \A t \in Seq(X) :
        G[<<n, t>>] = IF n \in I THEN Append(t, s[n]) ELSE t
  OBVIOUS
<1> DEFINE S == Seq(X)
           b == Len(s)
           empty == << >>
<1> HIDE DEF G, S, b, empty
<1>4. PICK g \in [0 .. Len(s) -> Seq(X)] :
        g[0] = << >> /\ \A n \in 1 .. Len(s) : g[n] = G[<<n, g[n - 1]>>]
  <2>1. b \in Nat /\ empty \in S /\ G \in StepFunctions(b, S)
    BY <1>1, <1>2 DEF b, S, empty, StepFunctions
  <2>2. \E g \in [0 .. b -> S] : Follows(g, b, empty, G)
    BY <2>1, Recursion
  <2>3. QED
    BY <2>2 DEF b, S, empty, Follows
<1>5. g = F(g)
  <2>1. \A n \in 1 .. Len(s) : n - 1 \in 0 .. Len(s) /\ g[n - 1] \in Seq(X)
    BY <1>1, <1>4
  <2>2. \A n \in 0 .. Len(s) : n = 0 \/ n \in 1 .. Len(s)
    BY <1>1
  <2>3. \A n \in 0 .. Len(s) : g[n] = F(g)[n]
    BY <1>3, <1>4, <2>1, <2>2
  <2>4. QED
    BY <1>4, <2>3
<1> DEFINE f == CHOOSE f : f = F(f)
<1>6. f = F(f)
  BY <1>5
<1>7. Picked(s, I) = f[Len(s)]
  BY DEF Picked
<1> HIDE DEF f
<1>8. DOMAIN f = 0 .. Len(s) /\ f[0] = << >>
  BY <1>1, <1>6
<1>9. \A n \in 1 .. Len(s) : f[n] = IF n \in I THEN Append(f[n - 1], s[n]) ELSE f[n - 1]
  <2> SUFFICES ASSUME NEW n \in 1 .. Len(s)
               PROVE  f[n] = IF n \in I THEN Append(f[n - 1], s[n]) ELSE f[n - 1]
    OBVIOUS
  <2>1. n \in 0 .. Len(s) /\ n # 0
    BY <1>1
  <2>2. F(f)[n] = IF n \in I THEN Append(f[n - 1], s[n]) ELSE f[n - 1]
    BY <2>1
  <2>3. QED
    BY <1>6, <2>2
<1>10. \A n \in 0 .. Len(s) : f[n] \in Seq(X)
  <2> DEFINE Good == {n \in 0 .. Len(s) : f[n] \in Seq(X)}
  <2>1. 0 \in Good
    BY <1>1, <1>8
  <2>2. ASSUME NEW n \in 1 .. Len(s), n - 1 \in Good PROVE n \in Good
    <3>1. s[n] \in X /\ f[n - 1] \in Seq(X) /\ n \in 0 .. Len(s)
      BY <1>1, <2>2
    <3>2. Append(f[n - 1], s[n]) \in Seq(X)
      BY <3>1
    <3>3. QED
      BY <1>9, <3>1, <3>2
  <2> HIDE DEF Good
  <2>3. \A n \in 0 .. Len(s) : n \in Good
    BY <1>1, <2>1, <2>2, Induction
  <2>4. QED
    BY <2>3 DEF Good
<1>11. f = [n \in 0 .. Len(s) |-> f[n]]
  <2>2. QED
    BY <1>6, <1>8
<1>12. f \in [0 .. Len(s) -> Seq(X)]
  BY <1>10, <1>11
<1>13. QED
  BY <1>7, <1>8, <1>9, <1>12 DEF Picks

(* Places e, in rising order, are all of the first n places that are in I, *)
(* and p is what s has there.                                              *)
Enumerates(e, p, s, I, n) ==
  /\ e \in [1 .. Len(p) -> I \cap (1 .. n)]
  /\ \A j, k \in 1 .. Len(p) : j < k => e[j] < e[k]
  /\ \A i \in I \cap (1 .. n) : \E k \in 1 .. Len(p) : e[k] = i
  /\ \A k \in 1 .. Len(p) : p[k] = s[e[k]]

LEMMA OnePlaceMore ==
  ASSUME NEW X, NEW s \in Seq(X), NEW I, NEW n \in 1 .. Len(s), NEW p \in Seq(X), NEW e,
         Enumerates(e, p, s, I, n - 1)
  PROVE  \E d : Enumerates(d, IF n \in I THEN Append(p, s[n]) ELSE p, s, I, n)
<1>1. CASE n \notin I
  <2>1. I \cap (1 .. n) = I \cap (1 .. n - 1)
    BY <1>1
  <2>2. Enumerates(e, p, s, I, n)
    BY <2>1 DEF Enumerates
  <2>3. QED
    BY <1>1, <2>2
<1>2. CASE n \in I
  <2> DEFINE l == Len(p)
             q == Append(p, s[n])
             d == [k \in 1 .. l + 1 |-> IF k = l + 1 THEN n ELSE e[k]]
  <2>1. l \in Nat /\ q \in Seq(X) /\ Len(q) = l + 1 /\ s[n] \in X
    OBVIOUS
  <2>2. q[l + 1] = s[n] /\ \A k \in 1 .. l : q[k] = p[k]
    OBVIOUS
  <2>3. /\ \A k \in 1 .. l : e[k] \in I \cap (1 .. n - 1) /\ e[k] \in I \cap (1 .. n) /\ e[k] < n
        /\ \A j, k \in 1 .. l : j < k => e[j] < e[k]
        /\ \A i \in I \cap (1 .. n - 1) : \E k \in 1 .. l : e[k] = i
        /\ \A k \in 1 .. l : p[k] = s[e[k]]
    BY DEF Enumerates
  <2>4. n \in I \cap (1 .. n)
    BY <1>2
  <2>5. d[l + 1] = n /\ \A k \in 1 .. l : d[k] = e[k]
    BY <2>1
  <2>6. \A k \in 1 .. l + 1 : k = l + 1 \/ k \in 1 .. l
    BY <2>1
  <2>7. d \in [1 .. l + 1 -> I \cap (1 .. n)]
    BY <2>3, <2>4, <2>6
  <2> HIDE DEF d, q, l
  <2>8. \A j, k \in 1 .. l + 1 : j < k => d[j] < d[k]
    <3> SUFFICES ASSUME NEW j \in 1 .. l + 1, NEW k \in 1 .. l + 1, j < k
                 PROVE  d[j] < d[k]
      OBVIOUS
    <3>1. j \in 1 .. l
      BY <2>1
    <3>2. QED
      BY <2>3, <2>5, <2>6, <3>1
  <2>9. \A i \in I \cap (1 .. n) : \E k \in 1 .. l + 1 : d[k] = i
    <3> SUFFICES ASSUME NEW i \in I \cap (1 .. n) PROVE \E k \in 1 .. l + 1 : d[k] = i
      OBVIOUS
    <3>1. CASE i = n
      BY <3>1, <2>1, <2>5
    <3>2. CASE i # n
      <4>1. i \in I \cap (1 .. n - 1)
        BY <3>2
      <4>2. PICK k \in 1 .. l : e[k] = i
        BY <4>1, <2>3
      <4>3. k \in 1 .. l + 1
        BY <2>1
      <4>4. QED
        BY <4>2, <4>3, <2>5
    <3>3. QED
      BY <3>1, <3>2
  <2>10. \A k \in 1 .. l + 1 : q[k] = s[d[k]]
    BY <2>2, <2>3, <2>5, <2>6
  <2>11. Enumerates(d, q, s, I, n)
    BY <2>1, <2>7, <2>8, <2>9, <2>10 DEF Enumerates
  <2>12. QED
    BY <1>2, <2>11 DEF q
<1>3. QED
  BY <1>1, <1>2

(* What is picked is what the sequence has at those places, in its order.  *)
LEMMA PickedPlaces ==
  ASSUME NEW X, NEW s \in Seq(X), NEW I
  PROVE  /\ Picked(s, I) \in Seq(X)
         /\ \E e : Enumerates(e, Picked(s, I), s, I, Len(s))
<1> USE DEF Picks
<1>1. PICK f \in [0 .. Len(s) -> Seq(X)] : Picks(f, s, I) /\ Picked(s, I) = f[Len(s)]
  <2> HIDE DEF Picks
  <2>1. QED
    BY PickedStepwise
<1> DEFINE Good == {n \in 0 .. Len(s) : \E e : Enumerates(e, f[n], s, I, n)}
<1>2. Len(s) \in Nat
  OBVIOUS
<1>3. 0 \in Good
  <2> DEFINE e == [k \in 1 .. 0 |-> 0]
  <2>1. Len(f[0]) = 0 /\ 1 .. 0 = {}
    BY <1>1
  <2>2. Enumerates(e, f[0], s, I, 0)
    BY <2>1 DEF Enumerates
  <2>3. QED
    BY <1>2, <2>2
<1>4. ASSUME NEW n \in 1 .. Len(s), n - 1 \in Good PROVE n \in Good
  <2>1. PICK e : Enumerates(e, f[n - 1], s, I, n - 1)
    BY <1>4
  <2>2. f[n - 1] \in Seq(X) /\ n \in 0 .. Len(s)
    BY <1>2
  <2>3. \E d : Enumerates(d, IF n \in I THEN Append(f[n - 1], s[n]) ELSE f[n - 1], s, I, n)
    BY <2>1, <2>2, OnePlaceMore
  <2>4. QED
    BY <1>1, <2>2, <2>3
<1> HIDE DEF Good
<1>5. Len(s) \in Good
  <2>1. \A n \in 1 .. Len(s) : n - 1 \in Good => n \in Good
    BY <1>4
  <2>2. \A n \in 0 .. Len(s) : n \in Good
    BY <1>2, <1>3, <2>1, Induction
  <2>3. QED
    BY <1>2, <2>2
<1>6. QED
  BY <1>1, <1>2, <1>5 DEF Good

(* In particular, it has the elements of s at the places in I, no others.  *)
LEMMA PickedElements ==
  ASSUME NEW X, NEW s \in Seq(X), NEW I
  PROVE  /\ Picked(s, I) \in Seq(X)
         /\ \A k \in DOMAIN Picked(s, I) : \E i \in I \cap DOMAIN s : Picked(s, I)[k] = s[i]
         /\ \A i \in I \cap DOMAIN s : \E k \in DOMAIN Picked(s, I) : Picked(s, I)[k] = s[i]
<1> DEFINE p == Picked(s, I)
<1>1. PICK e : Enumerates(e, p, s, I, Len(s))
  BY PickedPlaces
<1>2. p \in Seq(X)
  BY PickedPlaces
<1> HIDE DEF p
<1>3. DOMAIN p = 1 .. Len(p) /\ DOMAIN s = 1 .. Len(s)
  BY <1>2
<1>4. \A k \in 1 .. Len(p) : e[k] \in I \cap (1 .. Len(s)) /\ p[k] = s[e[k]]
  BY <1>1 DEF Enumerates
<1>5. \A i \in I \cap (1 .. Len(s)) : \E k \in 1 .. Len(p) : e[k] = i
  BY <1>1, Zenon DEF Enumerates
<1>6. \A k \in DOMAIN p : \E i \in I \cap DOMAIN s : p[k] = s[i]
  BY <1>3, <1>4, Zenon
<1>7. ASSUME NEW i \in I \cap DOMAIN s PROVE \E k \in DOMAIN p : p[k] = s[i]
  <2>1. PICK k \in 1 .. Len(p) : e[k] = i
    BY <1>3, <1>5
  <2>2. QED
    BY <1>3, <1>4, <2>1
<1>8. QED
  BY <1>2, <1>6, <1>7, Zenon DEF p

-----------------------------------------------------------------------------
(* Folds over sequences.  FoldLeft takes the greatest place off the set of *)
(* those that are left; the facts say that one step on typed values gives  *)
(* one of the type, and that a function that folds exists.                 *)

(* The greatest of two numbers, the last of the first n.                   *)
LEMMA GreaterOfTwo ==
  ASSUME NEW a \in Int, NEW b \in Int
  PROVE  Max({a, b}) = IF a >= b THEN a ELSE b
<1>1. \E x \in {a, b} : \A y \in {a, b} : x >= y
  BY a >= b \/ b >= a
<1>2. Max({a, b}) \in {a, b} /\ Max({a, b}) >= a /\ Max({a, b}) >= b
  BY <1>1, Zenon DEF Max
<1>3. QED
  BY <1>2

LEMMA LesserOfTwo ==
  ASSUME NEW a \in Int, NEW b \in Int
  PROVE  Min({a, b}) = IF a <= b THEN a ELSE b
<1>1. \E x \in {a, b} : \A y \in {a, b} : x <= y
  BY a <= b \/ b <= a
<1>2. Min({a, b}) \in {a, b} /\ Min({a, b}) <= a /\ Min({a, b}) <= b
  BY <1>1, Zenon DEF Min
<1>3. QED
  BY <1>2

LEMMA LastOfMany ==
  ASSUME NEW b \in Nat, NEW S \in SUBSET (1 .. b), S # {}
  PROVE  Max(S) \in S /\ \A k \in S : k <= Max(S)
<1>1. \E x \in S : \A y \in S : x >= y
  <2>1. S \in SUBSET (0 .. b)
    OBVIOUS
  <2>2. QED
    BY <2>1, GreatestNumber
<1>2. Max(S) \in S /\ \A y \in S : Max(S) >= y
  BY <1>1, Zenon DEF Max
<1>3. QED
  BY <1>2

LEMMA LastOfFirst ==
  ASSUME NEW n \in Nat \ {0}
  PROVE  Max(1 .. n) = n /\ (1 .. n) \ {n} = 1 .. (n - 1)
<1>1. 1 .. n # {} /\ n \in 1 .. n
  OBVIOUS
<1>2. Max(1 .. n) \in 1 .. n /\ n <= Max(1 .. n)
  BY <1>1, LastOfMany
<1>3. (1 .. n) \ {n} = 1 .. (n - 1)
  OBVIOUS
<1>4. QED
  BY <1>2, <1>3

Folds(h, b, x0, G) ==
  /\ h[{}] = x0
  /\ \A S \in SUBSET (1 .. b) : S # {} => h[S] = G[<<Max(S), h[S \ {Max(S)}]>>]

(* The function by which a fold over a sequence is defined exists.         *)
LEMMA FoldRecursion ==
  ASSUME NEW b \in Nat, NEW X, NEW x0 \in X, NEW G \in StepFunctions(b, X)
  PROVE  \E h \in [SUBSET (1 .. b) -> X] : Folds(h, b, x0, G)
<1> DEFINE Gs(S) == [p \in (1 .. b) \X X |-> IF p[1] \in S THEN G[p] ELSE p[2]]
           Fs(S) == CHOOSE f \in [0 .. b -> X] : Follows(f, b, x0, Gs(S))
           h == [S \in SUBSET (1 .. b) |-> Fs(S)[b]]
<1>1. \A S \in SUBSET (1 .. b) : Gs(S) \in StepFunctions(b, X)
  BY DEF StepFunctions
<1>2. \A S \in SUBSET (1 .. b) : \A n \in 1 .. b : \A x \in X :
        Gs(S)[<<n, x>>] = IF n \in S THEN G[<<n, x>>] ELSE x
  OBVIOUS
<1> HIDE DEF Gs
<1>3. \A S \in SUBSET (1 .. b) :
        /\ Fs(S) \in [0 .. b -> X]
        /\ Follows(Fs(S), b, x0, Gs(S))
  BY <1>1, Recursion
<1> HIDE DEF Fs
<1>4. \A S \in SUBSET (1 .. b) : \A n \in 1 .. b :
        /\ Fs(S)[0] = x0 /\ Fs(S)[n - 1] \in X
        /\ Fs(S)[n] = IF n \in S THEN G[<<n, Fs(S)[n - 1]>>] ELSE Fs(S)[n - 1]
  <2> SUFFICES ASSUME NEW S \in SUBSET (1 .. b), NEW n \in 1 .. b
               PROVE  /\ Fs(S)[0] = x0 /\ Fs(S)[n - 1] \in X
                      /\ Fs(S)[n] = IF n \in S THEN G[<<n, Fs(S)[n - 1]>>] ELSE Fs(S)[n - 1]
    OBVIOUS
  <2>1. Fs(S)[n - 1] \in X
    BY <1>3
  <2>2. Fs(S)[0] = x0 /\ Fs(S)[n] = Gs(S)[<<n, Fs(S)[n - 1]>>]
    BY <1>3 DEF Follows
  <2>3. QED
    BY <1>2, <2>1, <2>2
<1>5. h \in [SUBSET (1 .. b) -> X]
  BY <1>3
<1>6. Fs({})[b] = x0
  <2> DEFINE Good == {n \in 0 .. b : Fs({})[n] = x0}
  <2>1. 0 \in Good
    BY <1>3 DEF Follows
  <2>2. ASSUME NEW n \in 1 .. b, n - 1 \in Good PROVE n \in Good
    <3>1. {} \in SUBSET (1 .. b) /\ n \notin {} /\ n \in 0 .. b
      OBVIOUS
    <3>2. Fs({})[n] = Fs({})[n - 1]
      BY <1>4, <3>1
    <3>3. QED
      BY <2>2, <3>1, <3>2
  <2> HIDE DEF Good
  <2>3. \A n \in 0 .. b : n \in Good
    BY <2>1, <2>2, Induction
  <2>4. QED
    BY <2>3 DEF Good
<1>7. ASSUME NEW S \in SUBSET (1 .. b), S # {}
      PROVE  Fs(S)[b] = G[<<Max(S), Fs(S \ {Max(S)})[b]>>]
  <2> DEFINE m == Max(S)
             f == Fs(S)
             g == Fs(S \ {m})
  <2>1. m \in 1 .. b /\ m \in S /\ \A k \in S : k <= m
    BY <1>7, LastOfMany
  <2>2. S \ {m} \in SUBSET (1 .. b)
    OBVIOUS
  <2> HIDE DEF m
  <2>3. f[0] = x0 /\ g[0] = x0
    BY <1>3, <2>2 DEF Follows
  <2>4. \A n \in 1 .. b : /\ n < m => (n \in S <=> n \in S \ {m})
                          /\ n > m => n \notin S /\ n \notin S \ {m}
                          /\ m \notin S \ {m}
    BY <2>1
  <2>5. \A n \in 1 .. b :
          /\ f[n] = IF n \in S THEN G[<<n, f[n - 1]>>] ELSE f[n - 1]
          /\ g[n] = IF n \in S \ {m} THEN G[<<n, g[n - 1]>>] ELSE g[n - 1]
    BY <1>4, <2>2
  <2> HIDE DEF f, g
  <2>6. f[m - 1] = g[m - 1]
    <3> DEFINE Good == {n \in 0 .. b : n < m => f[n] = g[n]}
    <3>1. 0 \in Good
      BY <2>3
    <3>2. ASSUME NEW n \in 1 .. b, n - 1 \in Good PROVE n \in Good
      <4>1. SUFFICES ASSUME n < m PROVE f[n] = g[n]
        OBVIOUS
      <4>2. f[n - 1] = g[n - 1]
        BY <2>1, <3>2, <4>1
      <4>3. n \in S <=> n \in S \ {m}
        BY <2>4, <4>1
      <4>4. QED
        BY <2>5, <4>2, <4>3
    <3> HIDE DEF Good
    <3>3. \A n \in 0 .. b : n \in Good
      BY <3>1, <3>2, Induction
    <3>4. QED
      BY <2>1, <3>3 DEF Good
  <2>7. f[b] = f[m] /\ g[b] = g[m]
    <3> DEFINE Good == {n \in 0 .. b : n >= m => f[n] = f[m] /\ g[n] = g[m]}
    <3>1. 0 \in Good
      BY <2>1
    <3>2. ASSUME NEW n \in 1 .. b, n - 1 \in Good PROVE n \in Good
      <4>1. SUFFICES ASSUME n >= m, n # m PROVE f[n] = f[m] /\ g[n] = g[m]
        OBVIOUS
      <4>2. f[n - 1] = f[m] /\ g[n - 1] = g[m] /\ n > m
        BY <2>1, <3>2, <4>1
      <4>3. n \notin S /\ n \notin S \ {m}
        BY <2>4, <4>2
      <4>4. QED
        BY <2>5, <4>2, <4>3
    <3> HIDE DEF Good
    <3>3. \A n \in 0 .. b : n \in Good
      BY <3>1, <3>2, Induction
    <3>4. QED
      BY <2>1, <3>3 DEF Good
  <2>8. f[m] = G[<<m, f[m - 1]>>] /\ g[m] = g[m - 1]
    BY <2>1, <2>4, <2>5
  <2>9. f[b] = G[<<m, g[b]>>]
    BY <2>6, <2>7, <2>8
  <2>10. QED
    BY <2>9 DEF m, f, g
<1>8. \A S \in SUBSET (1 .. b) : S \ {Max(S)} \in SUBSET (1 .. b) /\ h[S] = Fs(S)[b]
  OBVIOUS
<1> HIDE DEF h
<1>9. Folds(h, b, x0, G)
  BY <1>6, <1>7, <1>8 DEF Folds
<1>10. QED
  BY <1>5, <1>9

(* What a fold makes of its start stays in X if every step does.  it may   *)
(* be any function that obeys the equation as long as it is in X.          *)
FoldsIn(it, b, X, x0, G) ==
  /\ it[{}] = x0
  /\ \A S \in SUBSET (1 .. b) :
       S # {} /\ it[S \ {Max(S)}] \in X => it[S] = G[<<Max(S), it[S \ {Max(S)}]>>]

EndsIn(it, b, X, G) ==
  /\ it[1 .. b] \in X
  /\ b # 0 => \E x \in X : it[1 .. b] = G[<<b, x>>]

LEMMA FoldStays ==
  ASSUME NEW b \in Nat, NEW X, NEW x0 \in X, NEW G \in StepFunctions(b, X), NEW it,
         FoldsIn(it, b, X, x0, G)
  PROVE  EndsIn(it, b, X, G)
<1> DEFINE Good == {n \in 0 .. b :
                      /\ it[1 .. n] \in X
                      /\ n # 0 => \E x \in X : it[1 .. n] = G[<<n, x>>]}
<1>1. 0 \in Good
  <2>1. 1 .. 0 = {}
    OBVIOUS
  <2>2. QED
    BY <2>1 DEF FoldsIn
<1>2. ASSUME NEW n \in 1 .. b, n - 1 \in Good PROVE n \in Good
  <2>1. 1 .. n \in SUBSET (1 .. b) /\ 1 .. n # {} /\ n \in Nat \ {0} /\ n \in 0 .. b
    OBVIOUS
  <2>2. Max(1 .. n) = n /\ (1 .. n) \ {n} = 1 .. (n - 1)
    BY <2>1, LastOfFirst
  <2>3. it[1 .. (n - 1)] \in X
    BY <1>2
  <2>4. it[1 .. n] = G[<<n, it[1 .. (n - 1)]>>]
    BY <2>1, <2>2, <2>3, Zenon DEF FoldsIn
  <2>5. G[<<n, it[1 .. (n - 1)]>>] \in X
    BY <2>3 DEF StepFunctions
  <2>6. \E x \in X : it[1 .. n] = G[<<n, x>>]
    BY <2>3, <2>4
  <2>7. QED
    BY <2>1, <2>4, <2>5, <2>6
<1> HIDE DEF Good
<1>3. \A n \in 0 .. b : n \in Good
  BY <1>1, <1>2, Induction
<1>4. b \in 0 .. b
  OBVIOUS
<1>5. QED
  BY <1>3, <1>4 DEF Good, EndsIn

(* Such a fold goes through one element of X after the other.              *)
LEMMA FoldRuns ==
  ASSUME NEW b \in Nat, NEW X, NEW x0 \in X, NEW G \in StepFunctions(b, X), NEW it,
         FoldsIn(it, b, X, x0, G)
  PROVE  \E r \in [0 .. b -> X] : Follows(r, b, x0, G) /\ r[b] = it[1 .. b]
<1> DEFINE r == [n \in 0 .. b |-> it[1 .. n]]
           Good == {n \in 0 .. b : it[1 .. n] \in X /\ (n # 0 => it[1 .. n] = G[<<n, it[1 .. (n - 1)]>>])}
<1>1. it[1 .. 0] = x0
  <2>1. 1 .. 0 = {}
    OBVIOUS
  <2>2. QED
    BY <2>1 DEF FoldsIn
<1>2. 0 \in Good
  BY <1>1
<1>3. ASSUME NEW n \in 1 .. b, n - 1 \in Good PROVE n \in Good
  <2>1. 1 .. n \in SUBSET (1 .. b) /\ 1 .. n # {} /\ n \in Nat \ {0} /\ n \in 0 .. b
    OBVIOUS
  <2>2. Max(1 .. n) = n /\ (1 .. n) \ {n} = 1 .. (n - 1)
    BY <2>1, LastOfFirst
  <2>3. it[1 .. (n - 1)] \in X
    BY <1>3
  <2>4. it[1 .. n] = G[<<n, it[1 .. (n - 1)]>>]
    BY <2>1, <2>2, <2>3, Zenon DEF FoldsIn
  <2>5. G[<<n, it[1 .. (n - 1)]>>] \in X
    BY <2>3 DEF StepFunctions
  <2>6. QED
    BY <2>1, <2>4, <2>5
<1> HIDE DEF Good
<1>4. \A n \in 0 .. b : n \in Good
  BY <1>2, <1>3, Induction
<1>5. \A n \in 0 .. b : it[1 .. n] \in X /\ (n # 0 => it[1 .. n] = G[<<n, it[1 .. (n - 1)]>>])
  BY <1>4 DEF Good
<1>6. \A n \in 0 .. b : r[n] = it[1 .. n]
  OBVIOUS
<1>7. r \in [0 .. b -> X]
  BY <1>5
<1> HIDE DEF r
<1>8. \A n \in 1 .. b : n \in 0 .. b /\ n - 1 \in 0 .. b /\ n # 0
  OBVIOUS
<1>9. \A n \in 1 .. b : r[n] = G[<<n, r[n - 1]>>]
  BY <1>5, <1>6, <1>8
<1>10. 0 \in 0 .. b /\ b \in 0 .. b
  OBVIOUS
<1>11. r[0] = x0 /\ r[b] = it[1 .. b]
  BY <1>1, <1>6, <1>10
<1>12. QED
  BY <1>7, <1>9, <1>11 DEF Follows

(* One sequence behind the other, place by place.                          *)
LEMMA JoinedPlaces ==
  ASSUME NEW X, NEW a \in Seq(X), NEW c \in Seq(X)
  PROVE  /\ a \o c \in Seq(X) /\ Len(a \o c) = Len(a) + Len(c)
         /\ Len(a) \in Nat /\ Len(c) \in Nat
         /\ \A i \in 1 .. Len(a) : (a \o c)[i] = a[i] /\ a[i] \in X
         /\ \A i \in 1 .. Len(c) : (a \o c)[Len(a) + i] = c[i] /\ c[i] \in X
OBVIOUS

(* Sequences that have the same elements in the same places are the same.  *)
LEMMA SameSequence ==
  ASSUME NEW X, NEW a \in Seq(X), NEW c \in Seq(X), Len(a) = Len(c),
         \A i \in 1 .. Len(a) : a[i] = c[i]
  PROVE  a = c
OBVIOUS

(* Sequences of elements of X are joined to one.                           *)
LEMMA FlattenedTyped ==
  ASSUME NEW X, NEW s \in Seq(Seq(X))
  PROVE  FlattenSeq(s) \in Seq(X)
<1> DEFINE b == Len(s)
           S == Seq(X)
           empty == << >>
           F(f) == [i \in 1 .. b |-> IF i = 1 THEN s[i] ELSE f[i - 1] \o s[i]]
           f == CHOOSE f : f = F(f)
           G == [p \in (1 .. b) \X S |-> p[2] \o s[p[1]]]
<1>1. b \in Nat /\ \A n \in 1 .. b : s[n] \in S
  OBVIOUS
<1>2. CASE b = 0
  <2>1. s = << >> /\ s \in Seq(X)
    BY <1>2
  <2>2. QED
    BY <1>2, <2>1 DEF FlattenSeq
<1>3. CASE b # 0
  <2>1. FlattenSeq(s) = f[b]
    BY <1>3 DEF FlattenSeq
  <2>2. \A x \in S, y \in S : x \o y \in S
    OBVIOUS
  <2>3. \A n \in 1 .. b : \A x \in S : G[<<n, x>>] = x \o s[n]
    OBVIOUS
  <2>4. empty \in S /\ \A x \in S : empty \o x = x
    OBVIOUS
  <2> HIDE DEF S, empty, b
  <2>5. G \in StepFunctions(b, S)
    BY <1>1, <2>2 DEF StepFunctions
  <2> HIDE DEF G
  <2>6. PICK g \in [0 .. b -> S] : Follows(g, b, empty, G)
    BY <1>1, <2>4, <2>5, Recursion
  <2> DEFINE h == [i \in 1 .. b |-> g[i]]
  <2>7. \A i \in 1 .. b : g[i] = IF i = 1 THEN s[i] ELSE g[i - 1] \o s[i]
    <3> SUFFICES ASSUME NEW i \in 1 .. b
                 PROVE  g[i] = IF i = 1 THEN s[i] ELSE g[i - 1] \o s[i]
      OBVIOUS
    <3>1. i - 1 \in 0 .. b /\ g[i - 1] \in S
      BY <1>1
    <3>2. g[i] = g[i - 1] \o s[i] /\ g[0] = empty
      BY <2>3, <2>6, <3>1 DEF Follows
    <3>3. i = 1 => g[i - 1] = empty
      BY <3>2
    <3>4. QED
      BY <1>1, <2>4, <3>2, <3>3
  <2>8. h = F(h)
    <3>1. \A i \in 1 .. b : i # 1 => i - 1 \in 1 .. b
      BY <1>1
    <3>2. \A i \in 1 .. b : h[i] = F(h)[i]
      BY <2>7, <3>1
    <3>3. QED
      BY <3>2
  <2> HIDE DEF h
  <2>9. f = F(f)
    BY <2>8
  <2> HIDE DEF f
  <2> DEFINE Good == {n \in 0 .. b : n # 0 => f[n] \in S}
  <2>10. 0 \in Good
    BY <1>1
  <2>11. ASSUME NEW n \in 1 .. b, n - 1 \in Good PROVE n \in Good
    <3>1. f[n] = IF n = 1 THEN s[n] ELSE f[n - 1] \o s[n]
      BY <2>9
    <3>2. n # 1 => f[n - 1] \in S
      BY <2>11
    <3>3. QED
      BY <1>1, <2>2, <3>1, <3>2
  <2> HIDE DEF Good
  <2>12. \A n \in 0 .. b : n \in Good
    BY <1>1, <2>10, <2>11, Induction
  <2>13. f[b] \in S
    BY <1>1, <1>3, <2>12 DEF Good
  <2>14. QED
    BY <2>1, <2>13 DEF S
<1>4. QED
  BY <1>2, <1>3
=============================================================================
