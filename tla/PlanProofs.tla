----------------------------- MODULE PlanProofs -----------------------------
(***************************************************************************)
(* What TLAPS proves about PlanRules, for any city, prices, requests,      *)
(* findings, drafts and trips there may be: through every stage a plan     *)
(* stays a plan, and what is stored says what it costs, says so if that is *)
(* too much, and is free of what the user wants removed; the minimum, once *)
(* it is reached, is kept; and the loop that fits a plan to its budget     *)
(* ends.                                                                   *)
(***************************************************************************)
EXTENDS PlanRules, FiniteSetTheorems, SequenceTheorems, SequenceFacts

-----------------------------------------------------------------------------
(* The folds of the model, by name.  For each: if every step leads from a  *)
(* set X to that set, by whatever element of Y, the fold ends in X, and    *)
(* with a step if the sequence has any element.                            *)

(* Sums of numbers.                                                        *)
Sums(x0, s) == FoldLeft(LAMBDA a, c : a + c, x0, s)

SumsRun(r, x0, s) ==
  /\ r[0] = x0 /\ r[Len(s)] = Sums(x0, s)
  /\ \A n \in 1 .. Len(s) : r[n] = r[n - 1] + s[n]

LEMMA SumsThrough ==
  ASSUME NEW X, NEW Y, NEW x0 \in X, NEW s \in Seq(Y),
         \A x \in X : \A y \in Y : x + y \in X
  PROVE  LET end == Sums(x0, s)
         IN /\ end \in X
            /\ s # << >> => \E x \in X : \E y \in Y : end = x + y
            /\ \E r \in [0 .. Len(s) -> X] : SumsRun(r, x0, s)
<1> DEFINE b == Len(s)
           G == [p \in (1 .. b) \X X |-> p[2] + s[p[1]]]
           F(it) == [S \in SUBSET DOMAIN s |->
                       IF S = {} THEN x0 ELSE it[S \ {Max(S)}] + s[Max(S)]]
           it == CHOOSE it : it = F(it)
<1>1. Sums(x0, s) = it[DOMAIN s]
  BY DEF FoldLeft, MapThenFoldSet, Sums
<1>2. /\ b \in Nat /\ DOMAIN s = 1 .. b /\ \A n \in 1 .. b : s[n] \in Y
      /\ x0 \in X /\ (s # << >> => b # 0)
  OBVIOUS
<1> HIDE DEF b
<1>3. \A n \in 1 .. b : \A x \in X : G[<<n, x>>] = x + s[n] /\ G[<<n, x>>] \in X
  BY <1>2
<1>4. G \in StepFunctions(b, X)
  BY <1>2 DEF StepFunctions
<1> HIDE DEF G
<1>5. PICK g \in [SUBSET (1 .. b) -> X] : Folds(g, b, x0, G)
  BY <1>2, <1>4, FoldRecursion
<1>6. \A S \in SUBSET (1 .. b) : S # {} => Max(S) \in 1 .. b /\ S \ {Max(S)} \in SUBSET (1 .. b)
  BY <1>2, LastOfMany
<1>7. g = F(g)
  <2>1. \A S \in SUBSET (1 .. b) : S # {} => g[S] = g[S \ {Max(S)}] + s[Max(S)]
    BY <1>3, <1>5, <1>6 DEF Folds
  <2>2. \A S \in SUBSET (1 .. b) : g[S] = F(g)[S]
    BY <1>2, <1>5, <2>1 DEF Folds
  <2>3. QED
    BY <1>2, <1>5, <2>2
<1>8. it = F(it)
  BY <1>7
<1> HIDE DEF it
<1>9. FoldsIn(it, b, X, x0, G)
  <2>1. it[{}] = x0
    BY <1>2, <1>8
  <2>2. \A S \in SUBSET (1 .. b) : S # {} => it[S] = it[S \ {Max(S)}] + s[Max(S)]
    BY <1>2, <1>8
  <2>3. QED
    BY <1>3, <1>6, <2>1, <2>2 DEF FoldsIn
<1>10. EndsIn(it, b, X, G)
  BY <1>2, <1>4, <1>9, FoldStays
<1>11. s # << >> => \E x \in X : \E y \in Y : it[1 .. b] = x + y
  <2>1. SUFFICES ASSUME s # << >> PROVE \E x \in X : \E y \in Y : it[1 .. b] = x + y
    OBVIOUS
  <2>2. PICK x \in X : it[1 .. b] = G[<<b, x>>]
    BY <1>2, <1>10, <2>1 DEF EndsIn
  <2>3. b \in 1 .. b
    BY <1>2, <2>1
  <2>4. QED
    BY <1>2, <1>3, <2>2, <2>3
<1>12. PICK r \in [0 .. b -> X] : Follows(r, b, x0, G) /\ r[b] = it[1 .. b]
  BY <1>2, <1>4, <1>9, FoldRuns
<1>13. \A n \in 1 .. b : r[n - 1] \in X
  BY <1>2
<1>14. r[0] = x0 /\ \A n \in 1 .. b : r[n] = r[n - 1] + s[n]
  BY <1>3, <1>12, <1>13 DEF Follows
<1>15. QED
  BY <1>1, <1>2, <1>10, <1>11, <1>12, <1>14 DEF EndsIn, b, SumsRun

(* The days that _ensure_min_spend fills up.                               *)
FillDays(kind, docs, x0, s) == FoldLeft(LAMBDA acc, day : FillDay(kind, docs, acc, day), x0, s)

FillsRun(r, kind, docs, x0, s) ==
  /\ r[0] = x0 /\ r[Len(s)] = FillDays(kind, docs, x0, s)
  /\ \A n \in 1 .. Len(s) : r[n] = FillDay(kind, docs, r[n - 1], s[n])

LEMMA FillsThrough ==
  ASSUME NEW X, NEW Y, NEW x0 \in X, NEW s \in Seq(Y), NEW kind, NEW docs,
         \A x \in X : \A y \in Y : FillDay(kind, docs, x, y) \in X
  PROVE  LET end == FillDays(kind, docs, x0, s)
         IN /\ end \in X
            /\ s # << >> => \E x \in X : \E y \in Y : end = FillDay(kind, docs, x, y)
            /\ \E r \in [0 .. Len(s) -> X] : FillsRun(r, kind, docs, x0, s)
<1> DEFINE b == Len(s)
           G == [p \in (1 .. b) \X X |-> FillDay(kind, docs, p[2], s[p[1]])]
           F(it) == [S \in SUBSET DOMAIN s |->
                       IF S = {} THEN x0 ELSE FillDay(kind, docs, it[S \ {Max(S)}], s[Max(S)])]
           it == CHOOSE it : it = F(it)
<1>1. FillDays(kind, docs, x0, s) = it[DOMAIN s]
  BY DEF FoldLeft, MapThenFoldSet, FillDays
<1>2. /\ b \in Nat /\ DOMAIN s = 1 .. b /\ \A n \in 1 .. b : s[n] \in Y
      /\ x0 \in X /\ (s # << >> => b # 0)
  OBVIOUS
<1> HIDE DEF b
<1>3. \A n \in 1 .. b : \A x \in X : G[<<n, x>>] = FillDay(kind, docs, x, s[n]) /\ G[<<n, x>>] \in X
  BY <1>2
<1>4. G \in StepFunctions(b, X)
  BY <1>2 DEF StepFunctions
<1> HIDE DEF G
<1>5. PICK g \in [SUBSET (1 .. b) -> X] : Folds(g, b, x0, G)
  BY <1>2, <1>4, FoldRecursion
<1>6. \A S \in SUBSET (1 .. b) : S # {} => Max(S) \in 1 .. b /\ S \ {Max(S)} \in SUBSET (1 .. b)
  BY <1>2, LastOfMany
<1>7. g = F(g)
  <2>1. \A S \in SUBSET (1 .. b) : S # {} => g[S] = FillDay(kind, docs, g[S \ {Max(S)}], s[Max(S)])
    BY <1>3, <1>5, <1>6 DEF Folds
  <2>2. \A S \in SUBSET (1 .. b) : g[S] = F(g)[S]
    BY <1>2, <1>5, <2>1 DEF Folds
  <2>3. QED
    BY <1>2, <1>5, <2>2
<1>8. it = F(it)
  BY <1>7
<1> HIDE DEF it
<1>9. FoldsIn(it, b, X, x0, G)
  <2>1. it[{}] = x0
    BY <1>2, <1>8
  <2>2. \A S \in SUBSET (1 .. b) : S # {} => it[S] = FillDay(kind, docs, it[S \ {Max(S)}], s[Max(S)])
    BY <1>2, <1>8
  <2>3. QED
    BY <1>3, <1>6, <2>1, <2>2 DEF FoldsIn
<1>10. EndsIn(it, b, X, G)
  BY <1>2, <1>4, <1>9, FoldStays
<1>11. s # << >> => \E x \in X : \E y \in Y : it[1 .. b] = FillDay(kind, docs, x, y)
  <2>1. SUFFICES ASSUME s # << >> PROVE \E x \in X : \E y \in Y : it[1 .. b] = FillDay(kind, docs, x, y)
    OBVIOUS
  <2>2. PICK x \in X : it[1 .. b] = G[<<b, x>>]
    BY <1>2, <1>10, <2>1 DEF EndsIn
  <2>3. b \in 1 .. b
    BY <1>2, <2>1
  <2>4. QED
    BY <1>2, <1>3, <2>2, <2>3
<1>12. PICK r \in [0 .. b -> X] : Follows(r, b, x0, G) /\ r[b] = it[1 .. b]
  BY <1>2, <1>4, <1>9, FoldRuns
<1>13. \A n \in 1 .. b : r[n - 1] \in X
  BY <1>2
<1>14. r[0] = x0 /\ \A n \in 1 .. b : r[n] = FillDay(kind, docs, r[n - 1], s[n])
  BY <1>3, <1>12, <1>13 DEF Follows
<1>15. QED
  BY <1>1, <1>2, <1>10, <1>11, <1>12, <1>14 DEF EndsIn, b, FillsRun

(* The days that _decorate_plan completes.                                 *)
DecorateDays(spots, foods, pool, x0, s) == FoldLeft(LAMBDA acc, day : Decorate(spots, foods, pool, acc, day), x0, s)

DecoratesRun(r, spots, foods, pool, x0, s) ==
  /\ r[0] = x0 /\ r[Len(s)] = DecorateDays(spots, foods, pool, x0, s)
  /\ \A n \in 1 .. Len(s) : r[n] = Decorate(spots, foods, pool, r[n - 1], s[n])

LEMMA DecoratesThrough ==
  ASSUME NEW X, NEW Y, NEW x0 \in X, NEW s \in Seq(Y), NEW spots, NEW foods, NEW pool,
         \A x \in X : \A y \in Y : Decorate(spots, foods, pool, x, y) \in X
  PROVE  LET end == DecorateDays(spots, foods, pool, x0, s)
         IN /\ end \in X
            /\ s # << >> => \E x \in X : \E y \in Y : end = Decorate(spots, foods, pool, x, y)
            /\ \E r \in [0 .. Len(s) -> X] : DecoratesRun(r, spots, foods, pool, x0, s)
<1> DEFINE b == Len(s)
           G == [p \in (1 .. b) \X X |-> Decorate(spots, foods, pool, p[2], s[p[1]])]
           F(it) == [S \in SUBSET DOMAIN s |->
                       IF S = {} THEN x0 ELSE Decorate(spots, foods, pool, it[S \ {Max(S)}], s[Max(S)])]
           it == CHOOSE it : it = F(it)
<1>1. DecorateDays(spots, foods, pool, x0, s) = it[DOMAIN s]
  BY DEF FoldLeft, MapThenFoldSet, DecorateDays
<1>2. /\ b \in Nat /\ DOMAIN s = 1 .. b /\ \A n \in 1 .. b : s[n] \in Y
      /\ x0 \in X /\ (s # << >> => b # 0)
  OBVIOUS
<1> HIDE DEF b
<1>3. \A n \in 1 .. b : \A x \in X : G[<<n, x>>] = Decorate(spots, foods, pool, x, s[n]) /\ G[<<n, x>>] \in X
  BY <1>2
<1>4. G \in StepFunctions(b, X)
  BY <1>2 DEF StepFunctions
<1> HIDE DEF G
<1>5. PICK g \in [SUBSET (1 .. b) -> X] : Folds(g, b, x0, G)
  BY <1>2, <1>4, FoldRecursion
<1>6. \A S \in SUBSET (1 .. b) : S # {} => Max(S) \in 1 .. b /\ S \ {Max(S)} \in SUBSET (1 .. b)
  BY <1>2, LastOfMany
<1>7. g = F(g)
  <2>1. \A S \in SUBSET (1 .. b) : S # {} => g[S] = Decorate(spots, foods, pool, g[S \ {Max(S)}], s[Max(S)])
    BY <1>3, <1>5, <1>6 DEF Folds
  <2>2. \A S \in SUBSET (1 .. b) : g[S] = F(g)[S]
    BY <1>2, <1>5, <2>1 DEF Folds
  <2>3. QED
    BY <1>2, <1>5, <2>2
<1>8. it = F(it)
  BY <1>7
<1> HIDE DEF it
<1>9. FoldsIn(it, b, X, x0, G)
  <2>1. it[{}] = x0
    BY <1>2, <1>8
  <2>2. \A S \in SUBSET (1 .. b) : S # {} => it[S] = Decorate(spots, foods, pool, it[S \ {Max(S)}], s[Max(S)])
    BY <1>2, <1>8
  <2>3. QED
    BY <1>3, <1>6, <2>1, <2>2 DEF FoldsIn
<1>10. EndsIn(it, b, X, G)
  BY <1>2, <1>4, <1>9, FoldStays
<1>11. s # << >> => \E x \in X : \E y \in Y : it[1 .. b] = Decorate(spots, foods, pool, x, y)
  <2>1. SUFFICES ASSUME s # << >> PROVE \E x \in X : \E y \in Y : it[1 .. b] = Decorate(spots, foods, pool, x, y)
    OBVIOUS
  <2>2. PICK x \in X : it[1 .. b] = G[<<b, x>>]
    BY <1>2, <1>10, <2>1 DEF EndsIn
  <2>3. b \in 1 .. b
    BY <1>2, <2>1
  <2>4. QED
    BY <1>2, <1>3, <2>2, <2>3
<1>12. PICK r \in [0 .. b -> X] : Follows(r, b, x0, G) /\ r[b] = it[1 .. b]
  BY <1>2, <1>4, <1>9, FoldRuns
<1>13. \A n \in 1 .. b : r[n - 1] \in X
  BY <1>2
<1>14. r[0] = x0 /\ \A n \in 1 .. b : r[n] = Decorate(spots, foods, pool, r[n - 1], s[n])
  BY <1>3, <1>12, <1>13 DEF Follows
<1>15. QED
  BY <1>1, <1>2, <1>10, <1>11, <1>12, <1>14 DEF EndsIn, b, DecoratesRun

(* The days that get other attractions for those removed.                  *)
RefillDays(x0, s) == FoldLeft(Refill, x0, s)

LEMMA RefillsThrough ==
  ASSUME NEW X, NEW Y, NEW x0 \in X, NEW s \in Seq(Y),
         \A x \in X : \A y \in Y : Refill(x, y) \in X
  PROVE  LET end == RefillDays(x0, s)
         IN /\ end \in X
            /\ s # << >> => \E x \in X : \E y \in Y : end = Refill(x, y)
<1> DEFINE b == Len(s)
           G == [p \in (1 .. b) \X X |-> Refill(p[2], s[p[1]])]
           F(it) == [S \in SUBSET DOMAIN s |->
                       IF S = {} THEN x0 ELSE Refill(it[S \ {Max(S)}], s[Max(S)])]
           it == CHOOSE it : it = F(it)
<1>1. RefillDays(x0, s) = it[DOMAIN s]
  BY DEF FoldLeft, MapThenFoldSet, RefillDays
<1>2. /\ b \in Nat /\ DOMAIN s = 1 .. b /\ \A n \in 1 .. b : s[n] \in Y
      /\ x0 \in X /\ (s # << >> => b # 0)
  OBVIOUS
<1> HIDE DEF b
<1>3. \A n \in 1 .. b : \A x \in X : G[<<n, x>>] = Refill(x, s[n]) /\ G[<<n, x>>] \in X
  BY <1>2
<1>4. G \in StepFunctions(b, X)
  BY <1>2 DEF StepFunctions
<1> HIDE DEF G
<1>5. PICK g \in [SUBSET (1 .. b) -> X] : Folds(g, b, x0, G)
  BY <1>2, <1>4, FoldRecursion
<1>6. \A S \in SUBSET (1 .. b) : S # {} => Max(S) \in 1 .. b /\ S \ {Max(S)} \in SUBSET (1 .. b)
  BY <1>2, LastOfMany
<1>7. g = F(g)
  <2>1. \A S \in SUBSET (1 .. b) : S # {} => g[S] = Refill(g[S \ {Max(S)}], s[Max(S)])
    BY <1>3, <1>5, <1>6 DEF Folds
  <2>2. \A S \in SUBSET (1 .. b) : g[S] = F(g)[S]
    BY <1>2, <1>5, <2>1 DEF Folds
  <2>3. QED
    BY <1>2, <1>5, <2>2
<1>8. it = F(it)
  BY <1>7
<1> HIDE DEF it
<1>9. FoldsIn(it, b, X, x0, G)
  <2>1. it[{}] = x0
    BY <1>2, <1>8
  <2>2. \A S \in SUBSET (1 .. b) : S # {} => it[S] = Refill(it[S \ {Max(S)}], s[Max(S)])
    BY <1>2, <1>8
  <2>3. QED
    BY <1>3, <1>6, <2>1, <2>2 DEF FoldsIn
<1>10. EndsIn(it, b, X, G)
  BY <1>2, <1>4, <1>9, FoldStays
<1>11. s # << >> => \E x \in X : \E y \in Y : it[1 .. b] = Refill(x, y)
  <2>1. SUFFICES ASSUME s # << >> PROVE \E x \in X : \E y \in Y : it[1 .. b] = Refill(x, y)
    OBVIOUS
  <2>2. PICK x \in X : it[1 .. b] = G[<<b, x>>]
    BY <1>2, <1>10, <2>1 DEF EndsIn
  <2>3. b \in 1 .. b
    BY <1>2, <2>1
  <2>4. QED
    BY <1>2, <1>3, <2>2, <2>3
<1>12. QED
  BY <1>1, <1>2, <1>10, <1>11 DEF EndsIn

(* A list without what earlier days have.                                  *)
VaryAll(docs, x0, s) == FoldLeft(LAMBDA acc, x : Vary(docs, acc, x), x0, s)

LEMMA VariesThrough ==
  ASSUME NEW X, NEW Y, NEW x0 \in X, NEW s \in Seq(Y), NEW docs,
         \A x \in X : \A y \in Y : Vary(docs, x, y) \in X
  PROVE  LET end == VaryAll(docs, x0, s)
         IN /\ end \in X
            /\ s # << >> => \E x \in X : \E y \in Y : end = Vary(docs, x, y)
<1> DEFINE b == Len(s)
           G == [p \in (1 .. b) \X X |-> Vary(docs, p[2], s[p[1]])]
           F(it) == [S \in SUBSET DOMAIN s |->
                       IF S = {} THEN x0 ELSE Vary(docs, it[S \ {Max(S)}], s[Max(S)])]
           it == CHOOSE it : it = F(it)
<1>1. VaryAll(docs, x0, s) = it[DOMAIN s]
  BY DEF FoldLeft, MapThenFoldSet, VaryAll
<1>2. /\ b \in Nat /\ DOMAIN s = 1 .. b /\ \A n \in 1 .. b : s[n] \in Y
      /\ x0 \in X /\ (s # << >> => b # 0)
  OBVIOUS
<1> HIDE DEF b
<1>3. \A n \in 1 .. b : \A x \in X : G[<<n, x>>] = Vary(docs, x, s[n]) /\ G[<<n, x>>] \in X
  BY <1>2
<1>4. G \in StepFunctions(b, X)
  BY <1>2 DEF StepFunctions
<1> HIDE DEF G
<1>5. PICK g \in [SUBSET (1 .. b) -> X] : Folds(g, b, x0, G)
  BY <1>2, <1>4, FoldRecursion
<1>6. \A S \in SUBSET (1 .. b) : S # {} => Max(S) \in 1 .. b /\ S \ {Max(S)} \in SUBSET (1 .. b)
  BY <1>2, LastOfMany
<1>7. g = F(g)
  <2>1. \A S \in SUBSET (1 .. b) : S # {} => g[S] = Vary(docs, g[S \ {Max(S)}], s[Max(S)])
    BY <1>3, <1>5, <1>6 DEF Folds
  <2>2. \A S \in SUBSET (1 .. b) : g[S] = F(g)[S]
    BY <1>2, <1>5, <2>1 DEF Folds
  <2>3. QED
    BY <1>2, <1>5, <2>2
<1>8. it = F(it)
  BY <1>7
<1> HIDE DEF it
<1>9. FoldsIn(it, b, X, x0, G)
  <2>1. it[{}] = x0
    BY <1>2, <1>8
  <2>2. \A S \in SUBSET (1 .. b) : S # {} => it[S] = Vary(docs, it[S \ {Max(S)}], s[Max(S)])
    BY <1>2, <1>8
  <2>3. QED
    BY <1>3, <1>6, <2>1, <2>2 DEF FoldsIn
<1>10. EndsIn(it, b, X, G)
  BY <1>2, <1>4, <1>9, FoldStays
<1>11. s # << >> => \E x \in X : \E y \in Y : it[1 .. b] = Vary(docs, x, y)
  <2>1. SUFFICES ASSUME s # << >> PROVE \E x \in X : \E y \in Y : it[1 .. b] = Vary(docs, x, y)
    OBVIOUS
  <2>2. PICK x \in X : it[1 .. b] = G[<<b, x>>]
    BY <1>2, <1>10, <2>1 DEF EndsIn
  <2>3. b \in 1 .. b
    BY <1>2, <2>1
  <2>4. QED
    BY <1>2, <1>3, <2>2, <2>3
<1>12. QED
  BY <1>1, <1>2, <1>10, <1>11 DEF EndsIn

(* The days that _optimize_plan varies.                                    *)
VaryDays(docs, x0, s) == FoldLeft(LAMBDA acc, day : VaryDay(docs, acc, day), x0, s)

LEMMA VaryDaysThrough ==
  ASSUME NEW X, NEW Y, NEW x0 \in X, NEW s \in Seq(Y), NEW docs,
         \A x \in X : \A y \in Y : VaryDay(docs, x, y) \in X
  PROVE  LET end == VaryDays(docs, x0, s)
         IN /\ end \in X
            /\ s # << >> => \E x \in X : \E y \in Y : end = VaryDay(docs, x, y)
<1> DEFINE b == Len(s)
           G == [p \in (1 .. b) \X X |-> VaryDay(docs, p[2], s[p[1]])]
           F(it) == [S \in SUBSET DOMAIN s |->
                       IF S = {} THEN x0 ELSE VaryDay(docs, it[S \ {Max(S)}], s[Max(S)])]
           it == CHOOSE it : it = F(it)
<1>1. VaryDays(docs, x0, s) = it[DOMAIN s]
  BY DEF FoldLeft, MapThenFoldSet, VaryDays
<1>2. /\ b \in Nat /\ DOMAIN s = 1 .. b /\ \A n \in 1 .. b : s[n] \in Y
      /\ x0 \in X /\ (s # << >> => b # 0)
  OBVIOUS
<1> HIDE DEF b
<1>3. \A n \in 1 .. b : \A x \in X : G[<<n, x>>] = VaryDay(docs, x, s[n]) /\ G[<<n, x>>] \in X
  BY <1>2
<1>4. G \in StepFunctions(b, X)
  BY <1>2 DEF StepFunctions
<1> HIDE DEF G
<1>5. PICK g \in [SUBSET (1 .. b) -> X] : Folds(g, b, x0, G)
  BY <1>2, <1>4, FoldRecursion
<1>6. \A S \in SUBSET (1 .. b) : S # {} => Max(S) \in 1 .. b /\ S \ {Max(S)} \in SUBSET (1 .. b)
  BY <1>2, LastOfMany
<1>7. g = F(g)
  <2>1. \A S \in SUBSET (1 .. b) : S # {} => g[S] = VaryDay(docs, g[S \ {Max(S)}], s[Max(S)])
    BY <1>3, <1>5, <1>6 DEF Folds
  <2>2. \A S \in SUBSET (1 .. b) : g[S] = F(g)[S]
    BY <1>2, <1>5, <2>1 DEF Folds
  <2>3. QED
    BY <1>2, <1>5, <2>2
<1>8. it = F(it)
  BY <1>7
<1> HIDE DEF it
<1>9. FoldsIn(it, b, X, x0, G)
  <2>1. it[{}] = x0
    BY <1>2, <1>8
  <2>2. \A S \in SUBSET (1 .. b) : S # {} => it[S] = VaryDay(docs, it[S \ {Max(S)}], s[Max(S)])
    BY <1>2, <1>8
  <2>3. QED
    BY <1>3, <1>6, <2>1, <2>2 DEF FoldsIn
<1>10. EndsIn(it, b, X, G)
  BY <1>2, <1>4, <1>9, FoldStays
<1>11. s # << >> => \E x \in X : \E y \in Y : it[1 .. b] = VaryDay(docs, x, y)
  <2>1. SUFFICES ASSUME s # << >> PROVE \E x \in X : \E y \in Y : it[1 .. b] = VaryDay(docs, x, y)
    OBVIOUS
  <2>2. PICK x \in X : it[1 .. b] = G[<<b, x>>]
    BY <1>2, <1>10, <2>1 DEF EndsIn
  <2>3. b \in 1 .. b
    BY <1>2, <2>1
  <2>4. QED
    BY <1>2, <1>3, <2>2, <2>3
<1>12. QED
  BY <1>1, <1>2, <1>10, <1>11 DEF EndsIn

(* What _enforce_min_spend adds, one by one.                               *)
MinimumSteps(docs, x0, s) == FoldLeft(LAMBDA q, i : TowardsMinimum(q, docs), x0, s)

MinimumRun(r, docs, x0, s) ==
  /\ r[0] = x0 /\ r[Len(s)] = MinimumSteps(docs, x0, s)
  /\ \A n \in 1 .. Len(s) : r[n] = TowardsMinimum(r[n - 1], docs)

LEMMA MinimumThrough ==
  ASSUME NEW X, NEW Y, NEW x0 \in X, NEW s \in Seq(Y), NEW docs,
         \A x \in X : \A y \in Y : TowardsMinimum(x, docs) \in X
  PROVE  LET end == MinimumSteps(docs, x0, s)
         IN /\ end \in X
            /\ s # << >> => \E x \in X : \E y \in Y : end = TowardsMinimum(x, docs)
            /\ \E r \in [0 .. Len(s) -> X] : MinimumRun(r, docs, x0, s)
<1> DEFINE b == Len(s)
           G == [p \in (1 .. b) \X X |-> TowardsMinimum(p[2], docs)]
           F(it) == [S \in SUBSET DOMAIN s |->
                       IF S = {} THEN x0 ELSE TowardsMinimum(it[S \ {Max(S)}], docs)]
           it == CHOOSE it : it = F(it)
<1>1. MinimumSteps(docs, x0, s) = it[DOMAIN s]
  BY DEF FoldLeft, MapThenFoldSet, MinimumSteps
<1>2. /\ b \in Nat /\ DOMAIN s = 1 .. b /\ \A n \in 1 .. b : s[n] \in Y
      /\ x0 \in X /\ (s # << >> => b # 0)
  OBVIOUS
<1> HIDE DEF b
<1>3. \A n \in 1 .. b : \A x \in X : G[<<n, x>>] = TowardsMinimum(x, docs) /\ G[<<n, x>>] \in X
  BY <1>2
<1>4. G \in StepFunctions(b, X)
  BY <1>2 DEF StepFunctions
<1> HIDE DEF G
<1>5. PICK g \in [SUBSET (1 .. b) -> X] : Folds(g, b, x0, G)
  BY <1>2, <1>4, FoldRecursion
<1>6. \A S \in SUBSET (1 .. b) : S # {} => Max(S) \in 1 .. b /\ S \ {Max(S)} \in SUBSET (1 .. b)
  BY <1>2, LastOfMany
<1>7. g = F(g)
  <2>1. \A S \in SUBSET (1 .. b) : S # {} => g[S] = TowardsMinimum(g[S \ {Max(S)}], docs)
    BY <1>3, <1>5, <1>6 DEF Folds
  <2>2. \A S \in SUBSET (1 .. b) : g[S] = F(g)[S]
    BY <1>2, <1>5, <2>1 DEF Folds
  <2>3. QED
    BY <1>2, <1>5, <2>2
<1>8. it = F(it)
  BY <1>7
<1> HIDE DEF it
<1>9. FoldsIn(it, b, X, x0, G)
  <2>1. it[{}] = x0
    BY <1>2, <1>8
  <2>2. \A S \in SUBSET (1 .. b) : S # {} => it[S] = TowardsMinimum(it[S \ {Max(S)}], docs)
    BY <1>2, <1>8
  <2>3. QED
    BY <1>3, <1>6, <2>1, <2>2 DEF FoldsIn
<1>10. EndsIn(it, b, X, G)
  BY <1>2, <1>4, <1>9, FoldStays
<1>11. s # << >> => \E x \in X : \E y \in Y : it[1 .. b] = TowardsMinimum(x, docs)
  <2>1. SUFFICES ASSUME s # << >> PROVE \E x \in X : \E y \in Y : it[1 .. b] = TowardsMinimum(x, docs)
    OBVIOUS
  <2>2. PICK x \in X : it[1 .. b] = G[<<b, x>>]
    BY <1>2, <1>10, <2>1 DEF EndsIn
  <2>3. b \in 1 .. b
    BY <1>2, <2>1
  <2>4. QED
    BY <1>2, <1>3, <2>2, <2>3
<1>12. PICK r \in [0 .. b -> X] : Follows(r, b, x0, G) /\ r[b] = it[1 .. b]
  BY <1>2, <1>4, <1>9, FoldRuns
<1>13. \A n \in 1 .. b : r[n - 1] \in X
  BY <1>2
<1>14. r[0] = x0 /\ \A n \in 1 .. b : r[n] = TowardsMinimum(r[n - 1], docs)
  BY <1>3, <1>12, <1>13 DEF Follows
<1>15. QED
  BY <1>1, <1>2, <1>10, <1>11, <1>12, <1>14 DEF EndsIn, b, MinimumRun

(* What _enforce_budget drops, one by one.                                 *)
BudgetSteps(x0, s) == FoldLeft(LAMBDA q, i : TowardsBudget(q), x0, s)

BudgetRun(r, x0, s) ==
  /\ r[0] = x0 /\ r[Len(s)] = BudgetSteps(x0, s)
  /\ \A n \in 1 .. Len(s) : r[n] = TowardsBudget(r[n - 1])

LEMMA BudgetThrough ==
  ASSUME NEW X, NEW Y, NEW x0 \in X, NEW s \in Seq(Y),
         \A x \in X : \A y \in Y : TowardsBudget(x) \in X
  PROVE  LET end == BudgetSteps(x0, s)
         IN /\ end \in X
            /\ s # << >> => \E x \in X : \E y \in Y : end = TowardsBudget(x)
            /\ \E r \in [0 .. Len(s) -> X] : BudgetRun(r, x0, s)
<1> DEFINE b == Len(s)
           G == [p \in (1 .. b) \X X |-> TowardsBudget(p[2])]
           F(it) == [S \in SUBSET DOMAIN s |->
                       IF S = {} THEN x0 ELSE TowardsBudget(it[S \ {Max(S)}])]
           it == CHOOSE it : it = F(it)
<1>1. BudgetSteps(x0, s) = it[DOMAIN s]
  BY DEF FoldLeft, MapThenFoldSet, BudgetSteps
<1>2. /\ b \in Nat /\ DOMAIN s = 1 .. b /\ \A n \in 1 .. b : s[n] \in Y
      /\ x0 \in X /\ (s # << >> => b # 0)
  OBVIOUS
<1> HIDE DEF b
<1>3. \A n \in 1 .. b : \A x \in X : G[<<n, x>>] = TowardsBudget(x) /\ G[<<n, x>>] \in X
  BY <1>2
<1>4. G \in StepFunctions(b, X)
  BY <1>2 DEF StepFunctions
<1> HIDE DEF G
<1>5. PICK g \in [SUBSET (1 .. b) -> X] : Folds(g, b, x0, G)
  BY <1>2, <1>4, FoldRecursion
<1>6. \A S \in SUBSET (1 .. b) : S # {} => Max(S) \in 1 .. b /\ S \ {Max(S)} \in SUBSET (1 .. b)
  BY <1>2, LastOfMany
<1>7. g = F(g)
  <2>1. \A S \in SUBSET (1 .. b) : S # {} => g[S] = TowardsBudget(g[S \ {Max(S)}])
    BY <1>3, <1>5, <1>6 DEF Folds
  <2>2. \A S \in SUBSET (1 .. b) : g[S] = F(g)[S]
    BY <1>2, <1>5, <2>1 DEF Folds
  <2>3. QED
    BY <1>2, <1>5, <2>2
<1>8. it = F(it)
  BY <1>7
<1> HIDE DEF it
<1>9. FoldsIn(it, b, X, x0, G)
  <2>1. it[{}] = x0
    BY <1>2, <1>8
  <2>2. \A S \in SUBSET (1 .. b) : S # {} => it[S] = TowardsBudget(it[S \ {Max(S)}])
    BY <1>2, <1>8
  <2>3. QED
    BY <1>3, <1>6, <2>1, <2>2 DEF FoldsIn
<1>10. EndsIn(it, b, X, G)
  BY <1>2, <1>4, <1>9, FoldStays
<1>11. s # << >> => \E x \in X : \E y \in Y : it[1 .. b] = TowardsBudget(x)
  <2>1. SUFFICES ASSUME s # << >> PROVE \E x \in X : \E y \in Y : it[1 .. b] = TowardsBudget(x)
    OBVIOUS
  <2>2. PICK x \in X : it[1 .. b] = G[<<b, x>>]
    BY <1>2, <1>10, <2>1 DEF EndsIn
  <2>3. b \in 1 .. b
    BY <1>2, <2>1
  <2>4. QED
    BY <1>2, <1>3, <2>2, <2>3
<1>12. PICK r \in [0 .. b -> X] : Follows(r, b, x0, G) /\ r[b] = it[1 .. b]
  BY <1>2, <1>4, <1>9, FoldRuns
<1>13. \A n \in 1 .. b : r[n - 1] \in X
  BY <1>2
<1>14. r[0] = x0 /\ \A n \in 1 .. b : r[n] = TowardsBudget(r[n - 1])
  BY <1>3, <1>12, <1>13 DEF Follows
<1>15. QED
  BY <1>1, <1>2, <1>10, <1>11, <1>12, <1>14 DEF EndsIn, b, BudgetRun

-----------------------------------------------------------------------------
DayIn(I) ==
  [spots : Seq(I), foods : Seq(I), own : Seq(Items), legs : Nat, blocks : Nat]

PlanIn(I) ==
  [days : Seq(DayIn(I)) \ {<< >>}, price : [Items -> Int], total : Int, hotel : Nat,
   told : BOOLEAN, twins : BOOLEAN]

(* A day of any items is a day.                                            *)
LEMMA AnyDays == DayIn(Items) = Day
BY DEF DayIn, Day

(* A plan of some items is one of all items.                               *)
LEMMA MoreItems ==
  ASSUME NEW I \in SUBSET Items
  PROVE  DayIn(I) \subseteq DayIn(Items) /\ PlanIn(I) \subseteq PlanIn(Items)
<1>1. Seq(I) \subseteq Seq(Items)
  OBVIOUS
<1>2. DayIn(I) \subseteq DayIn(Items)
  BY <1>1 DEF DayIn
<1>3. Seq(DayIn(I)) \subseteq Seq(DayIn(Items))
  BY <1>2
<1>4. QED
  BY <1>2, <1>3 DEF PlanIn

(* A plan whose days are others.                                           *)
LEMMA DaysReplaced ==
  ASSUME NEW I, NEW J, NEW p \in PlanIn(J), NEW days \in Seq(DayIn(I)) \ {<< >>}
  PROVE  /\ [p EXCEPT !.days = days] \in PlanIn(I)
         /\ [p EXCEPT !.days = days].days = days
<1> DEFINE D == Seq(DayIn(I)) \ {<< >>}
<1>1. days \in D
  OBVIOUS
<1>2. PlanIn(I) = [days : D, price : [Items -> Int], total : Int, hotel : Nat,
                   told : BOOLEAN, twins : BOOLEAN]
  BY DEF PlanIn
<1> HIDE DEF D
<1>3. QED
  BY <1>1, <1>2 DEF PlanIn

(* A plan has at least one day, and each is a day.                         *)
LEMMA DaysOfPlan ==
  ASSUME NEW I, NEW p \in PlanIn(I)
  PROVE  /\ p.days \in Seq(DayIn(I)) /\ p.days # << >>
         /\ DOMAIN p.days = 1 .. Len(p.days) /\ Len(p.days) \in Nat \ {0}
         /\ \A d \in DOMAIN p.days : p.days[d] \in DayIn(I)
<1>1. p.days \in Seq(DayIn(I)) /\ p.days # << >>
  BY DEF PlanIn
<1> DEFINE days == p.days
           X == DayIn(I)
<1>2. days \in Seq(X) /\ days # << >>
  BY <1>1
<1> HIDE DEF days, X
<1>3. DOMAIN days = 1 .. Len(days) /\ Len(days) \in Nat \ {0} /\ \A d \in DOMAIN days : days[d] \in X
  BY <1>2
<1>4. QED
  BY <1>1, <1>3 DEF days, X

(* Days that are changed one by one are days.                              *)
LEMMA MappedDays ==
  ASSUME NEW X, NEW Y, NEW days \in Seq(X), days # << >>, NEW f,
         f = [d \in DOMAIN days |-> f[d]], \A d \in DOMAIN days : f[d] \in Y
  PROVE  f \in Seq(Y) \ {<< >>}
<1>1. Len(days) \in Nat \ {0} /\ DOMAIN days = 1 .. Len(days)
  OBVIOUS
<1>2. f \in [1 .. Len(days) -> Y]
  BY <1>1
<1>3. 1 \in DOMAIN f
  BY <1>1
<1>4. QED
  BY <1>1, <1>2, <1>3

-----------------------------------------------------------------------------
(* A list of a day has items.                                              *)
LEMMA ListOfDay ==
  ASSUME NEW I, NEW day \in DayIn(I), NEW kind \in Kind
  PROVE  day[kind] \in Seq(I)
<1>1. CASE kind = "spots"
  BY <1>1 DEF DayIn
<1>2. CASE kind = "foods"
  BY <1>2 DEF DayIn
<1>3. QED
  BY <1>1, <1>2 DEF Kind

(* A day with another list of a kind is a day.                             *)
LEMMA ListReplaced ==
  ASSUME NEW I, NEW day \in DayIn(I), NEW kind \in Kind, NEW seq \in Seq(I)
  PROVE  [day EXCEPT ![kind] = seq] \in DayIn(I)
<1>1. CASE kind = "spots"
  BY <1>1 DEF DayIn
<1>2. CASE kind = "foods"
  BY <1>2 DEF DayIn
<1>3. QED
  BY <1>1, <1>2 DEF Kind

(* A sum of integers is one, and one of natural numbers is a natural       *)
(* number.                                                                 *)
LEMMA SumIsInt ==
  ASSUME NEW seq \in Seq(Int)
  PROVE  SumOf(seq) \in Int
<1>1. 0 \in Int /\ \A x \in Int : \A y \in Int : x + y \in Int
  OBVIOUS
<1>2. Sums(0, seq) \in Int
  BY <1>1, SumsThrough
<1>3. QED
  BY <1>2 DEF SumOf, Sums

LEMMA SumIsNat ==
  ASSUME NEW seq \in Seq(Nat)
  PROVE  SumOf(seq) \in Nat
<1>1. 0 \in Nat /\ \A x \in Nat : \A y \in Nat : x + y \in Nat
  OBVIOUS
<1>2. Sums(0, seq) \in Nat
  BY <1>1, SumsThrough
<1>3. QED
  BY <1>2 DEF SumOf, Sums

(* Prices add up, item by item and day by day.                             *)
LEMMA PricesTyped ==
  ASSUME NEW price \in [Items -> Int], NEW seq \in Seq(Items)
  PROVE  PricesOf(price, seq) \in Int
<1> DEFINE f == [i \in DOMAIN seq |-> price[seq[i]]]
<1>1. \A i \in DOMAIN seq : seq[i] \in Items
  OBVIOUS
<1>2. f \in [1 .. Len(seq) -> Int]
  BY <1>1
<1>3. f \in Seq(Int)
  BY <1>2
<1> HIDE DEF f
<1>4. SumOf(f) \in Int
  BY <1>3, SumIsInt
<1>5. QED
  BY <1>4 DEF PricesOf, f

LEMMA CostTyped ==
  ASSUME ask \in Request, NEW price \in [Items -> Int], NEW day \in DayIn(Items)
  PROVE  DayCost(price, day) \in Int
<1>1. ask.travelers \in Nat /\ Fare \in Nat /\ Ride \in Nat
  BY PlanAssumption DEF Request
<1>2. /\ day.spots \o day.foods \in Seq(Items)
      /\ day.blocks \in Nat /\ day.legs \in Nat
  BY DEF DayIn
<1>3. PricesOf(price, day.spots \o day.foods) \in Int
  BY <1>2, PricesTyped
<1>4. \A a \in Int, b \in Int : a * b \in Int
  OBVIOUS
<1>5. (day.blocks - 1) * Ride \in Int
  BY <1>1, <1>2, <1>4
<1>6. Transport(day) \in Int
  BY <1>1, <1>2, <1>4, <1>5 DEF Transport
<1>7. ask.travelers * PricesOf(price, day.spots \o day.foods) \in Int
  BY <1>1, <1>3, <1>4
<1>8. QED
  BY <1>6, <1>7 DEF DayCost

LEMMA TotalTyped ==
  ASSUME ask \in Request, NEW p \in PlanIn(Items)
  PROVE  Total(p) \in Int
<1> DEFINE days == p.days
           price == p.price
           f == [d \in DOMAIN days |-> DayCost(price, days[d])]
<1>1. p.hotel \in Nat /\ price \in [Items -> Int]
  BY DEF PlanIn
<1>2. DOMAIN days = 1 .. Len(days) /\ Len(days) \in Nat /\ \A d \in DOMAIN days : days[d] \in DayIn(Items)
  BY DaysOfPlan
<1> HIDE DEF days, price
<1>3. \A d \in DOMAIN days : DayCost(price, days[d]) \in Int
  BY <1>1, <1>2, CostTyped
<1>4. f \in [1 .. Len(days) -> Int]
  BY <1>2, <1>3
<1>5. f \in Seq(Int)
  BY <1>2, <1>4
<1> HIDE DEF f
<1>6. SumOf(f) \in Int
  BY <1>5, SumIsInt
<1>7. Total(p) = p.hotel + SumOf(f)
  BY DEF Total, f, days, price
<1>8. QED
  BY <1>1, <1>6, <1>7

(* The total depends on the days, the prices and the hotel only.           *)
LEMMA TotalSame ==
  ASSUME NEW p, NEW q, q.days = p.days, q.price = p.price, q.hotel = p.hotel
  PROVE  Total(q) = Total(p)
<1> DEFINE T(days, price, hotel) == hotel + SumOf([d \in DOMAIN days |-> DayCost(price, days[d])])
<1>1. Total(p) = T(p.days, p.price, p.hotel) /\ Total(q) = T(q.days, q.price, q.hotel)
  BY DEF Total
<1> HIDE DEF T
<1>2. QED
  BY <1>1

(* What it costs, and whether that is too much, is as the plan says.       *)
CostsSaid(p) == p.total = Total(p) /\ (TooDear(p.total) => p.told)

(* _recompute_costs leaves a plan that says what it costs.                 *)
LEMMA CostedTyped ==
  ASSUME ask \in Request, NEW I \in SUBSET Items, NEW p \in PlanIn(I)
  PROVE  Costed(p) \in PlanIn(I) /\ CostsSaid(Costed(p))
<1>1. p \in PlanIn(Items)
  BY MoreItems
<1> DEFINE t == Total(p)
           told == p.told \/ TooDear(t)
           q == [p EXCEPT !.total = t, !.told = told]
<1>2. t \in Int
  BY <1>1, TotalTyped
<1>3. TooDear(t) \in BOOLEAN
  BY DEF TooDear
<1>4. told \in BOOLEAN
  BY <1>3 DEF PlanIn
<1>5. Costed(p) = q
  BY DEF Costed, Costing
<1> HIDE DEF t, told
<1>6. q \in PlanIn(I) /\ q.days = p.days /\ q.price = p.price /\ q.hotel = p.hotel
      /\ q.total = t /\ q.told = told
  BY <1>2, <1>4 DEF PlanIn
<1> HIDE DEF q
<1>7. Total(q) = t
  BY <1>6, TotalSame DEF t
<1>8. TooDear(t) => told
  BY DEF told
<1>9. TooDear(q.total) => q.told
  BY <1>6, <1>8
<1>10. QED
  BY <1>5, <1>6, <1>7, <1>9 DEF CostsSaid

-----------------------------------------------------------------------------
(* What helpers on sequences return is made of what they are given.        *)
LEMMA OfKindTyped ==
  ASSUME NEW I, NEW docs \in Seq(I), NEW kind
  PROVE  OfKind(kind, docs) \in Seq(I)
BY PickedPlaces DEF OfKind, Chosen

(* Nothing that was to go is left.                                         *)
LEMMA WithoutTyped ==
  ASSUME NEW I, NEW docs \in Seq(I), NEW out
  PROVE  Without(docs, out) \in Seq(I) /\ Without(docs, out) \in Seq(I \ out)
<1> DEFINE K == {i \in DOMAIN docs : docs[i] \notin out}
           w == Picked(docs, K)
<1> HIDE DEF K
<1>1. /\ w \in Seq(I)
      /\ \A k \in DOMAIN w : \E i \in K \cap DOMAIN docs : w[k] = docs[i]
  BY PickedElements
<1>2. \A k \in DOMAIN w : w[k] \in I \ out
  BY <1>1 DEF K
<1> HIDE DEF w
<1>3. w \in Seq(I \ out)
  <2>1. w \in [1 .. Len(w) -> I \ out]
    BY <1>1, <1>2
  <2>2. Len(w) \in Nat
    BY <1>1
  <2>3. QED
    BY <2>1, <2>2
<1>4. QED
  BY <1>1, <1>3 DEF Without, Chosen, w, K

(* The first n of a sequence, if n is not too small, are not none.         *)
LEMMA FirstNTyped ==
  ASSUME NEW I, NEW seq \in Seq(I), NEW n \in Int
  PROVE  /\ FirstN(seq, n) \in Seq(I)
         /\ seq # << >> /\ n >= 1 => FirstN(seq, n) # << >>
<1> DEFINE m == Min({n, Len(seq)})
<1>1. Len(seq) \in Nat
  OBVIOUS
<1>2. m = IF n <= Len(seq) THEN n ELSE Len(seq)
  BY <1>1, LesserOfTwo
<1>3. m \in Int /\ m <= Len(seq)
  BY <1>1, <1>2
<1>4. seq # << >> /\ n >= 1 => m >= 1
  BY <1>2
<1> HIDE DEF m
<1>5. SubSeq(seq, 1, m) \in Seq(I) /\ (m >= 1 => SubSeq(seq, 1, m) # << >>)
  BY <1>3
<1>6. QED
  BY <1>4, <1>5 DEF FirstN, m

LEMMA OnceTyped ==
  ASSUME NEW I, NEW seq \in Seq(I)
  PROVE  Once(seq) \in Seq(I)
BY PickedPlaces DEF Once

LEMMA OrElseTyped ==
  ASSUME NEW I, NEW seq \in Seq(I), NEW x \in I
  PROVE  OrElse(seq, x) \in Seq(I) /\ OrElse(seq, x) # << >>
BY DEF OrElse

(* Going round a sequence does not leave it.                               *)
LEMMA CyclicTyped ==
  ASSUME NEW I, NEW seq \in Seq(I), seq # << >>, NEW i \in Nat \ {0}
  PROVE  Cyclic(seq, i) \in I
<1>1. Len(seq) \in Nat \ {0} /\ i - 1 \in Nat
  OBVIOUS
<1>2. \A a \in Nat, b \in Nat \ {0} : a % b \in 0 .. b - 1
  OBVIOUS
<1>3. (i - 1) % Len(seq) \in 0 .. Len(seq) - 1
  BY <1>1, <1>2
<1>4. ((i - 1) % Len(seq)) + 1 \in 1 .. Len(seq)
  BY <1>1, <1>3
<1>5. QED
  BY <1>4 DEF Cyclic

LEMMA RemoveAtTyped ==
  ASSUME NEW I, NEW seq \in Seq(I), NEW i \in DOMAIN seq
  PROVE  RemoveAt(seq, i) \in Seq(I)
<1>1. SubSeq(seq, 1, i - 1) \in Seq(I) /\ SubSeq(seq, i + 1, Len(seq)) \in Seq(I)
  OBVIOUS
<1>2. QED
  BY <1>1 DEF RemoveAt

(* One list, and those alike, replaced.                                    *)
LEMMA WithListTyped ==
  ASSUME NEW I, NEW p \in PlanIn(I), NEW d, NEW kind \in Kind, NEW seq \in Seq(I)
  PROVE  WithList(p, d, kind, seq) \in PlanIn(I)
<1> DEFINE days == p.days
           f == [e \in DOMAIN days |-> IF e \in Alike(p, d, kind)
                                       THEN [days[e] EXCEPT ![kind] = seq] ELSE days[e]]
<1>1. days \in Seq(DayIn(I)) /\ days # << >> /\ \A e \in DOMAIN days : days[e] \in DayIn(I)
  BY DaysOfPlan
<1>2. \A e \in DOMAIN days : [days[e] EXCEPT ![kind] = seq] \in DayIn(I)
  BY <1>1, ListReplaced
<1>3. \A e \in DOMAIN days : f[e] \in DayIn(I)
  BY <1>1, <1>2
<1>4. f = [e \in DOMAIN days |-> f[e]]
  OBVIOUS
<1>5. WithList(p, d, kind, seq) = [p EXCEPT !.days = f]
  BY DEF WithList
<1> HIDE DEF f, days
<1>6. f \in Seq(DayIn(I)) \ {<< >>}
  BY <1>1, <1>3, <1>4, MappedDays
<1>7. QED
  BY <1>5, <1>6, DaysReplaced

(* Of places with values there is one of the greatest, the first such.     *)
LEMMA BestPlace ==
  ASSUME NEW n \in Nat \ {0}, NEW v \in [1 .. n -> Int]
  PROVE  \E i \in 1 .. n : \A j \in 1 .. n : v[i] > v[j] \/ (v[i] = v[j] /\ i <= j)
<1> DEFINE Good == {m \in 0 .. n : m # 0 =>
                      \E i \in 1 .. m : \A j \in 1 .. m : v[i] > v[j] \/ (v[i] = v[j] /\ i <= j)}
<1>1. 0 \in Good
  OBVIOUS
<1>2. ASSUME NEW m \in 1 .. n, m - 1 \in Good PROVE m \in Good
  <2>1. CASE m = 1
    <3>1. \A j \in 1 .. 1 : v[1] = v[j] /\ 1 <= j
      OBVIOUS
    <3>2. QED
      BY <2>1, <3>1
  <2>2. CASE m # 1
    <3>1. PICK i \in 1 .. m - 1 : \A j \in 1 .. m - 1 : v[i] > v[j] \/ (v[i] = v[j] /\ i <= j)
      BY <1>2, <2>2
    <3>2. \A j \in 1 .. m : v[j] \in Int /\ (j = m \/ j \in 1 .. m - 1)
      OBVIOUS
    <3>3. CASE v[m] > v[i]
      <4>1. \A j \in 1 .. m : v[m] > v[j] \/ (v[m] = v[j] /\ m <= j)
        BY <3>1, <3>2, <3>3
      <4>2. QED
        BY <4>1
    <3>4. CASE ~ (v[m] > v[i])
      <4>1. \A j \in 1 .. m : v[i] > v[j] \/ (v[i] = v[j] /\ i <= j)
        BY <3>1, <3>2, <3>4
      <4>2. i \in 1 .. m
        OBVIOUS
      <4>3. QED
        BY <4>1, <4>2
    <3>5. QED
      BY <3>3, <3>4
  <2>3. QED
    BY <2>1, <2>2
<1> HIDE DEF Good
<1>3. \A m \in 0 .. n : m \in Good
  BY <1>1, <1>2, Induction
<1>4. n \in Good
  BY <1>3
<1>5. QED
  BY <1>4 DEF Good

-----------------------------------------------------------------------------
(* The minimum: _enforce_min_spend.                                        *)

(* The dearest item is one of those there are.                             *)
LEMMA DearestOne ==
  ASSUME NEW docs \in Seq(Items), docs # << >>
  PROVE  Dearest(docs) \in ToSet(docs) /\ Dearest(docs) \in Items
<1> DEFINE n == Len(docs)
           v == [i \in 1 .. n |-> Cost[docs[i]]]
           Best(i) == \A j \in DOMAIN docs :
             Cost[docs[i]] > Cost[docs[j]] \/ (Cost[docs[i]] = Cost[docs[j]] /\ i <= j)
<1>1. n \in Nat \ {0} /\ DOMAIN docs = 1 .. n /\ \A i \in 1 .. n : docs[i] \in Items
  OBVIOUS
<1> HIDE DEF n
<1>2. \A i \in 1 .. n : v[i] = Cost[docs[i]] /\ v[i] \in Int
  BY <1>1, PlanAssumption
<1>3. v \in [1 .. n -> Int]
  BY <1>2
<1> HIDE DEF v
<1>4. PICK i \in 1 .. n : \A j \in 1 .. n : v[i] > v[j] \/ (v[i] = v[j] /\ i <= j)
  BY <1>1, <1>3, BestPlace
<1>5. i \in DOMAIN docs /\ Best(i)
  BY <1>1, <1>2, <1>4
<1> HIDE DEF Best
<1>6. (CHOOSE k \in DOMAIN docs : Best(k)) \in DOMAIN docs
  BY <1>5
<1>7. Dearest(docs) = docs[CHOOSE k \in DOMAIN docs : Best(k)]
  BY DEF Dearest, Best
<1>8. QED
  BY <1>1, <1>6, <1>7 DEF ToSet

(* A plan with another price of an item is a plan.                         *)
LEMMA PriceReplaced ==
  ASSUME NEW I, NEW p \in PlanIn(I), NEW x, NEW new \in Int
  PROVE  [p EXCEPT !.price[x] = new] \in PlanIn(I)
<1>1. p.price \in [Items -> Int]
  BY DEF PlanIn
<1> DEFINE f == [p.price EXCEPT ![x] = new]
<1>2. f \in [Items -> Int]
  BY <1>1
<1>3. [p EXCEPT !.price[x] = new] = [p EXCEPT !.price = f]
  BY DEF PlanIn
<1> HIDE DEF f
<1>4. QED
  BY <1>2, <1>3 DEF PlanIn

(* What the minimum asks for is added, and the result is a plan.           *)
LEMMA WithItemTyped ==
  ASSUME ask \in Request, NEW p \in PlanIn(Items), NEW x \in Items
  PROVE  WithItem(p, x) \in PlanIn(Items)
<1> DEFINE kind == IF x \in Spots THEN "spots" ELSE "foods"
           seq == Append(p.days[1][kind], x)
           q == WithList(p, 1, kind, seq)
           r == [q EXCEPT !.price[x] = Cost[x]]
<1>1. kind \in Kind
  BY DEF Kind
<1> HIDE DEF kind
<1>2. p.days[1] \in DayIn(Items)
  BY DaysOfPlan
<1>3. p.days[1][kind] \in Seq(Items)
  BY <1>1, <1>2, ListOfDay
<1>4. seq \in Seq(Items)
  BY <1>3
<1> HIDE DEF seq
<1>5. q \in PlanIn(Items)
  BY <1>1, <1>4, WithListTyped
<1> HIDE DEF q
<1>6. Cost[x] \in Int
  BY PlanAssumption
<1>7. r \in PlanIn(Items)
  BY <1>5, <1>6, PriceReplaced
<1>8. WithItem(p, x) = Costed(r)
  BY DEF WithItem, kind, seq, q
<1> HIDE DEF r
<1>9. QED
  BY <1>7, <1>8, CostedTyped

LEMMA TowardsMinimumTyped ==
  ASSUME ask \in Request, NEW q \in PlanIn(Items), NEW docs \in Seq(Items)
  PROVE  TowardsMinimum(q, docs) \in PlanIn(Items)
<1> DEFINE new == Without(docs, InPlan(q))
           more == IF new # << >> THEN new ELSE Without(Corpus, InPlan(q))
<1>1. new \in Seq(Items)
  BY WithoutTyped
<1>2. Without(Corpus, InPlan(q)) \in Seq(Items)
  BY WithoutTyped, PlanAssumption
<1>3. more \in Seq(Items)
  BY <1>1, <1>2
<1>4. TowardsMinimum(q, docs) =
        IF q.total >= ask.minimum \/ more = << >> THEN q ELSE WithItem(q, Dearest(more))
  BY DEF TowardsMinimum
<1> HIDE DEF more, new
<1>5. more # << >> => WithItem(q, Dearest(more)) \in PlanIn(Items)
  BY <1>3, DearestOne, WithItemTyped
<1>6. QED
  BY <1>4, <1>5

(* However many are added.                                                 *)
LEMMA ReachMinimumTyped ==
  ASSUME ask \in Request, NEW p \in PlanIn(Items), NEW docs \in Seq(Items)
  PROVE  ReachMinimum(p, docs) \in PlanIn(Items)
<1> DEFINE n == Min({30, Len(docs) + Len(Corpus)})
           places == [i \in 1 .. n |-> i]
           c == Costed(p)
           end == MinimumSteps(docs, c, places)
<1>1. Len(docs) + Len(Corpus) \in Nat
  BY PlanAssumption
<1>2. n \in Nat
  BY <1>1, LesserOfTwo
<1> HIDE DEF n
<1>3. places \in Seq(Nat)
  BY <1>2
<1>4. c \in PlanIn(Items)
  BY CostedTyped
<1>5. \A x \in PlanIn(Items) : \A y \in Nat : TowardsMinimum(x, docs) \in PlanIn(Items)
  BY TowardsMinimumTyped
<1>6. ReachMinimum(p, docs) = IF ask.minimum = 0 THEN p ELSE IF MinimumAskedFor THEN end ELSE c
  BY DEF ReachMinimum, Iterate, n, MinimumSteps
<1> HIDE DEF places, c
<1> DEFINE X == PlanIn(Items)
<1>7. end \in X
  <2>1. c \in X /\ \A x \in X : \A y \in Nat : TowardsMinimum(x, docs) \in X
    BY <1>4, <1>5
  <2> HIDE DEF X
  <2>2. QED
    BY <1>3, <2>1, MinimumThrough
<1>8. QED
  BY <1>4, <1>6, <1>7

-----------------------------------------------------------------------------
(* The budget: _enforce_budget.                                            *)


(* Of pairs with positive values there is one of the greatest, the first   *)
(* such.                                                                   *)
PairsWithValues(M, P, n, L) ==
  \A b \in M : /\ b = <<b[1], b[2]>> /\ b[1] \in 1 .. n /\ b[2] \in 1 .. L[b[1]]
               /\ P[b] \in Int /\ P[b] > 0

HaveBest(M, P) ==
  \E a \in M : \A b \in M :
    P[a] > P[b] \/ (P[a] = P[b] /\ (a[1] < b[1] \/ (a[1] = b[1] /\ a[2] <= b[2])))

LEMMA BestPair ==
  ASSUME NEW n \in Nat, NEW L \in [1 .. n -> Nat], NEW M, M # {}, NEW P,
         PairsWithValues(M, P, n, L)
  PROVE  HaveBest(M, P)
<1> USE DEF PairsWithValues
<1> DEFINE V(d) == [i \in 1 .. L[d] |-> IF <<d, i>> \in M THEN P[<<d, i>>] ELSE 0]
           Top(d, i) == \A j \in 1 .. L[d] : V(d)[i] > V(d)[j] \/ (V(d)[i] = V(d)[j] /\ i <= j)
           r == [d \in 1 .. n |-> CHOOSE i \in 1 .. L[d] : Top(d, i)]
           t == [d \in 1 .. n |-> IF L[d] = 0 THEN 0 ELSE V(d)[r[d]]]
<1>1. \A d \in 1 .. n : \A i \in 1 .. L[d] :
        /\ V(d)[i] = IF <<d, i>> \in M THEN P[<<d, i>>] ELSE 0
        /\ V(d)[i] \in Int
  <2> SUFFICES ASSUME NEW d \in 1 .. n, NEW i \in 1 .. L[d]
               PROVE  /\ V(d)[i] = IF <<d, i>> \in M THEN P[<<d, i>>] ELSE 0
                      /\ V(d)[i] \in Int
    OBVIOUS
  <2>1. V(d)[i] = IF <<d, i>> \in M THEN P[<<d, i>>] ELSE 0
    OBVIOUS
  <2>2. <<d, i>> \in M => P[<<d, i>>] \in Int
    OBVIOUS
  <2> HIDE DEF V
  <2>3. QED
    BY <2>1, <2>2
<1>2. \A d \in 1 .. n : V(d) \in [1 .. L[d] -> Int] /\ L[d] \in Nat
  BY <1>1
<1> HIDE DEF V
<1>3. \A d \in 1 .. n : L[d] # 0 => \E i \in 1 .. L[d] : Top(d, i)
  BY <1>2, BestPlace
<1> HIDE DEF Top
<1>4. \A d \in 1 .. n : L[d] # 0 => r[d] \in 1 .. L[d] /\ Top(d, r[d])
  BY <1>3
<1> HIDE DEF r
<1>5. \A d \in 1 .. n : t[d] = (IF L[d] = 0 THEN 0 ELSE V(d)[r[d]]) /\ t[d] \in Int
  BY <1>1, <1>2, <1>4
<1>6. t \in [1 .. n -> Int]
  BY <1>5
<1> HIDE DEF t
<1>7. PICK m \in M : TRUE
  OBVIOUS
<1>8. n # 0
  BY <1>7
<1>9. PICK d \in 1 .. n : \A e \in 1 .. n : t[d] > t[e] \/ (t[d] = t[e] /\ d <= e)
  BY <1>6, <1>8, BestPlace
(* The best of the row of b is not worse than b.                           *)
<1>10. ASSUME NEW b \in M
       PROVE  /\ L[b[1]] # 0 /\ t[b[1]] = V(b[1])[r[b[1]]] /\ P[b] \in Int /\ P[b] > 0
              /\ b[1] \in 1 .. n /\ b[2] \in 1 .. L[b[1]] /\ r[b[1]] \in 1 .. L[b[1]]
              /\ t[b[1]] > P[b] \/ (t[b[1]] = P[b] /\ r[b[1]] <= b[2])
  <2>1. b[1] \in 1 .. n /\ b[2] \in 1 .. L[b[1]] /\ <<b[1], b[2]>> \in M
        /\ P[b] = P[<<b[1], b[2]>>] /\ P[b] \in Int /\ P[b] > 0
    OBVIOUS
  <2>2. V(b[1])[b[2]] = P[b]
    BY <1>1, <2>1
  <2>3. L[b[1]] # 0
    BY <2>1
  <2>4. Top(b[1], r[b[1]]) /\ r[b[1]] \in 1 .. L[b[1]]
    BY <1>4, <2>1, <2>3
  <2>5. t[b[1]] = V(b[1])[r[b[1]]]
    BY <1>5, <2>1, <2>3
  <2>6. QED
    BY <2>1, <2>2, <2>3, <2>4, <2>5 DEF Top
<1>11. t[d] > 0 /\ t[d] \in Int
  BY <1>5, <1>9, <1>10, <1>7
<1>12. L[d] # 0 /\ t[d] = V(d)[r[d]] /\ r[d] \in 1 .. L[d]
  BY <1>4, <1>5, <1>11
<1>13. <<d, r[d]>> \in M /\ P[<<d, r[d]>>] = t[d]
  BY <1>1, <1>11, <1>12
<1>14. ASSUME NEW b \in M
       PROVE  t[d] > P[b] \/ (t[d] = P[b] /\ (d < b[1] \/ (d = b[1] /\ r[d] <= b[2])))
  <2>1. t[b[1]] \in Int /\ P[b] \in Int /\ b[1] \in 1 .. n
    BY <1>5, <1>10
  <2>2. t[d] > t[b[1]] \/ (t[d] = t[b[1]] /\ d <= b[1])
    BY <1>9, <2>1
  <2>3. t[b[1]] > P[b] \/ (t[b[1]] = P[b] /\ r[b[1]] <= b[2])
    BY <1>10
  <2>4. QED
    BY <1>11, <2>1, <2>2, <2>3
<1> DEFINE a == <<d, r[d]>>
<1>15. a \in M /\ a[1] = d /\ a[2] = r[d] /\ P[a] = t[d]
  BY <1>13
<1> HIDE DEF a
<1>16. QED
  BY <1>14, <1>15 DEF HaveBest

(* Where items of a plan are, and what they cost.                          *)
LEMMA PositionsTyped ==
  ASSUME NEW I \in SUBSET Items, NEW p \in PlanIn(I), NEW kind \in Kind, NEW at \in Positions(p, kind)
  PROVE  /\ at = <<at[1], at[2]>>
         /\ at[1] \in DOMAIN p.days /\ at[2] \in DOMAIN p.days[at[1]][kind]
         /\ p.days[at[1]][kind] \in Seq(I)
         /\ PriceAt(p, kind, at) \in Int
<1>1. PICK d \in DOMAIN p.days : at \in {d} \X DOMAIN p.days[d][kind]
  BY DEF Positions
<1>2. at = <<at[1], at[2]>> /\ at[1] = d /\ at[2] \in DOMAIN p.days[d][kind]
  BY <1>1
<1>3. p.days[d] \in DayIn(I)
  BY DaysOfPlan
<1> DEFINE seq == p.days[d][kind]
<1>4. seq \in Seq(I)
  BY <1>3, ListOfDay
<1>5. at[2] \in DOMAIN seq
  BY <1>2
<1> HIDE DEF seq
<1>6. seq[at[2]] \in Items
  BY <1>4, <1>5
<1>7. p.price \in [Items -> Int]
  BY DEF PlanIn
<1>8. p.price[seq[at[2]]] \in Int
  BY <1>6, <1>7
<1>9. PriceAt(p, kind, at) \in Int
  BY <1>2, <1>8 DEF PriceAt, seq
<1>10. QED
  BY <1>2, <1>4, <1>9 DEF seq

(* What is dropped is one of those that may go.                            *)
LEMMA DroppedOne ==
  ASSUME ask \in Request, NEW I \in SUBSET Items, NEW p \in PlanIn(I), NEW kind \in Kind,
         MayGo(p, kind) # {}
  PROVE  \E at \in MayGo(p, kind) :
           Dropped(p, kind) = Costed(WithList(p, at[1], kind, RemoveAt(p.days[at[1]][kind], at[2])))
<1> DEFINE M == MayGo(p, kind)
           n == Len(p.days)
           L == [d \in 1 .. n |-> Len(p.days[d][kind])]
           P == [at \in M |-> PriceAt(p, kind, at)]
           Best(a) == \A b \in M : \/ PriceAt(p, kind, a) > PriceAt(p, kind, b)
                                   \/ /\ PriceAt(p, kind, a) = PriceAt(p, kind, b)
                                      /\ a[1] < b[1] \/ (a[1] = b[1] /\ a[2] <= b[2])
           at == CHOOSE a \in M : Best(a)
<1>1. n \in Nat \ {0} /\ DOMAIN p.days = 1 .. n /\ \A d \in 1 .. n : p.days[d] \in DayIn(I)
  BY DaysOfPlan
<1>2. \A d \in 1 .. n : p.days[d][kind] \in Seq(I)
  BY <1>1, ListOfDay
<1>3. \A d \in 1 .. n : L[d] = Len(p.days[d][kind]) /\ L[d] \in Nat
                        /\ DOMAIN p.days[d][kind] = 1 .. L[d]
  <2> SUFFICES ASSUME NEW d \in 1 .. n
               PROVE  L[d] = Len(p.days[d][kind]) /\ L[d] \in Nat
                        /\ DOMAIN p.days[d][kind] = 1 .. L[d]
    OBVIOUS
  <2>1. L[d] = Len(p.days[d][kind])
    OBVIOUS
  <2> DEFINE seq == p.days[d][kind]
  <2>2. seq \in Seq(I)
    BY <1>2
  <2> HIDE DEF seq
  <2>3. Len(seq) \in Nat /\ DOMAIN seq = 1 .. Len(seq)
    BY <2>2
  <2>4. QED
    BY <2>1, <2>3 DEF seq
<1>4. L \in [1 .. n -> Nat]
  BY <1>3
<1>5. \A b \in M : b \in Positions(p, kind) /\ PriceAt(p, kind, b) > 0
  BY DEF MayGo
<1>6. \A b \in M : P[b] = PriceAt(p, kind, b)
  OBVIOUS
<1> HIDE DEF M, P, L, n
<1>7. PairsWithValues(M, P, n, L)
  <2> SUFFICES ASSUME NEW b \in M
               PROVE  /\ b = <<b[1], b[2]>> /\ b[1] \in 1 .. n /\ b[2] \in 1 .. L[b[1]]
                      /\ P[b] \in Int /\ P[b] > 0
    BY DEF PairsWithValues
  <2>1. b \in Positions(p, kind) /\ P[b] = PriceAt(p, kind, b) /\ PriceAt(p, kind, b) > 0
    BY <1>5, <1>6
  <2>2. /\ b = <<b[1], b[2]>> /\ b[1] \in DOMAIN p.days /\ b[2] \in DOMAIN p.days[b[1]][kind]
        /\ PriceAt(p, kind, b) \in Int
    BY <2>1, PositionsTyped
  <2>3. b[1] \in 1 .. n /\ b[2] \in 1 .. L[b[1]]
    BY <1>1, <1>3, <2>2
  <2>4. QED
    BY <2>1, <2>2, <2>3
<1>8. HaveBest(M, P)
  <2>1. M # {} /\ n \in Nat
    BY <1>1 DEF M
  <2>2. QED
    BY <1>4, <1>7, <2>1, BestPair
<1>9. \E a \in M : Best(a)
  BY <1>6, <1>8 DEF HaveBest
<1>10. Dropped(p, kind) = Costed(WithList(p, at[1], kind, RemoveAt(p.days[at[1]][kind], at[2])))
  BY DEF Dropped, M
<1> HIDE DEF Best
<1>11. at \in M
  BY <1>9
<1> HIDE DEF at
<1>12. QED
  BY <1>10, <1>11 DEF M

(* A plan that drops an item has no other items.                           *)
LEMMA DroppedTyped ==
  ASSUME ask \in Request, NEW I \in SUBSET Items, NEW p \in PlanIn(I), NEW kind \in Kind,
         MayGo(p, kind) # {}
  PROVE  Dropped(p, kind) \in PlanIn(I)
<1>1. PICK at \in MayGo(p, kind) :
        Dropped(p, kind) = Costed(WithList(p, at[1], kind, RemoveAt(p.days[at[1]][kind], at[2])))
  BY DroppedOne
<1>2. at \in Positions(p, kind)
  BY DEF MayGo
<1>3. at[2] \in DOMAIN p.days[at[1]][kind] /\ p.days[at[1]][kind] \in Seq(I)
  BY <1>2, PositionsTyped
<1>4. RemoveAt(p.days[at[1]][kind], at[2]) \in Seq(I)
  BY <1>3, RemoveAtTyped
<1>5. WithList(p, at[1], kind, RemoveAt(p.days[at[1]][kind], at[2])) \in PlanIn(I)
  BY <1>4, WithListTyped
<1>6. QED
  BY <1>1, <1>5, CostedTyped

(* What is dropped leaves a plan of no other items, however much it is.    *)
LEMMA TowardsBudgetTyped ==
  ASSUME ask \in Request, NEW I \in SUBSET Items, NEW q \in PlanIn(I)
  PROVE  TowardsBudget(q) \in PlanIn(I)
<1>1. "spots" \in Kind /\ "foods" \in Kind
  BY DEF Kind
<1>2. MayGo(q, "spots") # {} => Dropped(q, "spots") \in PlanIn(I)
  BY <1>1, DroppedTyped
<1>3. MayGo(q, "foods") # {} => Dropped(q, "foods") \in PlanIn(I)
  BY <1>1, DroppedTyped
<1>4. QED
  BY <1>2, <1>3 DEF TowardsBudget

(* Whether it is told that the plan is too dear may change.                *)
LEMMA ToldReplaced ==
  ASSUME NEW I, NEW p \in PlanIn(I), NEW told \in BOOLEAN
  PROVE  [p EXCEPT !.told = told] \in PlanIn(I)
BY DEF PlanIn

LEMMA LegsTyped ==
  ASSUME NEW I, NEW seq \in Seq(I)
  PROVE  Max({0, Len(seq) - 1}) \in Nat
<1>1. Len(seq) - 1 \in Int
  OBVIOUS
<1>2. QED
  BY <1>1, GreaterOfTwo

(* autocorrect_plan leaves a plan of no other items.                       *)
LEMMA AutocorrectedTyped ==
  ASSUME NEW I, NEW p \in PlanIn(I)
  PROVE  Autocorrected(p) \in PlanIn(I)
<1> DEFINE days == p.days
           New(day) == LET spots == Once(day.spots)
                       IN [day EXCEPT !.spots = spots, !.legs = Max({0, Len(spots) - 1})]
           f == [d \in DOMAIN days |-> New(days[d])]
           q == [p EXCEPT !.days = f]
<1>1. days \in Seq(DayIn(I)) /\ days # << >> /\ \A d \in DOMAIN days : days[d] \in DayIn(I)
  BY DaysOfPlan
<1>2. ASSUME NEW day \in DayIn(I) PROVE New(day) \in DayIn(I)
  <2> DEFINE spots == Once(day.spots)
             legs == Max({0, Len(spots) - 1})
  <2>1. day.spots \in Seq(I)
    BY DEF DayIn
  <2>2. spots \in Seq(I)
    BY <2>1, OnceTyped
  <2> HIDE DEF spots
  <2>3. legs \in Nat
    BY <2>2, LegsTyped
  <2> HIDE DEF legs
  <2>4. [day EXCEPT !.spots = spots, !.legs = legs] \in DayIn(I)
    BY <2>2, <2>3 DEF DayIn
  <2>5. QED
    BY <2>4 DEF spots, legs
<1>3. Autocorrected(p) = [q EXCEPT !.told = FALSE]
  BY DEF Autocorrected, EachDay
<1>4. f = [d \in DOMAIN days |-> f[d]] /\ \A d \in DOMAIN days : f[d] \in DayIn(I)
  BY <1>1, <1>2
<1> HIDE DEF f, days
<1>5. f \in Seq(DayIn(I)) \ {<< >>}
  BY <1>1, <1>4, MappedDays
<1>6. q \in PlanIn(I)
  BY <1>5, DaysReplaced
<1> HIDE DEF q
<1>7. QED
  BY <1>3, <1>6, ToldReplaced

(* How many stops a plan has.                                              *)
Stops(p) == SumOf([d \in DOMAIN p.days |-> Len(p.days[d].spots) + Len(p.days[d].foods)])

LEMMA StopsListed ==
  ASSUME NEW I, NEW p \in PlanIn(I)
  PROVE  \E v \in Seq(Nat) :
           /\ Len(v) = Len(p.days) /\ Stops(p) = SumOf(v)
           /\ \A d \in 1 .. Len(p.days) : v[d] = Len(p.days[d].spots) + Len(p.days[d].foods)
<1> DEFINE days == p.days
           stops == [d \in DOMAIN days |-> Len(days[d].spots) + Len(days[d].foods)]
<1>1. /\ DOMAIN days = 1 .. Len(days) /\ Len(days) \in Nat
      /\ \A d \in DOMAIN days : days[d] \in DayIn(I)
  BY DaysOfPlan
<1>2. Stops(p) = SumOf(stops)
  BY DEF Stops
<1> HIDE DEF days
<1>3. \A d \in DOMAIN days : days[d].spots \in Seq(I) /\ days[d].foods \in Seq(I)
  BY <1>1 DEF DayIn
<1>4. \A seq \in Seq(I) : Len(seq) \in Nat
  OBVIOUS
<1>5. \A d \in DOMAIN days : Len(days[d].spots) \in Nat /\ Len(days[d].foods) \in Nat
  BY <1>3, <1>4, Zenon
<1>6. \A d \in DOMAIN days : stops[d] \in Nat
  <2> SUFFICES ASSUME NEW d \in DOMAIN days PROVE stops[d] \in Nat
    OBVIOUS
  <2> DEFINE a == Len(days[d].spots)
             c == Len(days[d].foods)
  <2>1. a \in Nat /\ c \in Nat
    BY <1>5
  <2>2. stops[d] = a + c
    OBVIOUS
  <2> HIDE DEF a, c, stops
  <2>3. QED
    BY <2>1, <2>2
<1>7. stops \in Seq(Nat) /\ Len(stops) = Len(days)
  <2>1. stops = [d \in 1 .. Len(days) |-> stops[d]]
    BY <1>1
  <2> HIDE DEF stops
  <2>2. stops \in [1 .. Len(days) -> Nat]
    BY <1>1, <1>6, <2>1
  <2>3. QED
    BY <1>1, <2>2
<1>8. \A d \in 1 .. Len(days) : stops[d] = Len(days[d].spots) + Len(days[d].foods)
  BY <1>1
<1> HIDE DEF stops
<1>9. QED
  BY <1>2, <1>7, <1>8 DEF days

(* _enforce_budget stays where each of its steps stays.                    *)
FittedRun(r, p) ==
  /\ r[0] = p /\ Fitted(p) = Autocorrected(r[Stops(p)])
  /\ \A n \in 1 .. Stops(p) : r[n] = TowardsBudget(r[n - 1])

LEMMA FittedThrough ==
  ASSUME NEW I, NEW p \in PlanIn(I), NEW X, p \in X, \A x \in X : TowardsBudget(x) \in X
  PROVE  /\ Stops(p) \in Nat
         /\ IF ask.budget = 0 THEN Fitted(p) = p
            ELSE /\ \E end \in X : Fitted(p) = Autocorrected(end)
                 /\ \E r \in [0 .. Stops(p) -> X] : FittedRun(r, p)
<1> DEFINE n == Stops(p)
           places == [i \in 1 .. n |-> i]
           end == BudgetSteps(p, places)
<1>1. Fitted(p) = IF ask.budget = 0 THEN p ELSE Autocorrected(end)
  BY DEF Fitted, Iterate, BudgetSteps, Stops
<1>2. n \in Nat
  BY StopsListed, SumIsNat
<1> HIDE DEF n
<1>3. places \in Seq(Nat) /\ Len(places) = n
  BY <1>2
<1> HIDE DEF places
<1>4. end \in X /\ \E r \in [0 .. Len(places) -> X] : BudgetRun(r, p, places)
  BY <1>3, BudgetThrough
<1> HIDE DEF end
<1>5. ASSUME ask.budget # 0 PROVE \E r \in [0 .. n -> X] : FittedRun(r, p)
  <2>1. PICK r \in [0 .. n -> X] : BudgetRun(r, p, places)
    BY <1>3, <1>4
  <2>2. r[0] = p /\ r[n] = end /\ \A i \in 1 .. n : r[i] = TowardsBudget(r[i - 1])
    BY <1>3, <2>1 DEF BudgetRun, end
  <2>3. FittedRun(r, p)
    BY <1>1, <1>5, <2>2 DEF FittedRun, n
  <2>4. QED
    BY <2>3
<1>6. QED
  BY <1>1, <1>2, <1>4, <1>5 DEF n

LEMMA FittedTyped ==
  ASSUME ask \in Request, NEW I \in SUBSET Items, NEW p \in PlanIn(I)
  PROVE  Fitted(p) \in PlanIn(I)
<1> DEFINE X == PlanIn(I)
<1>1. p \in X /\ \A x \in X : TowardsBudget(x) \in X
  BY TowardsBudgetTyped
<1>2. IF ask.budget = 0 THEN Fitted(p) = p ELSE \E end \in X : Fitted(p) = Autocorrected(end)
  <2> HIDE DEF X
  <2>1. QED
    BY <1>1, FittedThrough
<1>3. QED
  BY <1>2, AutocorrectedTyped

(* Both limits together.                                                   *)
LEMMA LimitedTyped ==
  ASSUME ask \in Request, NEW p \in PlanIn(Items), NEW docs \in Seq(Items)
  PROVE  Limited(p, docs) \in PlanIn(Items)
<1>1. Costed(p) \in PlanIn(Items)
  BY CostedTyped
<1>2. ReachMinimum(Costed(p), docs) \in PlanIn(Items)
  BY <1>1, ReachMinimumTyped
<1>3. Costed(ReachMinimum(Costed(p), docs)) \in PlanIn(Items)
  BY <1>2, CostedTyped
<1>4. QED
  BY <1>3, FittedTyped DEF Limited

(* Without a minimum the limits add nothing.                               *)
LEMMA LimitedAddsNothing ==
  ASSUME ask \in Request, ask.minimum = 0, NEW I \in SUBSET Items, NEW p \in PlanIn(I), NEW docs
  PROVE  Limited(p, docs) \in PlanIn(I)
<1>1. Costed(p) \in PlanIn(I)
  BY CostedTyped
<1>2. ReachMinimum(Costed(p), docs) = Costed(p)
  BY DEF ReachMinimum
<1>3. Costed(Costed(p)) \in PlanIn(I)
  BY <1>1, CostedTyped
<1>4. QED
  BY <1>2, <1>3, FittedTyped DEF Limited

-----------------------------------------------------------------------------
(* Days: timelines, days that are filled up and completed, new plans.      *)

(* A sequence has finitely many elements.                                  *)
LEMMA ElementsFinite ==
  ASSUME NEW I, NEW seq \in Seq(I)
  PROVE  /\ IsFiniteSet(ToSet(seq)) /\ ToSet(seq) \in SUBSET I
         /\ Cardinality(ToSet(seq)) <= Len(seq)
<1> DEFINE S == 1 .. Len(seq)
           T == ToSet(seq)
<1>1. DOMAIN seq = S /\ Len(seq) \in Nat
  OBVIOUS
<1>2. T = {seq[i] : i \in S}
  BY <1>1 DEF ToSet
<1>3. IsFiniteSet(S) /\ Cardinality(S) = Len(seq)
  BY <1>1, FS_Interval
<1>4. T \in SUBSET I
  BY <1>1, <1>2
<1>5. seq \in Surjection(S, T)
  BY <1>1, <1>2 DEF Surjection
<1> HIDE DEF S, T
<1>6. IsFiniteSet(T) /\ Cardinality(T) <= Len(seq)
  BY <1>3, <1>5, FS_Surjection
<1>7. QED
  BY <1>4, <1>6 DEF T

(* A timeline has a number of blocks.                                      *)
LEMMA BlocksTyped ==
  ASSUME NEW I, NEW day \in DayIn(I)
  PROVE  LET kept == ToSet(day.own) \cap (ToSet(day.spots) \cup ToSet(day.foods))
         IN (IF Cardinality(kept \ ToSet(day.spots)) >= 2 THEN Cardinality(kept)
             ELSE Min({7, Min({3, Len(day.spots)}) + Len(day.foods)})) \in Nat
<1> DEFINE kept == ToSet(day.own) \cap (ToSet(day.spots) \cup ToSet(day.foods))
           m == Min({3, Len(day.spots)})
<1>1. /\ day.spots \in Seq(I) /\ day.foods \in Seq(I) /\ day.own \in Seq(Items)
  BY DEF DayIn
<1>2. Cardinality(kept) \in Nat
  <2>1. IsFiniteSet(ToSet(day.own)) /\ kept \in SUBSET ToSet(day.own)
    BY <1>1, ElementsFinite
  <2> HIDE DEF kept
  <2>2. IsFiniteSet(kept)
    BY <2>1, FS_Subset
  <2>3. QED
    BY <2>2, FS_CardinalityType
<1>3. Len(day.spots) \in Nat /\ Len(day.foods) \in Nat
  BY <1>1
<1>4. m \in Nat
  BY <1>3, LesserOfTwo
<1> HIDE DEF m, kept
<1>5. m + Len(day.foods) \in Nat
  BY <1>3, <1>4
<1>6. Min({7, m + Len(day.foods)}) \in Nat
  BY <1>5, LesserOfTwo
<1>7. QED
  BY <1>2, <1>6 DEF kept, m

(* _refresh_timeline changes neither places nor meals.                     *)
LEMMA RefreshedTyped ==
  ASSUME NEW I, NEW p \in PlanIn(I)
  PROVE  Refreshed(p) \in PlanIn(I)
<1> DEFINE days == p.days
           Blocks(day) ==
             LET kept == ToSet(day.own) \cap (ToSet(day.spots) \cup ToSet(day.foods))
             IN IF Cardinality(kept \ ToSet(day.spots)) >= 2 THEN Cardinality(kept)
                ELSE Min({7, Min({3, Len(day.spots)}) + Len(day.foods)})
           f == [d \in DOMAIN days |-> [days[d] EXCEPT !.blocks = Blocks(days[d])]]
<1>1. days \in Seq(DayIn(I)) /\ days # << >> /\ \A d \in DOMAIN days : days[d] \in DayIn(I)
  BY DaysOfPlan
<1>2. \A day \in DayIn(I) : Blocks(day) \in Nat
  BY BlocksTyped
<1>3. Refreshed(p) = [p EXCEPT !.days = f]
  BY DEF Refreshed, EachDay
<1> HIDE DEF Blocks
<1>4. \A day \in DayIn(I) : [day EXCEPT !.blocks = Blocks(day)] \in DayIn(I)
  BY <1>2 DEF DayIn
<1>5. f = [d \in DOMAIN days |-> f[d]] /\ \A d \in DOMAIN days : f[d] \in DayIn(I)
  BY <1>1, <1>4
<1> HIDE DEF f, days
<1>6. f \in Seq(DayIn(I)) \ {<< >>}
  BY <1>1, <1>5, MappedDays
<1>7. QED
  BY <1>3, <1>6, DaysReplaced

(* _ensure_min_spend fills up a day, and so all of them.                   *)
LEMMA FillDayTyped ==
  ASSUME NEW kind \in Kind, NEW docs \in Seq(Items), NEW day \in DayIn(Items),
         NEW acc \in [days : Seq(DayIn(Items)), used : SUBSET Items]
  PROVE  /\ FillDay(kind, docs, acc, day) \in [days : Seq(DayIn(Items)), used : SUBSET Items]
         /\ FillDay(kind, docs, acc, day).days # << >>
<1> DEFINE have == day[kind]
           supply == Without(OfKind(kind, docs), ToSet(have))
           again == Chosen(supply, LAMBDA x : x \in acc.used)
           order == Without(supply, acc.used) \o again
           n == Max({0, 3 - Len(have)})
           more == FirstN(order, n)
           new == [day EXCEPT ![kind] = have \o more]
<1>1. have \in Seq(Items)
  BY ListOfDay
<1>2. supply \in Seq(Items)
  BY OfKindTyped, WithoutTyped
<1> HIDE DEF supply
<1>3. again \in Seq(Items) /\ Without(supply, acc.used) \in Seq(Items)
  BY <1>2, WithoutTyped, PickedPlaces DEF Chosen
<1> HIDE DEF again
<1>4. order \in Seq(Items)
  BY <1>3
<1> HIDE DEF order
<1>5. n \in Int
  BY <1>1, GreaterOfTwo
<1> HIDE DEF n
<1>6. more \in Seq(Items)
  BY <1>4, <1>5, FirstNTyped
<1> HIDE DEF more, have
<1>7. ToSet(more) \in SUBSET Items
  BY <1>6, ElementsFinite
<1>8. have \o more \in Seq(Items)
  BY <1>1, <1>6
<1>9. new \in DayIn(Items)
  BY <1>8, ListReplaced
<1>10. FillDay(kind, docs, acc, day) =
         [days |-> Append(acc.days, new), used |-> acc.used \cup ToSet(more)]
  BY DEF FillDay, have, supply, again, order, n, more
<1> HIDE DEF new
<1> DEFINE X == DayIn(Items)
<1>11. new \in X /\ acc.days \in Seq(X) /\ acc.used \in SUBSET Items
  BY <1>9
<1> HIDE DEF X
<1>12. Append(acc.days, new) \in Seq(X) /\ Append(acc.days, new) # << >>
  BY <1>11
<1>13. acc.used \cup ToSet(more) \in SUBSET Items
  BY <1>7, <1>11
<1>14. QED
  BY <1>10, <1>12, <1>13 DEF X

LEMMA FilledTyped ==
  ASSUME NEW p \in PlanIn(Items), NEW kind \in Kind, NEW docs \in Seq(Items)
  PROVE  Filled(p, kind, docs) \in PlanIn(Items)
<1> DEFINE X == [days : Seq(DayIn(Items)), used : SUBSET Items]
           Y == DayIn(Items)
           x0 == [days |-> << >>, used |-> {}]
           s == p.days
           end == FillDays(kind, docs, x0, s)
<1>1. s \in Seq(Y) /\ s # << >>
  BY DaysOfPlan
<1>2. \A x \in X : \A y \in Y :
        FillDay(kind, docs, x, y) \in X /\ FillDay(kind, docs, x, y).days # << >>
  BY FillDayTyped
<1>3. x0 \in X
  OBVIOUS
<1>4. Filled(p, kind, docs) = [p EXCEPT !.days = end.days]
  BY DEF Filled, FillDays
<1>5. end \in X /\ \E x \in X : \E y \in Y : end = FillDay(kind, docs, x, y)
  <2> HIDE DEF X, Y, x0, s
  <2>1. QED
    BY <1>1, <1>2, <1>3, FillsThrough
<1> HIDE DEF end
<1>6. end.days # << >>
  <2> HIDE DEF X, Y, x0, s
  <2>1. QED
    BY <1>2, <1>5
<1>7. end.days \in Seq(DayIn(Items)) \ {<< >>}
  BY <1>5, <1>6
<1>8. QED
  BY <1>4, <1>7, DaysReplaced

LEMMA FilledUpTyped ==
  ASSUME ask \in Request, NEW p \in PlanIn(Items), NEW docs \in Seq(Items)
  PROVE  FilledUp(p, docs) \in PlanIn(Items)
<1>1. "spots" \in Kind /\ "foods" \in Kind
  BY DEF Kind
<1>2. Filled(p, "spots", docs) \in PlanIn(Items)
  BY <1>1, FilledTyped
<1>3. Filled(Filled(p, "spots", docs), "foods", docs) \in PlanIn(Items)
  BY <1>1, <1>2, FilledTyped
<1>4. (IF ask.thrifty THEN p ELSE Filled(Filled(p, "spots", docs), "foods", docs)) \in PlanIn(Items)
  BY <1>3
<1>5. QED
  BY <1>4, CostedTyped DEF FilledUp

Decoration == [days : Seq(DayIn(Items)), spot : Nat, meal : Nat]

(* _decorate_plan completes a day, and so all of them.                     *)
LEMMA DecorateTyped ==
  ASSUME NEW spots \in Seq(Items), spots # << >>, NEW foods \in Seq(Items), foods # << >>,
         NEW pool \in Seq(Items), NEW acc \in Decoration, NEW day \in DayIn(Items)
  PROVE  /\ Decorate(spots, foods, pool, acc, day) \in Decoration
         /\ Decorate(spots, foods, pool, acc, day).days # << >>
<1> DEFINE Meal(n) == IF n <= Len(pool) THEN pool[n] ELSE Cyclic(foods, n - Len(pool))
           missing == Max({0, 3 - Len(day.foods)})
           bare == day.spots = << >>
           first == Cyclic(spots, acc.spot + 1)
           more == [n \in 1 .. missing |-> Meal(acc.meal + n)]
           newSpots == IF bare THEN <<first>> ELSE day.spots
           newFoods == day.foods \o more
           new == [day EXCEPT !.spots = newSpots, !.foods = newFoods]
           step == IF bare THEN 1 ELSE 0
<1>1. day.spots \in Seq(Items) /\ day.foods \in Seq(Items)
  BY DEF DayIn
<1>2. acc.spot \in Nat /\ acc.meal \in Nat /\ acc.days \in Seq(DayIn(Items))
  BY DEF Decoration
<1>3. missing \in Nat
  <2>1. 3 - Len(day.foods) \in Int
    BY <1>1
  <2>2. QED
    BY <2>1, GreaterOfTwo
<1> HIDE DEF missing
<1>4. first \in Items
  <2>1. acc.spot + 1 \in Nat \ {0}
    BY <1>2
  <2>2. QED
    BY <2>1, CyclicTyped
<1>5. ASSUME NEW n \in Nat \ {0} PROVE Meal(n) \in Items
  <2>1. CASE n <= Len(pool)
    BY <2>1
  <2>2. CASE ~ (n <= Len(pool))
    <3>1. n - Len(pool) \in Nat \ {0}
      BY <2>2
    <3>2. Cyclic(foods, n - Len(pool)) \in Items
      BY <3>1, CyclicTyped
    <3>3. QED
      BY <2>2, <3>2
  <2>3. QED
    BY <2>1, <2>2
<1> HIDE DEF Meal
<1>6. more \in Seq(Items)
  <2>1. \A n \in 1 .. missing : acc.meal + n \in Nat \ {0}
    BY <1>2, <1>3
  <2>2. more \in [1 .. missing -> Items]
    BY <1>5, <2>1
  <2>3. QED
    BY <1>3, <2>2
<1> HIDE DEF more, first
<1>7. newSpots \in Seq(Items) /\ newFoods \in Seq(Items)
  BY <1>1, <1>4, <1>6
<1> HIDE DEF newSpots, newFoods
<1>8. new \in DayIn(Items)
  BY <1>7 DEF DayIn
<1>9. Decorate(spots, foods, pool, acc, day) =
        [days |-> Append(acc.days, new), spot |-> acc.spot + step, meal |-> acc.meal + missing]
  BY DEF Decorate, newSpots, newFoods, more, first, Meal, missing
<1> HIDE DEF new
<1> DEFINE X == DayIn(Items)
<1>10. new \in X /\ acc.days \in Seq(X)
  BY <1>2, <1>8
<1> HIDE DEF X
<1>11. Append(acc.days, new) \in Seq(X) /\ Append(acc.days, new) # << >>
  BY <1>10
<1>12. acc.spot + step \in Nat /\ acc.meal + missing \in Nat
  BY <1>2, <1>3
<1>13. QED
  BY <1>9, <1>11, <1>12 DEF X, Decoration

LEMMA EverythingTyped ==
  ASSUME NEW p \in PlanIn(Items), NEW kind \in Kind
  PROVE  FlattenSeq([d \in DOMAIN p.days |-> p.days[d][kind]]) \in Seq(Items)
<1> DEFINE f == [d \in DOMAIN p.days |-> p.days[d][kind]]
           S == Seq(Items)
<1>1. /\ DOMAIN p.days = 1 .. Len(p.days) /\ Len(p.days) \in Nat
      /\ \A d \in DOMAIN p.days : p.days[d] \in DayIn(Items)
  BY DaysOfPlan
<1>2. \A d \in DOMAIN p.days : p.days[d][kind] \in S
  BY <1>1, ListOfDay
<1> HIDE DEF S
<1>3. f \in [1 .. Len(p.days) -> S]
  BY <1>1, <1>2
<1>4. f \in Seq(S)
  BY <1>1, <1>3
<1> HIDE DEF f
<1>5. FlattenSeq(f) \in Seq(Items)
  BY <1>4, FlattenedTyped DEF S
<1>6. QED
  BY <1>5 DEF f

LEMMA DecoratedTyped ==
  ASSUME NEW p \in PlanIn(Items)
  PROVE  Decorated(p) \in PlanIn(Items)
<1> DEFINE Everything(kind) == FlattenSeq([d \in DOMAIN p.days |-> p.days[d][kind]])
           spots == OrElse(Everything("spots"), FreeWalk)
           eaten == Everything("foods")
           foods == OrElse(eaten, LocalFood)
           pool == IF eaten = << >> THEN << >> ELSE Without(OfKind("foods", Corpus), ToSet(eaten))
           x0 == [days |-> << >>, spot |-> 0, meal |-> 0]
           s == p.days
           Y == DayIn(Items)
           end == DecorateDays(spots, foods, pool, x0, s)
<1>1. s \in Seq(Y) /\ s # << >>
  BY DaysOfPlan
<1>2. Everything("spots") \in Seq(Items) /\ eaten \in Seq(Items)
  BY EverythingTyped DEF Kind
<1>3. Decorated(p) = Refreshed([p EXCEPT !.days = end.days])
  BY DEF Decorated, DecorateDays
<1> HIDE DEF Everything, eaten
<1>4. FreeWalk \in Items /\ LocalFood \in Items /\ Corpus \in Seq(Items)
  BY PlanAssumption DEF Items
<1>5. spots \in Seq(Items) /\ spots # << >> /\ foods \in Seq(Items) /\ foods # << >>
  BY <1>2, <1>4, OrElseTyped
<1>6. pool \in Seq(Items)
  <2>1. Without(OfKind("foods", Corpus), ToSet(eaten)) \in Seq(Items)
    BY <1>4, OfKindTyped, WithoutTyped
  <2>2. << >> \in Seq(Items)
    OBVIOUS
  <2>3. QED
    BY <2>1, <2>2
<1> HIDE DEF spots, foods, pool
<1>7. x0 \in Decoration
  BY DEF Decoration
<1>8. \A x \in Decoration : \A y \in Y :
        /\ Decorate(spots, foods, pool, x, y) \in Decoration
        /\ Decorate(spots, foods, pool, x, y).days # << >>
  BY <1>5, <1>6, DecorateTyped
<1>9. end \in Decoration /\ \E x \in Decoration : \E y \in Y : end = Decorate(spots, foods, pool, x, y)
  <2> HIDE DEF Y, x0, s
  <2>1. QED
    BY <1>1, <1>7, <1>8, DecoratesThrough
<1> HIDE DEF end
<1>10. end.days # << >>
  <2> HIDE DEF Y, x0, s
  <2>1. QED
    BY <1>8, <1>9
<1>11. end.days \in Seq(DayIn(Items)) \ {<< >>}
  BY <1>9, <1>10 DEF Decoration
<1>12. [p EXCEPT !.days = end.days] \in PlanIn(Items)
  BY <1>11, DaysReplaced
<1>13. QED
  BY <1>3, <1>12, RefreshedTyped

(* Days make a plan.                                                       *)
LEMMA StoredPlanTyped ==
  ASSUME NEW days \in Seq(DayIn(Items)) \ {<< >>}
  PROVE  StoredPlan(days) \in PlanIn(Items)
<1>1. Cost \in [Items -> Int]
  BY PlanAssumption
<1> DEFINE D == Seq(DayIn(Items)) \ {<< >>}
<1>2. days \in D
  OBVIOUS
<1> HIDE DEF D
<1>3. StoredPlan(days) \in [days : D, price : [Items -> Int], total : Int, hotel : Nat,
                            told : BOOLEAN, twins : BOOLEAN]
  BY <1>1, <1>2 DEF StoredPlan
<1>4. QED
  BY <1>3 DEF PlanIn, D

(* Days listed by their number, of which there is one.                     *)
LEMMA ManyTyped ==
  ASSUME NEW X, NEW n \in Nat \ {0}, NEW f, f = [d \in 1 .. n |-> f[d]],
         \A d \in 1 .. n : f[d] \in X
  PROVE  f \in Seq(X) \ {<< >>}
<1>1. f \in [1 .. n -> X] /\ 1 \in DOMAIN f
  OBVIOUS
<1>2. f \in Seq(X)
  BY <1>1
<1>3. QED
  BY <1>1, <1>2

(* The day that build_itinerary deals out as the i-th.                     *)
DealtDay(spots, foods, i) ==
  [spots |-> [k \in 1 .. ask.pace |-> Cyclic(spots, ask.pace * (i - 1) + k)],
   foods |-> IF foods = << >> THEN << >>
             ELSE LET from == (2 * (i - 1)) % Len(foods)
                  IN SubSeq(foods, from + 1, Min({from + 2, Len(foods)})),
   own |-> << >>, legs |-> ask.pace - 1, blocks |-> 0]

(* It has items of the city, however often they are dealt out.             *)
LEMMA DealtTyped ==
  ASSUME ask \in Request, NEW spots \in Seq(Items), spots # << >>, NEW foods \in Seq(Items),
         NEW i \in Nat \ {0}
  PROVE  DealtDay(spots, foods, i) \in DayIn(Items)
<1> DEFINE n == ask.pace
           f == [k \in 1 .. n |-> Cyclic(spots, n * (i - 1) + k)]
           from == (2 * (i - 1)) % Len(foods)
           m == Min({from + 2, Len(foods)})
           g == IF foods = << >> THEN << >> ELSE SubSeq(foods, from + 1, m)
<1>0. n \in {2, 3}
  BY DEF Request
<1> HIDE DEF n
<1>1. f \in Seq(Items)
  <2>1. \A k \in 1 .. n : n * (i - 1) + k \in Nat \ {0}
    BY <1>0
  <2>2. \A k \in 1 .. n : Cyclic(spots, n * (i - 1) + k) \in Items
    BY <2>1, CyclicTyped
  <2>3. f \in [1 .. n -> Items]
    BY <2>2
  <2>4. n \in Nat
    BY <1>0
  <2> HIDE DEF f
  <2>5. \A h \in [1 .. n -> Items] : h \in Seq(Items)
    BY <2>4
  <2>6. QED
    BY <2>3, <2>5
<1> HIDE DEF f
<1>2. g \in Seq(Items)
  <2>1. CASE foods = << >>
    BY <2>1
  <2>2. CASE foods # << >>
    <3>1. Len(foods) \in Nat \ {0} /\ 2 * (i - 1) \in Nat
      BY <2>2
    <3>2. \A a \in Nat, b \in Nat \ {0} : a % b \in Nat
      OBVIOUS
    <3>3. from \in Nat
      BY <3>1, <3>2
    <3> HIDE DEF from
    <3>4. m \in Int /\ m <= Len(foods)
      <4>1. from + 2 \in Int /\ Len(foods) \in Int
        BY <3>1, <3>3
      <4>2. m = IF from + 2 <= Len(foods) THEN from + 2 ELSE Len(foods)
        BY <4>1, LesserOfTwo
      <4>3. QED
        BY <4>1, <4>2
    <3> HIDE DEF m
    <3>5. SubSeq(foods, from + 1, m) \in Seq(Items)
      BY <3>3, <3>4
    <3>6. QED
      BY <2>2, <3>5
  <2>3. QED
    BY <2>1, <2>2
<1> HIDE DEF g
<1> DEFINE day == [spots |-> f, foods |-> g, own |-> << >>, legs |-> n - 1, blocks |-> 0]
<1>3. << >> \in Seq(Items) /\ n - 1 \in Nat
  BY <1>0
<1>4. day \in DayIn(Items)
  BY <1>1, <1>2, <1>3 DEF DayIn
<1>5. QED
  BY <1>4 DEF f, g, n, DealtDay

(* build_itinerary makes a plan.                                           *)
LEMMA BuiltTyped ==
  ASSUME ask \in Request, NEW docs \in Seq(Items), NEW n \in Nat \ {0}
  PROVE  Built(docs, n) \in PlanIn(Items)
<1> DEFINE spots == OrElse(OfKind("spots", docs), FreeWalk)
           foods == OfKind("foods", docs)
           days == [i \in 1 .. n |-> DealtDay(spots, foods, i)]
<1>1. Built(docs, n) = Refreshed(Limited(Decorated(FilledUp(Autocorrected(
                         StoredPlan(days)), docs)), docs))
  BY DEF Built, DealtDay
<1>2. FreeWalk \in Items
  BY PlanAssumption DEF Items
<1>3. spots \in Seq(Items) /\ spots # << >> /\ foods \in Seq(Items)
  BY <1>2, OfKindTyped, OrElseTyped
<1> HIDE DEF spots, foods
<1> DEFINE X == DayIn(Items)
<1>4. \A i \in 1 .. n : DealtDay(spots, foods, i) \in X
  BY <1>3, DealtTyped
<1> HIDE DEF X
<1>5. days = [i \in 1 .. n |-> days[i]] /\ \A i \in 1 .. n : days[i] \in X
  BY <1>4
<1>7. days \in Seq(X) \ {<< >>}
  <2> HIDE DEF days
  <2>1. QED
    BY <1>5, ManyTyped
<1> HIDE DEF days
<1>8. StoredPlan(days) \in PlanIn(Items)
  BY <1>7, StoredPlanTyped DEF X
<1>9. Autocorrected(StoredPlan(days)) \in PlanIn(Items)
  BY <1>8, AutocorrectedTyped
<1>10. FilledUp(Autocorrected(StoredPlan(days)), docs) \in PlanIn(Items)
  BY <1>9, FilledUpTyped
<1>11. Decorated(FilledUp(Autocorrected(StoredPlan(days)), docs)) \in PlanIn(Items)
  BY <1>10, DecoratedTyped
<1>12. Limited(Decorated(FilledUp(Autocorrected(StoredPlan(days)), docs)), docs) \in PlanIn(Items)
  BY <1>11, LimitedTyped
<1>13. QED
  BY <1>1, <1>12, RefreshedTyped

(* A plan made longer, or shorter, is a plan.                              *)
LEMMA LengthenedTyped ==
  ASSUME NEW p \in PlanIn(Items), NEW n \in Nat \ {0}, NEW base \in Seq(DayIn(Items))
  PROVE  Lengthened(p, n, base) \in PlanIn(Items)
<1> DEFINE days == p.days
           X == DayIn(Items)
           f == [d \in 1 .. n |-> IF d <= Len(days) THEN days[d]
                                  ELSE IF d <= Len(base) THEN base[d] ELSE days[Len(days)]]
           longer == [p EXCEPT !.days = f]
           twins == n > Len(base)
<1>1. days \in Seq(X) /\ days # << >> /\ base \in Seq(X)
  BY DaysOfPlan
<1>2. Lengthened(p, n, base) = [longer EXCEPT !.twins = twins]
  BY DEF Lengthened
<1> HIDE DEF X, days
<1>3. Len(days) \in Nat \ {0} /\ Len(base) \in Nat
      /\ (\A d \in 1 .. Len(days) : days[d] \in X) /\ (\A d \in 1 .. Len(base) : base[d] \in X)
  BY <1>1
<1>4. \A d \in 1 .. n : f[d] \in X
  BY <1>3
<1>5. f = [d \in 1 .. n |-> f[d]]
  OBVIOUS
<1> HIDE DEF f
<1>6. f \in Seq(X) \ {<< >>}
  BY <1>4, <1>5, ManyTyped
<1>7. longer \in PlanIn(Items)
  BY <1>6, DaysReplaced DEF X
<1>8. twins \in BOOLEAN
  OBVIOUS
<1> HIDE DEF longer, twins
<1>9. [longer EXCEPT !.twins = twins] \in PlanIn(Items)
  BY <1>7, <1>8 DEF PlanIn
<1>10. QED
  BY <1>2, <1>9

LEMMA OfLengthTyped ==
  ASSUME ask \in Request, NEW p \in PlanIn(Items), NEW n \in Nat \ {0}, NEW docs \in Seq(Items)
  PROVE  OfLength(p, n, docs) \in PlanIn(Items)
<1> DEFINE first == FirstN(p.days, n)
           base == Built(docs, ask.days).days
<1>1. ask.days \in Nat \ {0}
  BY DEF Request
<1>2. base \in Seq(DayIn(Items))
  BY <1>1, BuiltTyped, DaysOfPlan
<1>3. first \in Seq(DayIn(Items)) \ {<< >>}
  <2> DEFINE days == p.days
             X == DayIn(Items)
  <2>1. days \in Seq(X) /\ days # << >> /\ n \in Int /\ n >= 1
    BY DaysOfPlan
  <2> HIDE DEF days, X
  <2>2. FirstN(days, n) \in Seq(X) /\ FirstN(days, n) # << >>
    BY <2>1, FirstNTyped
  <2>3. QED
    BY <2>2 DEF days, X
<1>4. OfLength(p, n, docs) = IF n <= Len(p.days) THEN [p EXCEPT !.days = first]
                             ELSE Lengthened(p, n, base)
  BY DEF OfLength
<1> HIDE DEF first, base
<1>5. [p EXCEPT !.days = first] \in PlanIn(Items)
  BY <1>3, DaysReplaced
<1>6. Lengthened(p, n, base) \in PlanIn(Items)
  BY <1>2, LengthenedTyped
<1>7. QED
  BY <1>4, <1>5, <1>6

-----------------------------------------------------------------------------
(* What apply_adjustment makes of a plan.                                  *)


(* A day keeps all but its lists: of another set they may be.              *)
LEMMA ListsReplaced ==
  ASSUME NEW I, NEW J, NEW day \in DayIn(J), NEW spots \in Seq(I), NEW foods \in Seq(I)
  PROVE  /\ [day EXCEPT !.spots = spots, !.foods = foods] \in DayIn(I)
         /\ [day EXCEPT !.foods = foods, !.spots = spots] \in DayIn(I)
BY DEF DayIn

(* A day with other attractions is a day.                                  *)
LEMMA SpotsReplaced ==
  ASSUME NEW I, NEW day \in DayIn(I), NEW spots \in Seq(I)
  PROVE  [day EXCEPT !.spots = spots] \in DayIn(I)
BY DEF DayIn

Supply(I) == [days : Seq(DayIn(I)), supply : Seq(I)]

(* A day gets more attractions, as long as there are some.                 *)
LEMMA RefillTyped ==
  ASSUME NEW I, NEW acc \in Supply(I), NEW day \in DayIn(I)
  PROVE  Refill(acc, day) \in Supply(I) /\ Refill(acc, day).days # << >>
<1> DEFINE have == day.spots
           n == Max({0, 3 - Len(have)})
           supply == acc.supply
           more == FirstN(supply, n)
           rest == SubSeq(supply, Len(more) + 1, Len(supply))
           new == [day EXCEPT !.spots = have \o more]
           X == DayIn(I)
           days == acc.days
<1>1. have \in Seq(I) /\ supply \in Seq(I) /\ days \in Seq(X)
  BY DEF DayIn, Supply
<1>2. Refill(acc, day) = [days |-> Append(days, new), supply |-> rest]
  BY DEF Refill
<1> HIDE DEF have, supply, days
<1>3. n \in Int
  BY <1>1, GreaterOfTwo
<1> HIDE DEF n
<1>4. more \in Seq(I)
  BY <1>1, <1>3, FirstNTyped
<1> HIDE DEF more
<1>5. rest \in Seq(I) /\ have \o more \in Seq(I)
  BY <1>1, <1>4
<1>6. new \in X
  BY <1>5, SpotsReplaced
<1> HIDE DEF new, rest, X
<1>7. Append(days, new) \in Seq(X) /\ Append(days, new) # << >>
  BY <1>1, <1>6
<1>8. QED
  BY <1>2, <1>5, <1>7 DEF Supply, X

(* Without what the user does not want, in the days of a plan.             *)
LEMMA WithoutGone ==
  ASSUME NEW p \in PlanIn(Items), NEW out
  PROVE  EachDay(p, LAMBDA day : [day EXCEPT !.spots = Without(@, out),
                                             !.foods = Without(@, out)])
           \in PlanIn(Items \ out)
<1> DEFINE days == p.days
           New(day) == [day EXCEPT !.spots = Without(@, out), !.foods = Without(@, out)]
           f == [d \in DOMAIN days |-> New(days[d])]
           I == Items \ out
<1>1. days \in Seq(DayIn(Items)) /\ days # << >> /\ \A d \in DOMAIN days : days[d] \in DayIn(Items)
  BY DaysOfPlan
<1>2. ASSUME NEW day \in DayIn(Items) PROVE New(day) \in DayIn(I)
  <2> DEFINE spots == Without(day.spots, out)
             foods == Without(day.foods, out)
  <2>1. day.spots \in Seq(Items) /\ day.foods \in Seq(Items)
    BY DEF DayIn
  <2>2. spots \in Seq(I) /\ foods \in Seq(I)
    BY <2>1, WithoutTyped
  <2>3. New(day) = [day EXCEPT !.spots = spots, !.foods = foods]
    BY DEF DayIn
  <2> HIDE DEF spots, foods, I
  <2>4. [day EXCEPT !.spots = spots, !.foods = foods] \in DayIn(I)
    BY <2>2, ListsReplaced
  <2>5. QED
    BY <2>3, <2>4
<1>3. f = [d \in DOMAIN days |-> f[d]] /\ \A d \in DOMAIN days : f[d] \in DayIn(I)
  BY <1>1, <1>2
<1>4. EachDay(p, New) = [p EXCEPT !.days = f]
  BY DEF EachDay
<1> HIDE DEF f, days, I
<1>5. f \in Seq(DayIn(I)) \ {<< >>}
  BY <1>1, <1>3, MappedDays
<1>6. [p EXCEPT !.days = f] \in PlanIn(I)
  BY <1>5, DaysReplaced
<1>7. QED
  BY <1>4, <1>6 DEF I

(* Without what is removed and with others instead.                        *)
LEMMA RemovedAndRefilledTyped ==
  ASSUME NEW p \in PlanIn(Items), NEW docs \in Seq(Items)
  PROVE  RemovedAndRefilled(p, docs) \in PlanIn(Items)
<1> DEFINE left == EachDay(p, LAMBDA day : [day EXCEPT !.spots = Without(@, ask.gone),
                                                       !.foods = Without(@, ask.gone)])
           spots(q) == UNION {ToSet(q.days[d].spots) : d \in DOMAIN q.days}
           removed == spots(p) \cap ask.gone
           supply == Without(OfKind("spots", docs), spots(left) \cup removed)
           x0 == [days |-> << >>, supply |-> supply]
           s == left.days
           end == RefillDays(x0, s)
           Y == DayIn(Items)
           X == Supply(Items)
<1>1. left \in PlanIn(Items)
  <2>1. left \in PlanIn(Items \ ask.gone) /\ Items \ ask.gone \in SUBSET Items
    BY WithoutGone
  <2> HIDE DEF left
  <2>2. QED
    BY <2>1, MoreItems
<1>2. RemovedAndRefilled(p, docs) = IF removed = {} THEN left ELSE [left EXCEPT !.days = end.days]
  BY DEF RemovedAndRefilled, RefillDays
<1> HIDE DEF left, removed
<1>3. s \in Seq(Y) /\ s # << >>
  BY <1>1, DaysOfPlan
<1>4. supply \in Seq(Items)
  BY OfKindTyped, WithoutTyped
<1> HIDE DEF supply
<1>5. x0 \in X
  BY <1>4 DEF Supply
<1>6. \A x \in X : \A y \in Y : Refill(x, y) \in X /\ Refill(x, y).days # << >>
  BY RefillTyped
<1>7. end \in X /\ \E x \in X : \E y \in Y : end = Refill(x, y)
  <2> HIDE DEF X, Y, x0, s
  <2>1. QED
    BY <1>3, <1>5, <1>6, RefillsThrough
<1> HIDE DEF end
<1>8. end.days # << >>
  <2> HIDE DEF X, Y
  <2>1. QED
    BY <1>6, <1>7
<1>9. end.days \in Seq(DayIn(Items)) \ {<< >>}
  BY <1>7, <1>8 DEF Supply
<1>10. [left EXCEPT !.days = end.days] \in PlanIn(Items)
  BY <1>1, <1>9, DaysReplaced
<1>11. QED
  BY <1>1, <1>2, <1>10

(* A plan with another first day is a plan.                                *)
LEMMA DayReplaced ==
  ASSUME NEW I, NEW p \in PlanIn(I), NEW day \in DayIn(I)
  PROVE  [p EXCEPT !.days[1] = day] \in PlanIn(I)
<1> DEFINE days == p.days
           new == [days EXCEPT ![1] = day]
           X == DayIn(I)
<1>1. days \in Seq(X) /\ days # << >> /\ day \in X
  BY DaysOfPlan
<1>2. [p EXCEPT !.days[1] = day] = [p EXCEPT !.days = new]
  BY DEF PlanIn
<1> HIDE DEF days, X
<1>3. new \in Seq(X) \ {<< >>}
  BY <1>1
<1> HIDE DEF new
<1>4. QED
  BY <1>2, <1>3, DaysReplaced DEF X

(* With what is wanted.                                                    *)
LEMMA WithWantedTyped ==
  ASSUME ask \in Request, NEW p \in PlanIn(Items), NEW docs, NEW kind \in Kind
  PROVE  WithWanted(p, docs, kind) \in PlanIn(Items)
<1> DEFINE have == p.days[1][kind]
           seq == IF ask.wanted \notin ToSet(OfKind(kind, docs)) \/ ask.wanted \in ToSet(have)
                  THEN have ELSE Append(have, ask.wanted)
           day == [p.days[1] EXCEPT ![kind] = seq]
<1>1. p.days[1] \in DayIn(Items)
  BY DaysOfPlan
<1>2. have \in Seq(Items)
  BY <1>1, ListOfDay
<1>3. ask.wanted \in Items
  BY DEF Request
<1>4. WithWanted(p, docs, kind) = [p EXCEPT !.days[1] = day]
  BY DEF WithWanted
<1> HIDE DEF have
<1>5. seq \in Seq(Items)
  BY <1>2, <1>3
<1> HIDE DEF seq
<1>6. day \in DayIn(Items)
  BY <1>1, <1>5, ListReplaced
<1> HIDE DEF day
<1>7. QED
  BY <1>4, <1>6, DayReplaced

(* With fewer attractions a day.                                           *)
LEMMA EasierTyped ==
  ASSUME NEW p \in PlanIn(Items)
  PROVE  EachDay(p, LAMBDA day : [day EXCEPT !.spots = FirstN(@, 2)]) \in PlanIn(Items)
<1> DEFINE days == p.days
           New(day) == [day EXCEPT !.spots = FirstN(@, 2)]
           f == [d \in DOMAIN days |-> New(days[d])]
<1>1. days \in Seq(DayIn(Items)) /\ days # << >> /\ \A d \in DOMAIN days : days[d] \in DayIn(Items)
  BY DaysOfPlan
<1>2. ASSUME NEW day \in DayIn(Items) PROVE New(day) \in DayIn(Items)
  <2> DEFINE spots == FirstN(day.spots, 2)
  <2>1. day.spots \in Seq(Items) /\ New(day) = [day EXCEPT !.spots = spots]
    BY DEF DayIn
  <2>2. spots \in Seq(Items)
    BY <2>1, FirstNTyped
  <2> HIDE DEF spots
  <2>3. [day EXCEPT !.spots = spots] \in DayIn(Items)
    BY <2>2, SpotsReplaced
  <2>4. QED
    BY <2>1, <2>3
<1>3. f = [d \in DOMAIN days |-> f[d]] /\ \A d \in DOMAIN days : f[d] \in DayIn(Items)
  BY <1>1, <1>2
<1>4. EachDay(p, New) = [p EXCEPT !.days = f]
  BY DEF EachDay
<1> HIDE DEF f, days
<1>5. f \in Seq(DayIn(Items)) \ {<< >>}
  BY <1>1, <1>3, MappedDays
<1>6. QED
  BY <1>4, <1>5, DaysReplaced

(* Any change.                                                             *)
LEMMA ChangedTyped ==
  ASSUME ask \in Request, NEW p \in PlanIn(Items), NEW docs \in Seq(Items)
  PROVE  Changed(p, docs) \in PlanIn(Items)
<1>1. CASE ask.wish = "easy"
  <2> DEFINE q == EachDay(p, LAMBDA day : [day EXCEPT !.spots = FirstN(@, 2)])
  <2>1. q \in PlanIn(Items)
    BY EasierTyped
  <2>2. Changed(p, docs) = q
    BY <1>1 DEF Changed
  <2>3. QED
    BY <2>1, <2>2
<1>2. CASE ask.wish = "remove"
  <2>1. Changed(p, docs) = RemovedAndRefilled(p, docs)
    BY <1>2 DEF Changed
  <2>2. QED
    BY <2>1, RemovedAndRefilledTyped
<1>3. CASE ask.wish = "add"
  <2>1. WithWanted(p, docs, "spots") \in PlanIn(Items)
    BY WithWantedTyped DEF Kind
  <2>2. WithWanted(WithWanted(p, docs, "spots"), docs, "foods") \in PlanIn(Items)
    BY <2>1, WithWantedTyped DEF Kind
  <2>3. Changed(p, docs) = WithWanted(WithWanted(p, docs, "spots"), docs, "foods")
    BY <1>3 DEF Changed
  <2>4. QED
    BY <2>2, <2>3
<1>4. CASE ask.wish \notin {"easy", "remove", "add"}
  <2>1. Changed(p, docs) = p
    BY <1>4 DEF Changed
  <2>2. QED
    BY <2>1
<1>5. QED
  BY <1>1, <1>2, <1>3, <1>4

(* Any way to change the length leaves at least a day.                     *)
LEMMA LengthTyped ==
  ASSUME NEW a \in Nat \ {0}
  PROVE  /\ Min({7, a + 1}) \in Nat \ {0} /\ Max({1, a - 1}) \in Nat \ {0}
         /\ Min({7, a}) \in Nat \ {0}
<1>1. a + 1 \in Int /\ a - 1 \in Int /\ a \in Int
  OBVIOUS
<1>2. Min({7, a + 1}) = IF 7 <= a + 1 THEN 7 ELSE a + 1
  BY <1>1, LesserOfTwo
<1>3. Min({7, a}) = IF 7 <= a THEN 7 ELSE a
  BY <1>1, LesserOfTwo
<1>4. Max({1, a - 1}) = IF 1 >= a - 1 THEN 1 ELSE a - 1
  BY <1>1, GreaterOfTwo
<1>5. QED
  BY <1>2, <1>3, <1>4

(* apply_adjustment makes a plan of a plan.                                *)
LEMMA AdjustedTyped ==
  ASSUME ask \in Request, NEW p \in PlanIn(Items), NEW docs \in Seq(Items)
  PROVE  Adjusted(p, docs) \in PlanIn(Items)
<1> DEFINE n == CASE ask.wish = "longer" -> Min({7, Len(p.days) + 1})
                  [] ask.wish = "shorter" -> Max({1, Len(p.days) - 1})
                  [] OTHER -> Min({7, ask.days})
           base == IF Elsewhere THEN Autocorrected(Built(docs, ask.days))
                   ELSE IF ask.wish = "more" /\ n < Len(p.days) THEN p
                   ELSE OfLength(p, n, docs)
           full == IF Elsewhere \/ ask.wish = "more" THEN FilledUp(base, docs)
                   ELSE Autocorrected(Changed(base, docs))
<1>1. Len(p.days) \in Nat \ {0}
  BY DaysOfPlan
<1>2. ask.days \in Nat \ {0}
  BY DEF Request
<1>3. n \in Nat \ {0}
  <2>1. /\ Min({7, Len(p.days) + 1}) \in Nat \ {0} /\ Max({1, Len(p.days) - 1}) \in Nat \ {0}
        /\ Min({7, ask.days}) \in Nat \ {0}
    BY <1>1, <1>2, LengthTyped
  <2> HIDE DEF n
  <2>2. CASE ask.wish = "longer"
    BY <2>1, <2>2 DEF n
  <2>3. CASE ask.wish = "shorter"
    BY <2>1, <2>3 DEF n
  <2>4. CASE ask.wish \notin {"longer", "shorter"}
    BY <2>1, <2>4 DEF n
  <2>5. QED
    BY <2>2, <2>3, <2>4
<1>4. Adjusted(p, docs) = Limited(full, docs)
  BY DEF Adjusted
<1> HIDE DEF n
<1>5. Built(docs, ask.days) \in PlanIn(Items) /\ OfLength(p, n, docs) \in PlanIn(Items)
  BY <1>2, <1>3, BuiltTyped, OfLengthTyped
<1>6. base \in PlanIn(Items)
  BY <1>5, AutocorrectedTyped
<1> HIDE DEF base
<1>7. FilledUp(base, docs) \in PlanIn(Items) /\ Changed(base, docs) \in PlanIn(Items)
  BY <1>6, FilledUpTyped, ChangedTyped
<1>8. full \in PlanIn(Items)
  BY <1>7, AutocorrectedTyped
<1> HIDE DEF full
<1>9. QED
  BY <1>4, <1>8, LimitedTyped

-----------------------------------------------------------------------------
(* The stages of SynthesisAgent and of the run after it.                   *)

(* Whether the last days share their meals may change.                     *)
LEMMA TwinsReplaced ==
  ASSUME NEW I, NEW p \in PlanIn(I), NEW twins \in BOOLEAN
  PROVE  [p EXCEPT !.twins = twins] \in PlanIn(I)
BY DEF PlanIn

(* _correct_plan sorts attractions and meals.                              *)
LEMMA TidiedTyped ==
  ASSUME NEW p \in PlanIn(Items)
  PROVE  Tidied(p) \in PlanIn(Items)
<1> DEFINE days == p.days
           New(day) == [day EXCEPT !.foods = Once(OfKind("foods", @) \o OfKind("foods", day.spots)),
                                   !.spots = Once(OfKind("spots", @))]
           f == [d \in DOMAIN days |-> New(days[d])]
           q == [p EXCEPT !.days = f]
<1>1. days \in Seq(DayIn(Items)) /\ days # << >> /\ \A d \in DOMAIN days : days[d] \in DayIn(Items)
  BY DaysOfPlan
<1>2. ASSUME NEW day \in DayIn(Items) PROVE New(day) \in DayIn(Items)
  <2> DEFINE a == OfKind("foods", day.foods)
             b == OfKind("foods", day.spots)
             foods == Once(a \o b)
             c == OfKind("spots", day.spots)
             spots == Once(c)
  <2>1. /\ day.spots \in Seq(Items) /\ day.foods \in Seq(Items)
        /\ New(day) = [day EXCEPT !.foods = foods, !.spots = spots]
    BY DEF DayIn
  <2>2. a \in Seq(Items) /\ b \in Seq(Items) /\ c \in Seq(Items)
    BY <2>1, OfKindTyped
  <2> HIDE DEF a, b, c
  <2>3. a \o b \in Seq(Items)
    BY <2>2
  <2>4. foods \in Seq(Items) /\ spots \in Seq(Items)
    BY <2>2, <2>3, OnceTyped
  <2> HIDE DEF foods, spots
  <2>5. [day EXCEPT !.foods = foods, !.spots = spots] \in DayIn(Items)
    BY <2>4, ListsReplaced
  <2>6. QED
    BY <2>1, <2>5
<1>3. f = [d \in DOMAIN days |-> f[d]] /\ \A d \in DOMAIN days : f[d] \in DayIn(Items)
  BY <1>1, <1>2
<1>4. Tidied(p) = [q EXCEPT !.twins = FALSE]
  BY DEF Tidied, EachDay
<1> HIDE DEF f, days
<1>5. f \in Seq(DayIn(Items)) \ {<< >>}
  BY <1>1, <1>3, MappedDays
<1>6. q \in PlanIn(Items)
  BY <1>5, DaysReplaced
<1> HIDE DEF q
<1>7. QED
  BY <1>4, <1>6, TwinsReplaced

(* _correct_plan makes a plan of a plan.                                   *)
LEMMA CorrectedTyped ==
  ASSUME ask \in Request, NEW p \in PlanIn(Items), NEW docs \in Seq(Items)
  PROVE  Corrected(p, docs) \in PlanIn(Items)
<1> DEFINE full == IF Len(p.days) < ask.days THEN OfLength(Tidied(p), ask.days, docs)
                   ELSE Tidied(p)
           q == FilledUp(full, docs)
<1>1. ask.days \in Nat \ {0} /\ << >> \in Seq(Items)
  BY DEF Request
<1>2. full \in PlanIn(Items)
  BY <1>1, TidiedTyped, OfLengthTyped
<1>3. Corrected(p, docs) = Refreshed(Autocorrected(Decorated(Limited(q, << >>))))
  BY DEF Corrected
<1> HIDE DEF full
<1>4. q \in PlanIn(Items)
  BY <1>2, FilledUpTyped
<1> HIDE DEF q
<1>5. Limited(q, << >>) \in PlanIn(Items)
  BY <1>1, <1>4, LimitedTyped
<1>6. Autocorrected(Decorated(Limited(q, << >>))) \in PlanIn(Items)
  BY <1>5, DecoratedTyped, AutocorrectedTyped
<1>7. QED
  BY <1>3, <1>6, RefreshedTyped

Variation == [seq : Seq(Items), used : SUBSET Items]

(* Something else for what earlier days have, item by item, list by list   *)
(* and day by day.                                                         *)
LEMMA VaryTyped ==
  ASSUME NEW docs \in Seq(Items), NEW acc \in Variation, NEW x \in Items
  PROVE  Vary(docs, acc, x) \in Variation
<1> DEFINE kind == IF x \in Spots THEN "spots" ELSE "foods"
           other == Without(OfKind(kind, docs), acc.used)
           y == IF x \in acc.used /\ other # << >> THEN Head(other) ELSE x
<1>1. other \in Seq(Items)
  BY OfKindTyped, WithoutTyped
<1>2. Vary(docs, acc, x) = [seq |-> Append(acc.seq, y), used |-> acc.used \cup {y}]
  BY DEF Vary
<1> HIDE DEF other
<1>3. y \in Items
  BY <1>1
<1> HIDE DEF y
<1>4. acc.seq \in Seq(Items) /\ acc.used \in SUBSET Items
  BY DEF Variation
<1>5. Append(acc.seq, y) \in Seq(Items) /\ acc.used \cup {y} \in SUBSET Items
  BY <1>3, <1>4
<1>6. QED
  BY <1>2, <1>5 DEF Variation

LEMMA VariedListTyped ==
  ASSUME NEW docs \in Seq(Items), NEW used \in SUBSET Items, NEW seq \in Seq(Items)
  PROVE  VariedList(docs, used, seq) \in Variation
<1> DEFINE x0 == [seq |-> << >>, used |-> used]
<1>1. x0 \in Variation
  BY DEF Variation
<1>2. \A x \in Variation : \A y \in Items : Vary(docs, x, y) \in Variation
  BY VaryTyped
<1> HIDE DEF x0
<1>3. VaryAll(docs, x0, seq) \in Variation
  BY <1>1, <1>2, VariesThrough
<1>4. QED
  BY <1>3 DEF VariedList, VaryAll, x0

Variety == [days : Seq(DayIn(Items)), foods : SUBSET Items, spots : SUBSET Items]

LEMMA VaryDayTyped ==
  ASSUME NEW docs \in Seq(Items), NEW acc \in Variety, NEW day \in DayIn(Items)
  PROVE  VaryDay(docs, acc, day) \in Variety /\ VaryDay(docs, acc, day).days # << >>
<1> DEFINE foods == VariedList(docs, acc.foods, day.foods)
           spots == VariedList(docs, acc.spots, day.spots)
           new == [day EXCEPT !.foods = foods.seq, !.spots = spots.seq]
           X == DayIn(Items)
           days == acc.days
<1>1. day.foods \in Seq(Items) /\ day.spots \in Seq(Items)
  BY DEF DayIn
<1>2. acc.foods \in SUBSET Items /\ acc.spots \in SUBSET Items /\ days \in Seq(X)
  BY DEF Variety
<1>3. VaryDay(docs, acc, day) =
        [days |-> Append(days, new), foods |-> foods.used, spots |-> spots.used]
  BY DEF VaryDay
<1>4. foods \in Variation /\ spots \in Variation
  BY <1>1, <1>2, VariedListTyped
<1> HIDE DEF foods, spots
<1>5. foods.seq \in Seq(Items) /\ foods.used \in SUBSET Items
      /\ spots.seq \in Seq(Items) /\ spots.used \in SUBSET Items
  BY <1>4 DEF Variation
<1>6. new \in X
  BY <1>5, ListsReplaced
<1> HIDE DEF new, X, days
<1>7. Append(days, new) \in Seq(X) /\ Append(days, new) # << >>
  BY <1>2, <1>6
<1>8. QED
  BY <1>3, <1>5, <1>7 DEF Variety, X

LEMMA VariedTyped ==
  ASSUME NEW p \in PlanIn(Items), NEW docs \in Seq(Items)
  PROVE  Varied(p, docs) \in PlanIn(Items)
<1> DEFINE X == Variety
           Y == DayIn(Items)
           x0 == [days |-> << >>, foods |-> {}, spots |-> {}]
           s == p.days
           end == VaryDays(docs, x0, s)
<1>1. s \in Seq(Y) /\ s # << >>
  BY DaysOfPlan
<1>2. \A x \in X : \A y \in Y : VaryDay(docs, x, y) \in X /\ VaryDay(docs, x, y).days # << >>
  BY VaryDayTyped
<1>3. x0 \in X
  BY DEF Variety
<1>4. Varied(p, docs) = [p EXCEPT !.days = end.days]
  BY DEF Varied, VaryDays
<1>5. end \in X /\ \E x \in X : \E y \in Y : end = VaryDay(docs, x, y)
  <2> HIDE DEF X, Y, x0, s
  <2>1. QED
    BY <1>1, <1>2, <1>3, VaryDaysThrough
<1> HIDE DEF end
<1>6. end.days # << >>
  <2> HIDE DEF X, Y
  <2>1. QED
    BY <1>2, <1>5
<1>7. end.days \in Seq(DayIn(Items)) \ {<< >>}
  BY <1>5, <1>6 DEF Variety
<1>8. QED
  BY <1>4, <1>7, DaysReplaced

(* _optimize_plan makes a plan of a plan.                                  *)
LEMMA OptimizedTyped ==
  ASSUME ask \in Request, NEW p \in PlanIn(Items), NEW docs \in Seq(Items)
  PROVE  Optimized(p, docs) \in PlanIn(Items)
<1> DEFINE q == Limited(Varied(p, docs), << >>)
<1>1. << >> \in Seq(Items)
  OBVIOUS
<1>2. q \in PlanIn(Items)
  BY <1>1, VariedTyped, LimitedTyped
<1>3. Optimized(p, docs) = Costed(Refreshed(q))
  BY DEF Optimized
<1> HIDE DEF q
<1>4. Refreshed(q) \in PlanIn(Items)
  BY <1>2, RefreshedTyped
<1>5. QED
  BY <1>3, <1>4, CostedTyped

(* _enforce_removals leaves none of what the user wants removed.           *)
LEMMA ForcedOutTyped ==
  ASSUME ask \in Request, NEW p \in PlanIn(Items)
  PROVE  ForcedOut(p) \in PlanIn(Items \ ask.gone)
<1> DEFINE q == EachDay(p, LAMBDA day : [day EXCEPT !.spots = Without(@, ask.gone),
                                                    !.foods = Without(@, ask.gone)])
           I == Items \ ask.gone
<1>1. q \in PlanIn(I) /\ I \in SUBSET Items
  BY WithoutGone
<1>2. ForcedOut(p) = Costed(Refreshed(q))
  BY DEF ForcedOut
<1> HIDE DEF q, I
<1>3. Costed(Refreshed(q)) \in PlanIn(I)
  BY <1>1, RefreshedTyped, CostedTyped
<1>4. QED
  BY <1>2, <1>3 DEF I

(* Prices that move are prices.                                            *)
LEMMA RepricedTyped ==
  ASSUME NEW I, NEW p \in PlanIn(I), NEW x \in Volatile, NEW by \in Rises \cup {0}
  PROVE  Repriced(p, x, by) \in PlanIn(I)
<1> DEFINE new == Max({0, p.price[x] + by})
<1>1. x \in Items /\ by \in Int
  BY PlanAssumption
<1>2. p.price[x] \in Int
  BY <1>1 DEF PlanIn
<1>3. new \in Int
  BY <1>1, <1>2, GreaterOfTwo
<1>4. Repriced(p, x, by) = [p EXCEPT !.price[x] = new]
  BY DEF Repriced, PlanIn
<1> HIDE DEF new
<1>5. QED
  BY <1>3, <1>4, PriceReplaced

(* Days that lose their last stop have no other items.                     *)
LEMMA ShorterTyped ==
  ASSUME NEW I, NEW day \in DayIn(I)
  PROVE  Shorter(day) \in DayIn(I)
<1> DEFINE seq == day.spots
           n == Len(seq) - 1
           spots == FirstN(seq, n)
<1>1. seq \in Seq(I)
  BY DEF DayIn
<1>2. Shorter(day) = [day EXCEPT !.spots = spots]
  BY DEF Shorter
<1> HIDE DEF seq
<1>3. n \in Int
  BY <1>1
<1> HIDE DEF n
<1>4. spots \in Seq(I)
  BY <1>1, <1>3, FirstNTyped
<1> HIDE DEF spots
<1>5. [day EXCEPT !.spots = spots] \in DayIn(I)
  BY <1>4, SpotsReplaced
<1>6. QED
  BY <1>2, <1>5

LEMMA ShortenedTyped ==
  ASSUME NEW I, NEW p \in PlanIn(I), NEW long
  PROVE  [p EXCEPT !.days = [d \in DOMAIN @ |-> IF d \in long THEN Shorter(@[d]) ELSE @[d]]]
           \in PlanIn(I)
<1> DEFINE days == p.days
           f == [d \in DOMAIN days |-> IF d \in long THEN Shorter(days[d]) ELSE days[d]]
           X == DayIn(I)
<1>1. days \in Seq(X) /\ days # << >> /\ \A d \in DOMAIN days : days[d] \in X
  BY DaysOfPlan
<1>2. \A day \in X : Shorter(day) \in X
  BY ShorterTyped
<1>3. [p EXCEPT !.days = [d \in DOMAIN @ |-> IF d \in long THEN Shorter(@[d]) ELSE @[d]]]
        = [p EXCEPT !.days = f]
  OBVIOUS
<1> HIDE DEF X
<1>4. f = [d \in DOMAIN days |-> f[d]] /\ \A d \in DOMAIN days : f[d] \in X
  BY <1>1, <1>2
<1> HIDE DEF f, days
<1>5. f \in Seq(X) \ {<< >>}
  BY <1>1, <1>4, MappedDays
<1>6. [p EXCEPT !.days = f] \in PlanIn(I)
  BY <1>5, DaysReplaced DEF X
<1>7. QED
  BY <1>3, <1>6

(* apply_reflection_tuning makes a plan of a plan, and adds nothing unless *)
(* a minimum is asked for.                                                 *)
LEMMA TunedTyped ==
  ASSUME ask \in Request, NEW I \in SUBSET Items, NEW p \in PlanIn(I), NEW long,
         I = Items \/ ask.minimum = 0
  PROVE  Tuned(p, long) \in PlanIn(I)
<1> DEFINE shorter == [p EXCEPT !.days =
                        [d \in DOMAIN @ |-> IF d \in long THEN Shorter(@[d]) ELSE @[d]]]
           q == Costed(Autocorrected(shorter))
<1>1. shorter \in PlanIn(I)
  BY ShortenedTyped
<1>2. Tuned(p, long) = Limited(q, << >>)
  BY DEF Tuned
<1> HIDE DEF shorter
<1>3. q \in PlanIn(I)
  BY <1>1, AutocorrectedTyped, CostedTyped
<1> HIDE DEF q
<1>4. CASE I = Items
  <2>1. << >> \in Seq(Items)
    OBVIOUS
  <2>2. QED
    BY <1>2, <1>3, <1>4, <2>1, LimitedTyped
<1>5. CASE ask.minimum = 0
  BY <1>2, <1>3, <1>5, LimitedAddsNothing
<1>6. QED
  BY <1>4, <1>5

(* The timeline of the LLM is forgotten.                                   *)
LEMMA ForgottenTyped ==
  ASSUME NEW I, NEW p \in PlanIn(I)
  PROVE  EachDay(p, LAMBDA day : [day EXCEPT !.own = << >>]) \in PlanIn(I)
<1> DEFINE days == p.days
           f == [d \in DOMAIN days |-> [days[d] EXCEPT !.own = << >>]]
           X == DayIn(I)
<1>1. days \in Seq(X) /\ days # << >> /\ \A d \in DOMAIN days : days[d] \in X
  BY DaysOfPlan
<1>2. \A day \in X : [day EXCEPT !.own = << >>] \in X
  <2>1. << >> \in Seq(Items)
    OBVIOUS
  <2>2. QED
    BY <2>1 DEF DayIn
<1>3. EachDay(p, LAMBDA day : [day EXCEPT !.own = << >>]) = [p EXCEPT !.days = f]
  BY DEF EachDay
<1> HIDE DEF X
<1>4. f = [d \in DOMAIN days |-> f[d]] /\ \A d \in DOMAIN days : f[d] \in X
  BY <1>1, <1>2
<1> HIDE DEF f, days
<1>5. f \in Seq(X) \ {<< >>}
  BY <1>1, <1>4, MappedDays
<1>6. [p EXCEPT !.days = f] \in PlanIn(I)
  BY <1>5, DaysReplaced DEF X
<1>7. QED
  BY <1>3, <1>6

(* A hotel may cost any number of yuan, and its nights add up to one.      *)
LEMMA HotelReplaced ==
  ASSUME NEW I, NEW p \in PlanIn(I), NEW hotel \in Nat
  PROVE  [p EXCEPT !.hotel = hotel] \in PlanIn(I)
BY DEF PlanIn

LEMMA NightsCost ==
  ASSUME NEW I, NEW days \in Seq(DayIn(I))
  PROVE  Nights(days) * RoomNight \in Nat
<1> DEFINE X == DayIn(I)
<1> HIDE DEF X
<1>1. days \in Seq(X)
  BY DEF X
<1>2. Len(days) \in Nat /\ Len(days) - 1 \in Int
  BY <1>1
<1>3. Nights(days) \in Nat
  BY <1>2, GreaterOfTwo DEF Nights
<1>4. \A a, b \in Nat : a * b \in Nat
  OBVIOUS
<1>5. QED
  BY <1>3, <1>4, PlanAssumption

(* What becomes of a plan with live prices.                                *)
LEMMA LiveTyped ==
  ASSUME ask \in Request, found \in Seq(Items), NEW I \in SUBSET Items, NEW p \in PlanIn(I),
         NEW x \in Volatile, NEW by \in Rises \cup {0}, NEW hotel \in Nat,
         I = Items \/ ask.minimum = 0
  PROVE  EachDay(Costed(ReachMinimum([Repriced(p, x, by) EXCEPT !.hotel = hotel], found)),
                 LAMBDA day : [day EXCEPT !.own = << >>]) \in PlanIn(I)
<1> DEFINE r == Repriced(p, x, by)
           live == [r EXCEPT !.hotel = hotel]
           q == Costed(ReachMinimum(live, found))
<1>1. r \in PlanIn(I)
  BY RepricedTyped
<1> HIDE DEF r
<1>2. live \in PlanIn(I)
  BY <1>1, HotelReplaced
<1> HIDE DEF live
<1>3. ReachMinimum(live, found) \in PlanIn(I)
  <2>1. CASE I = Items
    BY <1>2, <2>1, ReachMinimumTyped
  <2>2. CASE ask.minimum = 0
    BY <1>2, <2>2 DEF ReachMinimum
  <2>3. QED
    BY <2>1, <2>2
<1>4. q \in PlanIn(I)
  BY <1>3, CostedTyped
<1> HIDE DEF q
<1>5. EachDay(q, LAMBDA day : [day EXCEPT !.own = << >>]) \in PlanIn(I)
  BY <1>4, ForgottenTyped
<1>6. QED
  BY <1>5 DEF q, live, r

(* And of one with the prices of the reference book.                       *)
LEMMA BookPricesTyped ==
  ASSUME ask \in Request, NEW I \in SUBSET Items, NEW p \in PlanIn(I),
         NEW x \in Volatile, NEW by \in Rises \cup {0},
         I = Items \/ ask.minimum = 0
  PROVE  Limited(Costed(Repriced(p, x, by)), << >>) \in PlanIn(I)
<1> DEFINE q == Costed(Repriced(p, x, by))
<1>1. q \in PlanIn(I)
  BY RepricedTyped, CostedTyped
<1> HIDE DEF q
<1>2. << >> \in Seq(Items)
  OBVIOUS
<1>3. Limited(q, << >>) \in PlanIn(I)
  <2>1. CASE I = Items
    BY <1>1, <1>2, <2>1, LimitedTyped
  <2>2. CASE ask.minimum = 0
    BY <1>1, <2>2, LimitedAddsNothing
  <2>3. QED
    BY <2>1, <2>2
<1>4. QED
  BY <1>3 DEF q

-----------------------------------------------------------------------------
(* The minimum and the budget.                                             *)

(* A sum goes from number to number.                                       *)
LEMMA SumRuns ==
  ASSUME NEW seq \in Seq(Int)
  PROVE  \E r \in [0 .. Len(seq) -> Int] :
           /\ r[0] = 0 /\ r[Len(seq)] = SumOf(seq)
           /\ \A i \in 1 .. Len(seq) : r[i] = r[i - 1] + seq[i]
<1> DEFINE X == Int
           zero == 0
<1>1. zero \in X /\ seq \in Seq(X) /\ \A x \in X : \A y \in X : x + y \in X
  OBVIOUS
<1>2. Sums(zero, seq) = SumOf(seq)
  BY DEF SumOf, Sums
<1> HIDE DEF X, zero
<1>3. \E r \in [0 .. Len(seq) -> X] : SumsRun(r, zero, seq)
  BY <1>1, SumsThrough
<1>4. PICK r \in [0 .. Len(seq) -> X] :
        /\ r[0] = 0 /\ r[Len(seq)] = Sums(zero, seq)
        /\ \A n \in 1 .. Len(seq) : r[n] = r[n - 1] + seq[n]
  BY <1>3 DEF zero, SumsRun
<1>5. r \in [0 .. Len(seq) -> Int] /\ r[Len(seq)] = SumOf(seq)
  BY <1>2, <1>4 DEF X
<1>6. QED
  BY <1>4, <1>5

(* The sum of two sequences, one after the other, is that of their sums.   *)
LEMMA SumJoined ==
  ASSUME NEW a \in Seq(Int), NEW c \in Seq(Int)
  PROVE  SumOf(a \o c) = SumOf(a) + SumOf(c)
<1> DEFINE m == Len(a)
           n == Len(c)
           s == a \o c
<1>1. /\ m \in Nat /\ n \in Nat /\ s \in Seq(Int) /\ Len(s) = m + n
      /\ \A i \in 1 .. m : s[i] = a[i] /\ a[i] \in Int
      /\ \A i \in 1 .. n : s[m + i] = c[i] /\ c[i] \in Int
  BY JoinedPlaces
<1>2. PICK ra \in [0 .. m -> Int] :
        ra[0] = 0 /\ ra[m] = SumOf(a) /\ \A i \in 1 .. m : ra[i] = ra[i - 1] + a[i]
  BY SumRuns
<1>3. PICK rc \in [0 .. n -> Int] :
        rc[0] = 0 /\ rc[n] = SumOf(c) /\ \A i \in 1 .. n : rc[i] = rc[i - 1] + c[i]
  BY SumRuns
<1>4. PICK r \in [0 .. Len(s) -> Int] :
        r[0] = 0 /\ r[Len(s)] = SumOf(s) /\ \A i \in 1 .. Len(s) : r[i] = r[i - 1] + s[i]
  BY <1>1, SumRuns
<1> HIDE DEF s, m, n
<1>5. \A i \in 0 .. m : r[i] = ra[i]
  <2> DEFINE Good == {i \in 0 .. m : r[i] = ra[i]}
  <2>1. 0 \in Good
    BY <1>1, <1>2, <1>4
  <2>2. ASSUME NEW i \in 1 .. m, i - 1 \in Good PROVE i \in Good
    <3>1. i \in 1 .. Len(s) /\ i \in 0 .. m /\ r[i - 1] = ra[i - 1]
      BY <1>1, <2>2
    <3>2. r[i] = r[i - 1] + s[i] /\ ra[i] = ra[i - 1] + a[i] /\ s[i] = a[i]
      BY <1>1, <1>2, <1>4, <3>1
    <3>3. QED
      BY <3>1, <3>2
  <2> HIDE DEF Good
  <2>3. \A i \in 0 .. m : i \in Good
    BY <1>1, <2>1, <2>2, Induction
  <2>4. QED
    BY <2>3 DEF Good
<1>6. \A i \in 0 .. n : r[m + i] = ra[m] + rc[i]
  <2> DEFINE Good == {i \in 0 .. n : r[m + i] = ra[m] + rc[i]}
  <2>1. 0 \in Good
    <3>1. 0 \in 0 .. n /\ m \in 0 .. m /\ m + 0 = m /\ ra[m] + 0 = ra[m]
      BY <1>1, <1>2
    <3>2. QED
      BY <1>3, <1>5, <3>1
  <2>2. ASSUME NEW i \in 1 .. n, i - 1 \in Good PROVE i \in Good
    <3>1. /\ m + i \in 1 .. Len(s) /\ i \in 0 .. n /\ i - 1 \in 0 .. n /\ m \in 0 .. m
          /\ (m + i) - 1 = m + (i - 1)
      BY <1>1
    <3>2. r[m + (i - 1)] = ra[m] + rc[i - 1]
      BY <2>2
    <3>3. r[m + i] = r[m + (i - 1)] + s[m + i]
      BY <1>4, <3>1
    <3>4. s[m + i] = c[i] /\ c[i] \in Int
      BY <1>1
    <3>5. rc[i] = rc[i - 1] + c[i] /\ rc[i - 1] \in Int /\ ra[m] \in Int
      BY <1>2, <1>3, <3>1
    <3>6. r[m + i] = ra[m] + rc[i]
      BY <3>2, <3>3, <3>4, <3>5
    <3>7. QED
      BY <3>1, <3>6
  <2> HIDE DEF Good
  <2>3. \A i \in 0 .. n : i \in Good
    BY <1>1, <2>1, <2>2, Induction
  <2>4. QED
    BY <2>3 DEF Good
<1>7. n \in 0 .. n
  BY <1>1
<1>8. QED
  BY <1>1, <1>2, <1>3, <1>4, <1>6, <1>7 DEF s

(* Another number in one place changes a sum by the difference.            *)
LEMMA SumChanged ==
  ASSUME NEW s \in Seq(Int), NEW t \in Seq(Int), Len(t) = Len(s), NEW k \in 1 .. Len(s),
         \A j \in 1 .. Len(s) : j # k => t[j] = s[j]
  PROVE  SumOf(t) = (SumOf(s) - s[k]) + t[k]
<1> DEFINE n == Len(s)
<1>1. n \in Nat /\ Len(t) = n /\ k \in 1 .. n /\ s[k] \in Int /\ t[k] \in Int
      /\ \A j \in 1 .. n : j # k => t[j] = s[j]
  OBVIOUS
<1>2. PICK r \in [0 .. n -> Int] :
        r[0] = 0 /\ r[n] = SumOf(s) /\ \A i \in 1 .. n : r[i] = r[i - 1] + s[i]
  BY SumRuns
<1>3. PICK q \in [0 .. n -> Int] :
        q[0] = 0 /\ q[n] = SumOf(t) /\ \A i \in 1 .. n : q[i] = q[i - 1] + t[i]
  <2>1. \E q \in [0 .. Len(t) -> Int] :
          q[0] = 0 /\ q[Len(t)] = SumOf(t) /\ \A i \in 1 .. Len(t) : q[i] = q[i - 1] + t[i]
    BY SumRuns
  <2>2. QED
    BY <2>1
<1>4. \A i \in 1 .. n : s[i] \in Int
  OBVIOUS
<1> HIDE DEF n
<1> DEFINE Good == {i \in 0 .. n :
             (i < k => q[i] = r[i]) /\ (i >= k => q[i] = (r[i] - s[k]) + t[k])}
<1>5. 0 \in Good
  BY <1>1, <1>2, <1>3
<1>6. ASSUME NEW i \in 1 .. n, i - 1 \in Good PROVE i \in Good
  <2>1. i \in 0 .. n /\ i - 1 \in 0 .. n
    BY <1>1
  <2>2. r[i - 1] \in Int /\ q[i - 1] \in Int /\ s[i] \in Int
        /\ r[i] = r[i - 1] + s[i] /\ q[i] = q[i - 1] + t[i]
    BY <1>2, <1>3, <1>4, <2>1
  <2>3. CASE i < k
    <3>1. q[i - 1] = r[i - 1] /\ t[i] = s[i]
      BY <1>1, <1>6, <2>1, <2>3
    <3>2. QED
      BY <1>1, <2>1, <2>2, <2>3, <3>1
  <2>4. CASE i = k
    <3>1. q[i - 1] = r[i - 1]
      BY <1>1, <1>6, <2>1, <2>4
    <3>2. q[i] = (r[i] - s[i]) + t[i]
      BY <1>1, <2>2, <2>4, <3>1
    <3>3. QED
      BY <1>1, <2>1, <2>4, <3>2
  <2>5. CASE i > k
    <3>1. q[i - 1] = (r[i - 1] - s[k]) + t[k] /\ t[i] = s[i]
      BY <1>1, <1>6, <2>1, <2>5
    <3>2. q[i] = ((r[i - 1] - s[k]) + t[k]) + s[i]
      BY <2>2, <3>1
    <3>4. s[k] \in Int /\ t[k] \in Int
      BY <1>1
    <3>5. \A a1, a2, a3, a4 \in Int : ((a1 - a2) + a3) + a4 = ((a1 + a4) - a2) + a3
      OBVIOUS
    <3>6. q[i] = ((r[i - 1] + s[i]) - s[k]) + t[k]
      BY <2>2, <3>2, <3>4, <3>5
    <3>7. q[i] = (r[i] - s[k]) + t[k]
      BY <2>2, <3>6
    <3>8. ~ (i < k)
      BY <1>1, <2>5
    <3>3. QED
      BY <2>1, <3>7, <3>8
  <2>6. QED
    BY <1>1, <2>1, <2>3, <2>4, <2>5
<1> HIDE DEF Good
<1>7. n \in Good
  <2>1. \A i \in 0 .. n : i \in Good
    BY <1>1, <1>5, <1>6, Induction
  <2>2. QED
    BY <1>1, <2>1
<1>8. QED
  BY <1>1, <1>2, <1>3, <1>7 DEF Good

(* A sequence without what is at one place.                                *)
LEMMA PlacesWithout ==
  ASSUME NEW X, NEW s \in Seq(X), NEW k \in 1 .. Len(s)
  PROVE  /\ RemoveAt(s, k) \in Seq(X) /\ Len(RemoveAt(s, k)) = Len(s) - 1
         /\ \A j \in 1 .. k - 1 : RemoveAt(s, k)[j] = s[j]
         /\ \A j \in k .. Len(s) - 1 : RemoveAt(s, k)[j] = s[j + 1]
<1> DEFINE u == SubSeq(s, 1, k - 1)
           v == SubSeq(s, k + 1, Len(s))
<1>1. k \in Nat \ {0} /\ k <= Len(s) /\ Len(s) \in Nat
  OBVIOUS
<1>2. /\ u \in Seq(X) /\ Len(u) = k - 1 /\ \A j \in 1 .. k - 1 : u[j] = s[j]
      /\ v \in Seq(X) /\ Len(v) = Len(s) - k /\ \A j \in 1 .. Len(s) - k : v[j] = s[k + j]
  BY <1>1
<1> HIDE DEF u, v
<1> DEFINE w == u \o v
<1>7. u \in Seq(X) /\ v \in Seq(X)
  BY <1>2
<1>3. /\ w \in Seq(X) /\ Len(w) = Len(u) + Len(v)
      /\ \A j \in 1 .. Len(u) : w[j] = u[j]
      /\ \A j \in 1 .. Len(v) : w[Len(u) + j] = v[j]
  BY <1>7, JoinedPlaces
<1>4. RemoveAt(s, k) = w
  BY DEF RemoveAt, u, v
<1> HIDE DEF w
<1>5. ASSUME NEW j \in k .. Len(s) - 1 PROVE w[j] = s[j + 1]
  <2> DEFINE i == j - (k - 1)
  <2>1. i \in 1 .. Len(v) /\ Len(u) + i = j /\ i \in 1 .. Len(s) - k /\ k + i = j + 1
    BY <1>1, <1>2
  <2> HIDE DEF i
  <2>2. w[Len(u) + i] = v[i] /\ v[i] = s[k + i]
    BY <1>2, <1>3, <2>1
  <2>3. QED
    BY <2>1, <2>2
<1>6. Len(w) = Len(s) - 1
  BY <1>1, <1>2, <1>3
<1>8. \A j \in 1 .. k - 1 : w[j] = s[j]
  BY <1>2, <1>3
<1>9. QED
  BY <1>3, <1>4, <1>5, <1>6, <1>8

(* Without one number a sum is that much less.                             *)
LEMMA SumWithout ==
  ASSUME NEW s \in Seq(Int), NEW t \in Seq(Int), NEW k \in 1 .. Len(s), Len(t) = Len(s) - 1,
         \A j \in 1 .. k - 1 : t[j] = s[j],
         \A j \in k .. Len(s) - 1 : t[j] = s[j + 1]
  PROVE  SumOf(t) = SumOf(s) - s[k]
<1> DEFINE n == Len(s)
           m == Len(t)
<1>1. n \in Nat /\ m \in Nat /\ m = n - 1 /\ k \in 1 .. n /\ s[k] \in Int
      /\ (\A j \in 1 .. k - 1 : t[j] = s[j]) /\ \A j \in k .. m : t[j] = s[j + 1]
  OBVIOUS
<1>2. PICK r \in [0 .. n -> Int] :
        r[0] = 0 /\ r[n] = SumOf(s) /\ \A i \in 1 .. n : r[i] = r[i - 1] + s[i]
  BY SumRuns
<1>3. PICK q \in [0 .. m -> Int] :
        q[0] = 0 /\ q[m] = SumOf(t) /\ \A i \in 1 .. m : q[i] = q[i - 1] + t[i]
  BY SumRuns
<1>4. \A i \in 1 .. n : s[i] \in Int
  OBVIOUS
<1> HIDE DEF n, m
<1> DEFINE Good == {i \in 0 .. m : (i < k => q[i] = r[i]) /\ (i >= k => q[i] = r[i + 1] - s[k])}
<1>5. 0 \in Good
  BY <1>1, <1>2, <1>3
<1>6. ASSUME NEW i \in 1 .. m, i - 1 \in Good PROVE i \in Good
  <2>1. i \in 0 .. m /\ i \in 1 .. n /\ i \in 0 .. n /\ i - 1 \in 0 .. n /\ i + 1 \in 1 .. n
        /\ (i + 1) - 1 = i /\ (i - 1) + 1 = i
    BY <1>1
  <2>2. r[i - 1] \in Int /\ r[i] \in Int /\ s[i] \in Int /\ s[i + 1] \in Int
        /\ r[i] = r[i - 1] + s[i] /\ q[i] = q[i - 1] + t[i]
    BY <1>2, <1>3, <1>4, <2>1
  <2>3. r[i + 1] = r[i] + s[i + 1]
    BY <1>2, <2>1
  <2>4. CASE i < k
    <3>1. q[i - 1] = r[i - 1] /\ t[i] = s[i]
      BY <1>1, <1>6, <2>1, <2>4
    <3>2. q[i] = r[i]
      BY <2>2, <3>1
    <3>3. QED
      BY <1>1, <2>1, <2>4, <3>2
  <2>5. CASE i = k
    <3>1. q[i - 1] = r[i - 1] /\ t[i] = s[i + 1]
      BY <1>1, <1>6, <2>1, <2>5
    <3>2. \A a1, a2, a3 \in Int : a1 + a3 = ((a1 + a2) + a3) - a2
      OBVIOUS
    <3>3. r[i - 1] + s[i + 1] = ((r[i - 1] + s[i]) + s[i + 1]) - s[i]
      BY <2>2, <3>2
    <3>4. q[i] = r[i + 1] - s[k]
      BY <2>2, <2>3, <2>5, <3>1, <3>3
    <3>5. ~ (i < k)
      BY <1>1, <2>5
    <3>6. QED
      BY <2>1, <3>4, <3>5
  <2>6. CASE i > k
    <3>1. i - 1 >= k /\ i \in k .. m
      BY <1>1, <2>6
    <3>2. q[i - 1] = r[(i - 1) + 1] - s[k]
      BY <1>6, <3>1
    <3>3. q[i - 1] = r[i] - s[k] /\ t[i] = s[i + 1]
      BY <1>1, <2>1, <3>1, <3>2
    <3>4. \A a1, a2, a3 \in Int : (a1 - a2) + a3 = (a1 + a3) - a2
      OBVIOUS
    <3>5. (r[i] - s[k]) + s[i + 1] = (r[i] + s[i + 1]) - s[k]
      BY <1>1, <2>2, <3>4
    <3>6. q[i] = r[i + 1] - s[k]
      BY <2>2, <2>3, <3>3, <3>5
    <3>7. ~ (i < k)
      BY <1>1, <2>6
    <3>8. QED
      BY <2>1, <3>6, <3>7
  <2>7. QED
    BY <1>1, <2>1, <2>4, <2>5, <2>6
<1> HIDE DEF Good
<1>7. m \in Good
  <2>1. \A i \in 0 .. m : i \in Good
    BY <1>1, <1>5, <1>6, Induction
  <2>2. QED
    BY <1>1, <2>1
<1>8. (m < k => q[m] = r[m]) /\ (m >= k => q[m] = r[m + 1] - s[k])
  BY <1>7 DEF Good
<1>9. r[n] = r[n - 1] + s[n] /\ r[n - 1] \in Int
  BY <1>1, <1>2
<1>10. QED
  BY <1>1, <1>2, <1>3, <1>8, <1>9

(* The prices of a list, one by one.                                       *)
LEMMA PricesListed ==
  ASSUME NEW price \in [Items -> Int], NEW seq \in Seq(Items)
  PROVE  \E v \in Seq(Int) : /\ Len(v) = Len(seq) /\ PricesOf(price, seq) = SumOf(v)
                             /\ \A i \in 1 .. Len(seq) : v[i] = price[seq[i]]
<1> DEFINE v == [i \in DOMAIN seq |-> price[seq[i]]]
<1>1. Len(seq) \in Nat /\ DOMAIN seq = 1 .. Len(seq) /\ \A i \in 1 .. Len(seq) : seq[i] \in Items
  OBVIOUS
<1>2. \A i \in 1 .. Len(seq) : v[i] = price[seq[i]] /\ price[seq[i]] \in Int
  BY <1>1
<1>3. v \in [1 .. Len(seq) -> Int]
  BY <1>1, <1>2
<1>4. PricesOf(price, seq) = SumOf(v)
  BY DEF PricesOf
<1> HIDE DEF v
<1>5. v \in Seq(Int) /\ Len(v) = Len(seq)
  BY <1>1, <1>3
<1>6. QED
  BY <1>2, <1>4, <1>5

(* The prices of two lists, one after the other.                           *)
LEMMA PricesJoined ==
  ASSUME NEW price \in [Items -> Int], NEW a \in Seq(Items), NEW c \in Seq(Items)
  PROVE  PricesOf(price, a \o c) = PricesOf(price, a) + PricesOf(price, c)
<1> DEFINE s == a \o c
           m == Len(a)
           n == Len(c)
<1>1. /\ s \in Seq(Items) /\ Len(s) = m + n /\ m \in Nat /\ n \in Nat
      /\ \A i \in 1 .. m : s[i] = a[i]
      /\ \A i \in 1 .. n : s[m + i] = c[i]
  BY JoinedPlaces
<1>2. PICK v \in Seq(Int) : /\ Len(v) = m /\ PricesOf(price, a) = SumOf(v)
                           /\ \A i \in 1 .. m : v[i] = price[a[i]]
  BY PricesListed
<1>3. PICK w \in Seq(Int) : /\ Len(w) = n /\ PricesOf(price, c) = SumOf(w)
                           /\ \A i \in 1 .. n : w[i] = price[c[i]]
  BY PricesListed
<1> HIDE DEF s
<1>4. PICK u \in Seq(Int) : /\ Len(u) = Len(s) /\ PricesOf(price, s) = SumOf(u)
                           /\ \A i \in 1 .. Len(s) : u[i] = price[s[i]]
  BY <1>1, PricesListed
<1> DEFINE z == v \o w
<1>5. /\ z \in Seq(Int) /\ Len(z) = Len(v) + Len(w)
      /\ \A i \in 1 .. Len(v) : z[i] = v[i]
      /\ \A i \in 1 .. Len(w) : z[Len(v) + i] = w[i]
  BY JoinedPlaces
<1>6. SumOf(z) = SumOf(v) + SumOf(w)
  BY SumJoined
<1> HIDE DEF z, m, n
<1>7. /\ Len(z) = m + n
      /\ \A i \in 1 .. m : z[i] = v[i]
      /\ \A i \in 1 .. n : z[m + i] = w[i]
  BY <1>2, <1>3, <1>5
<1>8. ASSUME NEW i \in 1 .. m + n PROVE u[i] = z[i]
  <2>1. u[i] = price[s[i]]
    BY <1>1, <1>4
  <2>2. CASE i <= m
    <3>1. i \in 1 .. m
      BY <1>1, <2>2
    <3>2. s[i] = a[i] /\ z[i] = v[i] /\ v[i] = price[a[i]]
      BY <1>1, <1>2, <1>7, <3>1
    <3>3. QED
      BY <2>1, <3>2
  <2>3. CASE i > m
    <3> DEFINE j == i - m
    <3>1. j \in 1 .. n /\ i = m + j
      BY <1>1, <2>3
    <3> HIDE DEF j
    <3>2. s[m + j] = c[j] /\ z[m + j] = w[j] /\ w[j] = price[c[j]]
      BY <1>1, <1>3, <1>7, <3>1
    <3>3. QED
      BY <2>1, <3>1, <3>2
  <2>4. QED
    BY <1>1, <2>2, <2>3
<1>9. u = z
  <2>1. Len(u) = m + n /\ Len(u) = Len(z)
    BY <1>1, <1>4, <1>7
  <2>2. \A i \in 1 .. Len(u) : u[i] = z[i]
    BY <1>8, <2>1
  <2>3. QED
    BY <1>5, <2>1, <2>2, SameSequence
<1>10. QED
  BY <1>2, <1>3, <1>4, <1>6, <1>9 DEF s

(* A list without the item at one place costs that much less.              *)
LEMMA PricesWithout ==
  ASSUME NEW price \in [Items -> Int], NEW seq \in Seq(Items), NEW k \in 1 .. Len(seq)
  PROVE  PricesOf(price, RemoveAt(seq, k)) = PricesOf(price, seq) - price[seq[k]]
<1> DEFINE n == Len(seq)
           less == RemoveAt(seq, k)
           m == Len(less)
<1>1. /\ less \in Seq(Items) /\ m = n - 1 /\ n \in Nat /\ k \in 1 .. n
      /\ \A j \in 1 .. k - 1 : less[j] = seq[j]
      /\ \A j \in k .. n - 1 : less[j] = seq[j + 1]
  BY PlacesWithout
<1>2. PICK v \in Seq(Int) : /\ Len(v) = n /\ PricesOf(price, seq) = SumOf(v)
                           /\ \A i \in 1 .. n : v[i] = price[seq[i]]
  BY PricesListed
<1> HIDE DEF less
<1>3. PICK w \in Seq(Int) : /\ Len(w) = m /\ PricesOf(price, less) = SumOf(w)
                           /\ \A i \in 1 .. m : w[i] = price[less[i]]
  BY <1>1, PricesListed
<1> HIDE DEF n, m
<1>4. ASSUME NEW j \in 1 .. k - 1 PROVE w[j] = v[j]
  <2>1. j \in 1 .. m /\ j \in 1 .. n
    BY <1>1
  <2>2. w[j] = price[less[j]] /\ less[j] = seq[j] /\ v[j] = price[seq[j]]
    BY <1>1, <1>2, <1>3, <2>1
  <2>3. QED
    BY <2>2
<1>5. ASSUME NEW j \in k .. n - 1 PROVE w[j] = v[j + 1]
  <2>1. j \in 1 .. m /\ j + 1 \in 1 .. n
    BY <1>1
  <2>2. w[j] = price[less[j]] /\ less[j] = seq[j + 1]
    BY <1>1, <1>3, <2>1
  <2>3. v[j + 1] = price[seq[j + 1]]
    BY <1>2, <2>1
  <2>4. QED
    BY <2>2, <2>3
<1>6. SumOf(w) = SumOf(v) - v[k]
  <2>1. k \in 1 .. Len(v) /\ Len(w) = Len(v) - 1
    BY <1>1, <1>2, <1>3
  <2>2. (\A j \in 1 .. k - 1 : w[j] = v[j]) /\ \A j \in k .. Len(v) - 1 : w[j] = v[j + 1]
    BY <1>2, <1>4, <1>5
  <2>3. QED
    BY <2>1, <2>2, SumWithout
<1>7. v[k] = price[seq[k]]
  BY <1>1, <1>2
<1>8. QED
  BY <1>2, <1>3, <1>6, <1>7 DEF less

(* What a plan costs is what its days cost, and the hotel.                 *)
LEMMA TotalListed ==
  ASSUME ask \in Request, NEW p \in PlanIn(Items)
  PROVE  \E v \in Seq(Int) : /\ Len(v) = Len(p.days) /\ Total(p) = p.hotel + SumOf(v)
                             /\ \A d \in 1 .. Len(p.days) : v[d] = DayCost(p.price, p.days[d])
<1> DEFINE days == p.days
           price == p.price
           v == [d \in DOMAIN days |-> DayCost(price, days[d])]
<1>1. price \in [Items -> Int]
  BY DEF PlanIn
<1>2. DOMAIN days = 1 .. Len(days) /\ Len(days) \in Nat /\ \A d \in DOMAIN days : days[d] \in DayIn(Items)
  BY DaysOfPlan
<1> HIDE DEF days, price
<1>3. \A d \in 1 .. Len(days) : v[d] = DayCost(price, days[d]) /\ DayCost(price, days[d]) \in Int
  BY <1>1, <1>2, CostTyped
<1>4. v \in [1 .. Len(days) -> Int]
  BY <1>2, <1>3
<1>5. Total(p) = p.hotel + SumOf(v)
  BY DEF Total, days, price
<1> HIDE DEF v
<1>6. v \in Seq(Int) /\ Len(v) = Len(days)
  BY <1>2, <1>4
<1>7. QED
  BY <1>3, <1>5, <1>6 DEF days, price

(* A day without one item costs one traveller that much less.              *)
LEMMA DayCostWithout ==
  ASSUME ask \in Request, ask.travelers = 1, NEW price \in [Items -> Int],
         NEW day \in DayIn(Items), NEW kind \in Kind, NEW k \in DOMAIN day[kind]
  PROVE  DayCost(price, [day EXCEPT ![kind] = RemoveAt(day[kind], k)])
           = DayCost(price, day) - price[day[kind][k]]
<1> DEFINE seq == day[kind]
           less == RemoveAt(seq, k)
           new == [day EXCEPT ![kind] = less]
           x == price[seq[k]]
<1>1. seq \in Seq(Items) /\ k \in DOMAIN seq
  BY ListOfDay
<1>2. /\ day.spots \in Seq(Items) /\ day.foods \in Seq(Items)
      /\ day.spots \o day.foods \in Seq(Items)
  BY DEF DayIn
<1>3. less \in Seq(Items)
  BY <1>1, RemoveAtTyped
<1>4. PricesOf(price, less) = PricesOf(price, seq) - x /\ x \in Int
  <2> HIDE DEF seq
  <2>1. k \in 1 .. Len(seq) /\ seq[k] \in Items
    BY <1>1
  <2>2. QED
    BY <1>1, <2>1, PricesWithout
<1>5. PricesOf(price, new.spots \o new.foods) = PricesOf(price, day.spots \o day.foods) - x
  <2>1. /\ PricesOf(price, day.spots \o day.foods) = PricesOf(price, day.spots) + PricesOf(price, day.foods)
        /\ PricesOf(price, day.spots) \in Int /\ PricesOf(price, day.foods) \in Int
    BY <1>2, PricesJoined, PricesTyped
  <2>2. CASE kind = "spots"
    <3>1. new.spots = less /\ new.foods = day.foods /\ seq = day.spots
      BY <2>2 DEF DayIn
    <3>2. PricesOf(price, less \o day.foods) = PricesOf(price, less) + PricesOf(price, day.foods)
      BY <1>2, <1>3, PricesJoined
    <3> HIDE DEF new, less, seq, x
    <3>3. QED
      BY <1>4, <2>1, <3>1, <3>2
  <2>3. CASE kind = "foods"
    <3>1. new.spots = day.spots /\ new.foods = less /\ seq = day.foods
      BY <2>3 DEF DayIn
    <3>2. PricesOf(price, day.spots \o less) = PricesOf(price, day.spots) + PricesOf(price, less)
      BY <1>2, <1>3, PricesJoined
    <3> HIDE DEF new, less, seq, x
    <3>3. QED
      BY <1>4, <2>1, <3>1, <3>2
  <2>4. QED
    BY <2>2, <2>3 DEF Kind
<1>6. Transport(new) = Transport(day) /\ Transport(day) \in Int
  <2>1. new.blocks = day.blocks /\ new.legs = day.legs
    BY DEF DayIn, Kind
  <2>2. /\ day.blocks \in Nat /\ day.legs \in Nat /\ ask.travelers \in Nat
        /\ Ride \in Nat /\ Fare \in Nat
    BY PlanAssumption DEF DayIn, Request
  <2>3. (day.blocks - 1) * Ride \in Int
    BY <2>2
  <2> HIDE DEF new
  <2>4. QED
    BY <2>1, <2>2, <2>3 DEF Transport
<1>7. PricesOf(price, day.spots \o day.foods) \in Int
  BY <1>2, PricesTyped
<1> HIDE DEF new, x
<1>8. /\ DayCost(price, new) = PricesOf(price, new.spots \o new.foods) + Transport(new)
      /\ DayCost(price, day) = PricesOf(price, day.spots \o day.foods) + Transport(day)
  <2>1. \A a \in Int : 1 * a = a
    OBVIOUS
  <2>2. PricesOf(price, new.spots \o new.foods) \in Int
    BY <1>4, <1>5, <1>7
  <2>3. QED
    BY <1>7, <2>1, <2>2 DEF DayCost
<1>9. DayCost(price, new) = DayCost(price, day) - x
  BY <1>4, <1>5, <1>6, <1>7, <1>8
<1>10. QED
  BY <1>9 DEF new, x

(* If no days share their meals, one list of one day is replaced.          *)
LEMMA OneListReplaced ==
  ASSUME NEW I, NEW p \in PlanIn(I), ~ p.twins, NEW d \in DOMAIN p.days, NEW kind \in Kind, NEW seq \in Seq(I)
  PROVE  LET q == WithList(p, d, kind, seq)
         IN /\ q \in PlanIn(I) /\ q.price = p.price /\ q.hotel = p.hotel /\ q.total = p.total
            /\ q.told = p.told /\ q.twins = p.twins
            /\ DOMAIN q.days = DOMAIN p.days /\ Len(q.days) = Len(p.days)
            /\ q.days[d] = [p.days[d] EXCEPT ![kind] = seq]
            /\ \A e \in DOMAIN p.days : e # d => q.days[e] = p.days[e]
<1> DEFINE days == p.days
           f == [e \in DOMAIN days |-> IF e \in Alike(p, d, kind)
                                       THEN [days[e] EXCEPT ![kind] = seq] ELSE days[e]]
           q == WithList(p, d, kind, seq)
<1>1. Alike(p, d, kind) = {d}
  BY DEF Alike
<1>2. q = [p EXCEPT !.days = f]
  BY DEF WithList
<1>3. q \in PlanIn(I)
  BY WithListTyped
<1>4. /\ q.days = f /\ q.price = p.price /\ q.hotel = p.hotel /\ q.total = p.total
      /\ q.told = p.told /\ q.twins = p.twins
  <2> HIDE DEF f
  <2>1. QED
    BY <1>2 DEF PlanIn
<1>5. /\ DOMAIN f = DOMAIN days /\ f[d] = [days[d] EXCEPT ![kind] = seq]
      /\ \A e \in DOMAIN days : e # d => f[e] = days[e]
  BY <1>1
<1>6. DOMAIN days = 1 .. Len(days) /\ Len(days) \in Nat
  BY DaysOfPlan
<1> HIDE DEF f, days
<1>7. DOMAIN q.days = 1 .. Len(q.days) /\ Len(q.days) \in Nat
  <2> HIDE DEF q
  <2>1. QED
    BY <1>3, DaysOfPlan
<1> HIDE DEF q
<1>8. Len(q.days) = Len(days)
  BY <1>4, <1>5, <1>6, <1>7
<1>9. QED
  BY <1>3, <1>4, <1>5, <1>8 DEF q, days

(* What one traveller drops is no longer paid for.                         *)
LEMMA TotalDropped ==
  ASSUME ask \in Request, ask.travelers = 1, NEW p \in PlanIn(Items), ~ p.twins,
         NEW kind \in Kind, NEW at \in Positions(p, kind)
  PROVE  Total(WithList(p, at[1], kind, RemoveAt(p.days[at[1]][kind], at[2])))
           = Total(p) - PriceAt(p, kind, at)
<1> DEFINE d == at[1]
           k == at[2]
           day == p.days[d]
           seq == day[kind]
           less == RemoveAt(seq, k)
           q == WithList(p, d, kind, less)
           n == Len(p.days)
<1>1. d \in DOMAIN p.days /\ k \in DOMAIN seq /\ seq \in Seq(Items) /\ PriceAt(p, kind, at) \in Int
  BY PositionsTyped
<1>2. day \in DayIn(Items) /\ DOMAIN p.days = 1 .. n /\ n \in Nat
  BY <1>1, DaysOfPlan
<1>3. less \in Seq(Items)
  BY <1>1, RemoveAtTyped
<1>4. /\ q \in PlanIn(Items) /\ q.price = p.price /\ q.hotel = p.hotel /\ Len(q.days) = n
      /\ q.days[d] = [day EXCEPT ![kind] = less]
      /\ \A e \in DOMAIN p.days : e # d => q.days[e] = p.days[e]
  <2> HIDE DEF d, less
  <2>1. QED
    BY <1>1, <1>3, OneListReplaced
<1>5. p.price \in [Items -> Int] /\ p.hotel \in Nat
  BY DEF PlanIn
<1>6. DayCost(p.price, [day EXCEPT ![kind] = less]) = DayCost(p.price, day) - PriceAt(p, kind, at)
  <2> HIDE DEF day
  <2>1. DayCost(p.price, [day EXCEPT ![kind] = less]) = DayCost(p.price, day) - p.price[seq[k]]
    BY <1>1, <1>2, <1>5, DayCostWithout
  <2>2. QED
    BY <2>1 DEF PriceAt, day
<1> HIDE DEF q
<1>7. PICK w \in Seq(Int) : /\ Len(w) = Len(q.days) /\ Total(q) = q.hotel + SumOf(w)
                            /\ \A e \in 1 .. Len(q.days) : w[e] = DayCost(q.price, q.days[e])
  BY <1>4, TotalListed
<1>8. PICK v \in Seq(Int) : /\ Len(v) = n /\ Total(p) = p.hotel + SumOf(v)
                            /\ \A e \in 1 .. n : v[e] = DayCost(p.price, p.days[e])
  BY TotalListed
<1> DEFINE x == PriceAt(p, kind, at)
<1> HIDE DEF d, k, day, less, n, x
<1>9. d \in 1 .. Len(v) /\ Len(w) = Len(v)
  BY <1>1, <1>2, <1>4, <1>7, <1>8
<1>10. \A e \in 1 .. Len(v) : e # d => w[e] = v[e]
  <2> SUFFICES ASSUME NEW e \in 1 .. Len(v), e # d PROVE w[e] = v[e]
    OBVIOUS
  <2>1. e \in 1 .. n /\ e \in DOMAIN p.days /\ e \in 1 .. Len(q.days)
    BY <1>2, <1>4, <1>8
  <2>2. w[e] = DayCost(p.price, q.days[e]) /\ v[e] = DayCost(p.price, p.days[e])
    BY <1>4, <1>7, <1>8, <2>1
  <2>3. q.days[e] = p.days[e]
    BY <1>4, <2>1
  <2>4. QED
    BY <2>2, <2>3
<1>11. SumOf(w) = (SumOf(v) - v[d]) + w[d]
  BY <1>9, <1>10, SumChanged
<1>12. w[d] = v[d] - x /\ v[d] \in Int
  <2>1. w[d] = DayCost(p.price, q.days[d]) /\ v[d] = DayCost(p.price, day)
    BY <1>1, <1>2, <1>4, <1>7, <1>8 DEF day
  <2>2. v[d] \in Int
    BY <1>9
  <2>3. QED
    BY <1>4, <1>6, <2>1, <2>2 DEF x
<1>13. SumOf(v) \in Int /\ SumOf(w) \in Int
  BY SumIsInt
<1>14. x \in Int
  BY <1>1 DEF x
<1>15. SumOf(w) = SumOf(v) - x
  <2>1. \A a1, a2, a3 \in Int : (a1 - a2) + (a2 - a3) = a1 - a3
    OBVIOUS
  <2>2. QED
    BY <1>11, <1>12, <1>13, <1>14, <2>1
<1>16. Total(q) = Total(p) - x
  BY <1>4, <1>5, <1>7, <1>8, <1>13, <1>14, <1>15
<1>17. QED
  BY <1>16 DEF q, d, k, day, less, x

(* Two plans of the same days, but for the ways that cost nothing.         *)
Alikes(p, q) ==
  /\ DOMAIN q.days = DOMAIN p.days /\ q.price = p.price /\ q.hotel = p.hotel
  /\ \A d \in DOMAIN p.days :
       /\ q.days[d].spots = p.days[d].spots /\ q.days[d].foods = p.days[d].foods
       /\ q.days[d].blocks = p.days[d].blocks
       /\ q.days[d].legs = p.days[d].legs \/ p.days[d].blocks > 0

(* They cost the same and have the same items.                             *)
LEMMA AlikesReach ==
  ASSUME ask \in Request, NEW p \in PlanIn(Items), NEW q \in PlanIn(Items), Alikes(p, q)
  PROVE  Total(q) = Total(p) /\ InPlan(q) = InPlan(p)
<1>1. \A d \in DOMAIN p.days : DayCost(q.price, q.days[d]) = DayCost(p.price, p.days[d])
  <2> SUFFICES ASSUME NEW d \in DOMAIN p.days
               PROVE  DayCost(q.price, q.days[d]) = DayCost(p.price, p.days[d])
    OBVIOUS
  <2>1. /\ q.days[d].spots = p.days[d].spots /\ q.days[d].foods = p.days[d].foods
        /\ q.days[d].blocks = p.days[d].blocks /\ q.price = p.price
        /\ q.days[d].legs = p.days[d].legs \/ p.days[d].blocks > 0
    BY DEF Alikes
  <2>2. Transport(q.days[d]) = Transport(p.days[d])
    BY <2>1 DEF Transport
  <2>3. QED
    BY <2>1, <2>2 DEF DayCost
<1>2. Len(q.days) = Len(p.days) /\ DOMAIN p.days = 1 .. Len(p.days) /\ DOMAIN q.days = DOMAIN p.days
  <2>1. DOMAIN p.days = 1 .. Len(p.days) /\ Len(p.days) \in Nat \ {0}
    BY DaysOfPlan
  <2>2. DOMAIN q.days = 1 .. Len(q.days) /\ Len(q.days) \in Nat \ {0}
    BY DaysOfPlan
  <2>3. DOMAIN q.days = DOMAIN p.days
    BY DEF Alikes
  <2>4. QED
    BY <2>1, <2>2, <2>3
<1>3. PICK v \in Seq(Int) : /\ Len(v) = Len(p.days) /\ Total(p) = p.hotel + SumOf(v)
                            /\ \A d \in 1 .. Len(p.days) : v[d] = DayCost(p.price, p.days[d])
  BY TotalListed
<1>4. PICK w \in Seq(Int) : /\ Len(w) = Len(q.days) /\ Total(q) = q.hotel + SumOf(w)
                            /\ \A d \in 1 .. Len(q.days) : w[d] = DayCost(q.price, q.days[d])
  BY TotalListed
<1>5. w = v
  <2>1. Len(w) = Len(v) /\ \A d \in 1 .. Len(w) : w[d] = v[d]
    BY <1>1, <1>2, <1>3, <1>4
  <2>2. QED
    BY <2>1, SameSequence
<1>6. q.hotel = p.hotel
  BY DEF Alikes
<1>7. Total(q) = Total(p)
  BY <1>3, <1>4, <1>5, <1>6
<1>8. InPlan(q) = InPlan(p)
  BY <1>2 DEF InPlan, Alikes
<1>9. QED
  BY <1>7, <1>8

(* _recompute_costs changes what the plan says of its costs only.          *)
LEMMA CostedKeeps ==
  ASSUME NEW p \in PlanIn(Items)
  PROVE  LET q == Costed(p)
         IN /\ q.days = p.days /\ q.price = p.price /\ q.hotel = p.hotel /\ q.twins = p.twins
            /\ q.total = Total(p) /\ Total(q) = Total(p)
            /\ InPlan(q) = InPlan(p) /\ Reached(q) = Reached(p) /\ Steady(q) = Steady(p)
<1> DEFINE t == Total(p)
           told == p.told \/ TooDear(t)
           q == [p EXCEPT !.total = t, !.told = told]
<1>1. Costed(p) = q
  BY DEF Costed, Costing
<1>2. /\ q.days = p.days /\ q.price = p.price /\ q.hotel = p.hotel /\ q.twins = p.twins
      /\ q.total = t
  <2> HIDE DEF t, told
  <2>1. QED
    BY DEF PlanIn
<1> HIDE DEF q
<1>3. Total(q) = t
  BY <1>2, TotalSame
<1>4. InPlan(q) = InPlan(p) /\ Steady(q) = Steady(p)
  BY <1>2 DEF InPlan, Steady
<1>5. Reached(q) = Reached(p)
  BY <1>3, <1>4 DEF Reached
<1>6. QED
  BY <1>1, <1>2, <1>3, <1>4, <1>5

(* What is there once is there once without one of the others.             *)
LEMMA InjectiveWithout ==
  ASSUME NEW X, NEW s \in Seq(X), NEW k \in 1 .. Len(s), IsInjective(s)
  PROVE  IsInjective(RemoveAt(s, k))
<1> DEFINE t == RemoveAt(s, k)
           From(j) == IF j < k THEN j ELSE j + 1
<1>1. /\ t \in Seq(X) /\ Len(t) = Len(s) - 1 /\ Len(s) \in Nat
      /\ \A j \in 1 .. k - 1 : t[j] = s[j]
      /\ \A j \in k .. Len(s) - 1 : t[j] = s[j + 1]
  BY PlacesWithout
<1> HIDE DEF t
<1>2. DOMAIN t = 1 .. Len(s) - 1 /\ DOMAIN s = 1 .. Len(s)
  BY <1>1
<1>3. \A j \in 1 .. Len(s) - 1 : From(j) \in 1 .. Len(s) /\ t[j] = s[From(j)]
  <2> SUFFICES ASSUME NEW j \in 1 .. Len(s) - 1
               PROVE  From(j) \in 1 .. Len(s) /\ t[j] = s[From(j)]
    OBVIOUS
  <2>1. CASE j < k
    <3>1. j \in 1 .. k - 1 /\ j \in 1 .. Len(s) /\ From(j) = j
      BY <1>1, <2>1
    <3>2. QED
      BY <1>1, <3>1
  <2>2. CASE ~ (j < k)
    <3>1. j \in k .. Len(s) - 1 /\ j + 1 \in 1 .. Len(s) /\ From(j) = j + 1
      BY <1>1, <2>2
    <3>2. QED
      BY <1>1, <3>1
  <2>3. QED
    BY <2>1, <2>2
<1>4. \A i, j \in 1 .. Len(s) - 1 : From(i) = From(j) => i = j
  BY <1>1
<1> HIDE DEF From
<1>5. \A i, j \in 1 .. Len(s) : s[i] = s[j] => i = j
  BY <1>2 DEF IsInjective
<1>6. \A i, j \in 1 .. Len(s) - 1 : t[i] = t[j] => i = j
  BY <1>3, <1>4, <1>5
<1>7. QED
  BY <1>2, <1>6 DEF IsInjective, t

(* To drop something leaves a steady plan steady, and the minimum reached. *)
LEMMA DroppedKeeps ==
  ASSUME ask \in Request, ask.travelers = 1, ask.minimum > 0, NEW p \in PlanIn(Items),
         ~ p.twins, Steady(p), p.total = Total(p), NEW kind \in Kind, MayGo(p, kind) # {}
  PROVE  LET q == Dropped(p, kind)
         IN /\ q \in PlanIn(Items) /\ ~ q.twins /\ Steady(q)
            /\ q.total = Total(q) /\ q.total >= ask.minimum
<1>1. PICK at \in MayGo(p, kind) :
        Dropped(p, kind) = Costed(WithList(p, at[1], kind, RemoveAt(p.days[at[1]][kind], at[2])))
  BY DroppedOne
<1>2. at \in Positions(p, kind) /\ p.total - PriceAt(p, kind, at) >= ask.minimum
  BY DEF MayGo
<1> DEFINE d == at[1]
           k == at[2]
           seq == p.days[d][kind]
           less == RemoveAt(seq, k)
           w == WithList(p, d, kind, less)
<1>3. d \in DOMAIN p.days /\ k \in DOMAIN seq /\ seq \in Seq(Items)
  BY <1>2, PositionsTyped
<1>4. less \in Seq(Items)
  BY <1>3, RemoveAtTyped
<1>5. Total(w) = Total(p) - PriceAt(p, kind, at)
  BY <1>2, TotalDropped
<1>6. /\ w \in PlanIn(Items) /\ w.twins = p.twins /\ DOMAIN w.days = DOMAIN p.days
      /\ w.days[d] = [p.days[d] EXCEPT ![kind] = less]
      /\ \A e \in DOMAIN p.days : e # d => w.days[e] = p.days[e]
  <2> HIDE DEF d, less
  <2>1. QED
    BY <1>3, <1>4, OneListReplaced
<1>7. Steady(w)
  <2> SUFFICES ASSUME NEW e \in DOMAIN p.days
               PROVE  w.days[e].blocks > 0 /\ IsInjective(w.days[e].spots)
    BY <1>6 DEF Steady
  <2>1. p.days[e].blocks > 0 /\ IsInjective(p.days[e].spots)
    BY DEF Steady
  <2>2. CASE e # d
    BY <1>6, <2>1, <2>2
  <2>3. CASE e = d
    <3> DEFINE day == p.days[d]
    <3>1. day \in DayIn(Items)
      BY <1>3, DaysOfPlan
    <3>2. CASE kind = "spots"
      <4>1. w.days[d].blocks = day.blocks /\ w.days[d].spots = less /\ seq = day.spots
        <5> HIDE DEF w, less
        <5>1. QED
          BY <1>6, <3>1, <3>2 DEF DayIn
      <4> DEFINE s == seq
                 i == k
      <4>2. s \in Seq(Items) /\ i \in 1 .. Len(s) /\ IsInjective(s)
        <5>1. s \in Seq(Items) /\ i \in DOMAIN s /\ IsInjective(s)
          BY <1>3, <2>1, <2>3, <4>1
        <5> HIDE DEF s, i
        <5>2. QED
          BY <5>1
      <4>3. IsInjective(RemoveAt(s, i))
        <5> HIDE DEF s, i
        <5>1. QED
          BY <4>2, InjectiveWithout
      <4>4. QED
        BY <2>1, <2>3, <4>1, <4>3
    <3>3. CASE kind = "foods"
      <4>1. w.days[d].blocks = day.blocks /\ w.days[d].spots = day.spots
        <5> HIDE DEF w, less
        <5>1. QED
          BY <1>6, <3>1, <3>3 DEF DayIn
      <4>2. QED
        BY <2>1, <2>3, <4>1
    <3>4. QED
      BY <3>2, <3>3 DEF Kind
  <2>4. QED
    BY <2>2, <2>3
<1> HIDE DEF w
<1>8. /\ Costed(w) \in PlanIn(Items) /\ Costed(w).twins = w.twins
      /\ Costed(w).total = Total(w) /\ Total(Costed(w)) = Total(w) /\ Steady(Costed(w)) = Steady(w)
  BY <1>6, CostedTyped, CostedKeeps
<1>9. Dropped(p, kind) = Costed(w)
  BY <1>1 DEF w
<1>10. QED
  BY <1>2, <1>5, <1>6, <1>7, <1>8, <1>9

(* What is there once already stays as it is.                              *)
LEMMA OnceInjective ==
  ASSUME NEW X, NEW s \in Seq(X), IsInjective(s)
  PROVE  Once(s) = s
<1> DEFINE I == {i \in DOMAIN s : \A j \in 1 .. i - 1 : s[j] # s[i]}
           b == Len(s)
<1>1. /\ DOMAIN s = 1 .. b /\ b \in Nat /\ \A i \in 1 .. b : s[i] \in X
      /\ Once(s) = Picked(s, I)
  BY DEF Once
<1>2. \A i \in 1 .. b : i \in I
  <2>1. \A i \in 1 .. b : \A j \in 1 .. i - 1 : j \in 1 .. b /\ j # i
    BY <1>1
  <2>2. \A i, j \in 1 .. b : s[i] = s[j] => i = j
    BY <1>1 DEF IsInjective
  <2> HIDE DEF b
  <2>3. QED
    BY <1>1, <2>1, <2>2
<1> HIDE DEF I
<1>3. PICK f \in [0 .. b -> Seq(X)] : Picks(f, s, I) /\ Picked(s, I) = f[b]
  BY PickedStepwise
<1>4. f[0] = << >> /\ \A n \in 1 .. b : f[n] = Append(f[n - 1], s[n])
  BY <1>2, <1>3 DEF Picks
<1> DEFINE Good == {n \in 0 .. b : Len(f[n]) = n /\ \A i \in 1 .. n : f[n][i] = s[i]}
<1>5. 0 \in Good
  BY <1>1, <1>4
<1>6. ASSUME NEW n \in 1 .. b, n - 1 \in Good PROVE n \in Good
  <2> DEFINE g == f[n - 1]
             x == s[n]
             m == n - 1
  <2>1. g \in Seq(X) /\ x \in X /\ m \in Nat /\ n = m + 1 /\ n \in 0 .. b
    BY <1>1
  <2>2. Len(g) = m /\ \A i \in 1 .. m : g[i] = s[i]
    BY <1>6
  <2>3. f[n] = Append(g, x)
    BY <1>4
  <2>4. s[m + 1] = x
    BY <2>1
  <2> HIDE DEF g, x, m, Good
  <2>5. Len(Append(g, x)) = m + 1 /\ \A i \in 1 .. m + 1 : Append(g, x)[i] = s[i]
    BY <2>1, <2>2, <2>4
  <2>6. QED
    BY <2>1, <2>3, <2>5 DEF Good
<1> HIDE DEF Good
<1>7. b \in Good
  <2>1. \A n \in 0 .. b : n \in Good
    <3> HIDE DEF b
    <3>1. QED
      BY <1>1, <1>5, <1>6, Induction
  <2>2. QED
    BY <1>1, <2>1
<1>8. Len(f[b]) = Len(s) /\ \A i \in 1 .. Len(f[b]) : f[b][i] = s[i]
  BY <1>7 DEF Good
<1>9. f[b] \in Seq(X)
  BY <1>1
<1>10. f[b] = s
  <2> DEFINE t == f[b]
  <2>1. t \in Seq(X) /\ Len(t) = Len(s) /\ \A i \in 1 .. Len(t) : t[i] = s[i]
    BY <1>8, <1>9
  <2> HIDE DEF t, b
  <2>2. t = s
    BY <2>1, SameSequence
  <2>3. QED
    BY <2>2 DEF t
<1>11. QED
  BY <1>1, <1>3, <1>10

(* autocorrect_plan takes nothing from a steady plan, and no fare.         *)
LEMMA AutocorrectedSteady ==
  ASSUME ask \in Request, NEW p \in PlanIn(Items), Steady(p)
  PROVE  LET q == Autocorrected(p)
         IN /\ q \in PlanIn(Items) /\ q.twins = p.twins /\ Steady(q)
            /\ Total(q) = Total(p) /\ InPlan(q) = InPlan(p) /\ Reached(q) = Reached(p)
<1> DEFINE days == p.days
           New(day) == LET spots == Once(day.spots)
                       IN [day EXCEPT !.spots = spots, !.legs = Max({0, Len(spots) - 1})]
           f == [d \in DOMAIN days |-> New(days[d])]
           q == [[p EXCEPT !.days = f] EXCEPT !.told = FALSE]
<1>1. \A d \in DOMAIN days : days[d] \in DayIn(Items)
  BY DaysOfPlan
<1>2. Autocorrected(p) = q
  BY DEF Autocorrected, EachDay
<1>3. q \in PlanIn(Items)
  BY <1>2, AutocorrectedTyped
<1>4. q.days = f /\ q.price = p.price /\ q.hotel = p.hotel /\ q.twins = p.twins
  <2> HIDE DEF f
  <2>1. QED
    BY DEF PlanIn
<1>5. DOMAIN f = DOMAIN days /\ \A d \in DOMAIN days : f[d] = New(days[d])
  OBVIOUS
<1> HIDE DEF f, q
<1>6. ASSUME NEW d \in DOMAIN days
      PROVE  /\ f[d].spots = days[d].spots /\ f[d].foods = days[d].foods
             /\ f[d].blocks = days[d].blocks
  <2> DEFINE day == days[d]
             spots == Once(day.spots)
             legs == Max({0, Len(spots) - 1})
  <2>1. day \in DayIn(Items) /\ day.spots \in Seq(Items)
    BY <1>1 DEF DayIn
  <2>2. IsInjective(day.spots)
    BY DEF Steady
  <2>3. spots = day.spots
    BY <2>1, <2>2, OnceInjective
  <2>4. f[d] = [day EXCEPT !.spots = spots, !.legs = legs]
    BY <1>5
  <2> HIDE DEF spots, legs, day
  <2>5. f[d].spots = spots /\ f[d].foods = day.foods /\ f[d].blocks = day.blocks
    BY <2>1, <2>4 DEF DayIn
  <2>6. QED
    BY <2>3, <2>5 DEF day
<1>7. Steady(q)
  BY <1>4, <1>5, <1>6 DEF Steady
<1>8. Alikes(p, q)
  <2>1. \A d \in DOMAIN days : days[d].blocks > 0
    BY DEF Steady
  <2>2. QED
    BY <1>4, <1>5, <1>6, <2>1 DEF Alikes
<1>9. Total(q) = Total(p) /\ InPlan(q) = InPlan(p)
  BY <1>3, <1>8, AlikesReach
<1>10. Reached(q) = Reached(p)
  BY <1>9 DEF Reached
<1>11. QED
  BY <1>2, <1>3, <1>4, <1>7, <1>9, <1>10

(* Neither budget nor minimum is lost for one traveller and a steady plan: *)
(* what may go leaves the minimum, and what is too dear has it.            *)
LEMMA FittedReaches ==
  ASSUME ask \in Request, ask.minimum > 0, ~ TooDear(ask.minimum), NEW p \in PlanIn(Items),
         p.total = Total(p), Reached(p),
         ask.budget > 0 => ask.travelers = 1 /\ Steady(p) /\ ~ p.twins
  PROVE  Reached(Fitted(p))
<1>1. CASE ask.budget = 0
  <2> DEFINE X == PlanIn(Items)
  <2>1. p \in X /\ \A x \in X : TowardsBudget(x) \in X
    <3>1. Items \in SUBSET Items
      OBVIOUS
    <3>2. QED
      BY <3>1, TowardsBudgetTyped
  <2>2. Fitted(p) = p
    <3> HIDE DEF X
    <3>1. QED
      BY <1>1, <2>1, FittedThrough
  <2>3. QED
    BY <2>2
<1>2. CASE ask.budget # 0
  <2>1. /\ ask.budget > 0 /\ ask.travelers = 1 /\ Steady(p) /\ ~ p.twins
        /\ ask.budget \in Nat /\ ask.minimum \in Nat
    BY <1>2 DEF Request
  <2> DEFINE X == {x \in PlanIn(Items) : /\ ~ x.twins /\ Steady(x) /\ x.total = Total(x)
                                         /\ x = p \/ x.total >= ask.minimum}
  <2>2. p \in X
    BY <2>1
  <2>3. ASSUME NEW x \in X PROVE TowardsBudget(x) \in X
    <3>1. /\ x \in PlanIn(Items) /\ ~ x.twins /\ Steady(x) /\ x.total = Total(x)
      OBVIOUS
    <3>2. ASSUME NEW kind \in Kind, MayGo(x, kind) # {} PROVE Dropped(x, kind) \in X
      <4>1. LET y == Dropped(x, kind)
            IN /\ y \in PlanIn(Items) /\ ~ y.twins /\ Steady(y)
               /\ y.total = Total(y) /\ y.total >= ask.minimum
        BY <2>1, <3>1, <3>2, DroppedKeeps
      <4>2. QED
        BY <4>1
    <3>3. "spots" \in Kind /\ "foods" \in Kind
      BY DEF Kind
    <3> HIDE DEF X
    <3>4. QED
      BY <3>2, <3>3 DEF TowardsBudget
  <2>4. \E end \in X : Fitted(p) = Autocorrected(end)
    <3> HIDE DEF X
    <3>1. QED
      BY <1>2, <2>2, <2>3, FittedThrough
  <2>5. PICK end \in X : Fitted(p) = Autocorrected(end)
    BY <2>4
  <2>6. end \in PlanIn(Items) /\ Steady(end) /\ end.total = Total(end)
    OBVIOUS
  <2>7. Reached(end)
    <3>1. CASE end = p
      BY <3>1
    <3>2. CASE end # p
      BY <3>2, <2>6 DEF Reached
    <3>3. QED
      BY <3>1, <3>2
  <2>8. QED
    BY <2>5, <2>6, <2>7, AutocorrectedSteady
<1>3. QED
  BY <1>1, <1>2

(* What is left when some are left out.                                    *)
LEMMA WithoutElements ==
  ASSUME NEW I, NEW docs \in Seq(I), NEW out
  PROVE  ToSet(Without(docs, out)) = ToSet(docs) \ out
<1> DEFINE K == {i \in DOMAIN docs : docs[i] \notin out}
           w == Picked(docs, K)
<1>1. Without(docs, out) = w
  BY DEF Without, Chosen
<1> HIDE DEF K
<1>2. /\ w \in Seq(I)
      /\ \A k \in DOMAIN w : \E i \in K \cap DOMAIN docs : w[k] = docs[i]
      /\ \A i \in K \cap DOMAIN docs : \E k \in DOMAIN w : w[k] = docs[i]
  BY PickedElements
<1>3. \A x \in ToSet(w) : x \in ToSet(docs) /\ x \notin out
  BY <1>2 DEF ToSet, K
<1>4. \A x \in ToSet(docs) \ out : x \in ToSet(w)
  BY <1>2 DEF ToSet, K
<1>5. QED
  BY <1>1, <1>3, <1>4

(* One more at the end.                                                    *)
LEMMA Appended ==
  ASSUME NEW I, NEW s \in Seq(I), NEW x \in I
  PROVE  LET t == Append(s, x)
         IN /\ t \in Seq(I) /\ ToSet(t) = ToSet(s) \cup {x}
            /\ IsInjective(s) /\ x \notin ToSet(s) => IsInjective(t)
<1> DEFINE t == Append(s, x)
           n == Len(s)
<1>1. /\ t \in Seq(I) /\ n \in Nat /\ DOMAIN s = 1 .. n /\ DOMAIN t = 1 .. n + 1
      /\ t[n + 1] = x /\ \A i \in 1 .. n : t[i] = s[i]
  OBVIOUS
<1> HIDE DEF t, n
<1>2. \A i \in 1 .. n + 1 : i = n + 1 \/ i \in 1 .. n
  BY <1>1
<1>3. n + 1 \in 1 .. n + 1 /\ \A i \in 1 .. n : i \in 1 .. n + 1
  BY <1>1
<1>4. ToSet(t) = ToSet(s) \cup {x}
  BY <1>1, <1>2, <1>3 DEF ToSet
<1>5. ASSUME IsInjective(s), x \notin ToSet(s) PROVE IsInjective(t)
  <2>1. \A i \in 1 .. n : s[i] # x
    BY <1>1, <1>5 DEF ToSet
  <2>2. \A i, j \in 1 .. n : s[i] = s[j] => i = j
    BY <1>1, <1>5 DEF IsInjective
  <2>3. \A i, j \in 1 .. n + 1 : t[i] = t[j] => i = j
    BY <1>1, <1>2, <2>1, <2>2
  <2>4. QED
    BY <1>1, <2>3 DEF IsInjective
<1>6. QED
  BY <1>1, <1>4, <1>5 DEF t

(* What is added is in the plan, with all that was, and repeats nothing.   *)
LEMMA WithItemAdds ==
  ASSUME ask \in Request, NEW p \in PlanIn(Items), ~ p.twins, NEW x \in Items, x \notin InPlan(p)
  PROVE  LET q == WithItem(p, x)
         IN /\ q \in PlanIn(Items) /\ ~ q.twins /\ q.total = Total(q)
            /\ InPlan(q) = InPlan(p) \cup {x} /\ (Steady(p) => Steady(q))
<1> DEFINE kind == IF x \in Spots THEN "spots" ELSE "foods"
           day == p.days[1]
           seq == Append(day[kind], x)
           w == WithList(p, 1, kind, seq)
           r == [w EXCEPT !.price[x] = Cost[x]]
<1>1. kind \in Kind
  BY DEF Kind
<1>2. 1 \in DOMAIN p.days /\ day \in DayIn(Items) /\ \A d \in DOMAIN p.days : p.days[d] \in DayIn(Items)
  BY DaysOfPlan
<1>3. WithItem(p, x) = Costed(r)
  BY DEF WithItem
<1> HIDE DEF kind
<1>4. day[kind] \in Seq(Items)
  <2> HIDE DEF day
  <2>1. QED
    BY <1>1, <1>2, ListOfDay
<1>5. \A d \in DOMAIN p.days : ToSet(p.days[d].spots) \subseteq InPlan(p) /\ ToSet(p.days[d].foods) \subseteq InPlan(p)
  BY DEF InPlan
<1>6. x \notin ToSet(day.spots) /\ x \notin ToSet(day.foods)
  BY <1>2, <1>5
<1>7. /\ seq \in Seq(Items) /\ ToSet(seq) = ToSet(day[kind]) \cup {x}
      /\ IsInjective(day[kind]) /\ x \notin ToSet(day[kind]) => IsInjective(seq)
  <2> DEFINE s == day[kind]
  <2>1. s \in Seq(Items)
    BY <1>4
  <2> HIDE DEF s
  <2>2. LET t == Append(s, x)
        IN /\ t \in Seq(Items) /\ ToSet(t) = ToSet(s) \cup {x}
           /\ IsInjective(s) /\ x \notin ToSet(s) => IsInjective(t)
    BY <2>1, Appended
  <2>3. QED
    BY <2>2 DEF s
<1> HIDE DEF seq
<1>8. /\ w \in PlanIn(Items) /\ w.price = p.price /\ w.twins = p.twins
      /\ DOMAIN w.days = DOMAIN p.days
      /\ w.days[1] = [day EXCEPT ![kind] = seq]
      /\ \A e \in DOMAIN p.days : e # 1 => w.days[e] = p.days[e]
  <2> DEFINE one == 1
  <2>1. one \in DOMAIN p.days
    BY <1>2
  <2> HIDE DEF one
  <2>2. LET v == WithList(p, one, kind, seq)
        IN /\ v \in PlanIn(Items) /\ v.price = p.price /\ v.twins = p.twins
           /\ DOMAIN v.days = DOMAIN p.days
           /\ v.days[one] = [p.days[one] EXCEPT ![kind] = seq]
           /\ \A e \in DOMAIN p.days : e # one => v.days[e] = p.days[e]
    BY <1>1, <1>7, <2>1, OneListReplaced
  <2>3. QED
    BY <2>2 DEF one
<1> HIDE DEF w
<1>9. r \in PlanIn(Items) /\ r.days = w.days /\ r.twins = w.twins
  <2>1. Cost[x] \in Int
    BY PlanAssumption
  <2>2. r \in PlanIn(Items)
    BY <1>8, <2>1, PriceReplaced
  <2>3. r.days = w.days /\ r.twins = w.twins
    BY <1>8 DEF PlanIn
  <2>4. QED
    BY <2>2, <2>3
<1> HIDE DEF r
<1>10. /\ w.days[1].blocks = day.blocks
       /\ ToSet(w.days[1].spots) \cup ToSet(w.days[1].foods) = ToSet(day.spots) \cup ToSet(day.foods) \cup {x}
       /\ IsInjective(day.spots) => IsInjective(w.days[1].spots)
  <2> HIDE DEF day
  <2>1. CASE kind = "spots"
    <3>1. /\ w.days[1].blocks = day.blocks /\ w.days[1].spots = seq /\ w.days[1].foods = day.foods
          /\ day[kind] = day.spots
      BY <1>2, <1>8, <2>1 DEF DayIn
    <3>2. QED
      BY <1>6, <1>7, <3>1
  <2>2. CASE kind = "foods"
    <3>1. /\ w.days[1].blocks = day.blocks /\ w.days[1].spots = day.spots /\ w.days[1].foods = seq
          /\ day[kind] = day.foods
      BY <1>2, <1>8, <2>2 DEF DayIn
    <3>2. QED
      BY <1>7, <3>1
  <2>3. QED
    BY <1>1, <2>1, <2>2 DEF Kind
<1>11. InPlan(r) = InPlan(p) \cup {x}
  <2> DEFINE Has(q, d) == ToSet(q.days[d].spots) \cup ToSet(q.days[d].foods)
  <2>1. \A d \in DOMAIN p.days : d # 1 => Has(r, d) = Has(p, d)
    BY <1>8, <1>9
  <2>2. Has(r, 1) = Has(p, 1) \cup {x}
    BY <1>9, <1>10
  <2>3. InPlan(r) = UNION {Has(r, d) : d \in DOMAIN p.days} /\ InPlan(p) = UNION {Has(p, d) : d \in DOMAIN p.days}
    BY <1>8, <1>9 DEF InPlan
  <2> HIDE DEF Has
  <2>4. QED
    BY <1>2, <2>1, <2>2, <2>3
<1>12. ASSUME Steady(p) PROVE Steady(r)
  <2> SUFFICES ASSUME NEW d \in DOMAIN p.days
               PROVE  r.days[d].blocks > 0 /\ IsInjective(r.days[d].spots)
    BY <1>8, <1>9 DEF Steady
  <2>1. p.days[d].blocks > 0 /\ IsInjective(p.days[d].spots)
    BY <1>12 DEF Steady
  <2>2. CASE d = 1
    BY <1>9, <1>10, <2>1, <2>2
  <2>3. CASE d # 1
    BY <1>8, <1>9, <2>1, <2>3
  <2>4. QED
    BY <2>2, <2>3
<1>13. /\ Costed(r) \in PlanIn(Items) /\ Costed(r).twins = r.twins
       /\ Costed(r).total = Total(r) /\ Total(Costed(r)) = Total(r)
       /\ Steady(Costed(r)) = Steady(r) /\ InPlan(Costed(r)) = InPlan(r)
  BY <1>9, CostedTyped, CostedKeeps
<1>14. QED
  BY <1>3, <1>8, <1>9, <1>11, <1>12, <1>13

(* All there is to add, and when nothing has to be.                        *)
Supplied(docs) == ToSet(docs) \cup ToSet(Corpus)

Met(q, docs) == q.total >= ask.minimum \/ Supplied(docs) \subseteq InPlan(q)

(* As long as the minimum is not met, something new is added.              *)
LEMMA OneMoreAdded ==
  ASSUME ask \in Request, NEW q \in PlanIn(Items), ~ q.twins, q.total = Total(q), NEW docs \in Seq(Items)
  PROVE  LET y == TowardsMinimum(q, docs)
         IN /\ y \in PlanIn(Items) /\ ~ y.twins /\ y.total = Total(y) /\ (Steady(q) => Steady(y))
            /\ Met(q, docs) => y = q
            /\ ~ Met(q, docs) => \E x \in Supplied(docs) \ InPlan(q) : InPlan(y) = InPlan(q) \cup {x}
<1> DEFINE new == Without(docs, InPlan(q))
           more == IF new # << >> THEN new ELSE Without(Corpus, InPlan(q))
<1>1. TowardsMinimum(q, docs) =
        IF q.total >= ask.minimum \/ more = << >> THEN q ELSE WithItem(q, Dearest(more))
  BY DEF TowardsMinimum
<1>2. Corpus \in Seq(Items)
  BY PlanAssumption
<1>3. more \in Seq(Items)
  BY <1>2, WithoutTyped
<1>4. ToSet(new) = ToSet(docs) \ InPlan(q) /\ ToSet(Without(Corpus, InPlan(q))) = ToSet(Corpus) \ InPlan(q)
  BY <1>2, WithoutElements
<1>5. ToSet(more) \subseteq Supplied(docs) \ InPlan(q)
  BY <1>4 DEF Supplied
<1>6. more = << >> => Supplied(docs) \subseteq InPlan(q)
  <2>1. ToSet(<< >>) = {}
    BY DEF ToSet
  <2> HIDE DEF new
  <2>2. QED
    BY <1>4, <2>1 DEF Supplied
<1> HIDE DEF more, new
<1>7. CASE q.total >= ask.minimum \/ more = << >>
  BY <1>1, <1>6, <1>7 DEF Met
<1>8. CASE ~ (q.total >= ask.minimum \/ more = << >>)
  <2> DEFINE x == Dearest(more)
  <2>1. x \in ToSet(more) /\ x \in Items
    BY <1>3, <1>8, DearestOne
  <2>2. x \in Supplied(docs) \ InPlan(q)
    BY <1>5, <2>1
  <2>3. TowardsMinimum(q, docs) = WithItem(q, x)
    BY <1>1, <1>8
  <2> HIDE DEF x
  <2>4. LET y == WithItem(q, x)
        IN /\ y \in PlanIn(Items) /\ ~ y.twins /\ y.total = Total(y)
           /\ InPlan(y) = InPlan(q) \cup {x} /\ (Steady(q) => Steady(y))
    BY <2>1, <2>2, WithItemAdds
  <2>5. ~ Met(q, docs)
    BY <1>8, <2>2 DEF Met
  <2>6. QED
    BY <2>2, <2>3, <2>4, <2>5
<1>9. QED
  BY <1>7, <1>8

LEMMA SuppliedFinite ==
  ASSUME NEW docs \in Seq(Items)
  PROVE  /\ IsFiniteSet(Supplied(docs))
         /\ Cardinality(Supplied(docs)) \in Nat /\ Len(docs) + Len(Corpus) \in Nat
         /\ Cardinality(Supplied(docs)) <= Len(docs) + Len(Corpus)
<1> DEFINE A == ToSet(docs)
           B == ToSet(Corpus)
<1>1. IsFiniteSet(A) /\ Cardinality(A) <= Len(docs) /\ Len(docs) \in Nat
  BY ElementsFinite
<1>2. IsFiniteSet(B) /\ Cardinality(B) <= Len(Corpus) /\ Len(Corpus) \in Nat
  <2>1. Corpus \in Seq(Items)
    BY PlanAssumption
  <2>2. QED
    BY <2>1, ElementsFinite
<1>3. Supplied(docs) = A \cup B
  BY DEF Supplied
<1> HIDE DEF A, B
<1>4. /\ IsFiniteSet(A \cup B)
      /\ Cardinality(A \cup B) = Cardinality(A) + Cardinality(B) - Cardinality(A \cap B)
  BY <1>1, <1>2, FS_Union
<1>5. IsFiniteSet(A \cap B)
  BY <1>1, FS_Intersection
<1>6. Cardinality(A) \in Nat /\ Cardinality(B) \in Nat /\ Cardinality(A \cap B) \in Nat /\ Cardinality(A \cup B) \in Nat
  BY <1>1, <1>2, <1>4, <1>5, FS_CardinalityType
<1>7. QED
  BY <1>1, <1>2, <1>3, <1>4, <1>6

(* What is still missing, and that one of it less is one less.             *)
LEMMA OneLessMissing ==
  ASSUME NEW W, IsFiniteSet(W), NEW S, NEW x \in W \ S
  PROVE  /\ Cardinality(W \ S) \in Nat /\ Cardinality(W \ (S \cup {x})) \in Nat
         /\ Cardinality(W \ (S \cup {x})) = Cardinality(W \ S) - 1
<1> DEFINE M == W \ S
<1>1. IsFiniteSet(M)
  BY FS_Difference
<1>2. W \ (S \cup {x}) = M \ {x} /\ x \in M
  OBVIOUS
<1> HIDE DEF M
<1>3. IsFiniteSet(M \ {x}) /\ Cardinality(M \ {x}) = Cardinality(M) - 1
  BY <1>1, <1>2, FS_RemoveElement
<1>4. Cardinality(M) \in Nat /\ Cardinality(M \ {x}) \in Nat
  BY <1>1, <1>3, FS_CardinalityType
<1>5. QED
  BY <1>2, <1>3, <1>4 DEF M

(* With enough steps for all there is to add, the minimum is met in the    *)
(* end: each step that is taken leaves one less to add.                    *)
LEMMA MinimumMet ==
  ASSUME ask \in Request, ask.minimum > 0, NEW p \in PlanIn(Items), ~ p.twins, NEW docs \in Seq(Items),
         MinimumAskedFor, Len(docs) + Len(Corpus) <= 30
  PROVE  LET y == ReachMinimum(p, docs)
         IN /\ y \in PlanIn(Items) /\ ~ y.twins /\ y.total = Total(y) /\ (Steady(p) => Steady(y))
            /\ Met(y, docs)
<1> DEFINE b == Len(docs) + Len(Corpus)
           m == Min({30, b})
           places == [i \in 1 .. m |-> i]
           c == Costed(p)
           end == MinimumSteps(docs, c, places)
           W == Supplied(docs)
           X == {q \in PlanIn(Items) : ~ q.twins /\ q.total = Total(q) /\ (Steady(p) => Steady(q))}
<1>1. ReachMinimum(p, docs) = end
  <2>1. ReachMinimum(p, docs) = IF ask.minimum = 0 THEN p ELSE IF MinimumAskedFor THEN end ELSE c
    BY DEF ReachMinimum, Iterate, MinimumSteps
  <2>2. ask.minimum # 0
    BY DEF Request
  <2> HIDE DEF end, c
  <2>3. QED
    BY <2>1, <2>2
<1>2. IsFiniteSet(W) /\ Cardinality(W) \in Nat /\ b \in Nat /\ Cardinality(W) <= b
  BY SuppliedFinite
<1>3. m = b
  <2>1. b <= 30
    OBVIOUS
  <2> HIDE DEF b
  <2>2. QED
    BY <1>2, <2>1, LesserOfTwo
<1> HIDE DEF W, m
<1>4. places \in Seq(Nat) /\ Len(places) = b
  <2> HIDE DEF b
  <2>1. QED
    BY <1>2, <1>3
<1> HIDE DEF b, places
<1>5. c \in X
  <2>1. c \in PlanIn(Items) /\ c.twins = p.twins /\ c.total = Total(p) /\ Total(c) = Total(p) /\ Steady(c) = Steady(p)
    BY CostedTyped, CostedKeeps
  <2> HIDE DEF c
  <2>2. QED
    BY <2>1
<1> HIDE DEF c
<1>6. ASSUME NEW q \in X PROVE TowardsMinimum(q, docs) \in X
  <2>1. q \in PlanIn(Items) /\ ~ q.twins /\ q.total = Total(q) /\ (Steady(p) => Steady(q))
    OBVIOUS
  <2>2. LET y == TowardsMinimum(q, docs)
        IN y \in PlanIn(Items) /\ ~ y.twins /\ y.total = Total(y) /\ (Steady(q) => Steady(y))
    BY <2>1, OneMoreAdded
  <2>3. QED
    BY <2>1, <2>2
<1> HIDE DEF X
<1>7. end \in X /\ \E r \in [0 .. Len(places) -> X] : MinimumRun(r, docs, c, places)
  <2>1. \A q \in X : \A n \in Nat : TowardsMinimum(q, docs) \in X
    BY <1>6
  <2>2. QED
    BY <1>4, <1>5, <2>1, MinimumThrough
<1>8. PICK r \in [0 .. b -> X] : MinimumRun(r, docs, c, places)
  BY <1>4, <1>7
<1>9. r[b] = end /\ \A n \in 1 .. b : r[n] = TowardsMinimum(r[n - 1], docs)
  BY <1>4, <1>8 DEF MinimumRun
<1> DEFINE left(n) == Cardinality(W \ InPlan(r[n]))
           Good == {n \in 0 .. b : Met(r[n], docs) \/ (left(n) \in Nat /\ left(n) + n <= Cardinality(W))}
<1>10. 0 \in Good
  <2>1. IsFiniteSet(W \ InPlan(r[0])) /\ left(0) <= Cardinality(W)
    <3> DEFINE V == W \ InPlan(r[0])
    <3>1. V \in SUBSET W
      OBVIOUS
    <3> HIDE DEF V
    <3>2. IsFiniteSet(V) /\ Cardinality(V) <= Cardinality(W)
      BY <1>2, <3>1, FS_Subset
    <3>3. QED
      BY <3>2 DEF V
  <2>2. left(0) \in Nat
    BY <2>1, FS_CardinalityType
  <2> HIDE DEF left
  <2>3. QED
    BY <1>2, <2>1, <2>2
<1>11. ASSUME NEW n \in 1 .. b, n - 1 \in Good PROVE n \in Good
  <2> DEFINE q == r[n - 1]
             y == r[n]
  <2>1. n - 1 \in 0 .. b /\ n \in 0 .. b /\ q \in X /\ n \in Nat
    BY <1>2
  <2>2. q \in PlanIn(Items) /\ ~ q.twins /\ q.total = Total(q)
    BY <2>1 DEF X
  <2>3. y = TowardsMinimum(q, docs)
    BY <1>9
  <2> HIDE DEF q, y
  <2>4. /\ Met(q, docs) => y = q
        /\ ~ Met(q, docs) => \E x \in Supplied(docs) \ InPlan(q) : InPlan(y) = InPlan(q) \cup {x}
    BY <2>2, <2>3, OneMoreAdded
  <2>5. CASE Met(q, docs)
    BY <2>1, <2>4, <2>5 DEF q, y
  <2>6. CASE ~ Met(q, docs)
    <3>1. PICK x \in W \ InPlan(q) : InPlan(y) = InPlan(q) \cup {x}
      BY <2>4, <2>6 DEF W
    <3>2. Cardinality(W \ InPlan(y)) \in Nat /\ Cardinality(W \ InPlan(y)) = Cardinality(W \ InPlan(q)) - 1
      BY <1>2, <3>1, OneLessMissing
    <3>3. left(n - 1) \in Nat /\ left(n - 1) + (n - 1) <= Cardinality(W)
      BY <1>11, <2>6 DEF q
    <3>4. left(n) \in Nat /\ left(n) = left(n - 1) - 1
      BY <3>2 DEF q, y
    <3> HIDE DEF left
    <3>5. left(n) + n <= Cardinality(W)
      BY <1>2, <2>1, <3>3, <3>4
    <3>6. QED
      BY <2>1, <3>4, <3>5
  <2>7. QED
    BY <2>5, <2>6
<1> HIDE DEF Good
<1>12. b \in Good
  <2>1. \A n \in 0 .. b : n \in Good
    BY <1>2, <1>10, <1>11, Induction
  <2>2. QED
    BY <1>2, <2>1
<1>13. Met(end, docs)
  <2>1. Met(r[b], docs) \/ (left(b) \in Nat /\ left(b) + b <= Cardinality(W))
    BY <1>12 DEF Good
  <2>2. CASE left(b) \in Nat /\ left(b) + b <= Cardinality(W)
    <3>1. left(b) = 0
      <4> HIDE DEF left
      <4>1. QED
        BY <1>2, <2>2
    <3>2. IsFiniteSet(W \ InPlan(r[b]))
      BY <1>2, FS_Difference
    <3>3. W \ InPlan(r[b]) = {}
      BY <3>1, <3>2, FS_EmptySet
    <3>4. QED
      BY <1>9, <3>3 DEF Met, W
  <2>3. QED
    BY <1>9, <2>1, <2>2
<1>14. QED
  BY <1>1, <1>7, <1>13 DEF X

(* A plan that meets it has reached the minimum.                           *)
LEMMA MetIsReached ==
  ASSUME NEW docs, NEW p, p.total = Total(p), Met(p, docs)
  PROVE  Reached(p)
BY DEF Met, Reached, Supplied

(* Both limits keep the minimum, whatever the plan was.                    *)
LEMMA LimitedReaches ==
  ASSUME ask \in Request, NEW p \in PlanIn(Items), ~ p.twins, NEW docs \in Seq(Items),
         MinimumAskedFor, Len(docs) + Len(Corpus) <= 30,
         ask.budget > 0 => ask.travelers = 1 /\ Steady(p)
  PROVE  Reached(Limited(p, docs))
<1> DEFINE c == Costed(p)
           y == ReachMinimum(c, docs)
           z == Costed(y)
<1>1. Limited(p, docs) = Fitted(z)
  BY DEF Limited
<1>2. ask.minimum > 0 /\ ~ TooDear(ask.minimum)
  BY DEF MinimumAskedFor
<1>3. c \in PlanIn(Items) /\ ~ c.twins /\ Steady(c) = Steady(p)
  BY CostedTyped, CostedKeeps
<1> HIDE DEF c
<1>4. y \in PlanIn(Items) /\ ~ y.twins /\ y.total = Total(y) /\ (Steady(c) => Steady(y)) /\ Met(y, docs)
  BY <1>2, <1>3, MinimumMet
<1>5. Reached(y)
  BY <1>4, MetIsReached
<1> HIDE DEF y
<1>6. /\ z \in PlanIn(Items) /\ ~ z.twins /\ z.total = Total(z)
      /\ Steady(z) = Steady(y) /\ Reached(z) = Reached(y)
  BY <1>4, CostedTyped, CostedKeeps
<1> HIDE DEF z
<1>7. Reached(Fitted(z))
  BY <1>2, <1>3, <1>4, <1>5, <1>6, FittedReaches
<1>8. QED
  BY <1>1, <1>7

-----------------------------------------------------------------------------
(* No step but the lengthening of a plan makes two days share their meals, *)
(* and few change how many days there are.                                 *)
Shape(t, n) == {p \in PlanIn(Items) : p.twins = t /\ Len(p.days) = n}

LEMMA SameDays ==
  ASSUME NEW t, NEW n, NEW p \in Shape(t, n), NEW f, DOMAIN f = DOMAIN p.days,
         [p EXCEPT !.days = f] \in PlanIn(Items)
  PROVE  [p EXCEPT !.days = f] \in Shape(t, n)
<1> DEFINE q == [p EXCEPT !.days = f]
<1>1. p \in PlanIn(Items) /\ p.twins = t /\ Len(p.days) = n
  BY DEF Shape
<1>2. q.days = f /\ q.twins = p.twins /\ q \in PlanIn(Items)
  BY <1>1 DEF PlanIn
<1> HIDE DEF q
<1>3. DOMAIN p.days = 1 .. Len(p.days) /\ Len(p.days) \in Nat \ {0}
  BY <1>1, DaysOfPlan
<1>4. DOMAIN q.days = 1 .. Len(q.days) /\ Len(q.days) \in Nat \ {0}
  BY <1>2, DaysOfPlan
<1>5. Len(q.days) = Len(p.days)
  BY <1>2, <1>3, <1>4
<1>6. QED
  BY <1>1, <1>2, <1>5 DEF Shape, q

LEMMA OtherDays ==
  ASSUME NEW p \in PlanIn(Items), NEW days \in Seq(DayIn(Items)) \ {<< >>}
  PROVE  [p EXCEPT !.days = days] \in Shape(p.twins, Len(days))
<1> DEFINE q == [p EXCEPT !.days = days]
<1>1. q \in PlanIn(Items) /\ q.days = days
  BY DaysReplaced
<1>2. q.twins = p.twins
  BY DEF PlanIn
<1>3. QED
  BY <1>1, <1>2 DEF Shape

LEMMA ShapeTyped ==
  ASSUME NEW t, NEW n, NEW p \in Shape(t, n)
  PROVE  p \in PlanIn(Items) /\ p.twins = t /\ Len(p.days) = n /\ n \in Nat \ {0}
<1>1. p \in PlanIn(Items) /\ p.twins = t /\ Len(p.days) = n
  BY DEF Shape
<1>2. Len(p.days) \in Nat \ {0}
  BY <1>1, DaysOfPlan
<1>3. QED
  BY <1>1, <1>2

LEMMA CostedShape ==
  ASSUME ask \in Request, NEW t, NEW n, NEW p \in Shape(t, n)
  PROVE  Costed(p) \in Shape(t, n)
<1>1. p \in PlanIn(Items) /\ p.twins = t /\ Len(p.days) = n
  BY DEF Shape
<1>2. Costed(p) \in PlanIn(Items) /\ Costed(p).twins = p.twins /\ Costed(p).days = p.days
  BY <1>1, CostedTyped, CostedKeeps
<1>3. QED
  BY <1>1, <1>2 DEF Shape

LEMMA WithListShape ==
  ASSUME NEW t, NEW n, NEW p \in Shape(t, n), NEW d, NEW kind \in Kind, NEW seq \in Seq(Items)
  PROVE  WithList(p, d, kind, seq) \in Shape(t, n)
<1> DEFINE days == p.days
           f == [e \in DOMAIN days |-> IF e \in Alike(p, d, kind)
                                       THEN [days[e] EXCEPT ![kind] = seq] ELSE days[e]]
<1>1. WithList(p, d, kind, seq) = [p EXCEPT !.days = f]
  BY DEF WithList
<1>2. p \in PlanIn(Items)
  BY DEF Shape
<1>3. WithList(p, d, kind, seq) \in PlanIn(Items)
  BY <1>2, WithListTyped
<1>4. DOMAIN f = DOMAIN p.days
  OBVIOUS
<1> HIDE DEF f
<1>5. QED
  BY <1>1, <1>3, <1>4, SameDays

LEMMA PriceShape ==
  ASSUME NEW t, NEW n, NEW p \in Shape(t, n), NEW x, NEW new \in Int
  PROVE  [p EXCEPT !.price[x] = new] \in Shape(t, n)
<1> DEFINE q == [p EXCEPT !.price[x] = new]
<1>1. p \in PlanIn(Items) /\ p.twins = t /\ Len(p.days) = n
  BY DEF Shape
<1>2. q \in PlanIn(Items)
  BY <1>1, PriceReplaced
<1>3. q.days = p.days /\ q.twins = p.twins
  BY <1>1 DEF PlanIn
<1>4. QED
  BY <1>1, <1>2, <1>3 DEF Shape

LEMMA WithItemShape ==
  ASSUME ask \in Request, NEW t, NEW n, NEW p \in Shape(t, n), NEW x \in Items
  PROVE  WithItem(p, x) \in Shape(t, n)
<1> DEFINE kind == IF x \in Spots THEN "spots" ELSE "foods"
           s == p.days[1][kind]
           seq == Append(s, x)
           q == WithList(p, 1, kind, seq)
           r == [q EXCEPT !.price[x] = Cost[x]]
<1>1. kind \in Kind /\ p \in PlanIn(Items) /\ Cost[x] \in Int
  BY PlanAssumption DEF Kind, Shape
<1>2. WithItem(p, x) = Costed(r)
  BY DEF WithItem
<1> HIDE DEF kind
<1>3. s \in Seq(Items)
  BY <1>1, DaysOfPlan, ListOfDay
<1> HIDE DEF s
<1>4. seq \in Seq(Items)
  BY <1>3
<1> HIDE DEF seq
<1>5. q \in Shape(t, n)
  BY <1>1, <1>4, WithListShape
<1> HIDE DEF q
<1>6. r \in Shape(t, n)
  BY <1>1, <1>5, PriceShape
<1> HIDE DEF r
<1>7. QED
  BY <1>2, <1>6, CostedShape

LEMMA ReachMinimumShape ==
  ASSUME ask \in Request, NEW t, NEW n, NEW p \in Shape(t, n), NEW docs \in Seq(Items)
  PROVE  ReachMinimum(p, docs) \in Shape(t, n)
<1> DEFINE m == Min({30, Len(docs) + Len(Corpus)})
           places == [i \in 1 .. m |-> i]
           c == Costed(p)
           end == MinimumSteps(docs, c, places)
           X == Shape(t, n)
<1>1. Len(docs) + Len(Corpus) \in Nat /\ Corpus \in Seq(Items)
  BY PlanAssumption
<1>2. m \in Nat
  BY <1>1, LesserOfTwo
<1> HIDE DEF m
<1>3. places \in Seq(Nat)
  BY <1>2
<1>4. c \in X
  BY CostedShape
<1>5. ASSUME NEW q \in X PROVE TowardsMinimum(q, docs) \in X
  <2> DEFINE new == Without(docs, InPlan(q))
             more == IF new # << >> THEN new ELSE Without(Corpus, InPlan(q))
  <2>1. TowardsMinimum(q, docs) =
          IF q.total >= ask.minimum \/ more = << >> THEN q ELSE WithItem(q, Dearest(more))
    BY DEF TowardsMinimum
  <2>2. more \in Seq(Items)
    BY <1>1, WithoutTyped
  <2> HIDE DEF more
  <2>3. more # << >> => WithItem(q, Dearest(more)) \in X
    BY <2>2, DearestOne, WithItemShape
  <2>4. QED
    BY <2>1, <2>3
<1>6. ReachMinimum(p, docs) = IF ask.minimum = 0 THEN p ELSE IF MinimumAskedFor THEN end ELSE c
  BY DEF ReachMinimum, Iterate, m, MinimumSteps
<1> HIDE DEF places, c
<1>7. end \in X
  <2>1. \A q \in X : \A i \in Nat : TowardsMinimum(q, docs) \in X
    BY <1>5
  <2> HIDE DEF X
  <2>2. QED
    BY <1>3, <1>4, <2>1, MinimumThrough
<1>8. QED
  BY <1>4, <1>6, <1>7

LEMMA AutocorrectedShape ==
  ASSUME NEW t, NEW n, NEW p \in Shape(t, n)
  PROVE  Autocorrected(p) \in Shape(t, n)
<1> DEFINE days == p.days
           New(day) == LET spots == Once(day.spots)
                       IN [day EXCEPT !.spots = spots, !.legs = Max({0, Len(spots) - 1})]
           f == [d \in DOMAIN days |-> New(days[d])]
           q == [p EXCEPT !.days = f]
           r == [q EXCEPT !.told = FALSE]
<1>1. p \in PlanIn(Items) /\ p.twins = t /\ Len(p.days) = n
  BY DEF Shape
<1>2. Autocorrected(p) = r
  BY DEF Autocorrected, EachDay
<1>3. r \in PlanIn(Items)
  BY <1>1, <1>2, AutocorrectedTyped
<1>4. DOMAIN f = DOMAIN p.days
  OBVIOUS
<1> HIDE DEF f
<1>5. r.days = f /\ r.twins = p.twins
  BY <1>1 DEF PlanIn
<1> HIDE DEF r
<1>6. DOMAIN p.days = 1 .. Len(p.days) /\ Len(p.days) \in Nat \ {0}
  BY <1>1, DaysOfPlan
<1>7. DOMAIN r.days = 1 .. Len(r.days) /\ Len(r.days) \in Nat \ {0}
  BY <1>3, DaysOfPlan
<1>8. Len(r.days) = Len(p.days)
  BY <1>4, <1>5, <1>6, <1>7
<1>9. QED
  BY <1>1, <1>2, <1>3, <1>5, <1>8 DEF Shape

LEMMA FittedShape ==
  ASSUME ask \in Request, NEW t, NEW n, NEW p \in Shape(t, n)
  PROVE  Fitted(p) \in Shape(t, n)
<1> DEFINE X == Shape(t, n)
<1>1. p \in PlanIn(Items) /\ Items \in SUBSET Items
  BY DEF Shape
<1>2. ASSUME NEW q \in X, NEW kind \in Kind, MayGo(q, kind) # {} PROVE Dropped(q, kind) \in X
  <2>1. q \in PlanIn(Items)
    BY DEF Shape
  <2>2. PICK at \in MayGo(q, kind) :
          Dropped(q, kind) = Costed(WithList(q, at[1], kind, RemoveAt(q.days[at[1]][kind], at[2])))
    BY <1>1, <1>2, <2>1, DroppedOne
  <2>3. at \in Positions(q, kind)
    BY DEF MayGo
  <2>4. at[2] \in DOMAIN q.days[at[1]][kind] /\ q.days[at[1]][kind] \in Seq(Items)
    BY <1>1, <2>1, <2>3, PositionsTyped
  <2>5. RemoveAt(q.days[at[1]][kind], at[2]) \in Seq(Items)
    BY <2>4, RemoveAtTyped
  <2> DEFINE less == RemoveAt(q.days[at[1]][kind], at[2])
             w == WithList(q, at[1], kind, less)
  <2>6. w \in X
    <3> HIDE DEF less
    <3>1. QED
      BY <2>5, WithListShape DEF less
  <2>7. Dropped(q, kind) = Costed(w)
    BY <2>2
  <2> HIDE DEF w
  <2>8. QED
    BY <2>6, <2>7, CostedShape
<1>3. ASSUME NEW q \in X PROVE TowardsBudget(q) \in X
  <2>1. "spots" \in Kind /\ "foods" \in Kind
    BY DEF Kind
  <2> HIDE DEF X
  <2>2. QED
    BY <1>2, <2>1 DEF TowardsBudget
<1>4. IF ask.budget = 0 THEN Fitted(p) = p ELSE \E end \in X : Fitted(p) = Autocorrected(end)
  <2>1. p \in X
    OBVIOUS
  <2> HIDE DEF X
  <2>2. QED
    BY <1>1, <1>3, <2>1, FittedThrough
<1>5. QED
  BY <1>4, AutocorrectedShape

LEMMA LimitedShape ==
  ASSUME ask \in Request, NEW t, NEW n, NEW p \in Shape(t, n), NEW docs \in Seq(Items)
  PROVE  Limited(p, docs) \in Shape(t, n)
<1>1. Costed(p) \in Shape(t, n)
  BY CostedShape
<1>2. ReachMinimum(Costed(p), docs) \in Shape(t, n)
  BY <1>1, ReachMinimumShape
<1>3. Costed(ReachMinimum(Costed(p), docs)) \in Shape(t, n)
  BY <1>2, CostedShape
<1>4. QED
  BY <1>3, FittedShape DEF Limited

LEMMA RefreshedShape ==
  ASSUME NEW t, NEW n, NEW p \in Shape(t, n)
  PROVE  Refreshed(p) \in Shape(t, n)
<1> DEFINE f == Refreshed(p).days
<1>1. p \in PlanIn(Items)
  BY DEF Shape
<1>2. Refreshed(p) \in PlanIn(Items)
  BY <1>1, RefreshedTyped
<1>3. Refreshed(p) = [p EXCEPT !.days = f] /\ DOMAIN f = DOMAIN p.days
  BY <1>1 DEF Refreshed, EachDay, PlanIn
<1> HIDE DEF f
<1>4. QED
  BY <1>2, <1>3, SameDays

(* Day by day, as many days come out as went in.                           *)
LEMMA FilledShape ==
  ASSUME NEW t, NEW n, NEW p \in Shape(t, n), NEW kind \in Kind, NEW docs \in Seq(Items)
  PROVE  Filled(p, kind, docs) \in Shape(t, n)
<1> DEFINE X == [days : Seq(DayIn(Items)), used : SUBSET Items]
           Y == DayIn(Items)
           x0 == [days |-> << >>, used |-> {}]
           s == p.days
           b == Len(s)
           end == FillDays(kind, docs, x0, s)
<1>1. p \in PlanIn(Items) /\ p.twins = t /\ b = n
  BY DEF Shape
<1>2. s \in Seq(Y) /\ s # << >> /\ b \in Nat \ {0}
  BY <1>1, DaysOfPlan
<1>3. \A x \in X : \A y \in Y : FillDay(kind, docs, x, y) \in X
  BY FillDayTyped
<1>4. x0 \in X
  OBVIOUS
<1>5. Filled(p, kind, docs) = [p EXCEPT !.days = end.days]
  BY DEF Filled, FillDays
<1>6. \E r \in [0 .. b -> X] : FillsRun(r, kind, docs, x0, s)
  <2> HIDE DEF X, Y, x0, s
  <2>1. QED
    BY <1>2, <1>3, <1>4, FillsThrough
<1>7. PICK r \in [0 .. b -> X] : FillsRun(r, kind, docs, x0, s)
  BY <1>6
<1>8. r[0] = x0 /\ r[b] = end /\ \A k \in 1 .. b : r[k] = FillDay(kind, docs, r[k - 1], s[k])
  BY <1>7 DEF FillsRun
<1> DEFINE Good == {k \in 0 .. b : Len(r[k].days) = k}
<1>9. 0 \in Good
  <2>1. r[0].days = << >> /\ Len(<< >>) = 0
    BY <1>8
  <2>2. QED
    BY <1>2, <2>1
<1> HIDE DEF end, s, x0
<1>10. ASSUME NEW k \in 1 .. b, k - 1 \in Good PROVE k \in Good
  <2> DEFINE have == s[k][kind]
             supply == Without(OfKind(kind, docs), ToSet(have))
             acc == r[k - 1]
             order == Without(supply, acc.used) \o Chosen(supply, LAMBDA x : x \in acc.used)
             more == FirstN(order, Max({0, 3 - Len(have)}))
             new == [s[k] EXCEPT ![kind] = have \o more]
             days == acc.days
  <2>1. r[k] = [days |-> Append(days, new), used |-> acc.used \cup ToSet(more)]
    BY <1>8 DEF FillDay
  <2> HIDE DEF new, more, order, supply, have
  <2>2. r[k].days = Append(days, new)
    BY <2>1
  <2>3. k - 1 \in 0 .. b /\ k \in 0 .. b /\ acc \in X
    <3> HIDE DEF b, X
    <3>1. QED
      BY <1>2
  <2>4. Len(days) = k - 1 /\ days \in Seq(Y)
    BY <1>10, <2>3
  <2> HIDE DEF days, Y
  <2>5. Len(Append(days, new)) = Len(days) + 1
    BY <2>4
  <2>6. QED
    BY <2>2, <2>3, <2>4, <2>5
<1> HIDE DEF Good
<1>11. Len(end.days) = b
  <2>1. \A k \in 0 .. b : k \in Good
    <3> HIDE DEF b
    <3>1. QED
      BY <1>2, <1>9, <1>10, Induction
  <2>2. QED
    BY <1>2, <1>8, <2>1 DEF Good
<1>12. end.days \in Seq(DayIn(Items)) \ {<< >>}
  <2>1. end \in X
    BY <1>2, <1>7, <1>8
  <2>2. end.days \in Seq(Y)
    BY <2>1
  <2>3. end.days # << >>
    BY <1>2, <1>11
  <2>4. QED
    BY <2>2, <2>3
<1> DEFINE days == end.days
<1>13. [p EXCEPT !.days = days] \in Shape(p.twins, Len(days))
  <2> HIDE DEF days
  <2>1. QED
    BY <1>1, <1>12, OtherDays DEF days
<1>14. QED
  BY <1>1, <1>5, <1>11, <1>13

LEMMA FilledUpShape ==
  ASSUME ask \in Request, NEW t, NEW n, NEW p \in Shape(t, n), NEW docs \in Seq(Items)
  PROVE  FilledUp(p, docs) \in Shape(t, n)
<1>1. "spots" \in Kind /\ "foods" \in Kind
  BY DEF Kind
<1>2. Filled(p, "spots", docs) \in Shape(t, n)
  BY <1>1, FilledShape
<1>3. Filled(Filled(p, "spots", docs), "foods", docs) \in Shape(t, n)
  BY <1>1, <1>2, FilledShape
<1>4. (IF ask.thrifty THEN p ELSE Filled(Filled(p, "spots", docs), "foods", docs)) \in Shape(t, n)
  BY <1>3
<1>5. QED
  BY <1>4, CostedShape DEF FilledUp

LEMMA DecoratedShape ==
  ASSUME NEW t, NEW n, NEW p \in Shape(t, n)
  PROVE  Decorated(p) \in Shape(t, n)
<1> DEFINE Everything(kind) == FlattenSeq([d \in DOMAIN p.days |-> p.days[d][kind]])
           spots == OrElse(Everything("spots"), FreeWalk)
           eaten == Everything("foods")
           foods == OrElse(eaten, LocalFood)
           pool == IF eaten = << >> THEN << >> ELSE Without(OfKind("foods", Corpus), ToSet(eaten))
           x0 == [days |-> << >>, spot |-> 0, meal |-> 0]
           s == p.days
           b == Len(s)
           Y == DayIn(Items)
           end == DecorateDays(spots, foods, pool, x0, s)
<1>1. p \in PlanIn(Items) /\ p.twins = t /\ b = n
  BY DEF Shape
<1>2. s \in Seq(Y) /\ s # << >> /\ b \in Nat \ {0}
  BY <1>1, DaysOfPlan
<1>3. Everything("spots") \in Seq(Items) /\ eaten \in Seq(Items)
  BY <1>1, EverythingTyped DEF Kind
<1>4. Decorated(p) = Refreshed([p EXCEPT !.days = end.days])
  BY DEF Decorated, DecorateDays
<1> HIDE DEF Everything, eaten
<1>5. FreeWalk \in Items /\ LocalFood \in Items /\ Corpus \in Seq(Items)
  BY PlanAssumption DEF Items
<1>6. spots \in Seq(Items) /\ spots # << >> /\ foods \in Seq(Items) /\ foods # << >>
  BY <1>3, <1>5, OrElseTyped
<1>7. pool \in Seq(Items)
  <2>1. Without(OfKind("foods", Corpus), ToSet(eaten)) \in Seq(Items)
    BY <1>5, OfKindTyped, WithoutTyped
  <2>2. << >> \in Seq(Items)
    OBVIOUS
  <2>3. QED
    BY <2>1, <2>2
<1> HIDE DEF spots, foods, pool
<1>8. x0 \in Decoration
  BY DEF Decoration
<1>9. \A x \in Decoration : \A y \in Y : Decorate(spots, foods, pool, x, y) \in Decoration
  BY <1>6, <1>7, DecorateTyped
<1>10. \E r \in [0 .. b -> Decoration] : DecoratesRun(r, spots, foods, pool, x0, s)
  <2> HIDE DEF Y, x0, s
  <2>1. QED
    BY <1>2, <1>8, <1>9, DecoratesThrough
<1>11. PICK r \in [0 .. b -> Decoration] : DecoratesRun(r, spots, foods, pool, x0, s)
  BY <1>10
<1>12. r[0] = x0 /\ r[b] = end /\ \A k \in 1 .. b : r[k] = Decorate(spots, foods, pool, r[k - 1], s[k])
  BY <1>11 DEF DecoratesRun
<1> DEFINE Good == {k \in 0 .. b : Len(r[k].days) = k}
<1>13. 0 \in Good
  <2>1. r[0].days = << >> /\ Len(<< >>) = 0
    BY <1>12
  <2>2. QED
    BY <1>2, <2>1
<1> HIDE DEF end, s, x0
<1>14. ASSUME NEW k \in 1 .. b, k - 1 \in Good PROVE k \in Good
  <2> DEFINE acc == r[k - 1]
             day == s[k]
             Meal(i) == IF i <= Len(pool) THEN pool[i] ELSE Cyclic(foods, i - Len(pool))
             missing == Max({0, 3 - Len(day.foods)})
             bare == day.spots = << >>
             new == [day EXCEPT !.spots = IF bare THEN <<Cyclic(spots, acc.spot + 1)>> ELSE @,
                                !.foods = @ \o [i \in 1 .. missing |-> Meal(acc.meal + i)]]
             spot == acc.spot + (IF bare THEN 1 ELSE 0)
             meal == acc.meal + missing
             days == acc.days
  <2>1. r[k] = [days |-> Append(days, new), spot |-> spot, meal |-> meal]
    BY <1>12 DEF Decorate
  <2> HIDE DEF new, spot, meal
  <2>2. r[k].days = Append(days, new)
    BY <2>1
  <2>3. k - 1 \in 0 .. b /\ k \in 0 .. b /\ acc \in Decoration
    BY <1>2
  <2>4. Len(days) = k - 1 /\ days \in Seq(Y)
    BY <1>14, <2>3 DEF Decoration
  <2> HIDE DEF days, Y
  <2>5. Len(Append(days, new)) = Len(days) + 1
    BY <2>4
  <2>6. QED
    BY <2>2, <2>3, <2>4, <2>5
<1> HIDE DEF Good
<1>15. Len(end.days) = b
  <2>1. \A k \in 0 .. b : k \in Good
    <3> HIDE DEF b
    <3>1. QED
      BY <1>2, <1>13, <1>14, Induction
  <2>2. QED
    BY <1>2, <1>12, <2>1 DEF Good
<1>16. end.days \in Seq(DayIn(Items)) \ {<< >>}
  <2>1. end \in Decoration
    BY <1>2, <1>11, <1>12
  <2>2. end.days \in Seq(Y)
    BY <2>1 DEF Decoration
  <2>3. end.days # << >>
    BY <1>2, <1>15
  <2>4. QED
    BY <2>2, <2>3
<1> DEFINE days == end.days
<1>17. [p EXCEPT !.days = days] \in Shape(p.twins, Len(days))
  <2> HIDE DEF days
  <2>1. QED
    BY <1>1, <1>16, OtherDays DEF days
<1>18. [p EXCEPT !.days = days] \in Shape(t, n)
  BY <1>1, <1>15, <1>17
<1> DEFINE q == [p EXCEPT !.days = days]
<1>19. Refreshed(q) \in Shape(t, n)
  <2> HIDE DEF q
  <2>1. QED
    BY <1>18, RefreshedShape DEF q
<1>20. QED
  BY <1>4, <1>19

(* A plan built anew has the days that were asked for.                     *)
LEMMA BuiltShape ==
  ASSUME ask \in Request, NEW docs \in Seq(Items), NEW n \in Nat \ {0}
  PROVE  Built(docs, n) \in Shape(FALSE, n)
<1> DEFINE spots == OrElse(OfKind("spots", docs), FreeWalk)
           foods == OfKind("foods", docs)
           days == [i \in 1 .. n |-> DealtDay(spots, foods, i)]
           X == DayIn(Items)
           t == FALSE
           new == StoredPlan(days)
<1>1. Built(docs, n) = Refreshed(Limited(Decorated(FilledUp(Autocorrected(new), docs)), docs))
  BY DEF Built, DealtDay
<1>2. FreeWalk \in Items
  BY PlanAssumption DEF Items
<1>3. spots \in Seq(Items) /\ spots # << >> /\ foods \in Seq(Items)
  BY <1>2, OfKindTyped, OrElseTyped
<1> HIDE DEF spots, foods
<1>4. \A i \in 1 .. n : DealtDay(spots, foods, i) \in X
  <2> HIDE DEF X
  <2>1. QED
    BY <1>3, DealtTyped DEF X
<1> HIDE DEF X
<1>5. days = [i \in 1 .. n |-> days[i]] /\ (\A i \in 1 .. n : days[i] \in X) /\ DOMAIN days = 1 .. n
  BY <1>4
<1> HIDE DEF days
<1>6. days \in Seq(X) \ {<< >>}
  BY <1>5, ManyTyped
<1>7. Len(days) = n
  BY <1>5, <1>6
<1>8. new \in Shape(t, n)
  <2>1. new \in PlanIn(Items)
    BY <1>6, StoredPlanTyped DEF X
  <2>2. new.days = days /\ new.twins = FALSE
    BY DEF StoredPlan
  <2>3. QED
    BY <1>7, <2>1, <2>2 DEF Shape
<1> HIDE DEF new, t
<1>9. FilledUp(Autocorrected(new), docs) \in Shape(t, n)
  BY <1>8, AutocorrectedShape, FilledUpShape
<1>10. Limited(Decorated(FilledUp(Autocorrected(new), docs)), docs) \in Shape(t, n)
  BY <1>9, DecoratedShape, LimitedShape
<1>11. QED
  BY <1>1, <1>10, RefreshedShape DEF t

(* _correct_plan gives each day its own meals: where the plan lacks days,  *)
(* one built anew has them all.                                            *)
LEMMA CorrectedNoTwins ==
  ASSUME ask \in Request, NEW p \in PlanIn(Items), NEW docs \in Seq(Items)
  PROVE  ~ Corrected(p, docs).twins
<1> DEFINE tidy == Tidied(p)
           base == Built(docs, ask.days).days
           long == Lengthened(tidy, ask.days, base)
           full == IF Len(p.days) < ask.days THEN OfLength(tidy, ask.days, docs) ELSE tidy
           q == FilledUp(full, docs)
<1>1. ask.days \in Nat \ {0} /\ << >> \in Seq(Items)
  BY DEF Request
<1>2. Corrected(p, docs) = Refreshed(Autocorrected(Decorated(Limited(q, << >>))))
  BY DEF Corrected
<1>3. tidy \in PlanIn(Items)
  BY TidiedTyped
<1>4. tidy.twins = FALSE /\ Len(tidy.days) = Len(p.days)
  <2> DEFINE days == p.days
             New(day) == [day EXCEPT !.foods = Once(OfKind("foods", @) \o OfKind("foods", day.spots)),
                                     !.spots = Once(OfKind("spots", @))]
             f == [d \in DOMAIN days |-> New(days[d])]
  <2>1. tidy = [[p EXCEPT !.days = f] EXCEPT !.twins = FALSE]
    BY DEF Tidied, EachDay
  <2>2. DOMAIN f = DOMAIN p.days
    OBVIOUS
  <2> HIDE DEF f, tidy
  <2>3. tidy.days = f /\ tidy.twins = FALSE
    BY <2>1 DEF PlanIn
  <2>4. DOMAIN p.days = 1 .. Len(p.days) /\ Len(p.days) \in Nat \ {0}
    BY DaysOfPlan
  <2>5. DOMAIN tidy.days = 1 .. Len(tidy.days) /\ Len(tidy.days) \in Nat \ {0}
    BY <1>3, DaysOfPlan
  <2>6. QED
    BY <2>2, <2>3, <2>4, <2>5
<1> HIDE DEF tidy
<1>5. Len(base) = ask.days /\ base \in Seq(DayIn(Items))
  <2>1. Built(docs, ask.days) \in Shape(FALSE, ask.days)
    BY <1>1, BuiltShape
  <2>2. Built(docs, ask.days) \in PlanIn(Items)
    BY <1>1, BuiltTyped
  <2>3. QED
    BY <2>1, <2>2, DaysOfPlan DEF Shape
<1>6. Len(p.days) \in Nat \ {0}
  BY DaysOfPlan
<1>7. Len(p.days) < ask.days => OfLength(tidy, ask.days, docs) = long
  BY <1>1, <1>4, <1>6 DEF OfLength
<1> HIDE DEF base
<1>8. long \in PlanIn(Items) /\ long.twins = FALSE
  <2>1. long \in PlanIn(Items)
    BY <1>1, <1>3, <1>5, LengthenedTyped
  <2> DEFINE f == [d \in 1 .. ask.days |-> IF d <= Len(tidy.days) THEN tidy.days[d]
                                           ELSE IF d <= Len(base) THEN base[d] ELSE tidy.days[Len(tidy.days)]]
             late == ask.days > Len(base)
  <2>2. long = [[tidy EXCEPT !.days = f] EXCEPT !.twins = late]
    BY DEF Lengthened
  <2>3. late = FALSE
    BY <1>1, <1>5
  <2> HIDE DEF f, late, long
  <2>4. long.twins = late
    BY <1>3, <2>2 DEF PlanIn
  <2>5. QED
    BY <2>1, <2>3, <2>4
<1> HIDE DEF long
<1>9. full \in PlanIn(Items) /\ full.twins = FALSE
  <2>1. CASE Len(p.days) < ask.days
    BY <1>7, <1>8, <2>1
  <2>2. CASE ~ (Len(p.days) < ask.days)
    BY <1>3, <1>4, <2>2
  <2>3. QED
    BY <2>1, <2>2
<1> HIDE DEF full
<1> DEFINE t == FALSE
           n == Len(full.days)
<1>10. full \in Shape(t, n)
  BY <1>9 DEF Shape
<1> HIDE DEF t, n
<1>11. q \in Shape(t, n)
  BY <1>10, FilledUpShape
<1> HIDE DEF q
<1>12. Limited(q, << >>) \in Shape(t, n)
  BY <1>1, <1>11, LimitedShape
<1>13. Autocorrected(Decorated(Limited(q, << >>))) \in Shape(t, n)
  BY <1>12, DecoratedShape, AutocorrectedShape
<1>14. Corrected(p, docs) \in Shape(t, n)
  BY <1>2, <1>13, RefreshedShape
<1>15. QED
  BY <1>14 DEF Shape, t

LEMMA InShape ==
  ASSUME NEW p \in PlanIn(Items)
  PROVE  p \in Shape(p.twins, Len(p.days))
BY DEF Shape

LEMMA MergedNoTwins ==
  ASSUME ask \in Request, NEW p \in PlanIn(Items), ~ p.twins
  PROVE  ~ Limited(Costed(Refreshed(p)), << >>).twins
<1> DEFINE t == p.twins
           n == Len(p.days)
<1>1. p \in Shape(t, n) /\ << >> \in Seq(Items)
  BY InShape
<1> HIDE DEF t, n
<1>2. Costed(Refreshed(p)) \in Shape(t, n)
  BY <1>1, RefreshedShape, CostedShape
<1>3. Limited(Costed(Refreshed(p)), << >>) \in Shape(t, n)
  BY <1>1, <1>2, LimitedShape
<1>4. QED
  BY <1>3, ShapeTyped DEF t

LEMMA OptimizedNoTwins ==
  ASSUME ask \in Request, NEW p \in PlanIn(Items), NEW docs \in Seq(Items), ~ p.twins
  PROVE  ~ Optimized(p, docs).twins
<1> DEFINE v == Varied(p, docs)
           t == v.twins
           n == Len(v.days)
           w == Limited(v, << >>)
<1>1. v \in PlanIn(Items)
  BY VariedTyped
<1>2. v.twins = p.twins
  BY DEF Varied, PlanIn
<1>3. v \in Shape(t, n) /\ << >> \in Seq(Items)
  <2> HIDE DEF v
  <2>1. QED
    BY <1>1, InShape
<1>4. Optimized(p, docs) = Costed(Refreshed(w))
  BY DEF Optimized
<1> HIDE DEF t, n, v
<1>5. w \in Shape(t, n)
  BY <1>3, LimitedShape
<1> HIDE DEF w
<1>6. Costed(Refreshed(w)) \in Shape(t, n)
  BY <1>5, RefreshedShape, CostedShape
<1>7. QED
  BY <1>2, <1>4, <1>6, ShapeTyped DEF t

LEMMA ForcedOutNoTwins ==
  ASSUME ask \in Request, NEW p \in PlanIn(Items), ~ p.twins
  PROVE  ~ ForcedOut(p).twins
<1> DEFINE q == EachDay(p, LAMBDA day : [day EXCEPT !.spots = Without(@, ask.gone),
                                                    !.foods = Without(@, ask.gone)])
           t == q.twins
           n == Len(q.days)
           I == Items \ ask.gone
<1>1. q \in PlanIn(I) /\ I \in SUBSET Items
  BY WithoutGone
<1>2. q \in PlanIn(Items)
  <2> HIDE DEF q, I
  <2>1. QED
    BY <1>1, MoreItems
<1>3. q.twins = p.twins
  BY DEF EachDay, PlanIn
<1>4. ForcedOut(p) = Costed(Refreshed(q))
  BY DEF ForcedOut
<1> HIDE DEF q
<1>5. q \in Shape(t, n)
  BY <1>2, InShape
<1> HIDE DEF t, n
<1>6. Costed(Refreshed(q)) \in Shape(t, n)
  BY <1>5, RefreshedShape, CostedShape
<1>7. QED
  BY <1>3, <1>4, <1>6, ShapeTyped DEF t

(* Live prices: the minimum is reached once more.                          *)
LEMMA LiveReaches ==
  ASSUME ask \in Request, found \in Seq(Items), NEW p \in PlanIn(Items), ~ p.twins,
         NEW x \in Volatile, NEW by \in Rises \cup {0}, NEW hotel \in Nat
  PROVE  LET q == EachDay(Costed(ReachMinimum([Repriced(p, x, by) EXCEPT !.hotel = hotel], found)),
                          LAMBDA day : [day EXCEPT !.own = << >>])
         IN /\ ~ q.twins
            /\ MinimumAskedFor /\ Len(found) + Len(Corpus) <= 30 => Reached(q)
<1> DEFINE r == Repriced(p, x, by)
           live == [r EXCEPT !.hotel = hotel]
           y == ReachMinimum(live, found)
           z == Costed(y)
           f == [d \in DOMAIN z.days |-> [z.days[d] EXCEPT !.own = << >>]]
           q == EachDay(z, LAMBDA day : [day EXCEPT !.own = << >>])
<1>1. r \in PlanIn(Items) /\ r.twins = p.twins
  <2>1. r \in PlanIn(Items)
    BY RepricedTyped
  <2>2. r.twins = p.twins
    BY DEF Repriced, PlanIn
  <2>3. QED
    BY <2>1, <2>2
<1> HIDE DEF r
<1>2. live \in PlanIn(Items) /\ live.twins = r.twins
  <2>1. live \in PlanIn(Items)
    BY <1>1, HotelReplaced
  <2>2. live.twins = r.twins
    BY <1>1 DEF PlanIn
  <2>3. QED
    BY <2>1, <2>2
<1> HIDE DEF live
<1>3. y \in PlanIn(Items) /\ ~ y.twins
  <2> DEFINE t == live.twins
             n == Len(live.days)
  <2>1. live \in Shape(t, n)
    BY <1>2, InShape
  <2> HIDE DEF t, n
  <2>2. y \in Shape(t, n)
    BY <2>1, ReachMinimumShape
  <2> HIDE DEF y
  <2>3. QED
    BY <1>1, <1>2, <2>2, ShapeTyped DEF t
<1>4. ASSUME MinimumAskedFor, Len(found) + Len(Corpus) <= 30 PROVE Reached(y)
  <2> DEFINE docs == found
  <2>1. ask.minimum > 0 /\ docs \in Seq(Items) /\ Len(docs) + Len(Corpus) <= 30
    BY <1>4 DEF MinimumAskedFor
  <2> HIDE DEF docs
  <2>2. LET m == ReachMinimum(live, docs) IN m.total = Total(m) /\ Met(m, docs)
    BY <1>1, <1>2, <1>4, <2>1, MinimumMet
  <2>3. y.total = Total(y) /\ Met(y, docs)
    BY <2>2 DEF docs
  <2> HIDE DEF y
  <2>4. QED
    BY <2>3, MetIsReached
<1> HIDE DEF y
<1>5. z \in PlanIn(Items) /\ z.twins = y.twins /\ Reached(z) = Reached(y)
  BY <1>3, CostedTyped, CostedKeeps
<1> HIDE DEF z
<1>6. q \in PlanIn(Items)
  BY <1>5, ForgottenTyped
<1>7. q = [z EXCEPT !.days = f]
  BY DEF EachDay
<1>8. \A d \in DOMAIN z.days : z.days[d] \in DayIn(Items)
  BY <1>5, DaysOfPlan
<1>9. \A d \in DOMAIN z.days : /\ f[d].spots = z.days[d].spots /\ f[d].foods = z.days[d].foods
                               /\ f[d].blocks = z.days[d].blocks /\ f[d].legs = z.days[d].legs
  BY <1>8 DEF DayIn
<1>10. DOMAIN f = DOMAIN z.days
  OBVIOUS
<1> HIDE DEF f, q
<1>11. /\ q.days = f /\ q.price = z.price /\ q.hotel = z.hotel /\ q.twins = z.twins
  BY <1>5, <1>7 DEF PlanIn
<1>12. Alikes(z, q)
  BY <1>9, <1>10, <1>11 DEF Alikes
<1>13. Reached(q) = Reached(z)
  <2>1. Total(q) = Total(z) /\ InPlan(q) = InPlan(z)
    BY <1>5, <1>6, <1>12, AlikesReach
  <2>2. QED
    BY <2>1 DEF Reached
<1>14. ~ q.twins /\ (MinimumAskedFor /\ Len(found) + Len(Corpus) <= 30 => Reached(q))
  BY <1>3, <1>4, <1>5, <1>11, <1>13
<1>15. QED
  BY <1>14 DEF q, z, y, live, r

(* Of what is there once, so is each of the first.                         *)
LEMMA InjectiveFirst ==
  ASSUME NEW X, NEW s \in Seq(X), NEW n \in Int, IsInjective(s)
  PROVE  IsInjective(FirstN(s, n))
<1> DEFINE m == Min({n, Len(s)})
           t == SubSeq(s, 1, m)
<1>1. Len(s) \in Nat /\ DOMAIN s = 1 .. Len(s)
  OBVIOUS
<1>2. m \in Int /\ m <= Len(s)
  BY <1>1, LesserOfTwo
<1>3. FirstN(s, n) = t
  BY DEF FirstN
<1> HIDE DEF m
<1>4. DOMAIN t \subseteq 1 .. Len(s) /\ \A i \in DOMAIN t : t[i] = s[i]
  <2>1. CASE m >= 1
    <3>1. DOMAIN t = 1 .. m /\ \A i \in 1 .. m : t[i] = s[i]
      BY <1>2, <2>1
    <3>2. QED
      BY <1>1, <1>2, <3>1
  <2>2. CASE ~ (m >= 1)
    <3>1. t = << >>
      BY <1>2, <2>2
    <3>2. DOMAIN << >> = {}
      OBVIOUS
    <3> HIDE DEF t
    <3>3. DOMAIN t = {}
      BY <3>1, <3>2
    <3>4. QED
      BY <3>3
  <2>3. QED
    BY <2>1, <2>2
<1> HIDE DEF t
<1>5. QED
  BY <1>1, <1>3, <1>4 DEF IsInjective

(* The tuning keeps the minimum reached.                                   *)
LEMMA TunedReaches ==
  ASSUME ask \in Request, found \in Seq(Items), NEW p \in PlanIn(Items), ~ p.twins, NEW long
  PROVE  /\ ~ Tuned(p, long).twins
         /\ /\ MinimumAskedFor /\ Len(found) + Len(Corpus) <= 30
            /\ ask.budget > 0 => ask.travelers = 1 /\ Steady(p)
            => Reached(Tuned(p, long))
<1> DEFINE days == p.days
           f == [d \in DOMAIN days |-> IF d \in long THEN Shorter(days[d]) ELSE days[d]]
           shorter == [p EXCEPT !.days = f]
           a == Autocorrected(shorter)
           q == Costed(a)
           t == p.twins
           n == Len(days)
           none == << >>
<1>1. \A d \in DOMAIN days : days[d] \in DayIn(Items)
  BY DaysOfPlan
<1>2. Tuned(p, long) = Limited(q, none)
  BY DEF Tuned
<1>3. shorter \in PlanIn(Items)
  BY ShortenedTyped
<1>4. f = [d \in DOMAIN days |-> f[d]] /\ \A d \in DOMAIN days : f[d] = IF d \in long THEN Shorter(days[d]) ELSE days[d]
  OBVIOUS
<1> HIDE DEF f
<1>5. shorter.days = f /\ shorter.twins = p.twins /\ DOMAIN f = DOMAIN days
  BY <1>4 DEF PlanIn
<1>6. ASSUME Steady(p) PROVE Steady(shorter)
  <2> SUFFICES ASSUME NEW d \in DOMAIN days
               PROVE  f[d].blocks > 0 /\ IsInjective(f[d].spots)
    BY <1>5 DEF Steady
  <2>1. days[d].blocks > 0 /\ IsInjective(days[d].spots)
    BY <1>6 DEF Steady
  <2>2. CASE d \in long
    <3> DEFINE s == days[d].spots
               m == Len(s) - 1
               spots == FirstN(s, m)
    <3>1. s \in Seq(Items)
      BY <1>1 DEF DayIn
    <3>2. f[d] = [days[d] EXCEPT !.spots = spots]
      BY <1>4, <2>2 DEF Shorter
    <3> HIDE DEF s
    <3>3. m \in Int
      BY <3>1
    <3> HIDE DEF m
    <3>4. IsInjective(spots)
      BY <2>1, <3>1, <3>3, InjectiveFirst DEF s
    <3> HIDE DEF spots
    <3>5. f[d].spots = spots /\ f[d].blocks = days[d].blocks
      BY <1>1, <3>2 DEF DayIn
    <3>6. QED
      BY <2>1, <3>4, <3>5
  <2>3. CASE d \notin long
    BY <1>4, <2>1, <2>3
  <2>4. QED
    BY <2>2, <2>3
<1>7. p \in Shape(t, n) /\ none \in Seq(Items)
  BY InShape
<1>8. shorter \in Shape(t, n)
  BY <1>3, <1>5, <1>7, SameDays
<1> HIDE DEF shorter, t, n
<1>9. a \in Shape(t, n)
  BY <1>8, AutocorrectedShape
<1>10. Steady(shorter) => Steady(a)
  BY <1>3, AutocorrectedSteady
<1> HIDE DEF a
<1>11. q \in Shape(t, n)
  BY <1>9, CostedShape
<1>12. a \in PlanIn(Items)
  BY <1>9, ShapeTyped
<1>13. Steady(q) = Steady(a)
  BY <1>12, CostedKeeps
<1> HIDE DEF q
<1>14. q \in PlanIn(Items) /\ ~ q.twins
  BY <1>11, ShapeTyped DEF t
<1>15. ~ Tuned(p, long).twins
  <2> HIDE DEF none
  <2>1. Limited(q, none) \in Shape(t, n)
    BY <1>7, <1>11, LimitedShape
  <2>2. QED
    BY <1>2, <2>1, ShapeTyped DEF t
<1>16. ASSUME MinimumAskedFor, Len(found) + Len(Corpus) <= 30,
              ask.budget > 0 => ask.travelers = 1 /\ Steady(p)
       PROVE  Reached(Tuned(p, long))
  <2>1. Len(none) + Len(Corpus) <= 30
    <3>1. Len(found) \in Nat /\ Len(Corpus) \in Nat /\ Len(none) = 0
      BY PlanAssumption
    <3>2. QED
      BY <1>16, <3>1
  <2>2. ask.budget > 0 => ask.travelers = 1 /\ Steady(q)
    BY <1>6, <1>10, <1>13, <1>16
  <2> HIDE DEF none
  <2>3. Reached(Limited(q, none))
    BY <1>7, <1>14, <1>16, <2>1, <2>2, LimitedReaches
  <2>4. QED
    BY <1>2, <2>3
<1>17. QED
  BY <1>15, <1>16

(* So do the prices of the reference book.                                 *)
LEMMA BookReaches ==
  ASSUME ask \in Request, found \in Seq(Items), NEW p \in PlanIn(Items), ~ p.twins,
         NEW x \in Volatile, NEW by \in Rises \cup {0}
  PROVE  LET q == Costed(Limited(Costed(Repriced(p, x, by)), << >>))
         IN /\ ~ q.twins
            /\ /\ MinimumAskedFor /\ Len(found) + Len(Corpus) <= 30
               /\ ask.budget > 0 => ask.travelers = 1 /\ Steady(p)
               => Reached(q)
<1> DEFINE r == Repriced(p, x, by)
           c == Costed(r)
           none == << >>
           y == Limited(c, none)
           q == Costed(y)
           t == r.twins
           n == Len(r.days)
<1>1. r \in PlanIn(Items)
  BY RepricedTyped
<1>2. r.twins = p.twins /\ r.days = p.days
  BY DEF Repriced, PlanIn
<1> HIDE DEF r
<1>3. Steady(r) = Steady(p)
  BY <1>2 DEF Steady
<1>4. r \in Shape(t, n) /\ none \in Seq(Items)
  BY <1>1, InShape
<1>5. Steady(c) = Steady(r)
  BY <1>1, CostedKeeps
<1> HIDE DEF t, n
<1>6. c \in Shape(t, n)
  BY <1>4, CostedShape
<1> HIDE DEF c
<1>7. c \in PlanIn(Items) /\ ~ c.twins
  BY <1>2, <1>6, ShapeTyped DEF t
<1>8. y \in Shape(t, n)
  <2> HIDE DEF none
  <2>1. QED
    BY <1>4, <1>6, LimitedShape
<1>9. y \in PlanIn(Items) /\ ~ y.twins
  <2> HIDE DEF y
  <2>1. QED
    BY <1>2, <1>8, ShapeTyped DEF t
<1>10. ASSUME MinimumAskedFor, Len(found) + Len(Corpus) <= 30,
              ask.budget > 0 => ask.travelers = 1 /\ Steady(p)
       PROVE  Reached(y)
  <2>1. Len(none) + Len(Corpus) <= 30
    <3>1. Len(found) \in Nat /\ Len(Corpus) \in Nat /\ Len(none) = 0
      BY PlanAssumption
    <3>2. QED
      BY <1>10, <3>1
  <2>2. ask.budget > 0 => ask.travelers = 1 /\ Steady(c)
    BY <1>3, <1>5, <1>10
  <2> HIDE DEF none
  <2>3. QED
    BY <1>4, <1>7, <1>10, <2>1, <2>2, LimitedReaches
<1> HIDE DEF y
<1>11. q.twins = y.twins /\ Reached(q) = Reached(y)
  BY <1>9, CostedKeeps
<1>12. ~ q.twins /\ (/\ MinimumAskedFor /\ Len(found) + Len(Corpus) <= 30
                     /\ ask.budget > 0 => ask.travelers = 1 /\ Steady(p)
                     => Reached(q))
  BY <1>9, <1>10, <1>11
<1>13. QED
  BY <1>12 DEF q, y, c, r, none

-----------------------------------------------------------------------------
(* The loop of _enforce_budget has no bound; a plan has.                   *)

(* Less in one place and more in none is less.                             *)
LEMMA SumLess ==
  ASSUME NEW s \in Seq(Nat), NEW t \in Seq(Nat), Len(t) = Len(s), NEW k \in 1 .. Len(s),
         \A j \in 1 .. Len(s) : t[j] <= s[j], t[k] < s[k]
  PROVE  SumOf(t) < SumOf(s)
<1> DEFINE b == Len(s)
<1>1. b \in Nat /\ s \in Seq(Int) /\ t \in Seq(Int) /\ \A j \in 1 .. b : s[j] \in Nat /\ t[j] \in Nat
  OBVIOUS
<1>2. PICK f \in [0 .. b -> Int] : /\ f[0] = 0 /\ f[b] = SumOf(s)
                                   /\ \A i \in 1 .. b : f[i] = f[i - 1] + s[i]
  BY <1>1, SumRuns
<1>3. PICK g \in [0 .. b -> Int] : /\ g[0] = 0 /\ g[b] = SumOf(t)
                                   /\ \A i \in 1 .. b : g[i] = g[i - 1] + t[i]
  BY <1>1, SumRuns
<1>4. \A j \in 1 .. b : t[j] <= s[j]
  OBVIOUS
<1>5. k \in 1 .. b
  OBVIOUS
<1>10. \A u1, u2, v1, v2 \in Int :
         /\ u1 < u2 /\ v1 <= v2 => u1 + v1 < u2 + v2
         /\ u1 <= u2 /\ v1 < v2 => u1 + v1 < u2 + v2
         /\ u1 <= u2 /\ v1 <= v2 => u1 + v1 <= u2 + v2
  OBVIOUS
<1> DEFINE Good == {n \in 0 .. b : g[n] <= f[n] /\ (n >= k => g[n] < f[n])}
<1> HIDE DEF b
<1>6. 0 \in Good
  BY <1>1, <1>2, <1>3, <1>5
<1>7. ASSUME NEW n \in 1 .. b, n - 1 \in Good PROVE n \in Good
  <2> DEFINE m == n - 1
  <2>1. m \in 0 .. b /\ n \in 0 .. b /\ n \in Int /\ n = m + 1
    BY <1>1
  <2>2. f[n] = f[m] + s[n] /\ g[n] = g[m] + t[n] /\ t[n] <= s[n] /\ s[n] \in Nat /\ t[n] \in Nat
    BY <1>1, <1>2, <1>3, <1>4
  <2>3. f[m] \in Int /\ g[m] \in Int /\ f[n] \in Int /\ g[n] \in Int
    BY <1>2, <1>3, <2>1
  <2>4. g[m] <= f[m] /\ (m >= k => g[m] < f[m])
    BY <1>7
  <2> HIDE DEF m, Good
  <2>5. g[n] <= f[n]
    <3>1. s[n] \in Int /\ t[n] \in Int /\ t[n] <= s[n] /\ g[m] <= f[m]
      BY <2>2, <2>4
    <3>2. g[m] + t[n] <= f[m] + s[n]
      BY <1>10, <2>3, <3>1
    <3>3. QED
      BY <2>2, <3>2
  <2>6. ASSUME n >= k PROVE g[n] < f[n]
    <3>1. CASE n = k
      <4>1. t[n] < s[n] /\ s[n] \in Int /\ t[n] \in Int
        BY <2>2, <3>1
      <4>2. g[m] + t[n] < f[m] + s[n]
        BY <1>10, <2>3, <2>4, <4>1
      <4>3. QED
        BY <2>2, <4>2
    <3>2. CASE n # k
      <4>1. m >= k
        BY <1>5, <2>1, <2>6, <3>2
      <4>2. g[m] < f[m] /\ t[n] <= s[n] /\ s[n] \in Int /\ t[n] \in Int
        BY <2>2, <2>4, <4>1
      <4>3. g[m] + t[n] < f[m] + s[n]
        BY <1>10, <2>3, <4>2
      <4>4. QED
        BY <2>2, <4>3
    <3>3. QED
      BY <3>1, <3>2
  <2>7. QED
    BY <2>1, <2>5, <2>6 DEF Good
<1> HIDE DEF Good
<1>8. b \in Good /\ b >= k
  <2>1. \A n \in 0 .. b : n \in Good
    BY <1>1, <1>6, <1>7, Induction
  <2>2. QED
    BY <1>1, <1>5, <2>1
<1>9. QED
  BY <1>2, <1>3, <1>8 DEF Good

(* None of the numbers exceeds their sum.                                  *)
LEMMA SumAtLeast ==
  ASSUME NEW s \in Seq(Nat), NEW k \in 1 .. Len(s)
  PROVE  s[k] <= SumOf(s)
<1> DEFINE b == Len(s)
<1>1. b \in Nat /\ s \in Seq(Int) /\ k \in 1 .. b /\ \A j \in 1 .. b : s[j] \in Nat
  OBVIOUS
<1>2. PICK f \in [0 .. b -> Int] : /\ f[0] = 0 /\ f[b] = SumOf(s)
                                   /\ \A i \in 1 .. b : f[i] = f[i - 1] + s[i]
  BY <1>1, SumRuns
<1> DEFINE Good == {n \in 0 .. b : f[n] >= 0 /\ (n >= k => f[n] >= s[k])}
<1> HIDE DEF b
<1>3. 0 \in Good
  BY <1>1, <1>2
<1>4. ASSUME NEW n \in 1 .. b, n - 1 \in Good PROVE n \in Good
  <2> DEFINE m == n - 1
  <2>1. m \in 0 .. b /\ n \in 0 .. b /\ n = m + 1
    BY <1>1
  <2>2. f[n] = f[m] + s[n] /\ s[n] \in Nat /\ s[k] \in Nat
    BY <1>1, <1>2
  <2>3. f[m] \in Int /\ f[n] \in Int /\ f[m] >= 0 /\ (m >= k => f[m] >= s[k])
    BY <1>2, <1>4, <2>1
  <2> HIDE DEF m, Good
  <2>4. f[n] >= 0
    <3>1. \A u \in Int, v \in Nat : u >= 0 => u + v >= 0
      OBVIOUS
    <3>2. f[m] + s[n] >= 0
      BY <2>2, <2>3, <3>1
    <3>3. QED
      BY <2>2, <3>2
  <2>5. ASSUME n >= k PROVE f[n] >= s[k]
    <3>1. CASE n = k
      BY <2>2, <2>3, <3>1
    <3>2. CASE n # k
      <4>1. m >= k
        BY <1>1, <2>1, <2>5, <3>2
      <4>2. QED
        BY <2>2, <2>3, <4>1
    <3>3. QED
      BY <3>1, <3>2
  <2>6. QED
    BY <2>1, <2>4, <2>5 DEF Good
<1> HIDE DEF Good
<1>5. b \in Good /\ b >= k
  <2>1. \A n \in 0 .. b : n \in Good
    BY <1>1, <1>3, <1>4, Induction
  <2>2. QED
    BY <1>1, <2>1
<1>6. s[k] \in Nat /\ f[b] \in Int
  BY <1>1, <1>2
<1>7. QED
  BY <1>2, <1>5, <1>6 DEF Good

(* The days that share their meals have the same meals.                    *)
Shared(p) ==
  p.twins /\ Len(p.days) >= 2 => p.days[Len(p.days) - 1].foods = p.days[Len(p.days)].foods

LEMMA WithListShared ==
  ASSUME NEW p \in PlanIn(Items), Shared(p), NEW d, d \in DOMAIN p.days,
         NEW kind \in Kind, NEW seq \in Seq(Items)
  PROVE  Shared(WithList(p, d, kind, seq))
<1> DEFINE days == p.days
           L == Len(days)
           A == Alike(p, d, kind)
           f == [e \in DOMAIN days |-> IF e \in A THEN [days[e] EXCEPT ![kind] = seq] ELSE days[e]]
           w == WithList(p, d, kind, seq)
<1>1. /\ DOMAIN days = 1 .. L /\ L \in Nat \ {0} /\ d \in 1 .. L
      /\ \A e \in 1 .. L : days[e] \in DayIn(Items)
  BY DaysOfPlan
<1>2. A = IF p.twins /\ kind = "foods" /\ d >= L - 1 THEN {L - 1, L} ELSE {d}
  BY DEF Alike
<1>3. w = [p EXCEPT !.days = f]
  BY DEF WithList
<1>4. w \in PlanIn(Items)
  BY WithListTyped
<1>5. w.days = f /\ w.twins = p.twins
  <2> HIDE DEF f, w
  <2>1. QED
    BY <1>3 DEF PlanIn
<1>6. DOMAIN f = 1 .. L /\ \A e \in 1 .. L : f[e] = IF e \in A THEN [days[e] EXCEPT ![kind] = seq] ELSE days[e]
  BY <1>1
<1> HIDE DEF A, f, w
<1>7. Len(w.days) = L
  <2>1. DOMAIN w.days = 1 .. Len(w.days) /\ Len(w.days) \in Nat \ {0}
    BY <1>4, DaysOfPlan
  <2>2. QED
    BY <1>1, <1>5, <1>6, <2>1
<1> HIDE DEF days
<1>8. SUFFICES ASSUME p.twins, L >= 2 PROVE f[L - 1].foods = f[L].foods
  BY <1>5, <1>7 DEF Shared, w
<1>9. L - 1 \in 1 .. L /\ L \in 1 .. L
  BY <1>1, <1>8
<1>10. days[L - 1].foods = days[L].foods
  BY <1>8 DEF Shared, days
<1>11. CASE kind = "spots"
  <2>1. \A e \in 1 .. L : f[e].foods = days[e].foods
    BY <1>1, <1>6, <1>11 DEF DayIn
  <2>2. QED
    BY <1>9, <1>10, <2>1
<1>12. CASE kind = "foods" /\ d >= L - 1
  <2>1. L - 1 \in A /\ L \in A
    BY <1>2, <1>8, <1>12
  <2>2. f[L - 1].foods = seq /\ f[L].foods = seq
    BY <1>1, <1>6, <1>9, <1>12, <2>1 DEF DayIn
  <2>3. QED
    BY <2>2
<1>13. CASE kind = "foods" /\ ~ (d >= L - 1)
  <2>1. L - 1 \notin A /\ L \notin A
    BY <1>1, <1>2, <1>13
  <2>2. f[L - 1] = days[L - 1] /\ f[L] = days[L]
    BY <1>6, <1>9, <2>1
  <2>3. QED
    BY <1>10, <2>2
<1>14. QED
  BY <1>11, <1>12, <1>13 DEF Kind

LEMMA StopsFewer ==
  ASSUME NEW p \in PlanIn(Items), Shared(p), NEW d \in DOMAIN p.days, NEW kind \in Kind,
         NEW k \in DOMAIN p.days[d][kind]
  PROVE  LET w == WithList(p, d, kind, RemoveAt(p.days[d][kind], k))
         IN w \in PlanIn(Items) /\ Shared(w) /\ Stops(w) < Stops(p)
<1> DEFINE days == p.days
           L == Len(days)
           seq == days[d][kind]
           less == RemoveAt(seq, k)
           A == Alike(p, d, kind)
           f == [e \in DOMAIN days |-> IF e \in A THEN [days[e] EXCEPT ![kind] = less] ELSE days[e]]
           w == WithList(p, d, kind, less)
           Number(day) == Len(day.spots) + Len(day.foods)
<1>1. /\ DOMAIN days = 1 .. L /\ L \in Nat \ {0} /\ d \in 1 .. L
      /\ \A e \in 1 .. L : days[e] \in DayIn(Items)
  BY DaysOfPlan
<1>2. seq \in Seq(Items) /\ k \in 1 .. Len(seq)
  <2> DEFINE day == days[d]
  <2>1. day \in DayIn(Items)
    BY <1>1
  <2> HIDE DEF day
  <2>2. day[kind] \in Seq(Items)
    BY <2>1, ListOfDay
  <2>3. seq \in Seq(Items)
    BY <2>2 DEF day
  <2>4. DOMAIN seq = 1 .. Len(seq)
    BY <2>3
  <2>5. QED
    BY <2>3, <2>4
<1> HIDE DEF seq
<1>3. less \in Seq(Items) /\ Len(less) = Len(seq) - 1 /\ Len(seq) \in Nat
  BY <1>2, PlacesWithout
<1> HIDE DEF less
<1>4. A = IF p.twins /\ kind = "foods" /\ d >= L - 1 THEN {L - 1, L} ELSE {d}
  BY DEF Alike
<1>5. w = [p EXCEPT !.days = f]
  BY DEF WithList
<1>6. w \in PlanIn(Items)
  BY <1>3, WithListTyped
<1>7. w.days = f /\ w.twins = p.twins
  <2> HIDE DEF f, w
  <2>1. QED
    BY <1>5 DEF PlanIn
<1>8. DOMAIN f = 1 .. L /\ \A e \in 1 .. L : f[e] = IF e \in A THEN [days[e] EXCEPT ![kind] = less] ELSE days[e]
  BY <1>1
<1> HIDE DEF A, f, w
<1>9. d \in A
  BY <1>1, <1>4
<1>10. ASSUME NEW e \in 1 .. L, e \in A PROVE days[e][kind] = seq
  <2>1. CASE p.twins /\ kind = "foods" /\ d >= L - 1
    <3>1. e \in {L - 1, L} /\ d \in {L - 1, L}
      BY <1>1, <1>4, <1>10, <2>1
    <3>2. CASE L >= 2
      <4>1. days[L - 1].foods = days[L].foods
        BY <2>1, <3>2 DEF Shared
      <4>2. days[e].foods = days[d].foods
        BY <3>1, <4>1
      <4>3. QED
        BY <2>1, <4>2 DEF seq
    <3>3. CASE ~ (L >= 2)
      <4>1. e = d
        BY <1>1, <3>3
      <4>2. QED
        BY <4>1 DEF seq
    <3>4. QED
      BY <3>2, <3>3
  <2>2. CASE ~ (p.twins /\ kind = "foods" /\ d >= L - 1)
    <3>1. e = d
      BY <1>4, <1>10, <2>2
    <3>2. QED
      BY <3>1 DEF seq
  <2>3. QED
    BY <2>1, <2>2
<1>11. ASSUME NEW e \in 1 .. L
       PROVE  /\ Number(f[e]) \in Nat /\ Number(days[e]) \in Nat
              /\ Number(f[e]) = IF e \in A THEN Number(days[e]) - 1 ELSE Number(days[e])
  <2> DEFINE day == days[e]
             a == Len(day.spots)
             c == Len(day.foods)
  <2>1. day \in DayIn(Items)
    BY <1>1
  <2>2. a \in Nat /\ c \in Nat
    <3>1. day.spots \in Seq(Items) /\ day.foods \in Seq(Items)
      BY <2>1 DEF DayIn
    <3> HIDE DEF day
    <3>2. QED
      BY <3>1
  <2>3. CASE e \notin A
    <3>1. f[e] = day
      BY <1>8, <2>3
    <3>2. Number(f[e]) = a + c /\ Number(days[e]) = a + c
      BY <3>1
    <3> HIDE DEF a, c, Number
    <3>3. QED
      BY <2>2, <2>3, <3>2
  <2>4. CASE e \in A
    <3>1. f[e] = [day EXCEPT ![kind] = less]
      BY <1>8, <2>4
    <3>2. day[kind] = seq
      BY <1>10, <2>4
    <3>3. CASE kind = "spots"
      <4>1. f[e].spots = less /\ f[e].foods = day.foods /\ day.spots = seq
        BY <2>1, <3>1, <3>2, <3>3 DEF DayIn
      <4>2. Number(f[e]) = Len(less) + c /\ Number(days[e]) = a + c /\ a = Len(seq)
        BY <4>1
      <4> HIDE DEF a, c, Number
      <4>3. Number(f[e]) = (a - 1) + c /\ a >= 1
        BY <1>2, <1>3, <4>2
      <4>4. QED
        BY <2>2, <2>4, <4>2, <4>3
    <3>4. CASE kind = "foods"
      <4>1. f[e].spots = day.spots /\ f[e].foods = less /\ day.foods = seq
        BY <2>1, <3>1, <3>2, <3>4 DEF DayIn
      <4>2. Number(f[e]) = a + Len(less) /\ Number(days[e]) = a + c /\ c = Len(seq)
        BY <4>1
      <4> HIDE DEF a, c, Number
      <4>3. Number(f[e]) = a + (c - 1) /\ c >= 1
        BY <1>2, <1>3, <4>2
      <4>4. QED
        BY <2>2, <2>4, <4>2, <4>3
    <3>5. QED
      BY <3>3, <3>4 DEF Kind
  <2>5. QED
    BY <2>3, <2>4
<1>12. PICK s \in Seq(Nat) : /\ Len(s) = L /\ Stops(p) = SumOf(s)
                             /\ \A e \in 1 .. L : s[e] = Number(days[e])
  BY StopsListed
<1>13. PICK t \in Seq(Nat) : /\ Len(t) = Len(w.days) /\ Stops(w) = SumOf(t)
                             /\ \A e \in 1 .. Len(w.days) : t[e] = Number(w.days[e])
  BY <1>6, StopsListed
<1>14. Len(w.days) = L
  <2>1. DOMAIN w.days = 1 .. Len(w.days) /\ Len(w.days) \in Nat \ {0}
    BY <1>6, DaysOfPlan
  <2>2. QED
    BY <1>1, <1>7, <1>8, <2>1
<1> HIDE DEF Number, days
<1>15. /\ Len(t) = Len(s) /\ d \in 1 .. Len(s)
       /\ \A e \in 1 .. Len(s) : t[e] <= s[e]
       /\ t[d] < s[d]
  <2>1. \A e \in 1 .. L : t[e] = Number(f[e]) /\ s[e] = Number(days[e])
    BY <1>7, <1>12, <1>13, <1>14
  <2>2. ASSUME NEW e \in 1 .. L PROVE t[e] <= s[e]
    <3>1. t[e] \in Nat /\ s[e] \in Nat /\ t[e] = IF e \in A THEN s[e] - 1 ELSE s[e]
      BY <1>11, <2>1
    <3>2. t[e] = s[e] - 1 \/ t[e] = s[e]
      BY <3>1
    <3>3. QED
      BY <3>1, <3>2
  <2>3. t[d] < s[d]
    BY <1>1, <1>9, <1>11, <2>1
  <2>4. QED
    BY <1>1, <1>12, <1>13, <1>14, <2>2, <2>3
<1>16. Stops(w) < Stops(p)
  <2>1. SumOf(t) < SumOf(s)
    BY <1>15, SumLess
  <2>2. QED
    BY <1>12, <1>13, <2>1
<1>17. Shared(w)
  BY <1>3, WithListShared DEF w
<1>18. QED
  BY <1>6, <1>16, <1>17 DEF w, less, seq, days

(* Fewer days, other costs or a price leave what is shared alone.          *)
SharedPlans == {q \in PlanIn(Items) : Shared(q)}

LEMMA CostedShared ==
  ASSUME ask \in Request, NEW p \in SharedPlans
  PROVE  Costed(p) \in SharedPlans /\ Stops(Costed(p)) = Stops(p)
<1>1. p \in PlanIn(Items) /\ Shared(p)
  BY DEF SharedPlans
<1>2. Costed(p) \in PlanIn(Items) /\ Costed(p).days = p.days /\ Costed(p).twins = p.twins
  BY <1>1, CostedTyped, CostedKeeps
<1>3. QED
  BY <1>1, <1>2 DEF SharedPlans, Shared, Stops

LEMMA WithItemShared ==
  ASSUME ask \in Request, NEW p \in SharedPlans, NEW x \in Items
  PROVE  WithItem(p, x) \in SharedPlans
<1> DEFINE kind == IF x \in Spots THEN "spots" ELSE "foods"
           s == p.days[1][kind]
           seq == Append(s, x)
           q == WithList(p, 1, kind, seq)
           r == [q EXCEPT !.price[x] = Cost[x]]
<1>1. kind \in Kind /\ p \in PlanIn(Items) /\ Shared(p) /\ Cost[x] \in Int
  BY PlanAssumption DEF Kind, SharedPlans
<1>2. WithItem(p, x) = Costed(r)
  BY DEF WithItem
<1> HIDE DEF kind
<1>3. s \in Seq(Items) /\ 1 \in DOMAIN p.days
  BY <1>1, DaysOfPlan, ListOfDay
<1> HIDE DEF s
<1>4. seq \in Seq(Items)
  BY <1>3
<1> HIDE DEF seq
<1>5. q \in PlanIn(Items) /\ Shared(q)
  <2> DEFINE one == 1
  <2>1. one \in DOMAIN p.days
    BY <1>3
  <2> HIDE DEF one
  <2>2. WithList(p, one, kind, seq) \in PlanIn(Items) /\ Shared(WithList(p, one, kind, seq))
    BY <1>1, <1>4, <2>1, WithListTyped, WithListShared
  <2>3. QED
    BY <2>2 DEF one
<1> HIDE DEF q
<1>6. r \in PlanIn(Items) /\ r.days = q.days /\ r.twins = q.twins
  BY <1>1, <1>5, PriceReplaced DEF PlanIn
<1> HIDE DEF r
<1>7. r \in SharedPlans
  BY <1>5, <1>6 DEF SharedPlans, Shared
<1>8. QED
  BY <1>2, <1>7, CostedShared

LEMMA ReachMinimumShared ==
  ASSUME ask \in Request, NEW p \in SharedPlans, NEW docs \in Seq(Items)
  PROVE  ReachMinimum(p, docs) \in SharedPlans
<1> DEFINE m == Min({30, Len(docs) + Len(Corpus)})
           places == [i \in 1 .. m |-> i]
           c == Costed(p)
           end == MinimumSteps(docs, c, places)
           X == SharedPlans
<1>1. Len(docs) + Len(Corpus) \in Nat /\ Corpus \in Seq(Items)
  BY PlanAssumption
<1>2. m \in Nat
  BY <1>1, LesserOfTwo
<1> HIDE DEF m
<1>3. places \in Seq(Nat)
  BY <1>2
<1>4. c \in X
  BY CostedShared
<1>5. ASSUME NEW q \in X PROVE TowardsMinimum(q, docs) \in X
  <2> DEFINE new == Without(docs, InPlan(q))
             more == IF new # << >> THEN new ELSE Without(Corpus, InPlan(q))
  <2>1. TowardsMinimum(q, docs) =
          IF q.total >= ask.minimum \/ more = << >> THEN q ELSE WithItem(q, Dearest(more))
    BY DEF TowardsMinimum
  <2>2. more \in Seq(Items)
    BY <1>1, WithoutTyped
  <2> HIDE DEF more
  <2>3. more # << >> => WithItem(q, Dearest(more)) \in X
    BY <2>2, DearestOne, WithItemShared
  <2>4. QED
    BY <2>1, <2>3
<1>6. ReachMinimum(p, docs) = IF ask.minimum = 0 THEN p ELSE IF MinimumAskedFor THEN end ELSE c
  BY DEF ReachMinimum, Iterate, m, MinimumSteps
<1> HIDE DEF places, c
<1>7. end \in X
  <2>1. \A q \in X : \A i \in Nat : TowardsMinimum(q, docs) \in X
    BY <1>5
  <2> HIDE DEF X
  <2>2. QED
    BY <1>3, <1>4, <2>1, MinimumThrough
<1>8. QED
  BY <1>4, <1>6, <1>7

(* What is lengthened by one day, as "one day more" does, shares its meals *)
(* with the day it repeats; what is as long as the plan built anew repeats *)
(* nothing.                                                                *)
LEMMA LengthenedShared ==
  ASSUME NEW p \in PlanIn(Items), NEW n \in Nat \ {0}, NEW base \in Seq(DayIn(Items)),
         n = Len(p.days) + 1 \/ n <= Len(base)
  PROVE  Lengthened(p, n, base) \in SharedPlans
<1> DEFINE days == p.days
           l == Len(days)
           f == [d \in 1 .. n |-> IF d <= l THEN days[d]
                                  ELSE IF d <= Len(base) THEN base[d] ELSE days[l]]
           q == Lengthened(p, n, base)
<1>1. q \in PlanIn(Items)
  BY LengthenedTyped
<1>2. q.days = f /\ q.twins = (n > Len(base))
  BY DEF Lengthened, PlanIn
<1>3. l \in Nat \ {0} /\ Len(base) \in Nat
  BY DaysOfPlan
<1>4. Len(f) = n
  OBVIOUS
<1>5. ASSUME n > Len(base) PROVE n = l + 1 /\ f[n - 1] = days[l] /\ f[n] = days[l]
  <2>1. n = l + 1
    BY <1>3, <1>5
  <2>2. n \in 1 .. n /\ n - 1 \in 1 .. n /\ ~ (n <= l) /\ n - 1 <= l /\ n - 1 = l /\ ~ (n <= Len(base))
    BY <1>3, <1>5, <2>1
  <2>3. QED
    BY <2>1, <2>2
<1> HIDE DEF f, q
<1>6. Shared(q)
  BY <1>2, <1>4, <1>5 DEF Shared
<1>7. QED
  BY <1>1, <1>6 DEF SharedPlans, q

(* Each step of the budget takes a stop away, of two days at once if they  *)
(* share it.                                                               *)
LEMMA DroppedFewer ==
  ASSUME ask \in Request, NEW p \in SharedPlans, NEW kind \in Kind, MayGo(p, kind) # {}
  PROVE  Dropped(p, kind) \in SharedPlans /\ Stops(Dropped(p, kind)) < Stops(p)
<1>1. p \in PlanIn(Items) /\ Shared(p) /\ Items \in SUBSET Items
  BY DEF SharedPlans
<1>2. PICK at \in MayGo(p, kind) :
        Dropped(p, kind) = Costed(WithList(p, at[1], kind, RemoveAt(p.days[at[1]][kind], at[2])))
  BY <1>1, DroppedOne
<1>3. at \in Positions(p, kind)
  BY DEF MayGo
<1>4. at[1] \in DOMAIN p.days /\ at[2] \in DOMAIN p.days[at[1]][kind]
  BY <1>1, <1>3, PositionsTyped
<1> DEFINE d == at[1]
           k == at[2]
           w == WithList(p, d, kind, RemoveAt(p.days[d][kind], k))
<1>5. d \in DOMAIN p.days /\ k \in DOMAIN p.days[d][kind]
  BY <1>4
<1>6. Dropped(p, kind) = Costed(w)
  BY <1>2
<1> HIDE DEF d, k
<1>7. w \in PlanIn(Items) /\ Shared(w) /\ Stops(w) < Stops(p)
  BY <1>1, <1>5, StopsFewer
<1> HIDE DEF w
<1>8. w \in SharedPlans
  BY <1>7 DEF SharedPlans
<1>9. QED
  BY <1>6, <1>7, <1>8, CostedShared

(* There is nothing more that the limits would take away.                  *)
Settled(q) == ~ TooDear(q.total) \/ (MayGo(q, "spots") = {} /\ MayGo(q, "foods") = {})

LEMMA NoStopsSettled ==
  ASSUME NEW p \in PlanIn(Items), Stops(p) <= 0
  PROVE  Settled(p)
<1>1. DOMAIN p.days = 1 .. Len(p.days) /\ \A d \in DOMAIN p.days : p.days[d] \in DayIn(Items)
  BY DaysOfPlan
<1>2. PICK v \in Seq(Nat) :
        /\ Len(v) = Len(p.days) /\ Stops(p) = SumOf(v)
        /\ \A d \in 1 .. Len(p.days) : v[d] = Len(p.days[d].spots) + Len(p.days[d].foods)
  BY StopsListed
<1>3. ASSUME NEW d \in DOMAIN p.days, NEW kind \in Kind PROVE DOMAIN p.days[d][kind] = {}
  <2> DEFINE day == p.days[d]
             a == day.spots
             c == day.foods
  <2>1. d \in 1 .. Len(v) /\ v[d] \in Nat /\ v[d] = Len(a) + Len(c)
    <3>1. d \in 1 .. Len(p.days)
      BY <1>1
    <3>2. d \in 1 .. Len(v) /\ v[d] = Len(a) + Len(c)
      BY <1>2, <3>1
    <3>3. v[d] \in Nat
      BY <3>2, ElementOfSeq
    <3>4. QED
      BY <3>2, <3>3
  <2>2. v[d] <= SumOf(v) /\ SumOf(v) \in Nat
    BY <2>1, SumAtLeast, SumIsNat
  <2>3. v[d] = 0
    <3> DEFINE x == v[d]
               total == SumOf(v)
    <3>1. x \in Nat /\ x <= total /\ total \in Nat /\ total <= 0
      BY <1>2, <2>1, <2>2
    <3> HIDE DEF x, total
    <3>2. x = 0
      BY <3>1
    <3>3. QED
      BY <3>2 DEF x
  <2>4. day \in DayIn(Items)
    BY <1>1
  <2>5. a \in Seq(Items) /\ c \in Seq(Items)
    BY <2>4 DEF DayIn
  <2>6. kind = "spots" \/ kind = "foods"
    BY DEF Kind
  <2>7. day[kind] = a \/ day[kind] = c
    BY <2>6
  <2> HIDE DEF day, a, c
  <2>8. Len(a) = 0 /\ Len(c) = 0
    BY <2>1, <2>3, <2>5
  <2>9. DOMAIN a = {} /\ DOMAIN c = {}
    BY <2>5, <2>8
  <2>10. QED
    BY <2>7, <2>9 DEF day
<1>4. \A kind \in Kind : MayGo(p, kind) = {}
  BY <1>3 DEF MayGo, Positions
<1>5. QED
  BY <1>4 DEF Settled, Kind

(* The limits take away until nothing more may go or the plan is no longer *)
(* too dear: `while total_cost() > budget' always comes to its end, and    *)
(* within as many rounds as the plan has stops (planner.py 811-847).       *)
LEMMA FittedSettles ==
  ASSUME ask \in Request, ask.budget # 0, NEW p \in SharedPlans
  PROVE  \E end \in SharedPlans : Settled(end) /\ Fitted(p) = Autocorrected(end)
<1> DEFINE X == SharedPlans
           b == Stops(p)
<1>1. p \in PlanIn(Items)
  BY DEF SharedPlans
<1>2. ASSUME NEW q \in X
      PROVE  /\ Settled(q) => TowardsBudget(q) = q
             /\ ~ Settled(q) => TowardsBudget(q) \in X /\ Stops(TowardsBudget(q)) < Stops(q)
  <2>1. "spots" \in Kind /\ "foods" \in Kind
    BY DEF Kind
  <2>2. Settled(q) => TowardsBudget(q) = q
    BY DEF Settled, TowardsBudget
  <2>3. \A kind \in Kind : MayGo(q, kind) # {} =>
          Dropped(q, kind) \in X /\ Stops(Dropped(q, kind)) < Stops(q)
    BY DroppedFewer
  <2> HIDE DEF X
  <2>4. ~ Settled(q) => TowardsBudget(q) \in X /\ Stops(TowardsBudget(q)) < Stops(q)
    BY <2>1, <2>3 DEF Settled, TowardsBudget
  <2>5. QED
    BY <2>2, <2>4
<1>3. \A q \in X : TowardsBudget(q) \in X
  BY <1>2
<1>4. \A q \in X : Stops(q) \in Nat
  <2>1. ASSUME NEW q \in X PROVE Stops(q) \in Nat
    <3>1. q \in PlanIn(Items)
      BY DEF SharedPlans
    <3>2. QED
      BY <3>1, StopsListed, SumIsNat
  <2>2. QED
    BY <2>1
<1>5. b \in Nat /\ \E r \in [0 .. b -> X] : FittedRun(r, p)
  <2>1. p \in X
    OBVIOUS
  <2> HIDE DEF X
  <2>2. QED
    BY <1>1, <1>3, <2>1, FittedThrough
<1>6. PICK r \in [0 .. b -> X] : FittedRun(r, p)
  BY <1>5
<1>7. /\ r[0] = p /\ Fitted(p) = Autocorrected(r[b])
      /\ \A n \in 1 .. b : r[n] = TowardsBudget(r[n - 1])
  BY <1>6 DEF FittedRun
<1> DEFINE Good == {n \in 0 .. b : Settled(r[n]) \/ Stops(r[n]) + n <= b}
<1>8. Stops(r[0]) = b
  BY <1>7
<1> HIDE DEF b, X
<1>9. 0 \in Good
  BY <1>5, <1>8
<1>10. ASSUME NEW n \in 1 .. b, n - 1 \in Good PROVE n \in Good
  <2> DEFINE m == n - 1
             q == r[m]
  <2>1. m \in 0 .. b /\ n \in 0 .. b /\ n = m + 1 /\ m \in Nat
    BY <1>5
  <2>2. q \in X /\ r[n] = TowardsBudget(q) /\ Stops(q) \in Nat
    BY <1>4, <1>7, <2>1
  <2>3. Settled(q) \/ Stops(q) + m <= b
    BY <1>10
  <2> HIDE DEF m, q, Good
  <2>4. CASE Settled(q)
    <3>1. r[n] = q
      BY <1>2, <2>2, <2>4
    <3>2. QED
      BY <2>1, <2>4, <3>1 DEF Good
  <2>5. CASE ~ Settled(q)
    <3>1. Stops(r[n]) < Stops(q) /\ r[n] \in X
      BY <1>2, <2>2, <2>5
    <3>2. Stops(r[n]) \in Nat
      BY <1>4, <3>1
    <3>3. Stops(r[n]) + n <= b
      BY <1>5, <2>1, <2>2, <2>3, <2>5, <3>1, <3>2
    <3>4. QED
      BY <2>1, <3>3 DEF Good
  <2>6. QED
    BY <2>4, <2>5
<1> HIDE DEF Good
<1>11. b \in Good
  <2>1. \A n \in 0 .. b : n \in Good
    BY <1>5, <1>9, <1>10, Induction
  <2>2. QED
    BY <1>5, <2>1
<1>12. r[b] \in X /\ Stops(r[b]) \in Nat
  BY <1>4, <1>5
<1>13. Settled(r[b]) \/ Stops(r[b]) + b <= b
  BY <1>11 DEF Good
<1>14. Settled(r[b])
  <2>1. ASSUME Stops(r[b]) + b <= b PROVE Settled(r[b])
    <3>1. Stops(r[b]) <= 0
      BY <1>5, <1>12, <2>1
    <3>2. r[b] \in PlanIn(Items)
      BY <1>12 DEF SharedPlans, X
    <3>3. QED
      BY <3>1, <3>2, NoStopsSettled
  <2>2. QED
    BY <1>13, <2>1
<1>15. QED
  BY <1>7, <1>12, <1>14 DEF X

(* _enforce_budget, as a whole: whatever plan it is given, its loop ends,  *)
(* and what is left is within the budget unless nothing more may go - then *)
(* all that is left is free, or is needed for the minimum.                 *)
THEOREM BudgetLoopEnds ==
  ASSUME ask \in Request, ask.budget # 0, NEW p \in SharedPlans, NEW docs \in Seq(Items)
  PROVE  \E end \in SharedPlans : Settled(end) /\ Limited(p, docs) = Autocorrected(end)
<1>1. Costed(p) \in SharedPlans
  BY CostedShared
<1>2. ReachMinimum(Costed(p), docs) \in SharedPlans
  BY <1>1, ReachMinimumShared
<1>3. Costed(ReachMinimum(Costed(p), docs)) \in SharedPlans
  BY <1>2, CostedShared
<1>4. QED
  BY <1>3, FittedSettles DEF Limited

LEMMA OwnMealsShared ==
  ASSUME NEW p \in PlanIn(Items), ~ p.twins
  PROVE  p \in SharedPlans
BY DEF SharedPlans, Shared

LEMMA AutocorrectedShared ==
  ASSUME NEW p \in SharedPlans
  PROVE  Autocorrected(p) \in SharedPlans
<1> DEFINE days == p.days
           New(day) == LET spots == Once(day.spots)
                       IN [day EXCEPT !.spots = spots, !.legs = Max({0, Len(spots) - 1})]
           f == [d \in DOMAIN days |-> New(days[d])]
           q == [p EXCEPT !.days = f]
           r == [q EXCEPT !.told = FALSE]
           l == Len(days)
<1>1. p \in PlanIn(Items) /\ Shared(p)
  BY DEF SharedPlans
<1>2. Autocorrected(p) = r
  BY DEF Autocorrected, EachDay
<1>3. r \in PlanIn(Items)
  BY <1>1, <1>2, AutocorrectedTyped
<1>4. DOMAIN days = 1 .. l /\ l \in Nat \ {0} /\ \A d \in 1 .. l : days[d] \in DayIn(Items)
  BY <1>1, DaysOfPlan
<1>5. \A d \in 1 .. l : f[d].foods = days[d].foods
  BY <1>4 DEF DayIn
<1>6. DOMAIN f = 1 .. l
  BY <1>4
<1> HIDE DEF f
<1>7. r.days = f /\ r.twins = p.twins
  BY <1>1 DEF PlanIn
<1> HIDE DEF r
<1>8. DOMAIN r.days = 1 .. Len(r.days) /\ Len(r.days) \in Nat \ {0}
  BY <1>3, DaysOfPlan
<1>9. Len(r.days) = l
  BY <1>4, <1>6, <1>7, <1>8
<1> HIDE DEF days
<1>10. Shared(r)
  <2> SUFFICES ASSUME p.twins, l >= 2 PROVE f[l - 1].foods = f[l].foods
    BY <1>7, <1>9 DEF Shared
  <2>1. l - 1 \in 1 .. l /\ l \in 1 .. l
    BY <1>4
  <2>2. days[l - 1].foods = days[l].foods
    BY <1>1 DEF Shared, days
  <2>3. QED
    BY <1>5, <2>1, <2>2
<1>11. QED
  BY <1>2, <1>3, <1>10 DEF SharedPlans

(* What apply_adjustment changes within the days makes no day share.       *)
LEMMA ChangedTwins ==
  ASSUME ask \in Request, NEW p \in PlanIn(Items), NEW docs \in Seq(Items)
  PROVE  Changed(p, docs).twins = p.twins
<1>1. \A q \in PlanIn(Items) : \A f : [q EXCEPT !.days = f].twins = q.twins
  BY DEF PlanIn
<1>2. CASE ask.wish = "easy"
  <2> DEFINE f == [d \in DOMAIN p.days |-> [p.days[d] EXCEPT !.spots = FirstN(@, 2)]]
  <2>1. Changed(p, docs) = [p EXCEPT !.days = f]
    BY <1>2 DEF Changed, EachDay
  <2> HIDE DEF f
  <2>2. QED
    BY <1>1, <2>1
<1>3. CASE ask.wish = "remove"
  <2> DEFINE f == [d \in DOMAIN p.days |->
                     [p.days[d] EXCEPT !.spots = Without(@, ask.gone), !.foods = Without(@, ask.gone)]]
             left == EachDay(p, LAMBDA day : [day EXCEPT !.spots = Without(@, ask.gone),
                                                         !.foods = Without(@, ask.gone)])
             spots(q) == UNION {ToSet(q.days[d].spots) : d \in DOMAIN q.days}
             removed == spots(p) \cap ask.gone
             supply == Without(OfKind("spots", docs), spots(left) \cup removed)
             g == FoldLeft(Refill, [days |-> << >>, supply |-> supply], left.days).days
  <2>1. Changed(p, docs) = IF removed = {} THEN left ELSE [left EXCEPT !.days = g]
    BY <1>3 DEF Changed, RemovedAndRefilled
  <2>2. left = [p EXCEPT !.days = f]
    BY DEF EachDay
  <2> HIDE DEF left, removed, f, g
  <2>3. left.twins = p.twins
    BY <1>1, <2>2
  <2>4. [left EXCEPT !.days = g].twins = left.twins
    BY <2>2 DEF PlanIn
  <2>5. QED
    BY <2>1, <2>3, <2>4
<1>4. CASE ask.wish = "add"
  <2>1. ASSUME NEW q, NEW kind, "twins" \in DOMAIN q
        PROVE  /\ WithWanted(q, docs, kind).twins = q.twins
               /\ "twins" \in DOMAIN WithWanted(q, docs, kind)
    BY <2>1 DEF WithWanted
  <2>2. "twins" \in DOMAIN p
    BY DEF PlanIn
  <2> DEFINE q == WithWanted(p, docs, "spots")
  <2>3. q.twins = p.twins /\ "twins" \in DOMAIN q
    BY <2>1, <2>2
  <2>4. Changed(p, docs) = WithWanted(q, docs, "foods")
    BY <1>4 DEF Changed
  <2> HIDE DEF q
  <2>5. QED
    BY <2>1, <2>3, <2>4
<1>5. CASE ask.wish \notin {"easy", "remove", "add"}
  BY <1>5 DEF Changed
<1>6. QED
  BY <1>2, <1>3, <1>4, <1>5

(* The plan that apply_adjustment gives to the limits.                     *)
Rearranged(p, docs) ==
  LET n == CASE ask.wish = "longer" -> Min({7, Len(p.days) + 1})
             [] ask.wish = "shorter" -> Max({1, Len(p.days) - 1})
             [] OTHER -> Min({7, ask.days})
      base == IF Elsewhere THEN Autocorrected(Built(docs, ask.days))
              ELSE IF ask.wish = "more" /\ n < Len(p.days) THEN p
              ELSE OfLength(p, n, docs)
  IN IF Elsewhere \/ ask.wish = "more" THEN FilledUp(base, docs)
     ELSE Autocorrected(Changed(base, docs))

LEMMA OfLengthShared ==
  ASSUME ask \in Request, NEW p \in PlanIn(Items), ~ p.twins, NEW n \in Nat \ {0},
         NEW docs \in Seq(Items), n <= Len(p.days) + 1 \/ n <= ask.days
  PROVE  /\ OfLength(p, n, docs) \in SharedPlans
         /\ n <= ask.days => ~ OfLength(p, n, docs).twins
<1> DEFINE base == Built(docs, ask.days).days
           first == FirstN(p.days, n)
           q == OfLength(p, n, docs)
<1>1. ask.days \in Nat \ {0} /\ Len(p.days) \in Nat \ {0}
  BY DaysOfPlan DEF Request
<1>2. Len(base) = ask.days /\ base \in Seq(DayIn(Items))
  <2>1. Built(docs, ask.days) \in Shape(FALSE, ask.days)
    BY <1>1, BuiltShape
  <2>2. Built(docs, ask.days) \in PlanIn(Items)
    BY <1>1, BuiltTyped
  <2>3. QED
    BY <2>1, <2>2, DaysOfPlan DEF Shape
<1>3. q = IF n <= Len(p.days) THEN [p EXCEPT !.days = first] ELSE Lengthened(p, n, base)
  BY DEF OfLength
<1>4. q \in PlanIn(Items)
  BY OfLengthTyped
<1> HIDE DEF base, first, q
<1>5. CASE n <= Len(p.days)
  <2>1. ~ q.twins
    BY <1>3, <1>5 DEF PlanIn
  <2>2. QED
    BY <1>4, <2>1, OwnMealsShared DEF q
<1>6. CASE ~ (n <= Len(p.days))
  <2>1. q = Lengthened(p, n, base)
    BY <1>3, <1>6
  <2>2. n = Len(p.days) + 1 \/ n <= Len(base)
    BY <1>1, <1>2, <1>6
  <2>3. q \in SharedPlans
    BY <1>2, <2>1, <2>2, LengthenedShared
  <2> DEFINE f == [d \in 1 .. n |-> IF d <= Len(p.days) THEN p.days[d]
                                    ELSE IF d <= Len(base) THEN base[d] ELSE p.days[Len(p.days)]]
             late == n > Len(base)
  <2>4. Lengthened(p, n, base) = [[p EXCEPT !.days = f] EXCEPT !.twins = late]
    BY DEF Lengthened
  <2>5. n <= ask.days => late = FALSE
    BY <1>1, <1>2
  <2> HIDE DEF f, late
  <2>6. q.twins = late
    BY <2>1, <2>4 DEF PlanIn
  <2>7. QED
    BY <2>3, <2>5, <2>6 DEF q
<1>7. QED
  BY <1>5, <1>6

LEMMA RearrangedShared ==
  ASSUME ask \in Request, NEW p \in PlanIn(Items), ~ p.twins, NEW docs \in Seq(Items)
  PROVE  Rearranged(p, docs) \in SharedPlans
<1> DEFINE n == CASE ask.wish = "longer" -> Min({7, Len(p.days) + 1})
                  [] ask.wish = "shorter" -> Max({1, Len(p.days) - 1})
                  [] OTHER -> Min({7, ask.days})
           base == IF Elsewhere THEN Autocorrected(Built(docs, ask.days))
                   ELSE IF ask.wish = "more" /\ n < Len(p.days) THEN p
                   ELSE OfLength(p, n, docs)
           full == IF Elsewhere \/ ask.wish = "more" THEN FilledUp(base, docs)
                   ELSE Autocorrected(Changed(base, docs))
<1>1. Len(p.days) \in Nat \ {0} /\ ask.days \in 1 .. 7 /\ ask.days \in Nat \ {0}
  BY DaysOfPlan DEF Request
<1>2. /\ n \in Nat \ {0}
      /\ ask.wish = "longer" => n <= Len(p.days) + 1
      /\ ask.wish = "shorter" => n <= Len(p.days)
      /\ ask.wish \notin {"longer", "shorter"} => n = ask.days
  <2> DEFINE a == Min({7, Len(p.days) + 1})
             c == Max({1, Len(p.days) - 1})
             e == Min({7, ask.days})
  <2>1. a = IF 7 <= Len(p.days) + 1 THEN 7 ELSE Len(p.days) + 1
    BY <1>1, LesserOfTwo
  <2>2. c = IF 1 >= Len(p.days) - 1 THEN 1 ELSE Len(p.days) - 1
    BY <1>1, GreaterOfTwo
  <2>3. e = IF 7 <= ask.days THEN 7 ELSE ask.days
    BY <1>1, LesserOfTwo
  <2> HIDE DEF a, c, e
  <2>4. /\ a \in Nat \ {0} /\ a <= Len(p.days) + 1
        /\ c \in Nat \ {0} /\ c <= Len(p.days) /\ e = ask.days /\ e \in Nat \ {0}
    <3> DEFINE l == Len(p.days)
               k == ask.days
    <3>1. l \in Nat \ {0} /\ k \in 1 .. 7
      BY <1>1
    <3>2. a = (IF 7 <= l + 1 THEN 7 ELSE l + 1) /\ c = (IF 1 >= l - 1 THEN 1 ELSE l - 1)
      BY <2>1, <2>2
    <3>3. e = IF 7 <= k THEN 7 ELSE k
      BY <2>3
    <3> HIDE DEF l, k
    <3>4. a \in Nat \ {0} /\ a <= l + 1
      BY <3>1, <3>2
    <3>5. c \in Nat \ {0} /\ c <= l
      BY <3>1, <3>2
    <3>6. e = k /\ e \in Nat \ {0}
      BY <3>1, <3>3
    <3>7. QED
      BY <3>4, <3>5, <3>6 DEF l, k
  <2>5. n = IF ask.wish = "longer" THEN a ELSE IF ask.wish = "shorter" THEN c ELSE e
    <3>1. CASE ask.wish = "longer"
      BY <3>1 DEF a
    <3>2. CASE ask.wish = "shorter"
      BY <3>2 DEF c
    <3>3. CASE ask.wish \notin {"longer", "shorter"}
      BY <3>3 DEF e
    <3>4. QED
      BY <3>1, <3>2, <3>3
  <2> HIDE DEF n
  <2>6. QED
    BY <2>4, <2>5
<1>3. Rearranged(p, docs) = full
  BY DEF Rearranged
<1> HIDE DEF n
<1>4. n <= Len(p.days) + 1 \/ n <= ask.days
  <2>1. CASE ask.wish = "longer"
    BY <1>2, <2>1
  <2>2. CASE ask.wish = "shorter"
    BY <1>1, <1>2, <2>2
  <2>3. CASE ask.wish \notin {"longer", "shorter"}
    BY <1>1, <1>2, <2>3
  <2>4. QED
    BY <2>1, <2>2, <2>3
<1> DEFINE fit == OfLength(p, n, docs)
           new == Autocorrected(Built(docs, ask.days))
<1>5. fit \in SharedPlans /\ (n <= ask.days => ~ fit.twins)
  BY <1>2, <1>4, OfLengthShared
<1>6. new \in PlanIn(Items) /\ ~ new.twins
  <2>1. Built(docs, ask.days) \in Shape(FALSE, ask.days)
    BY <1>1, BuiltShape
  <2>2. new \in Shape(FALSE, ask.days)
    BY <2>1, AutocorrectedShape
  <2> HIDE DEF new
  <2>3. QED
    BY <2>2 DEF Shape
<1>7. /\ Elsewhere => base = new
      /\ ~ Elsewhere /\ ask.wish = "more" => base \in {p, fit}
      /\ ~ Elsewhere /\ ask.wish # "more" => base = fit
  OBVIOUS
<1> HIDE DEF fit, new, base
<1>8. ask.wish \notin {"longer", "shorter"} => ~ fit.twins
  BY <1>1, <1>2, <1>5
<1>9. base \in SharedPlans
  <2>1. fit \in SharedPlans /\ new \in SharedPlans /\ p \in SharedPlans
    BY <1>5, <1>6, OwnMealsShared
  <2>2. QED
    BY <1>7, <2>1
<1>10. base \in PlanIn(Items)
  BY <1>9 DEF SharedPlans
<1>11. CASE Elsewhere \/ ask.wish = "more"
  <2>1. ~ base.twins
    BY <1>6, <1>7, <1>8, <1>11
  <2> DEFINE t == base.twins
             l == Len(base.days)
             q == FilledUp(base, docs)
  <2>2. base \in Shape(t, l)
    BY <1>10, InShape
  <2> HIDE DEF t, l
  <2>3. q \in Shape(t, l)
    BY <2>2, FilledUpShape
  <2> HIDE DEF q
  <2>4. q \in PlanIn(Items) /\ ~ q.twins
    BY <2>1, <2>3 DEF Shape, t
  <2>5. q \in SharedPlans
    BY <2>4, OwnMealsShared
  <2>6. QED
    BY <1>3, <1>11, <2>5 DEF q
<1>12. CASE ~ Elsewhere /\ ask.wish # "more"
  <2> DEFINE q == Changed(base, docs)
  <2>1. q \in PlanIn(Items) /\ q.twins = base.twins
    BY <1>10, ChangedTyped, ChangedTwins
  <2>2. CASE base.twins
    <3>1. ask.wish \in {"longer", "shorter"}
      BY <1>7, <1>8, <1>12, <2>2
    <3>2. q = base
      BY <3>1 DEF Changed
    <3>3. QED
      BY <1>3, <1>9, <1>12, <3>2, AutocorrectedShared
  <2>3. CASE ~ base.twins
    <3> HIDE DEF q
    <3>1. q \in SharedPlans
      BY <2>1, <2>3, OwnMealsShared
    <3>2. QED
      BY <1>3, <1>12, <3>1, AutocorrectedShared DEF q
  <2>4. QED
    BY <2>2, <2>3
<1>13. QED
  BY <1>11, <1>12

(* apply_adjustment, whatever the user wishes and however the days come to *)
(* share their meals: its limits come to their end.  The plan it starts    *)
(* from is a stored one or that of the LLM, in which no days share.        *)
THEOREM AdjustmentEnds ==
  ASSUME ask \in Request, ask.budget # 0, NEW p \in PlanIn(Items), ~ p.twins,
         NEW docs \in Seq(Items)
  PROVE  \E end \in SharedPlans : Settled(end) /\ Adjusted(p, docs) = Autocorrected(end)
<1> DEFINE full == Rearranged(p, docs)
<1>1. full \in SharedPlans
  BY RearrangedShared
<1>2. Adjusted(p, docs) = Limited(full, docs)
  BY DEF Adjusted, Rearranged
<1> HIDE DEF full
<1>3. QED
  BY <1>1, <1>2, BudgetLoopEnds

-----------------------------------------------------------------------------
(* The inductive invariant.                                                *)
Asked ==
  /\ ask \in Requests /\ found \in Findings /\ draft \in Drafts
  /\ stage \in Stages

(* Only who wants a new plan starts without days.                          *)
HasDays == (stage = "draft" /\ ask.wish = "new") \/ plan \in PlanIn(Items)

(* Once it was removed by force, what the user does not want is out.       *)
Late == {"live", "reflect", "prices", "stored"}

StaysOut ==
  stage \in Late /\ ask.wish = "remove" /\ ask.minimum = 0 => plan \in PlanIn(Items \ ask.gone)

Says == Stored => CostsSaid(plan)

PlanInv == PlanTypeOK /\ Asked /\ HasDays /\ StaysOut /\ Says

(* The request, the findings and the draft are what PlanAssumption says.   *)
LEMMA AskedTyped ==
  ASSUME Asked
  PROVE  ask \in Request /\ found \in Seq(Items) /\ draft \in Seq(DayIn(Items))
<1>1. Requests \subseteq Request /\ Findings \subseteq Seq(Items) /\ Drafts \subseteq Seq(Day)
  BY PlanAssumption
<1>2. QED
  BY <1>1, AnyDays DEF Asked

(* Those plans are the plans of the model.                                 *)
LEMMA PlansTyped == PlanIn(Items) \subseteq Plan
BY AnyDays DEF PlanIn, Plan

(* The invariant holds at first.                                           *)
LEMMA PlanInitInv == PlanInit => PlanInv
<1> SUFFICES ASSUME PlanInit PROVE PlanInv
  OBVIOUS
<1>1. Asked /\ ask \in Request /\ found \in Seq(Items)
  BY AskedTyped DEF PlanInit, Asked, Stages
<1>2. PICK days \in (IF ask.wish = "new" THEN {<< >>} ELSE Existing) :
        \E hotel \in {0, Nights(days) * RoomNight} : plan = [StoredPlan(days) EXCEPT !.hotel = hotel]
  BY DEF PlanInit
<1>3. PICK hotel \in {0, Nights(days) * RoomNight} : plan = [StoredPlan(days) EXCEPT !.hotel = hotel]
  BY <1>2
<1>4. days \in Seq(DayIn(Items)) /\ (ask.wish # "new" => days # << >>)
  <2>1. Existing \subseteq Seq(DayIn(Items)) \ {<< >>}
    BY PlanAssumption, AnyDays
  <2>2. << >> \in Seq(DayIn(Items))
    OBVIOUS
  <2>3. QED
    BY <1>2, <2>1, <2>2
<1>5. hotel \in Nat
  BY <1>3, <1>4, NightsCost
<1>6. ask.wish # "new" => plan \in PlanIn(Items)
  BY <1>3, <1>4, <1>5, StoredPlanTyped, HotelReplaced
<1>7. plan \in Plan
  <2>1. Cost \in [Items -> Int]
    BY PlanAssumption
  <2>2. days \in Seq(Day)
    BY <1>4, AnyDays
  <2> DEFINE D == Seq(Day)
  <2> HIDE DEF D
  <2>3. StoredPlan(days) \in [days : D, price : [Items -> Int], total : Int, hotel : Nat,
                              told : BOOLEAN, twins : BOOLEAN]
    BY <2>1, <2>2 DEF StoredPlan, D
  <2>4. plan \in [days : D, price : [Items -> Int], total : Int, hotel : Nat,
                  told : BOOLEAN, twins : BOOLEAN]
    BY <1>3, <1>5, <2>3
  <2>5. QED
    BY <2>4 DEF Plan, D
<1>8. stage = "draft"
  BY DEF PlanInit
<1>9. QED
  BY <1>1, <1>6, <1>7, <1>8 DEF PlanInv, PlanTypeOK, HasDays, StaysOut, Late, Says, Stored, Asked

(* What a step leaves to show: the new plan has its days, is free of what  *)
(* was removed from then on, and says its costs when it is stored.         *)
LEMMA StepInv ==
  ASSUME PlanInv, NEW from, NEW to \in Stages \ {"draft"}, Goes(from, to),
         plan' \in PlanIn(Items),
         to \in Late /\ ask.wish = "remove" /\ ask.minimum = 0 => plan' \in PlanIn(Items \ ask.gone),
         to = "stored" => CostsSaid(plan)'
  PROVE  PlanInv'
<1>1. ask' = ask /\ found' = found /\ draft' = draft /\ stage' = to
  BY DEF Goes
<1>2. Asked'
  BY <1>1 DEF PlanInv, Asked
<1>3. PlanTypeOK'
  BY <1>1, PlansTyped DEF PlanInv, PlanTypeOK
<1>4. HasDays' /\ StaysOut'
  BY <1>1 DEF HasDays, StaysOut
<1>5. Says'
  BY <1>1 DEF Says, Stored
<1>6. QED
  BY <1>2, <1>3, <1>4, <1>5 DEF PlanInv

(* In all that the plan says of its costs, the request counts.             *)
SaidFor(a, p) ==
  LET transport(day) == a.travelers * (IF day.blocks > 0 THEN (day.blocks - 1) * Ride
                                       ELSE IF day.legs > 0 THEN 0 ELSE Fare)
      cost(day) == a.travelers * PricesOf(p.price, day.spots \o day.foods) + transport(day)
  IN /\ p.total = p.hotel + SumOf([d \in DOMAIN p.days |-> cost(p.days[d])])
     /\ a.budget > 0 /\ p.total > a.budget => p.told

(* A step that leaves the request alone leaves what a plan says true.      *)
LEMMA SaidAlike ==
  ASSUME ask' = ask, NEW p, CostsSaid(p), plan' = p
  PROVE  CostsSaid(plan)'
<1>1. SaidFor(ask, p)
  BY DEF CostsSaid, SaidFor, Total, DayCost, Transport, TooDear
<1>2. CostsSaid(plan)' = SaidFor(ask', plan')
  BY DEF CostsSaid, SaidFor, Total, DayCost, Transport, TooDear
<1>3. QED
  BY <1>1, <1>2

(* What is left of the items.                                              *)
LEMMA EmptiedItems == Items \ ask.gone \in SUBSET Items
OBVIOUS

(* The steps that do more than call one stage, each for itself.            *)
LEMMA PlanMade ==
  ASSUME PlanInv, MakePlan
  PROVE  PlanInv'
<1> DEFINE written == Limited(FilledUp(StoredPlan(draft), found), << >>)
           base == IF draft = << >> THEN plan ELSE written
<1>1. /\ ask \in Request /\ found \in Seq(Items) /\ draft \in Seq(DayIn(Items))
      /\ << >> \in Seq(Items)
  BY AskedTyped DEF PlanInv
<1>2. draft # << >> => written \in PlanIn(Items)
  BY <1>1, StoredPlanTyped, FilledUpTyped, LimitedTyped
<1>3. plan' = IF ask.wish # "new" THEN Adjusted(base, found)
              ELSE IF draft = << >> THEN Built(found, ask.days) ELSE written
  BY DEF MakePlan
<1> HIDE DEF written
<1>4. ask.wish # "new" => base \in PlanIn(Items)
  BY <1>2 DEF PlanInv, HasDays
<1> HIDE DEF base
<1>5. ask.wish # "new" => Adjusted(base, found) \in PlanIn(Items)
  BY <1>1, <1>4, AdjustedTyped
<1>6. Built(found, ask.days) \in PlanIn(Items)
  <2>1. ask.days \in Nat \ {0}
    BY <1>1 DEF Request
  <2>2. QED
    BY <1>1, <2>1, BuiltTyped
<1>7. plan' \in PlanIn(Items)
  BY <1>2, <1>3, <1>5, <1>6
<1>8. Goes("draft", "correct") /\ "correct" \in Stages \ ({"draft"} \cup Late)
  BY DEF MakePlan, Stages, Late
<1>9. QED
  BY <1>7, <1>8, StepInv DEF Late

LEMMA PlanWentLive ==
  ASSUME PlanInv, GoLive
  PROVE  PlanInv'
<1>1. ask \in Request /\ found \in Seq(Items)
  BY AskedTyped DEF PlanInv
<1>2. Goes("live", "reflect") /\ "reflect" \in Late /\ "reflect" \in Stages \ {"draft"}
  BY DEF GoLive, Stages, Late
<1>3. stage = "live" /\ plan \in PlanIn(Items)
  BY <1>2 DEF Goes, PlanInv, HasDays
<1>4. PICK forecast \in BOOLEAN, known \in BOOLEAN, x \in Volatile, by \in Rises \cup {0} :
        LET dated == IF forecast THEN Refreshed(plan) ELSE plan
            hotel == IF known /\ Nights(plan.days) > 0 THEN Nights(plan.days) * RoomNight
                     ELSE plan.hotel
            live == [Repriced(dated, x, by) EXCEPT !.hotel = hotel]
        IN plan' = EachDay(Costed(ReachMinimum(live, found)),
                           LAMBDA day : [day EXCEPT !.own = << >>])
  BY DEF GoLive
<1> DEFINE dated == IF forecast THEN Refreshed(plan) ELSE plan
           hotel == IF known /\ Nights(plan.days) > 0 THEN Nights(plan.days) * RoomNight
                    ELSE plan.hotel
<1>5. hotel \in Nat
  <2>1. plan.hotel \in Nat
    BY <1>3 DEF PlanIn
  <2>2. Nights(plan.days) * RoomNight \in Nat
    BY <1>3, DaysOfPlan, NightsCost
  <2>3. QED
    BY <2>1, <2>2
<1>6. plan' = EachDay(Costed(ReachMinimum([Repriced(dated, x, by) EXCEPT !.hotel = hotel], found)),
                      LAMBDA day : [day EXCEPT !.own = << >>])
  BY <1>4
<1> HIDE DEF hotel
<1>7. plan' \in PlanIn(Items)
  <2>1. dated \in PlanIn(Items)
    BY <1>3, RefreshedTyped
  <2> HIDE DEF dated
  <2>2. QED
    BY <1>1, <1>5, <1>6, <2>1, LiveTyped
<1>8. ask.wish = "remove" /\ ask.minimum = 0 => plan' \in PlanIn(Items \ ask.gone)
  <2> SUFFICES ASSUME ask.wish = "remove", ask.minimum = 0
               PROVE  plan' \in PlanIn(Items \ ask.gone)
    OBVIOUS
  <2> DEFINE I == Items \ ask.gone
  <2>1. plan \in PlanIn(I) /\ I \in SUBSET Items
    BY <1>3 DEF PlanInv, StaysOut, Late
  <2> HIDE DEF I
  <2>2. dated \in PlanIn(I)
    BY <2>1, RefreshedTyped
  <2> HIDE DEF dated
  <2>3. plan' \in PlanIn(I)
    BY <1>1, <1>5, <1>6, <2>1, <2>2, LiveTyped
  <2>4. QED
    BY <2>3 DEF I
<1>9. QED
  BY <1>2, <1>7, <1>8, StepInv

LEMMA PlanReflected ==
  ASSUME PlanInv, Reflect
  PROVE  PlanInv'
<1>1. ask \in Request
  BY AskedTyped DEF PlanInv
<1>2. Goes("reflect", "prices") /\ "prices" \in Late /\ "prices" \in Stages \ {"draft"}
  BY DEF Reflect, Stages, Late
<1>3. stage = "reflect" /\ plan \in PlanIn(Items)
  BY <1>2 DEF Goes, PlanInv, HasDays
<1>4. plan' = plan \/ \E long : plan' = Tuned(plan, long)
  BY DEF Reflect
<1>5. plan' \in PlanIn(Items)
  BY <1>1, <1>3, <1>4, TunedTyped
<1>6. ask.wish = "remove" /\ ask.minimum = 0 => plan' \in PlanIn(Items \ ask.gone)
  <2> SUFFICES ASSUME ask.wish = "remove", ask.minimum = 0
               PROVE  plan' \in PlanIn(Items \ ask.gone)
    OBVIOUS
  <2> DEFINE I == Items \ ask.gone
  <2>1. plan \in PlanIn(I) /\ I \in SUBSET Items
    BY <1>3 DEF PlanInv, StaysOut, Late
  <2> HIDE DEF I
  <2>2. plan' \in PlanIn(I)
    BY <1>1, <1>4, <2>1, TunedTyped
  <2>3. QED
    BY <2>2 DEF I
<1>7. QED
  BY <1>2, <1>5, <1>6, StepInv

LEMMA PlanStored ==
  ASSUME PlanInv, PriceAndStore
  PROVE  PlanInv'
<1>1. ask \in Request
  BY AskedTyped DEF PlanInv
<1>2. Goes("prices", "stored") /\ "stored" \in Late /\ "stored" \in Stages \ {"draft"}
  BY DEF PriceAndStore, Stages, Late
<1>3. stage = "prices" /\ plan \in PlanIn(Items)
  BY <1>2 DEF Goes, PlanInv, HasDays
<1>4. PICK q : /\ plan' = Costed(q)
               /\ \/ q = plan
                  \/ \E x \in Volatile, by \in Rises \cup {0} :
                       q = Limited(Costed(Repriced(plan, x, by)), << >>)
  BY DEF PriceAndStore
<1>5. q \in PlanIn(Items)
  BY <1>1, <1>3, <1>4, BookPricesTyped
<1>6. plan' \in PlanIn(Items) /\ CostsSaid(Costed(q))
  BY <1>1, <1>4, <1>5, CostedTyped
<1>7. ask.wish = "remove" /\ ask.minimum = 0 => plan' \in PlanIn(Items \ ask.gone)
  <2> SUFFICES ASSUME ask.wish = "remove", ask.minimum = 0
               PROVE  plan' \in PlanIn(Items \ ask.gone)
    OBVIOUS
  <2> DEFINE I == Items \ ask.gone
  <2>1. plan \in PlanIn(I) /\ I \in SUBSET Items
    BY <1>3 DEF PlanInv, StaysOut, Late
  <2> HIDE DEF I
  <2>2. q \in PlanIn(I)
    BY <1>1, <1>4, <2>1, BookPricesTyped
  <2>3. plan' \in PlanIn(I)
    BY <1>1, <1>4, <2>1, <2>2, CostedTyped
  <2>4. QED
    BY <2>3 DEF I
<1>8. CostsSaid(plan)'
  <2>1. ask' = ask
    BY <1>2 DEF Goes
  <2>2. QED
    BY <1>4, <1>6, <2>1, SaidAlike
<1>9. QED
  BY <1>2, <1>6, <1>7, <1>8, StepInv

(* Every step keeps the invariant.                                         *)
LEMMA PlanInvKept == PlanInv /\ [PlanNext]_planVars => PlanInv'
<1> SUFFICES ASSUME PlanInv, [PlanNext]_planVars PROVE PlanInv'
  OBVIOUS
<1>1. ask \in Request /\ found \in Seq(Items) /\ << >> \in Seq(Items)
  BY AskedTyped DEF PlanInv
<1>2. /\ {"correct", "optimize", "transport", "removals"} \cap Late = {}
      /\ {"correct", "optimize", "transport", "removals", "live"} \subseteq Stages \ {"draft"}
      /\ "live" # "stored" /\ "stored" \in Late
  BY DEF Late, Stages
<1>3. CASE DateOnly
  <2>1. Goes("draft", "live") /\ ask.wish = "date" /\ plan' = Costed(plan)
    BY <1>3 DEF DateOnly
  <2>2. plan \in PlanIn(Items)
    BY <2>1 DEF PlanInv, HasDays
  <2>3. plan' \in PlanIn(Items)
    BY <1>1, <2>1, <2>2, CostedTyped
  <2>4. QED
    BY <1>2, <2>1, <2>3, StepInv
<1>4. CASE MakePlan
  BY <1>4, PlanMade
<1>5. CASE CorrectPlan
  <2>1. Goes("correct", "optimize") /\ plan' = Corrected(plan, found)
    BY <1>5 DEF CorrectPlan
  <2>2. plan \in PlanIn(Items)
    BY <2>1 DEF Goes, PlanInv, HasDays
  <2>3. plan' \in PlanIn(Items)
    BY <1>1, <2>1, <2>2, CorrectedTyped
  <2>4. QED
    BY <1>2, <2>1, <2>3, StepInv
<1>6. CASE OptimizePlan
  <2>1. Goes("optimize", "transport") /\ plan' = Optimized(plan, found)
    BY <1>6 DEF OptimizePlan
  <2>2. plan \in PlanIn(Items)
    BY <2>1 DEF Goes, PlanInv, HasDays
  <2>3. plan' \in PlanIn(Items)
    BY <1>1, <2>1, <2>2, OptimizedTyped
  <2>4. QED
    BY <1>2, <2>1, <2>3, StepInv
<1>7. CASE MergeTransport
  <2>1. /\ Goes("transport", "removals")
        /\ plan' = plan \/ plan' = Limited(Costed(Refreshed(plan)), << >>)
    BY <1>7 DEF MergeTransport
  <2>2. plan \in PlanIn(Items)
    BY <2>1 DEF Goes, PlanInv, HasDays
  <2>3. Limited(Costed(Refreshed(plan)), << >>) \in PlanIn(Items)
    BY <1>1, <2>2, RefreshedTyped, CostedTyped, LimitedTyped
  <2>4. plan' \in PlanIn(Items)
    BY <2>1, <2>2, <2>3
  <2>5. QED
    BY <1>2, <2>1, <2>4, StepInv
<1>8. CASE EnforceRemovals
  <2>1. Goes("removals", "live") /\ plan' = IF ask.wish = "remove" THEN ForcedOut(plan) ELSE plan
    BY <1>8 DEF EnforceRemovals
  <2>2. plan \in PlanIn(Items)
    BY <2>1 DEF Goes, PlanInv, HasDays
  <2>3. ForcedOut(plan) \in PlanIn(Items \ ask.gone)
    BY <1>1, <2>2, ForcedOutTyped
  <2>4. ForcedOut(plan) \in PlanIn(Items)
    BY <2>3, EmptiedItems, MoreItems
  <2>5. /\ plan' \in PlanIn(Items)
        /\ ask.wish = "remove" => plan' \in PlanIn(Items \ ask.gone)
    BY <2>1, <2>2, <2>3, <2>4
  <2>6. QED
    BY <1>2, <2>1, <2>5, StepInv
<1>9. CASE GoLive
  BY <1>9, PlanWentLive
<1>10. CASE Reflect
  BY <1>10, PlanReflected
<1>11. CASE PriceAndStore
  BY <1>11, PlanStored
<1>12. CASE UNCHANGED planVars
  <2>1. ask' = ask /\ found' = found /\ draft' = draft /\ plan' = plan /\ stage' = stage
    BY <1>12 DEF planVars
  <2>2. Stored => CostsSaid(plan)'
    BY <2>1, SaidAlike DEF PlanInv, Says
  <2>3. (PlanTypeOK /\ Asked /\ HasDays /\ StaysOut)'
    BY <2>1 DEF PlanInv, PlanTypeOK, Asked, HasDays, StaysOut
  <2>4. Says'
    BY <2>1, <2>2 DEF Says, Stored
  <2>5. QED
    BY <2>3, <2>4 DEF PlanInv
<1>13. QED
  BY <1>3, <1>4, <1>5, <1>6, <1>7, <1>8, <1>9, <1>10, <1>11, <1>12 DEF PlanNext

(* So it always holds.                                                     *)
LEMMA PlanInvHolds == PlanSpec => []PlanInv
<1>1. PlanInit => PlanInv
  BY PlanInitInv
<1>2. PlanInv /\ [PlanNext]_planVars => PlanInv'
  BY PlanInvKept
<1>3. QED
  BY <1>1, <1>2, PTL DEF PlanSpec

(* Type correctness: whatever is filled up, dropped or added on the way,   *)
(* the result is a plan.                                                   *)
THEOREM PlanTypeCorrect == PlanSpec => []PlanTypeOK
<1>1. PlanInv => PlanTypeOK
  BY DEF PlanInv
<1>2. QED
  BY <1>1, PlanInvHolds, PTL

(* A trip that is stored says what it costs, and that this is too much if  *)
(* it is (_recompute_costs as the last step of every way to the row).      *)
THEOREM BudgetIsTold == PlanSpec => []BudgetTold
<1>1. PlanInv => BudgetTold
  BY DEF PlanInv, Says, CostsSaid, BudgetTold
<1>2. QED
  BY <1>1, PlanInvHolds, PTL

(* What is removed by force stays out of the trip that is stored, as long  *)
(* as no minimum spend is asked for: after _enforce_removals nothing else  *)
(* adds to a plan.                                                         *)
THEOREM RemovalsHold == PlanSpec => []RemovalHolds
<1>1. ASSUME PlanInv PROVE RemovalHolds
  <2>1. SUFFICES ASSUME Stored, ask.wish = "remove", ask.minimum = 0
                 PROVE  InPlan(plan) \cap ask.gone = {}
    BY DEF RemovalHolds
  <2> DEFINE I == Items \ ask.gone
  <2>2. plan \in PlanIn(I)
    BY <1>1, <2>1 DEF PlanInv, StaysOut, Stored, Late
  <2>3. I \cap ask.gone = {}
    OBVIOUS
  <2> HIDE DEF I
  <2>4. \A d \in DOMAIN plan.days : plan.days[d] \in DayIn(I)
    BY <2>2, DaysOfPlan
  <2>5. ASSUME NEW d \in DOMAIN plan.days
        PROVE  ToSet(plan.days[d].spots) \subseteq I /\ ToSet(plan.days[d].foods) \subseteq I
    <3>1. plan.days[d].spots \in Seq(I) /\ plan.days[d].foods \in Seq(I)
      BY <2>4 DEF DayIn
    <3>2. QED
      BY <3>1, ElementsFinite
  <2>6. InPlan(plan) \subseteq I
    BY <2>5, Zenon DEF InPlan
  <2>7. QED
    BY <2>3, <2>6
<1>2. QED
  BY <1>1, PlanInvHolds, PTL

(* Two days share one list of meals only between the adjustment and        *)
(* _correct_plan.                                                          *)
OwnMeals == stage # "correct" => ~ plan.twins

LEMMA OwnMealsAtFirst == PlanInit => OwnMeals
<1> SUFFICES ASSUME PlanInit PROVE ~ plan.twins
  BY DEF OwnMeals
<1>1. PICK days \in (IF ask.wish = "new" THEN {<< >>} ELSE Existing) :
        \E hotel \in {0, Nights(days) * RoomNight} : plan = [StoredPlan(days) EXCEPT !.hotel = hotel]
  BY DEF PlanInit
<1>2. PICK hotel : plan = [StoredPlan(days) EXCEPT !.hotel = hotel]
  BY <1>1
<1>3. StoredPlan(days).twins = FALSE /\ DOMAIN StoredPlan(days) = {"days", "price", "total", "hotel", "told", "twins"}
  BY DEF StoredPlan
<1>4. QED
  BY <1>2, <1>3

(* How live prices leave a plan.                                           *)
LEMMA WentLive ==
  ASSUME PlanInv, OwnMeals, GoLive
  PROVE  /\ stage' = "reflect" /\ ~ plan'.twins
         /\ MinimumAskedFor /\ Len(found) + Len(Corpus) <= 30 => Reached(plan')
<1>1. ask \in Request /\ found \in Seq(Items)
  BY AskedTyped DEF PlanInv
<1>2. stage = "live" /\ stage' = "reflect" /\ plan \in PlanIn(Items) /\ ~ plan.twins
  BY DEF GoLive, Goes, PlanInv, HasDays, OwnMeals
<1>3. PICK forecast \in BOOLEAN, known \in BOOLEAN, x \in Volatile, by \in Rises \cup {0} :
        LET dated == IF forecast THEN Refreshed(plan) ELSE plan
            hotel == IF known /\ Nights(plan.days) > 0 THEN Nights(plan.days) * RoomNight
                     ELSE plan.hotel
            live == [Repriced(dated, x, by) EXCEPT !.hotel = hotel]
        IN plan' = EachDay(Costed(ReachMinimum(live, found)),
                           LAMBDA day : [day EXCEPT !.own = << >>])
  BY DEF GoLive
<1> DEFINE dated == IF forecast THEN Refreshed(plan) ELSE plan
           hotel == IF known /\ Nights(plan.days) > 0 THEN Nights(plan.days) * RoomNight
                    ELSE plan.hotel
<1>4. hotel \in Nat
  <2>1. plan.hotel \in Nat
    BY <1>2 DEF PlanIn
  <2>2. Nights(plan.days) * RoomNight \in Nat
    BY <1>2, DaysOfPlan, NightsCost
  <2>3. QED
    BY <2>1, <2>2
<1>5. plan' = EachDay(Costed(ReachMinimum([Repriced(dated, x, by) EXCEPT !.hotel = hotel], found)),
                      LAMBDA day : [day EXCEPT !.own = << >>])
  BY <1>3
<1> HIDE DEF hotel
<1>6. dated \in PlanIn(Items) /\ ~ dated.twins
  <2>1. dated \in PlanIn(Items)
    BY <1>2, RefreshedTyped
  <2>2. Refreshed(plan).twins = plan.twins
    BY <1>2 DEF Refreshed, EachDay, PlanIn
  <2>3. QED
    BY <1>2, <2>1, <2>2
<1> HIDE DEF dated
<1>7. QED
  BY <1>1, <1>2, <1>4, <1>5, <1>6, LiveReaches

(* How the tuning leaves it.                                               *)
LEMMA WasReflected ==
  ASSUME PlanInv, OwnMeals, Reflect
  PROVE  /\ stage' = "prices" /\ ~ plan'.twins
         /\ /\ MinimumAskedFor /\ Len(found) + Len(Corpus) <= 30 /\ Reached(plan)
            /\ ask.budget > 0 => ask.travelers = 1 /\ Steady(plan)
            => Reached(plan')
<1>1. ask \in Request /\ found \in Seq(Items)
  BY AskedTyped DEF PlanInv
<1>2. stage = "reflect" /\ stage' = "prices" /\ plan \in PlanIn(Items) /\ ~ plan.twins
  BY DEF Reflect, Goes, PlanInv, HasDays, OwnMeals
<1>3. plan' = plan \/ \E long : plan' = Tuned(plan, long)
  BY DEF Reflect
<1>4. QED
  BY <1>1, <1>2, <1>3, TunedReaches

(* And how it is stored.                                                   *)
LEMMA WasStored ==
  ASSUME PlanInv, OwnMeals, PriceAndStore
  PROVE  /\ stage' = "stored" /\ ~ plan'.twins
         /\ /\ MinimumAskedFor /\ Len(found) + Len(Corpus) <= 30 /\ Reached(plan)
            /\ ask.budget > 0 => ask.travelers = 1 /\ Steady(plan)
            => Reached(plan')
<1>1. ask \in Request /\ found \in Seq(Items)
  BY AskedTyped DEF PlanInv
<1>2. stage = "prices" /\ stage' = "stored" /\ plan \in PlanIn(Items) /\ ~ plan.twins
  BY DEF PriceAndStore, Goes, PlanInv, HasDays, OwnMeals
<1>3. \/ plan' = Costed(plan)
      \/ \E x \in Volatile, by \in Rises \cup {0} :
           plan' = Costed(Limited(Costed(Repriced(plan, x, by)), << >>))
  BY DEF PriceAndStore
<1>4. CASE plan' = Costed(plan)
  <2> DEFINE q == Costed(plan)
  <2>1. q.twins = plan.twins /\ Reached(q) = Reached(plan)
    BY <1>2, CostedKeeps
  <2> HIDE DEF q
  <2>2. plan' = q
    BY <1>4 DEF q
  <2>3. QED
    BY <1>2, <2>1, <2>2
<1>5. CASE \E x \in Volatile, by \in Rises \cup {0} :
             plan' = Costed(Limited(Costed(Repriced(plan, x, by)), << >>))
  BY <1>1, <1>2, <1>5, BookReaches
<1>6. QED
  BY <1>3, <1>4, <1>5

LEMMA OwnMealsKept == PlanInv /\ OwnMeals /\ [PlanNext]_planVars => OwnMeals'
<1> SUFFICES ASSUME PlanInv, OwnMeals, [PlanNext]_planVars PROVE OwnMeals'
  OBVIOUS
<1>1. ask \in Request /\ found \in Seq(Items)
  BY AskedTyped DEF PlanInv
<1>2. CASE DateOnly
  <2>1. plan' = Costed(plan) /\ plan \in PlanIn(Items) /\ ~ plan.twins
    BY <1>2 DEF DateOnly, Goes, PlanInv, HasDays, OwnMeals
  <2> DEFINE q == Costed(plan)
  <2>2. q.twins = plan.twins
    BY <2>1, CostedKeeps
  <2> HIDE DEF q
  <2>3. plan' = q
    BY <2>1 DEF q
  <2>4. QED
    BY <2>1, <2>2, <2>3 DEF OwnMeals
<1>3. CASE MakePlan
  BY <1>3 DEF MakePlan, Goes, OwnMeals
<1>4. CASE CorrectPlan
  <2>1. plan' = Corrected(plan, found) /\ plan \in PlanIn(Items)
    BY <1>4 DEF CorrectPlan, Goes, PlanInv, HasDays
  <2>2. QED
    BY <1>1, <2>1, CorrectedNoTwins DEF OwnMeals
<1>5. CASE OptimizePlan
  <2>1. plan' = Optimized(plan, found) /\ plan \in PlanIn(Items) /\ ~ plan.twins
    BY <1>5 DEF OptimizePlan, Goes, PlanInv, HasDays, OwnMeals
  <2>2. QED
    BY <1>1, <2>1, OptimizedNoTwins DEF OwnMeals
<1>6. CASE MergeTransport
  <2>1. /\ plan \in PlanIn(Items) /\ ~ plan.twins
        /\ plan' = plan \/ plan' = Limited(Costed(Refreshed(plan)), << >>)
    BY <1>6 DEF MergeTransport, Goes, PlanInv, HasDays, OwnMeals
  <2>2. QED
    BY <1>1, <2>1, MergedNoTwins DEF OwnMeals
<1>7. CASE EnforceRemovals
  <2>1. /\ plan \in PlanIn(Items) /\ ~ plan.twins
        /\ plan' = IF ask.wish = "remove" THEN ForcedOut(plan) ELSE plan
    BY <1>7 DEF EnforceRemovals, Goes, PlanInv, HasDays, OwnMeals
  <2>2. QED
    BY <1>1, <2>1, ForcedOutNoTwins DEF OwnMeals
<1>8. CASE GoLive
  BY <1>8, WentLive DEF OwnMeals
<1>9. CASE Reflect
  BY <1>9, WasReflected DEF OwnMeals
<1>10. CASE PriceAndStore
  BY <1>10, WasStored DEF OwnMeals
<1>11. CASE UNCHANGED planVars
  BY <1>11 DEF planVars, OwnMeals
<1>12. QED
  BY <1>2, <1>3, <1>4, <1>5, <1>6, <1>7, <1>8, <1>9, <1>10, <1>11 DEF PlanNext

(* Outside the step from the adjustment to _correct_plan no two days share *)
(* one list of meals: what is added to a day or dropped from it is added   *)
(* or dropped there alone, and _recompute_costs counts it once.            *)
THEOREM DaysHaveTheirOwnMeals == PlanSpec => []OwnMeals
<1>1. PlanInit => OwnMeals
  BY OwnMealsAtFirst
<1>2. PlanInv /\ OwnMeals /\ [PlanNext]_planVars => OwnMeals'
  BY OwnMealsKept
<1>3. QED
  BY <1>1, <1>2, PlanInvHolds, PTL DEF PlanSpec

LEMMA MinimumStep ==
  PlanInv /\ OwnMeals /\ [PlanNext]_planVars =>
    [MinimumAskedFor /\ Len(found) + Len(Corpus) <= 30 =>
       /\ stage' = "reflect" => Reached(plan')
       /\ /\ stage' \in {"prices", "stored"} /\ Reached(plan)
          /\ ask.budget > 0 => ask.travelers = 1 /\ Steady(plan)
          => Reached(plan')]_planVars
<1> SUFFICES ASSUME PlanInv, OwnMeals, PlanNext, MinimumAskedFor, Len(found) + Len(Corpus) <= 30
             PROVE  /\ stage' = "reflect" => Reached(plan')
                    /\ /\ stage' \in {"prices", "stored"} /\ Reached(plan)
                       /\ ask.budget > 0 => ask.travelers = 1 /\ Steady(plan)
                       => Reached(plan')
  OBVIOUS
<1>1. CASE GoLive
  BY <1>1, WentLive
<1>2. CASE Reflect
  BY <1>2, WasReflected
<1>3. CASE PriceAndStore
  BY <1>3, WasStored
<1>4. CASE DateOnly \/ MakePlan \/ CorrectPlan \/ OptimizePlan \/ MergeTransport \/ EnforceRemovals
  <2>1. stage' \in {"live", "correct", "optimize", "transport", "removals"}
    BY <1>4 DEF DateOnly, MakePlan, CorrectPlan, OptimizePlan, MergeTransport, EnforceRemovals, Goes
  <2>2. QED
    BY <2>1
<1>5. QED
  BY <1>1, <1>2, <1>3, <1>4 DEF PlanNext

(* With live prices the minimum is reached, by as many of the thirty steps *)
(* of _enforce_min_spend as there is something new to add; the tuning and  *)
(* the prices of the book do not undo it, nor does the budget, for one     *)
(* traveller and a steady plan: what may go leaves the minimum.            *)
THEOREM MinimumIsKept == PlanSpec => MinimumKept
<1>1. PlanInv /\ OwnMeals /\ [PlanNext]_planVars =>
        [MinimumAskedFor /\ Len(found) + Len(Corpus) <= 30 =>
           /\ stage' = "reflect" => Reached(plan')
           /\ /\ stage' \in {"prices", "stored"} /\ Reached(plan)
              /\ ask.budget > 0 => ask.travelers = 1 /\ Steady(plan)
              => Reached(plan')]_planVars
  BY MinimumStep
<1>2. QED
  BY <1>1, PlanInvHolds, DaysHaveTheirOwnMeals, PTL DEF PlanSpec, MinimumKept

=============================================================================
