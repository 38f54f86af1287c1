--------------------------- MODULE ItineraryProofs ---------------------------
(***************************************************************************)
(* What TLAPS proves about DayTimeline, for any places, opening hours,     *)
(* ways between places, days and agendas: the entries of a day that is     *)
(* drawn up follow each other, by the agenda of the model or without it.   *)
(***************************************************************************)
EXTENDS DayTimeline, FiniteSetTheorems, SequenceTheorems, SequenceFacts

Places == Sights \cup Kitchens
Stops == Places \cup {Nowhere}

(* An entry that an agenda may have, and one of a timeline.                *)
Note == [clock : Nat, kind : STRING, title : STRING, minutes : Int]
Line == [kind : {"attraction", "food", "rest", "ride", "hotel_return"},
         place : Stops, from : Stops, start : Nat, end : Nat]

DayState == [entries : Seq(Line), until : Nat, at : Stops, full : BOOLEAN]

TypedDay ==
  /\ today \in [sights : Seq(Sights), kitchens : Seq(Kitchens)]
  /\ way \in [Places \X Places -> [leg : BOOLEAN, minutes : Nat, tenths : Nat]]
  /\ agenda \in Seq(Note)

LEMMA BetweenIsNat ==
  ASSUME NEW low \in Nat, NEW n \in Int, NEW high \in Nat
  PROVE  Between(low, n, high) \in Nat /\ Between(low, n, high) >= low
<1>1. Min({n, high}) = IF n <= high THEN n ELSE high
  BY LesserOfTwo
<1>2. Min({n, high}) \in Int
  BY <1>1
<1>3. Max({low, Min({n, high})}) = IF low >= Min({n, high}) THEN low ELSE Min({n, high})
  BY <1>2, GreaterOfTwo
<1>4. QED
  BY <1>2, <1>3 DEF Between

LEMMA SortedKeeps ==
  ASSUME NEW s \in Seq(Note), NEW e \in Note
  PROVE  Sorted(s, e) \in Seq(Note)
<1> DEFINE I == {i \in DOMAIN s : s[i].clock <= e.clock}
           k == 1 + Cardinality(I)
           m == IF e.minutes = 0 THEN CASE e.kind = "food" -> 55 [] e.kind = "attraction" -> 120 [] OTHER -> 30 ELSE e.minutes
           w == [e EXCEPT !.minutes = Between(20, m, 240)]
<1>1. m \in Int
  BY DEF Note
<1> HIDE DEF m
<1>2. Between(20, m, 240) \in Int
  <2>1. Between(20, m, 240) \in Nat
    BY <1>1, BetweenIsNat
  <2>2. QED
    BY <2>1
<1>3. w \in Note
  BY <1>2 DEF Note
<1>4. IsFiniteSet(I) /\ Cardinality(I) \in Nat /\ Cardinality(I) <= Len(s)
  <2>1. Len(s) \in Nat /\ I \subseteq 1 .. Len(s)
    OBVIOUS
  <2>2. IsFiniteSet(1 .. Len(s)) /\ Cardinality(1 .. Len(s)) = Len(s)
    BY <2>1, FS_Interval
  <2>3. QED
    BY <2>1, <2>2, FS_Subset, FS_CardinalityType
<1> HIDE DEF w
<1>5. k \in Nat /\ 1 <= k /\ k <= Len(s) + 1
  BY <1>4
<1>6. Sorted(s, e) = SubSeq(s, 1, k - 1) \o <<w>> \o SubSeq(s, k, Len(s))
  BY DEF Sorted, WithLength, InsertAt, w, m
<1> HIDE DEF k
<1>7. SubSeq(s, 1, k - 1) \in Seq(Note) /\ SubSeq(s, k, Len(s)) \in Seq(Note) /\ <<w>> \in Seq(Note)
  BY <1>3, <1>5
<1>8. QED
  BY <1>6, <1>7

LEMMA NormalizedTyped ==
  ASSUME NEW notes \in Seq(Note)
  PROVE  Normalized(notes) \in Seq(Note)
<1> DEFINE s == Chosen(notes, Usable)
           X == Seq(Note)
           b == Len(s)
           empty == << >>
           G == [p \in (1 .. b) \X X |-> Sorted(p[2], s[p[1]])]
           F(it) == [S \in SUBSET DOMAIN s |->
                       IF S = {} THEN empty ELSE Sorted(it[S \ {Max(S)}], s[Max(S)])]
           it == CHOOSE it : it = F(it)
<1>1. Normalized(notes) = it[DOMAIN s]
  BY DEF Normalized, FoldLeft, MapThenFoldSet
<1>2. s \in Seq(Note)
  BY PickedPlaces DEF Chosen
<1> HIDE DEF s
<1>3. b \in Nat /\ DOMAIN s = 1 .. b /\ \A n \in 1 .. b : s[n] \in Note
  BY <1>2
<1>4. \A n \in 1 .. b : \A x \in X : Sorted(x, s[n]) \in X
  BY <1>3, SortedKeeps
<1>5. empty \in X
  OBVIOUS
<1> HIDE DEF X, empty, b
<1>6. \A n \in 1 .. b : \A x \in X : G[<<n, x>>] = Sorted(x, s[n])
  OBVIOUS
<1>7. G \in StepFunctions(b, X)
  BY <1>4 DEF StepFunctions
<1> HIDE DEF G
<1>8. PICK g \in [SUBSET (1 .. b) -> X] : Folds(g, b, empty, G)
  BY <1>3, <1>5, <1>7, FoldRecursion
<1>9. \A S \in SUBSET (1 .. b) : S # {} => Max(S) \in 1 .. b /\ S \ {Max(S)} \in SUBSET (1 .. b)
  BY <1>3, LastOfMany
<1>10. g = F(g)
  <2>1. \A S \in SUBSET (1 .. b) : S # {} => g[S] = Sorted(g[S \ {Max(S)}], s[Max(S)])
    BY <1>6, <1>8, <1>9 DEF Folds
  <2>2. \A S \in SUBSET (1 .. b) : g[S] = F(g)[S]
    BY <1>3, <1>8, <2>1 DEF Folds
  <2>3. QED
    BY <1>3, <1>8, <2>2
<1>11. it = F(it)
  BY <1>10
<1> HIDE DEF it
<1>12. FoldsIn(it, b, X, empty, G)
  <2>1. \A S \in SUBSET (1 .. b) : it[S] = F(it)[S]
    BY <1>11
  <2>2. it[{}] = empty
    BY <1>3, <1>11
  <2>3. \A S \in SUBSET (1 .. b) : S # {} => it[S] = Sorted(it[S \ {Max(S)}], s[Max(S)])
    BY <1>3, <1>11
  <2>4. QED
    BY <1>6, <1>9, <2>2, <2>3 DEF FoldsIn
<1>13. EndsIn(it, b, X, G)
  BY <1>3, <1>5, <1>7, <1>12, FoldStays
<1>14. QED
  BY <1>1, <1>3, <1>13 DEF X, EndsIn

-----------------------------------------------------------------------------
(* Rides, and entries that are added to a timeline.                        *)

LEMMA RideTimeIsNat ==
  ASSUME TypedDay, NEW from \in Places, NEW to \in Places
  PROVE  RideTime(from, to) \in Nat
<1> DEFINE w == way[<<from, to>>]
<1>1. w.leg \in BOOLEAN /\ w.minutes \in Nat /\ w.tenths \in Nat
  <2>1. <<from, to>> \in Places \X Places
    OBVIOUS
  <2>2. w \in [leg : BOOLEAN, minutes : Nat, tenths : Nat]
    BY <2>1 DEF TypedDay
  <2>3. QED
    BY <2>2
<1> HIDE DEF w
<1>2. \A a \in Nat, b \in Nat : Max({a, b}) \in Nat
  BY GreaterOfTwo
<1>3. /\ (6 * w.tenths) \div 5 \in Nat /\ (2 * w.tenths) \div 5 \in Nat
      /\ (6 * w.tenths + 250) \div 25 \in Nat /\ (3 * w.tenths + 160) \div 20 \in Nat
  BY <1>1
<1>4. /\ Max({8, (6 * w.tenths) \div 5}) \in Nat /\ Max({10, (2 * w.tenths) \div 5}) \in Nat
      /\ Max({15, (6 * w.tenths + 250) \div 25}) \in Nat
      /\ Max({20, (3 * w.tenths + 160) \div 20}) \in Nat
  BY <1>2, <1>3
<1>5. QED
  BY <1>1, <1>4 DEF RideTime, w

Visits(e) == e.kind \in {"attraction", "food"}

InOrder(t) == \A i, j \in DOMAIN t : i < j => t[i].end <= t[j].start

IsRide(e, from, to) ==
  e.kind = "ride" /\ e.from = from /\ e.place = to /\ e.end - e.start = RideTime(from, to)

(* Between two visits with none in between there is the ride from the one  *)
(* to the other.                                                           *)
Linked(t) ==
  \A i, j \in DOMAIN t :
    /\ i < j /\ Visits(t[i]) /\ Visits(t[j])
    /\ \A k \in DOMAIN t : i < k /\ k < j => ~Visits(t[k])
    => \E k \in DOMAIN t : i < k /\ k < j /\ IsRide(t[k], t[i].place, t[j].place)

InTime(e) ==
  /\ Visits(e) => e.start < Night /\ e.place \in TodaysPlaces
  /\ e.kind # "ride" => e.start <= Night

Followable(t) ==
  /\ t \in Seq(Line)
  /\ InOrder(t)
  /\ Linked(t)
  /\ \A i \in DOMAIN t : InTime(t[i])

OverBy(t, u) == \A i \in DOMAIN t : t[i].end <= u

(* at is where the last visit was.                                         *)
LeadsTo(t, at) ==
  IF at = Nowhere THEN \A i \in DOMAIN t : ~Visits(t[i])
  ELSE \E i \in DOMAIN t : /\ Visits(t[i]) /\ t[i].place = at
                           /\ \A j \in DOMAIN t : j > i => ~Visits(t[j])

(* What is no visit may always be added, if it begins when all is over.    *)
LEMMA LineMore ==
  ASSUME NEW t, Followable(t), NEW u \in Nat, OverBy(t, u), NEW at, LeadsTo(t, at),
         NEW e \in Line, ~Visits(e), u <= e.start, e.kind # "ride" => e.start <= Night
  PROVE  /\ Followable(Append(t, e))
         /\ LeadsTo(Append(t, e), at)
         /\ \A v \in Nat : u <= v /\ e.end <= v => OverBy(Append(t, e), v)
<1> DEFINE q == Append(t, e)
           n == Len(t)
<1>1. t \in Seq(Line) /\ InOrder(t) /\ Linked(t) /\ \A i \in DOMAIN t : InTime(t[i])
  BY DEF Followable
<1>2. n \in Nat /\ DOMAIN t = 1 .. n /\ q \in Seq(Line) /\ DOMAIN q = 1 .. n + 1
  BY <1>1
<1>3. q[n + 1] = e /\ \A i \in 1 .. n : q[i] = t[i]
  BY <1>1
<1> HIDE DEF q, n
<1>4. \A i \in 1 .. n + 1 : i = n + 1 \/ i \in 1 .. n
  BY <1>2
<1>5. \A i \in 1 .. n : t[i].end \in Nat /\ t[i].start \in Nat /\ t[i].end <= u
  <2>1. \A i \in 1 .. n : t[i] \in Line
    BY <1>1, <1>2
  <2>2. \A i \in 1 .. n : t[i].end <= u
    BY <1>2 DEF OverBy
  <2>3. QED
    BY <2>1, <2>2 DEF Line
<1>6. e.start \in Nat /\ e.end \in Nat
  BY DEF Line
<1>7. InOrder(q)
  <2> SUFFICES ASSUME NEW i \in 1 .. n + 1, NEW j \in 1 .. n + 1, i < j
               PROVE  q[i].end <= q[j].start
    BY <1>2 DEF InOrder
  <2>1. i \in 1 .. n /\ q[i] = t[i]
    BY <1>2, <1>3
  <2>2. CASE j = n + 1
    BY <1>3, <1>5, <1>6, <2>1, <2>2
  <2>3. CASE j \in 1 .. n
    BY <1>1, <1>2, <1>3, <2>1, <2>3 DEF InOrder
  <2>4. QED
    BY <1>4, <2>2, <2>3
<1>8. Linked(q)
  <2> SUFFICES ASSUME NEW i \in 1 .. n + 1, NEW j \in 1 .. n + 1, i < j,
                      Visits(q[i]), Visits(q[j]),
                      \A k \in 1 .. n + 1 : i < k /\ k < j => ~Visits(q[k])
               PROVE  \E k \in 1 .. n + 1 :
                        i < k /\ k < j /\ IsRide(q[k], q[i].place, q[j].place)
    BY <1>2, Zenon DEF Linked
  <2>1. j \in 1 .. n
    BY <1>3, <1>4
  <2>2. i \in 1 .. n
    BY <1>2, <2>1
  <2>3. \A k \in 1 .. n : i < k /\ k < j => ~Visits(t[k])
    BY <1>2, <1>3
  <2>4. PICK k \in 1 .. n : i < k /\ k < j /\ IsRide(t[k], t[i].place, t[j].place)
    BY <1>1, <1>2, <1>3, <2>1, <2>2, <2>3, Zenon DEF Linked
  <2>5. k \in 1 .. n + 1
    BY <1>2
  <2>6. QED
    BY <1>3, <2>1, <2>2, <2>4, <2>5
<1>9. \A i \in 1 .. n + 1 : InTime(q[i])
  BY <1>1, <1>2, <1>3, <1>4 DEF InTime
<1>10. LeadsTo(q, at)
  <2>1. CASE at = Nowhere
    BY <1>2, <1>3, <1>4, <2>1 DEF LeadsTo
  <2>2. CASE at # Nowhere
    <3>1. PICK i \in 1 .. n : /\ Visits(t[i]) /\ t[i].place = at
                              /\ \A j \in 1 .. n : j > i => ~Visits(t[j])
      BY <1>2, <2>2, Zenon DEF LeadsTo
    <3>2. i \in 1 .. n + 1 /\ Visits(q[i]) /\ q[i].place = at
      BY <1>2, <1>3, <3>1
    <3>3. \A j \in 1 .. n + 1 : j > i => ~Visits(q[j])
      BY <1>3, <1>4, <3>1
    <3>4. QED
      BY <1>2, <2>2, <3>2, <3>3, Zenon DEF LeadsTo
  <2>3. QED
    BY <2>1, <2>2
<1>11. \A v \in Nat : u <= v /\ e.end <= v => OverBy(q, v)
  <2> SUFFICES ASSUME NEW v \in Nat, u <= v, e.end <= v, NEW i \in 1 .. n + 1
               PROVE  q[i].end <= v
    BY <1>2 DEF OverBy
  <2>1. CASE i = n + 1
    BY <2>1, <1>3
  <2>2. CASE i \in 1 .. n
    BY <2>2, <1>3, <1>5
  <2>3. QED
    BY <1>4, <2>1, <2>2
<1>12. Followable(q)
  BY <1>2, <1>7, <1>8, <1>9 DEF Followable
<1>13. QED
  BY <1>10, <1>11, <1>12 DEF q

(* A visit may be added when the ride to it is in.                         *)
LEMMA VisitMore ==
  ASSUME NEW t, Followable(t), NEW u \in Nat, OverBy(t, u), NEW at, LeadsTo(t, at),
         NEW e \in Line, Visits(e), u <= e.start, e.start < Night, e.place \in TodaysPlaces,
         e.place # Nowhere,
         at # Nowhere => \E k \in DOMAIN t :
           /\ IsRide(t[k], at, e.place)
           /\ \A j \in DOMAIN t : Visits(t[j]) => j < k
  PROVE  /\ Followable(Append(t, e))
         /\ LeadsTo(Append(t, e), e.place)
         /\ \A v \in Nat : u <= v /\ e.end <= v => OverBy(Append(t, e), v)
<1> DEFINE q == Append(t, e)
           n == Len(t)
<1>1. t \in Seq(Line) /\ InOrder(t) /\ Linked(t) /\ \A i \in DOMAIN t : InTime(t[i])
  BY DEF Followable
<1>2. n \in Nat /\ DOMAIN t = 1 .. n /\ q \in Seq(Line) /\ DOMAIN q = 1 .. n + 1
  BY <1>1
<1>3. q[n + 1] = e /\ \A i \in 1 .. n : q[i] = t[i]
  BY <1>1
<1> HIDE DEF q, n
<1>4. \A i \in 1 .. n + 1 : i = n + 1 \/ i \in 1 .. n
  BY <1>2
<1>5. \A i \in 1 .. n : t[i].end \in Nat /\ t[i].start \in Nat /\ t[i].end <= u
  <2>1. \A i \in 1 .. n : t[i] \in Line
    BY <1>1, <1>2
  <2>2. \A i \in 1 .. n : t[i].end <= u
    BY <1>2 DEF OverBy
  <2>3. QED
    BY <2>1, <2>2 DEF Line
<1>6. e.start \in Nat /\ e.end \in Nat
  BY DEF Line
<1>7. InOrder(q)
  <2> SUFFICES ASSUME NEW i \in 1 .. n + 1, NEW j \in 1 .. n + 1, i < j
               PROVE  q[i].end <= q[j].start
    BY <1>2 DEF InOrder
  <2>1. i \in 1 .. n /\ q[i] = t[i]
    BY <1>2, <1>3
  <2>2. CASE j = n + 1
    BY <1>3, <1>5, <1>6, <2>1, <2>2
  <2>3. CASE j \in 1 .. n
    BY <1>1, <1>2, <1>3, <2>1, <2>3 DEF InOrder
  <2>4. QED
    BY <1>4, <2>2, <2>3
<1>8. Linked(q)
  <2> SUFFICES ASSUME NEW i \in 1 .. n + 1, NEW j \in 1 .. n + 1, i < j,
                      Visits(q[i]), Visits(q[j]),
                      \A k \in 1 .. n + 1 : i < k /\ k < j => ~Visits(q[k])
               PROVE  \E k \in 1 .. n + 1 :
                        i < k /\ k < j /\ IsRide(q[k], q[i].place, q[j].place)
    BY <1>2, Zenon DEF Linked
  <2>1. i \in 1 .. n /\ q[i] = t[i]
    BY <1>2, <1>3
  <2>2. CASE j \in 1 .. n
    <3>1. \A k \in 1 .. n : i < k /\ k < j => ~Visits(t[k])
      BY <1>2, <1>3
    <3>2. PICK k \in 1 .. n : i < k /\ k < j /\ IsRide(t[k], t[i].place, t[j].place)
      BY <1>1, <1>2, <1>3, <2>1, <2>2, <3>1, Zenon DEF Linked
    <3>3. k \in 1 .. n + 1
      BY <1>2
    <3>4. QED
      BY <1>3, <2>1, <2>2, <3>2, <3>3
  <2>3. CASE j = n + 1
    <3>1. at # Nowhere
      BY <1>2, <2>1 DEF LeadsTo
    <3>2. PICK m \in 1 .. n : /\ Visits(t[m]) /\ t[m].place = at
                              /\ \A k \in 1 .. n : k > m => ~Visits(t[k])
      BY <1>2, <3>1, Zenon DEF LeadsTo
    <3>3. m = i
      <4>1. ~ (i > m)
        BY <2>1, <3>2
      <4>2. m \in 1 .. n + 1 /\ m < j /\ Visits(q[m])
        BY <1>2, <1>3, <2>3, <3>2
      <4>3. ~ (i < m)
        BY <4>2
      <4>4. QED
        BY <1>2, <4>1, <4>3
    <3>4. PICK k \in 1 .. n : /\ IsRide(t[k], at, e.place)
                              /\ \A l \in 1 .. n : Visits(t[l]) => l < k
      BY <1>2, <3>1, Zenon
    <3>5. i < k /\ k < j /\ k \in 1 .. n + 1 /\ q[k] = t[k]
      BY <1>2, <1>3, <2>1, <2>3, <3>4
    <3>6. q[i].place = at /\ q[j] = e
      BY <1>3, <2>1, <2>3, <3>2, <3>3
    <3>7. QED
      BY <3>4, <3>5, <3>6
  <2>4. QED
    BY <1>4, <2>2, <2>3
<1>9. \A i \in 1 .. n + 1 : InTime(q[i])
  <2>1. InTime(e)
    BY <1>6 DEF InTime, Visits, Night
  <2>2. QED
    BY <1>1, <1>2, <1>3, <1>4, <2>1
<1>10. LeadsTo(q, e.place)
  <2>1. n + 1 \in 1 .. n + 1 /\ Visits(q[n + 1]) /\ q[n + 1].place = e.place
    BY <1>2, <1>3
  <2>2. \A j \in 1 .. n + 1 : ~ (j > n + 1)
    BY <1>2
  <2>3. QED
    BY <1>2, <2>1, <2>2, Zenon DEF LeadsTo
<1>11. \A v \in Nat : u <= v /\ e.end <= v => OverBy(q, v)
  <2> SUFFICES ASSUME NEW v \in Nat, u <= v, e.end <= v, NEW i \in 1 .. n + 1
               PROVE  q[i].end <= v
    BY <1>2 DEF OverBy
  <2>1. CASE i = n + 1
    BY <2>1, <1>3
  <2>2. CASE i \in 1 .. n
    BY <2>2, <1>3, <1>5
  <2>3. QED
    BY <1>4, <2>1, <2>2
<1>12. Followable(q)
  BY <1>2, <1>7, <1>8, <1>9 DEF Followable
<1>13. QED
  BY <1>10, <1>11, <1>12 DEF q

-----------------------------------------------------------------------------
(* Days that can be followed as far as they go.                            *)

GoodDays ==
  {day \in DayState :
     /\ Followable(day.entries)
     /\ OverBy(day.entries, day.until)
     /\ LeadsTo(day.entries, day.at)}

LEMMA PlacesAreSomewhere ==
  ASSUME TypedDay
  PROVE  TodaysPlaces \subseteq Places /\ Nowhere \notin TodaysPlaces /\ Nowhere \notin Places
<1>1. ToSet(today.sights) \subseteq Sights /\ ToSet(today.kitchens) \subseteq Kitchens
  BY DEF TypedDay, ToSet
<1>2. QED
  BY <1>1, DaysAssumption DEF TodaysPlaces, Places, Nowhere

LEMMA RideAdded ==
  ASSUME TypedDay, NEW day \in GoodDays, NEW place \in TodaysPlaces, NEW arrival \in Nat,
         day.until <= arrival,
         day.at # Nowhere => day.until + RideTime(day.at, place) <= arrival
  PROVE  LET t == day.entries \o RideTo(place, day.at, arrival)
         IN /\ Followable(t) /\ OverBy(t, arrival) /\ LeadsTo(t, day.at)
            /\ day.at # Nowhere => \E k \in DOMAIN t :
                 /\ IsRide(t[k], day.at, place)
                 /\ \A j \in DOMAIN t : Visits(t[j]) => j < k
<1> DEFINE s == day.entries
           at == day.at
           u == day.until
<1>1. /\ s \in Seq(Line) /\ u \in Nat /\ at \in Stops
      /\ Followable(s) /\ OverBy(s, u) /\ LeadsTo(s, at)
  BY DEF GoodDays, DayState
<1>2. at # Nowhere => u + RideTime(at, place) <= arrival
  OBVIOUS
<1>3. u <= arrival
  OBVIOUS
<1> SUFFICES LET t == s \o RideTo(place, at, arrival)
             IN /\ Followable(t) /\ OverBy(t, arrival) /\ LeadsTo(t, at)
                /\ at # Nowhere => \E k \in DOMAIN t :
                     /\ IsRide(t[k], at, place)
                     /\ \A j \in DOMAIN t : Visits(t[j]) => j < k
  OBVIOUS
<1> HIDE DEF s, at, u
<1>4. CASE at = Nowhere
  <2>1. s \o RideTo(place, at, arrival) = s
    BY <1>1, <1>4 DEF RideTo
  <2>2. OverBy(s, arrival)
    <3>1. \A i \in DOMAIN s : s[i].end \in Nat
      <4>1. \A i \in DOMAIN s : s[i] \in Line
        BY <1>1
      <4>2. QED
        BY <4>1 DEF Line
    <3>2. QED
      BY <1>1, <1>3, <3>1 DEF OverBy
  <2>3. QED
    BY <1>1, <1>4, <2>1, <2>2
<1>5. CASE at # Nowhere
  <2> DEFINE time == RideTime(at, place)
             e == Entry("ride", place, at, arrival - time, arrival)
             t == Append(s, e)
  <2>1. at \in Places /\ place \in Places /\ at \in Stops /\ place \in Stops
    BY <1>1, <1>5, PlacesAreSomewhere DEF Stops
  <2>2. time \in Nat
    BY <2>1, RideTimeIsNat
  <2>3. s \o RideTo(place, at, arrival) = t
    BY <1>1, <1>5 DEF RideTo
  <2>4. arrival - time \in Nat /\ u <= arrival - time
    BY <1>1, <1>2, <1>5, <2>2
  <2>5. e \in Line /\ e.kind = "ride" /\ e.start = arrival - time /\ e.end = arrival
    BY <2>1, <2>4 DEF Entry, Line
  <2>6. IsRide(e, at, place)
    BY <2>2, <2>5 DEF IsRide, Entry
  <2> HIDE DEF e
  <2>7. ~Visits(e) /\ u <= e.start /\ (e.kind # "ride" => e.start <= Night)
    BY <2>4, <2>5 DEF Visits
  <2>8. /\ Followable(t) /\ LeadsTo(t, at)
        /\ \A v \in Nat : u <= v /\ e.end <= v => OverBy(t, v)
    BY <1>1, <2>5, <2>7, LineMore
  <2>9. OverBy(t, arrival)
    BY <1>3, <2>5, <2>8
  <2>10. /\ Len(s) \in Nat /\ DOMAIN t = 1 .. Len(s) + 1
         /\ t[Len(s) + 1] = e
    BY <1>1
  <2>11. \E k \in DOMAIN t : /\ IsRide(t[k], at, place)
                             /\ \A j \in DOMAIN t : Visits(t[j]) => j < k
    <3>1. \A j \in DOMAIN t : j = Len(s) + 1 \/ j < Len(s) + 1
      BY <2>10
    <3>2. \A j \in DOMAIN t : Visits(t[j]) => j < Len(s) + 1
      BY <2>7, <2>10, <3>1
    <3>3. Len(s) + 1 \in DOMAIN t
      BY <2>10
    <3> HIDE DEF t
    <3>4. QED
      BY <2>6, <2>10, <3>2, <3>3
  <2>12. QED
    BY <2>3, <2>8, <2>9, <2>11
<1>6. QED
  BY <1>4, <1>5

LEMMA RideKeepsGood ==
  ASSUME TypedDay, NEW day \in GoodDays, NEW place \in TodaysPlaces, NEW arrival \in Nat,
         day.until <= arrival,
         day.at # Nowhere => day.until + RideTime(day.at, place) <= arrival
  PROVE  [day EXCEPT !.full = TRUE, !.until = arrival,
                     !.entries = @ \o RideTo(place, day.at, arrival)] \in GoodDays
<1> DEFINE t == day.entries \o RideTo(place, day.at, arrival)
           d == [day EXCEPT !.full = TRUE, !.until = arrival, !.entries = t]
<1>1. Followable(t) /\ OverBy(t, arrival) /\ LeadsTo(t, day.at)
  BY RideAdded
<1> HIDE DEF t
<1>2. t \in Seq(Line)
  BY <1>1 DEF Followable
<1>3. d \in DayState /\ d.entries = t /\ d.until = arrival /\ d.at = day.at
  BY <1>2 DEF GoodDays, DayState
<1> HIDE DEF d
<1>4. d \in GoodDays
  BY <1>1, <1>3 DEF GoodDays
<1>5. QED
  BY <1>4 DEF d, t

LEMMA VisitKeepsGood ==
  ASSUME TypedDay, NEW day \in GoodDays, NEW place \in TodaysPlaces, NEW arrival \in Nat,
         day.until <= arrival,
         day.at # Nowhere => day.until + RideTime(day.at, place) <= arrival,
         NEW kind \in {"attraction", "food"}, NEW start \in Nat, NEW end \in Nat,
         arrival <= start, start < Night, start <= end
  PROVE  [day EXCEPT !.until = end, !.at = place,
                     !.entries = @ \o RideTo(place, day.at, arrival)
                       \o <<Entry(kind, place, Nowhere, start, end)>>] \in GoodDays
<1> DEFINE t == day.entries \o RideTo(place, day.at, arrival)
           e == Entry(kind, place, Nowhere, start, end)
           q == Append(t, e)
           d == [day EXCEPT !.until = end, !.at = place, !.entries = q]
<1>1. /\ Followable(t) /\ OverBy(t, arrival) /\ LeadsTo(t, day.at)
      /\ day.at # Nowhere => \E k \in DOMAIN t :
           /\ IsRide(t[k], day.at, place)
           /\ \A j \in DOMAIN t : Visits(t[j]) => j < k
  BY RideAdded
<1>2. t \in Seq(Line)
  BY <1>1 DEF Followable
<1>3. place \in Stops /\ Nowhere \in Stops /\ place # Nowhere
  BY PlacesAreSomewhere DEF Stops
<1>4. /\ e \in Line /\ e.kind = kind /\ e.start = start /\ e.end = end
      /\ e.place = place
  BY <1>3 DEF Entry, Line
<1> HIDE DEF t, e
<1>5. t \o <<e>> = q
  BY <1>2, <1>4
<1>6. Visits(e) /\ arrival <= e.start /\ e.start < Night /\ e.place \in TodaysPlaces
  BY <1>4 DEF Visits
<1>7. /\ Followable(q) /\ LeadsTo(q, place)
      /\ \A v \in Nat : arrival <= v /\ e.end <= v => OverBy(q, v)
  BY <1>1, <1>3, <1>4, <1>6, VisitMore
<1>8. OverBy(q, end)
  BY <1>4, <1>7
<1> HIDE DEF q
<1>9. q \in Seq(Line)
  BY <1>7 DEF Followable
<1>10. d \in DayState /\ d.entries = q /\ d.until = end /\ d.at = place
  BY <1>3, <1>9 DEF GoodDays, DayState
<1> HIDE DEF d
<1>11. d \in GoodDays
  BY <1>7, <1>8, <1>10 DEF GoodDays
<1> USE DEF d
<1>12. d = [day EXCEPT !.until = end, !.at = place, !.entries = t \o <<e>>]
  BY <1>5 DEF GoodDays, DayState
<1>13. QED
  BY <1>11, <1>12 DEF t, e

LEMMA StartIsGood == TypedDay => DayStarts \in GoodDays
<1>1. << >> \in Seq(Line) /\ DOMAIN << >> = {}
  OBVIOUS
<1>2. DayStarts \in DayState /\ DayStarts.entries = << >> /\ DayStarts.at = Nowhere
  BY <1>1 DEF DayStarts, DayState, Stops, Morning
<1>3. Followable(<< >>) /\ OverBy(<< >>, DayStarts.until) /\ LeadsTo(<< >>, Nowhere)
  BY <1>1 DEF Followable, InOrder, Linked, OverBy, LeadsTo
<1>4. QED
  BY <1>2, <1>3 DEF GoodDays

LEMMA FullIsGood ==
  ASSUME NEW day \in GoodDays
  PROVE  [day EXCEPT !.full = TRUE] \in GoodDays
BY DEF GoodDays, DayState

-----------------------------------------------------------------------------
(* The agenda of the LLM is followed.                                      *)

LEMMA MeantIsHere ==
  ASSUME TypedDay, NEW title
  PROVE  Meant(title) \in TodaysPlaces \cup {Nowhere}
<1> DEFINE I == {i \in DOMAIN today.sights : <<title, today.sights[i]>> \in Similar}
           J == {i \in DOMAIN today.kitchens : <<title, today.kitchens[i]>> \in Similar}
           all == Picked(today.sights, I) \o Picked(today.kitchens, J)
<1>1. today.sights \in Seq(TodaysPlaces) /\ today.kitchens \in Seq(TodaysPlaces)
  BY DEF TypedDay, TodaysPlaces, ToSet
<1> HIDE DEF I, J
<1>2. all \in Seq(TodaysPlaces)
  <2>1. Picked(today.sights, I) \in Seq(TodaysPlaces)
    BY <1>1, PickedPlaces
  <2>2. Picked(today.kitchens, J) \in Seq(TodaysPlaces)
    BY <1>1, PickedPlaces
  <2>3. QED
    BY <2>1, <2>2
<1>3. Meant(title) = IF all = << >> THEN Nowhere ELSE Head(all)
  BY DEF Meant, Chosen, I, J
<1> HIDE DEF all
<1>4. all # << >> => Head(all) \in TodaysPlaces
  BY <1>2
<1>5. QED
  BY <1>3, <1>4

LEMMA FollowedIsGood ==
  ASSUME TypedDay, NEW day \in GoodDays, NEW e \in Note
  PROVE  Followed(day, e) \in GoodDays
<1> DEFINE earliest == Max({day.until, e.clock})
           place == IF e.kind = "rest" THEN Nowhere ELSE Meant(e.title)
           ride == day.until + RideTime(day.at, place)
           arrival == IF day.at = Nowhere \/ place = Nowhere THEN earliest
                      ELSE Max({earliest, ride})
           stay == IF e.kind = "rest" THEN Between(20, e.minutes, 90)
                   ELSE IF KindOf(place) = "food" THEN Between(30, e.minutes, 90)
                   ELSE Between(60, e.minutes, 180)
           pointless == IF e.kind = "rest" THEN e.title = "hotel"
                        ELSE place = Nowhere \/ place \in Shown(day)
           full == [day EXCEPT !.full = TRUE]
           rest == Entry("rest", Nowhere, Nowhere, arrival, arrival + stay)
           rested == [day EXCEPT !.until = arrival + stay, !.entries = Append(@, rest)]
           visited == [day EXCEPT !.until = arrival + stay, !.at = place,
                                  !.entries = @ \o RideTo(place, day.at, arrival)
                                    \o <<Entry(KindOf(place), place, Nowhere,
                                               arrival, arrival + stay)>>]
<1>1. /\ day \in DayState /\ day.until \in Nat /\ day.at \in Stops /\ day.entries \in Seq(Line)
      /\ Followable(day.entries) /\ OverBy(day.entries, day.until)
      /\ LeadsTo(day.entries, day.at)
  BY DEF GoodDays, DayState
<1>2. e.clock \in Nat /\ e.minutes \in Int
  BY DEF Note
<1>3. earliest \in Nat /\ day.until <= earliest
  BY <1>1, <1>2, GreaterOfTwo
<1>4. place \in TodaysPlaces \cup {Nowhere}
  BY MeantIsHere
<1>5. stay \in Nat
  BY <1>2, BetweenIsNat
<1>6. Followed(day, e) =
        IF day.full \/ earliest >= Night THEN full
        ELSE IF pointless THEN day
        ELSE IF e.kind = "rest" THEN rested
        ELSE IF arrival >= Night THEN full ELSE visited
  BY DEF Followed
<1> HIDE DEF earliest, place, stay
<1>7. /\ arrival \in Nat /\ day.until <= arrival
      /\ place = Nowhere => arrival = earliest
      /\ place # Nowhere /\ day.at # Nowhere => ride <= arrival
  <2>1. CASE day.at = Nowhere \/ place = Nowhere
    BY <1>3, <2>1
  <2>2. CASE ~ (day.at = Nowhere \/ place = Nowhere)
    <3>1. RideTime(day.at, place) \in Nat
      BY <1>1, <1>4, <2>2, RideTimeIsNat, PlacesAreSomewhere DEF Stops
    <3>2. ride \in Nat
      BY <1>1, <3>1
    <3> HIDE DEF ride
    <3>3. Max({earliest, ride}) = IF earliest >= ride THEN earliest ELSE ride
      BY <1>3, <3>2, GreaterOfTwo
    <3>4. QED
      BY <1>1, <1>3, <2>2, <3>2, <3>3
  <2>3. QED
    BY <2>1, <2>2
<1> HIDE DEF arrival
<1>8. full \in GoodDays
  BY FullIsGood
<1>9. ASSUME ~ (earliest >= Night), e.kind = "rest" PROVE rested \in GoodDays
  <2>1. place = Nowhere
    BY <1>9 DEF place
  <2>2. arrival < Night /\ arrival + stay \in Nat
    BY <1>3, <1>5, <1>7, <1>9, <2>1 DEF Night
  <2>3. rest \in Line /\ rest.kind = "rest" /\ rest.start = arrival /\ rest.end = arrival + stay
    BY <1>7, <2>2 DEF Entry, Line, Stops
  <2> HIDE DEF rest
  <2>4. ~Visits(rest) /\ day.until <= rest.start /\ (rest.kind # "ride" => rest.start <= Night)
    BY <1>7, <2>2, <2>3 DEF Visits, Night
  <2> DEFINE q == Append(day.entries, rest)
  <2>5. /\ Followable(q) /\ LeadsTo(q, day.at)
        /\ \A v \in Nat : day.until <= v /\ rest.end <= v => OverBy(q, v)
    BY <1>1, <2>3, <2>4, LineMore
  <2>6. OverBy(q, arrival + stay)
    BY <1>1, <1>5, <1>7, <2>2, <2>3, <2>5
  <2>7. q \in Seq(Line)
    BY <2>5 DEF Followable
  <2> HIDE DEF q
  <2> DEFINE d == [day EXCEPT !.until = arrival + stay, !.entries = q]
  <2>8. d \in DayState /\ d.entries = q /\ d.until = arrival + stay /\ d.at = day.at
    BY <1>1, <2>2, <2>7 DEF DayState
  <2> HIDE DEF d
  <2>9. d \in GoodDays
    BY <2>5, <2>6, <2>8 DEF GoodDays
  <2>10. QED
    BY <2>9 DEF d, q
<1>10. ASSUME place # Nowhere, ~ (arrival >= Night) PROVE visited \in GoodDays
  <2>1. place \in TodaysPlaces
    BY <1>4, <1>10
  <2>2. arrival < Night /\ arrival + stay \in Nat /\ arrival <= arrival + stay /\ arrival <= arrival
    BY <1>5, <1>7, <1>10 DEF Night
  <2>3. KindOf(place) \in {"attraction", "food"}
    BY DEF KindOf
  <2>4. day.at # Nowhere => day.until + RideTime(day.at, place) <= arrival
    BY <1>7, <1>10
  <2>5. QED
    BY <1>7, <2>1, <2>2, <2>3, <2>4, VisitKeepsGood
<1> HIDE DEF full, rested, visited
<1>11. e.kind # "rest" /\ ~pointless => place # Nowhere
  OBVIOUS
<1> HIDE DEF pointless
<1>12. QED
  BY <1>6, <1>8, <1>9, <1>10, <1>11

LEMMA FollowedThrough ==
  ASSUME TypedDay
  PROVE  FoldLeft(Followed, DayStarts, Normalized(agenda)) \in GoodDays
<1> DEFINE s == Normalized(agenda)
           b == Len(s)
           G == [p \in (1 .. b) \X GoodDays |-> Followed(p[2], s[p[1]])]
           F(it) == [S \in SUBSET DOMAIN s |->
                       IF S = {} THEN DayStarts ELSE Followed(it[S \ {Max(S)}], s[Max(S)])]
           it == CHOOSE it : it = F(it)
<1>1. FoldLeft(Followed, DayStarts, s) = it[DOMAIN s]
  BY DEF FoldLeft, MapThenFoldSet
<1>2. s \in Seq(Note)
  BY NormalizedTyped DEF TypedDay
<1> HIDE DEF s
<1>3. b \in Nat /\ DOMAIN s = 1 .. b /\ \A n \in 1 .. b : s[n] \in Note
  BY <1>2
<1>4. \A n \in 1 .. b : \A x \in GoodDays : Followed(x, s[n]) \in GoodDays
  BY <1>3, FollowedIsGood
<1>5. DayStarts \in GoodDays
  BY StartIsGood
<1> DEFINE X == GoodDays
           x0 == DayStarts
<1> HIDE DEF X, x0, b
<1>6. \A n \in 1 .. b : \A x \in X : G[<<n, x>>] = Followed(x, s[n])
  BY DEF X
<1>7. G \in StepFunctions(b, X)
  BY <1>4 DEF StepFunctions, X
<1> HIDE DEF G
<1>8. PICK g \in [SUBSET (1 .. b) -> X] : Folds(g, b, x0, G)
  BY <1>3, <1>5, <1>7, FoldRecursion DEF X, x0
<1>9. \A S \in SUBSET (1 .. b) : S # {} => Max(S) \in 1 .. b /\ S \ {Max(S)} \in SUBSET (1 .. b)
  BY <1>3, LastOfMany
<1>10. g = F(g)
  <2>1. \A S \in SUBSET (1 .. b) : S # {} => g[S] = Followed(g[S \ {Max(S)}], s[Max(S)])
    BY <1>6, <1>8, <1>9 DEF Folds
  <2>2. \A S \in SUBSET (1 .. b) : g[S] = F(g)[S]
    BY <1>3, <1>8, <2>1 DEF Folds, x0
  <2>3. QED
    BY <1>3, <1>8, <2>2
<1>11. it = F(it)
  BY <1>10
<1> HIDE DEF it
<1>12. FoldsIn(it, b, X, x0, G)
  <2>1. it[{}] = x0
    BY <1>3, <1>11 DEF x0
  <2>2. \A S \in SUBSET (1 .. b) : S # {} => it[S] = Followed(it[S \ {Max(S)}], s[Max(S)])
    BY <1>3, <1>11
  <2>3. QED
    BY <1>6, <1>9, <2>1, <2>2 DEF FoldsIn
<1>13. EndsIn(it, b, X, G)
  BY <1>3, <1>5, <1>7, <1>12, FoldStays DEF X, x0
<1>14. QED
  BY <1>1, <1>3, <1>13 DEF X, s, EndsIn

-----------------------------------------------------------------------------
(* The day as the code lays it out.                                        *)

Block ==
  [kind : {"attraction"}, place : ToSet(today.sights), from : {0}, cap : Nat]
    \cup [kind : {"food"}, place : ToSet(today.kitchens), from : Nat, cap : Nat]

LEMMA BlocksTyped == TypedDay => Blocks \in Seq(Block)
<1> SUFFICES ASSUME TypedDay PROVE Blocks \in Seq(Block)
  OBVIOUS
<1>1. ASSUME NEW i, NEW cap \in Nat PROVE Sight(i, cap) \in Seq(Block)
  <2>1. CASE i \in DOMAIN today.sights
    <3> DEFINE e == [kind |-> "attraction", place |-> today.sights[i], from |-> 0, cap |-> cap]
    <3>1. e \in Block
      BY <2>1 DEF Block, ToSet
    <3> HIDE DEF e
    <3>2. <<e>> \in Seq(Block)
      BY <3>1
    <3>3. QED
      BY <2>1, <3>2 DEF Sight, e
  <2>2. CASE i \notin DOMAIN today.sights
    BY <2>2 DEF Sight
  <2>3. QED
    BY <2>1, <2>2
<1>2. ASSUME NEW i, NEW from \in Nat, NEW cap \in Nat PROVE Meal(i, from, cap) \in Seq(Block)
  <2>1. CASE i \in DOMAIN today.kitchens
    <3> DEFINE e == [kind |-> "food", place |-> today.kitchens[i], from |-> from, cap |-> cap]
    <3>1. e \in Block
      BY <2>1 DEF Block, ToSet
    <3> HIDE DEF e
    <3>2. <<e>> \in Seq(Block)
      BY <3>1
    <3>3. QED
      BY <2>1, <3>2 DEF Meal, e
  <2>2. CASE i \notin DOMAIN today.kitchens
    BY <2>2 DEF Meal
  <2>3. QED
    BY <2>1, <2>2
<1> DEFINE X == Seq(Block)
           n == Max({0, Len(today.kitchens) - 3})
           main == << Sight(1, 180), Meal(1, 12 * 60 + 30, 55), Sight(2, 150),
                      Meal(2, 15 * 60 + 30, 35), Sight(3, 150), Meal(3, 18 * 60 + 30, 55) >>
           more == [i \in 1 .. n |-> Meal(i + 3, 20 * 60, 35)]
<1>3. /\ Sight(1, 180) \in X /\ Sight(2, 150) \in X /\ Sight(3, 150) \in X
      /\ Meal(1, 12 * 60 + 30, 55) \in X /\ Meal(2, 15 * 60 + 30, 35) \in X
      /\ Meal(3, 18 * 60 + 30, 55) \in X
      /\ \A i \in 1 .. n : Meal(i + 3, 20 * 60, 35) \in X
  BY <1>1, <1>2
<1>4. n \in Nat
  <2>1. Len(today.kitchens) - 3 \in Int
    BY DEF TypedDay
  <2>2. QED
    BY <2>1, GreaterOfTwo
<1>5. Blocks = FlattenSeq(main \o more)
  BY DEF Blocks
<1> HIDE DEF X, n
<1>6. main \in Seq(X) /\ more \in Seq(X)
  BY <1>3, <1>4
<1> HIDE DEF main, more
<1>7. main \o more \in Seq(X)
  BY <1>6
<1>8. QED
  BY <1>5, <1>7, FlattenedTyped DEF X

LEMMA VisitedIsGood ==
  ASSUME TypedDay, NEW day \in GoodDays, NEW block \in Block
  PROVE  Visited(day, block) \in GoodDays
<1> DEFINE ride == day.until + RideTime(day.at, block.place)
           arrival == IF day.at = Nowhere THEN day.until ELSE ride
           start == Max({arrival, block.from})
           visit == Visit(block)
           short == start + Max({60, Night - 15 - Min({start, Night - 15})})
           end == IF block.kind = "food" THEN start + block.cap
                  ELSE IF start + visit + 15 > Night THEN short ELSE start + visit
           full == [day EXCEPT !.full = TRUE]
           missed == [day EXCEPT !.full = TRUE, !.until = arrival,
                                 !.entries = @ \o RideTo(block.place, day.at, arrival)]
           visited == [day EXCEPT !.until = end, !.at = block.place,
                                  !.entries = @ \o RideTo(block.place, day.at, arrival)
                                    \o <<Entry(block.kind, block.place, Nowhere, start, end)>>]
<1>1. day.until \in Nat /\ day.at \in Stops
  BY DEF GoodDays, DayState
<1>2. /\ block.kind \in {"attraction", "food"} /\ block.cap \in Nat /\ block.from \in Nat
      /\ block.kind # "food" => block.from = 0 /\ block.place \in ToSet(today.sights)
      /\ block.place \in ToSet(today.sights) \cup ToSet(today.kitchens)
  BY DEF Block
<1>3. block.place \in TodaysPlaces
  BY <1>2 DEF TodaysPlaces
<1>4. day.at # Nowhere => RideTime(day.at, block.place) \in Nat
  BY <1>1, <1>3, RideTimeIsNat, PlacesAreSomewhere DEF Stops
<1>5. /\ arrival \in Nat /\ day.until <= arrival
      /\ day.at # Nowhere => day.until + RideTime(day.at, block.place) <= arrival
  BY <1>1, <1>4
<1>6. Visited(day, block) =
        IF day.full \/ day.until >= Night \/ (day.at # Nowhere /\ arrival + 10 > Night) THEN full
        ELSE IF block.kind = "food" /\ start + block.cap + 15 > Night THEN missed ELSE visited
  BY DEF Visited
<1>7. day.at = Nowhere => arrival = day.until
  OBVIOUS
<1> HIDE DEF arrival
<1>8. /\ start \in Nat /\ arrival <= start
      /\ block.kind # "food" => start = arrival
  BY <1>2, <1>5, GreaterOfTwo
<1>9. block.kind # "food" => visit \in Nat
  <2> SUFFICES ASSUME block.kind # "food" PROVE visit \in Nat
    OBVIOUS
  <2> DEFINE hours == IF Hours[block.place] = 0 THEN 3 ELSE Hours[block.place]
  <2>1. block.place \in Sights
    BY <1>2 DEF TypedDay, ToSet
  <2>2. 78 * hours \in Nat
    BY <2>1, DaysAssumption
  <2>3. Max({78 * hours, 90}) \in Nat
    BY <2>2, GreaterOfTwo
  <2>4. Min({Max({78 * hours, 90}), block.cap}) \in Nat
    BY <1>2, <2>3, LesserOfTwo
  <2>5. QED
    BY <2>4 DEF Visit
<1> HIDE DEF start, visit
<1>10. short \in Nat /\ start <= short
  <2> DEFINE rest == Night - 15 - Min({start, Night - 15})
  <2>1. rest \in Nat
    BY <1>8, LesserOfTwo DEF Night
  <2> HIDE DEF rest
  <2>2. Max({60, rest}) \in Nat
    BY <2>1, GreaterOfTwo
  <2>3. short = start + Max({60, rest})
    BY DEF rest
  <2>4. QED
    BY <1>8, <2>2, <2>3
<1> HIDE DEF short
<1>11. end \in Nat /\ start <= end
  BY <1>2, <1>8, <1>9, <1>10
<1> HIDE DEF end
<1>12. full \in GoodDays
  BY FullIsGood
<1>13. missed \in GoodDays
  BY <1>3, <1>5, RideKeepsGood
<1>14. ASSUME start < Night PROVE visited \in GoodDays
  BY <1>2, <1>3, <1>5, <1>8, <1>11, <1>14, VisitKeepsGood
<1> HIDE DEF full, missed, visited
<1>15. \/ Visited(day, block) = full
       \/ Visited(day, block) = missed
       \/ start < Night /\ Visited(day, block) = visited
  <2>1. ASSUME ~ (day.until >= Night), ~ (day.at # Nowhere /\ arrival + 10 > Night),
               ~ (block.kind = "food" /\ start + block.cap + 15 > Night)
        PROVE  start < Night
    <3>1. CASE block.kind = "food"
      BY <1>2, <1>8, <2>1, <3>1 DEF Night
    <3>2. CASE block.kind # "food"
      BY <1>1, <1>5, <1>7, <1>8, <2>1, <3>2 DEF Night
    <3>3. QED
      BY <3>1, <3>2
  <2>2. QED
    BY <1>6, <2>1
<1>16. QED
  BY <1>12, <1>13, <1>14, <1>15

LEMMA VisitedThrough ==
  ASSUME TypedDay
  PROVE  FoldLeft(Visited, DayStarts, Blocks) \in GoodDays
<1> DEFINE s == Blocks
           b == Len(s)
           G == [p \in (1 .. b) \X GoodDays |-> Visited(p[2], s[p[1]])]
           F(it) == [S \in SUBSET DOMAIN s |->
                       IF S = {} THEN DayStarts ELSE Visited(it[S \ {Max(S)}], s[Max(S)])]
           it == CHOOSE it : it = F(it)
<1>1. FoldLeft(Visited, DayStarts, s) = it[DOMAIN s]
  BY DEF FoldLeft, MapThenFoldSet
<1>2. s \in Seq(Block)
  BY BlocksTyped
<1> HIDE DEF s
<1>3. b \in Nat /\ DOMAIN s = 1 .. b /\ \A n \in 1 .. b : s[n] \in Block
  BY <1>2
<1>4. \A n \in 1 .. b : \A x \in GoodDays : Visited(x, s[n]) \in GoodDays
  BY <1>3, VisitedIsGood
<1>5. DayStarts \in GoodDays
  BY StartIsGood
<1> DEFINE X == GoodDays
           x0 == DayStarts
<1> HIDE DEF X, x0, b
<1>6. \A n \in 1 .. b : \A x \in X : G[<<n, x>>] = Visited(x, s[n])
  BY DEF X
<1>7. G \in StepFunctions(b, X)
  BY <1>4 DEF StepFunctions, X
<1> HIDE DEF G
<1>8. PICK g \in [SUBSET (1 .. b) -> X] : Folds(g, b, x0, G)
  BY <1>3, <1>5, <1>7, FoldRecursion DEF X, x0
<1>9. \A S \in SUBSET (1 .. b) : S # {} => Max(S) \in 1 .. b /\ S \ {Max(S)} \in SUBSET (1 .. b)
  BY <1>3, LastOfMany
<1>10. g = F(g)
  <2>1. \A S \in SUBSET (1 .. b) : S # {} => g[S] = Visited(g[S \ {Max(S)}], s[Max(S)])
    BY <1>6, <1>8, <1>9 DEF Folds
  <2>2. \A S \in SUBSET (1 .. b) : g[S] = F(g)[S]
    BY <1>3, <1>8, <2>1 DEF Folds, x0
  <2>3. QED
    BY <1>3, <1>8, <2>2
<1>11. it = F(it)
  BY <1>10
<1> HIDE DEF it
<1>12. FoldsIn(it, b, X, x0, G)
  <2>1. it[{}] = x0
    BY <1>3, <1>11 DEF x0
  <2>2. \A S \in SUBSET (1 .. b) : S # {} => it[S] = Visited(it[S \ {Max(S)}], s[Max(S)])
    BY <1>3, <1>11
  <2>3. QED
    BY <1>6, <1>9, <2>1, <2>2 DEF FoldsIn
<1>13. EndsIn(it, b, X, G)
  BY <1>3, <1>5, <1>7, <1>12, FoldStays DEF X, x0
<1>14. QED
  BY <1>1, <1>3, <1>13 DEF X, s, EndsIn

-----------------------------------------------------------------------------
(* The timeline that is drawn.                                             *)

LEMMA FinishedFollows ==
  ASSUME NEW day \in GoodDays
  PROVE  Followable(Finished(day))
<1> DEFINE t == Min({day.until + 10, Night})
           e == Entry("hotel_return", Nowhere, Nowhere, t, t)
<1>1. /\ day.until \in Nat /\ Followable(day.entries) /\ OverBy(day.entries, day.until)
      /\ LeadsTo(day.entries, day.at)
  BY DEF GoodDays, DayState
<1>2. CASE day.until < Night
  <2>1. t \in Nat /\ day.until <= t /\ t <= Night
    BY <1>1, <1>2, LesserOfTwo DEF Night
  <2> HIDE DEF t
  <2>2. e \in Line /\ e.kind = "hotel_return" /\ e.start = t /\ e.end = t
    BY <2>1 DEF Entry, Line, Stops
  <2> HIDE DEF e
  <2>3. ~Visits(e) /\ day.until <= e.start /\ (e.kind # "ride" => e.start <= Night)
    BY <2>1, <2>2 DEF Visits
  <2>4. Followable(Append(day.entries, e))
    BY <1>1, <2>2, <2>3, LineMore
  <2>5. QED
    BY <1>1, <2>4 DEF Finished, e, t
<1>3. CASE ~ (day.until < Night)
  BY <1>1, <1>3 DEF Finished
<1>4. QED
  BY <1>2, <1>3

LEMMA DrawnFollows ==
  ASSUME TypedDay
  PROVE  Followable(IF Materialized # << >> THEN Materialized ELSE OwnTimeline)
<1>1. Materialized # << >> => Followable(Materialized)
  <2> DEFINE day == FoldLeft(Followed, DayStarts, Normalized(agenda))
             few == Len(Chosen(day.entries, LAMBDA e : e.kind = "food")) < 2
  <2>1. day \in GoodDays
    BY FollowedThrough
  <2>2. Materialized = IF few THEN << >> ELSE Finished(day)
    BY DEF Materialized
  <2> HIDE DEF day, few
  <2>3. QED
    BY <2>1, <2>2, FinishedFollows
<1>2. Followable(OwnTimeline)
  BY VisitedThrough, FinishedFollows DEF OwnTimeline
<1>3. QED
  BY <1>1, <1>2

(* Visits that follow each other among the visits have no other in         *)
(* between.                                                                *)
LEMMA FollowableHolds ==
  ASSUME TypedDay, Followable(timeline)
  PROVE  TimelineHolds
<1> DEFINE t == timeline
           I == {i \in DOMAIN t : t[i].kind # "ride"}
           J == {i \in DOMAIN t : Visits(t[i])}
           stops == Picked(t, I)
           places == Picked(t, J)
<1>1. /\ t \in Seq(Line) /\ InOrder(t) /\ Linked(t)
      /\ DOMAIN t = 1 .. Len(t) /\ Len(t) \in Nat
      /\ \A i \in DOMAIN t : InTime(t[i])
  BY DEF Followable
<1>2. /\ Chosen(timeline, LAMBDA e : e.kind # "ride") = stops
      /\ Chosen(timeline, LAMBDA e : e.kind \in {"attraction", "food"}) = places
  BY DEF Chosen, Visits
<1> HIDE DEF I, J, stops, places, t
<1>3. \A i \in DOMAIN stops : stops[i].start <= Night
  <2>1. \A k \in DOMAIN stops : \E i \in I \cap DOMAIN t : stops[k] = t[i]
    BY <1>1, PickedElements DEF stops
  <2>2. QED
    BY <1>1, <2>1 DEF I, InTime
<1>4. PICK e : Enumerates(e, places, t, J, Len(t))
  BY <1>1, PickedPlaces DEF places
<1>5. places \in Seq(Line)
  BY <1>1, PickedPlaces DEF places
<1>6. DOMAIN places = 1 .. Len(places) /\ Len(places) \in Nat
  BY <1>5
<1>7. \A k \in 1 .. Len(places) : e[k] \in J /\ e[k] \in DOMAIN t /\ places[k] = t[e[k]]
  BY <1>1, <1>4 DEF Enumerates
<1>8. /\ \A j, k \in 1 .. Len(places) : j < k => e[j] < e[k]
      /\ \A i \in J : \E k \in 1 .. Len(places) : e[k] = i
  <2>1. J \cap (1 .. Len(t)) = J
    BY <1>1 DEF J
  <2>2. QED
    BY <1>4, <2>1 DEF Enumerates
<1>9. \A i \in DOMAIN places : places[i].start < Night /\ places[i].place \in TodaysPlaces
  BY <1>1, <1>6, <1>7 DEF J, InTime
<1>10. ASSUME NEW i \in 2 .. Len(places)
       PROVE  \E j \in DOMAIN t :
                /\ t[j].kind = "ride"
                /\ t[j].from = places[i - 1].place /\ t[j].place = places[i].place
                /\ t[j].end - t[j].start = RideTime(places[i - 1].place, places[i].place)
                /\ places[i - 1].end <= t[j].start /\ t[j].end <= places[i].start
  <2>1. i \in 1 .. Len(places) /\ i - 1 \in 1 .. Len(places) /\ i - 1 < i
    BY <1>6
  <2> DEFINE m == e[i - 1]
             n == e[i]
  <2>2. /\ m \in DOMAIN t /\ n \in DOMAIN t /\ m < n
        /\ Visits(t[m]) /\ Visits(t[n])
        /\ places[i - 1] = t[m] /\ places[i] = t[n]
    BY <1>7, <1>8, <2>1 DEF J
  <2>3. ASSUME NEW k \in DOMAIN t, m < k, k < n PROVE ~Visits(t[k])
    <3>1. SUFFICES ASSUME Visits(t[k]) PROVE FALSE
      OBVIOUS
    <3>2. PICK l \in 1 .. Len(places) : e[l] = k
      BY <1>8, <3>1 DEF J
    <3>3. l < i \/ l = i \/ i < l
      BY <2>1
    <3>4. l < i - 1 \/ l = i - 1 \/ l >= i
      BY <2>1, <3>3
    <3>5. m \in Nat /\ n \in Nat /\ k \in Nat
      BY <1>1, <2>2
    <3>6. ~ (l < i - 1)
      BY <1>8, <2>1, <2>3, <3>2, <3>5
    <3>7. ~ (i < l)
      BY <1>8, <2>1, <2>3, <3>2, <3>5
    <3>8. QED
      BY <2>1, <2>3, <3>2, <3>3, <3>4, <3>5, <3>6, <3>7
  <2> HIDE DEF m, n
  <2>4. PICK j \in DOMAIN t : m < j /\ j < n /\ IsRide(t[j], t[m].place, t[n].place)
    BY <1>1, <2>2, <2>3, Zenon DEF Linked
  <2>5. t[m].end <= t[j].start /\ t[j].end <= t[n].start
    BY <1>1, <2>2, <2>4, Zenon DEF InOrder
  <2>6. QED
    BY <2>2, <2>4, <2>5 DEF IsRide
<1>11. \A i, j \in DOMAIN timeline : i < j => timeline[i].end <= timeline[j].start
  BY <1>1, Zenon DEF InOrder, t
<1>12. QED
  BY <1>2, <1>3, <1>9, <1>10, <1>11 DEF TimelineHolds, t

-----------------------------------------------------------------------------
TimelineInv ==
  /\ TypedDay /\ timeline \in Seq(Line)
  /\ drawn \in BOOLEAN /\ taken \in 0 .. MaxTaken
  /\ drawn => Followable(timeline)

(* Whether a timeline can be followed depends on the day and its ways.     *)
LEMMA SameDaySame ==
  ASSUME today' = today, way' = way, NEW t
  PROVE  Followable(t) => Followable(t)'
<1>1. ASSUME NEW e, NEW from, NEW to PROVE IsRide(e, from, to)' <=> IsRide(e, from, to)
  BY DEF IsRide, RideTime
<1>2. ASSUME NEW e PROVE InTime(e)' <=> InTime(e)
  BY DEF InTime, TodaysPlaces
<1>3. Linked(t) => Linked(t)'
  BY <1>1, Zenon DEF Linked
<1>4. QED
  BY <1>2, <1>3 DEF Followable

LEMMA TimelineInitially == TimelineInit => TimelineInv
<1> SUFFICES ASSUME TimelineInit PROVE TimelineInv
  OBVIOUS
<1>1. TypedDay
  BY DaysAssumption DEF TimelineInit, TypedDay, Places, Note
<1>2. taken \in 0 .. MaxTaken /\ timeline \in Seq(Line) /\ drawn = FALSE
  BY DaysAssumption DEF TimelineInit
<1>3. QED
  BY <1>1, <1>2 DEF TimelineInv

LEMMA TimelineStep == TimelineInv /\ [TimelineNext]_timelineVars => TimelineInv'
<1> SUFFICES ASSUME TimelineInv, [TimelineNext]_timelineVars PROVE TimelineInv'
  OBVIOUS
<1>1. CASE RefreshTimeline
  <2>1. Followable(timeline')
    BY <1>1, DrawnFollows DEF RefreshTimeline, TimelineInv
  <2>2. TypedDay' /\ today' = today /\ way' = way
    BY <1>1 DEF RefreshTimeline, TypedDay, TimelineInv
  <2>3. Followable(timeline)'
    BY <2>1, <2>2, SameDaySame
  <2>4. timeline' \in Seq(Line)
    BY <2>1 DEF Followable
  <2>5. QED
    BY <1>1, <2>2, <2>3, <2>4 DEF RefreshTimeline, TimelineInv
<1>2. ASSUME NEW place \in Sights \cup Kitchens, TakeOut(place) PROVE TimelineInv'
  <2> DEFINE I == {i \in DOMAIN today.sights : today.sights[i] # place}
             J == {i \in DOMAIN today.kitchens : today.kitchens[i] # place}
  <2>1. today' = [sights |-> Picked(today.sights, I), kitchens |-> Picked(today.kitchens, J)]
    BY <1>2 DEF TakeOut, Chosen
  <2> HIDE DEF I, J
  <2>2. today.sights \in Seq(Sights) /\ today.kitchens \in Seq(Kitchens)
    BY DEF TimelineInv, TypedDay
  <2>3. Picked(today.sights, I) \in Seq(Sights) /\ Picked(today.kitchens, J) \in Seq(Kitchens)
    BY <2>2, PickedPlaces
  <2>4. TypedDay'
    BY <1>2, <2>1, <2>3 DEF TakeOut, TimelineInv, TypedDay
  <2>5. taken' \in 0 .. MaxTaken
    BY <1>2, DaysAssumption DEF TakeOut, TimelineInv
  <2>6. QED
    BY <1>2, <2>4, <2>5 DEF TakeOut, TimelineInv
<1>3. CASE UNCHANGED timelineVars
  <2>1. Followable(timeline) => Followable(timeline)'
    BY <1>3, SameDaySame DEF timelineVars
  <2>2. TypedDay'
    BY <1>3 DEF timelineVars, TypedDay, TimelineInv
  <2>3. QED
    BY <1>3, <2>1, <2>2 DEF timelineVars, TimelineInv
<1>4. QED
  BY <1>1, <1>2, <1>3 DEF TimelineNext

(* Whoever follows a timeline is never in two places at once and has the   *)
(* time for each ride, whatever places the day has, however long its ways  *)
(* are and whatever agenda the LLM wrote.                                  *)
THEOREM TimelinesHold == TimelineSpec => []TimelineHolds
<1>1. TimelineInv => TimelineHolds
  BY FollowableHolds DEF TimelineInv, TimelineHolds
<1>2. QED
  BY <1>1, TimelineInitially, TimelineStep, PTL DEF TimelineSpec

(* The days, and the entries of timelines, are what they may be.           *)
THEOREM TimelineTypeCorrect == TimelineSpec => []TimelineTypeOK
<1>1. TimelineInv => TimelineTypeOK
  <2> SUFFICES ASSUME TimelineInv PROVE TimelineTypeOK
    OBVIOUS
  <2>1. \A i \in DOMAIN timeline : timeline[i] \in Line
    BY DEF TimelineInv
  <2>2. \A i \in DOMAIN timeline :
          /\ timeline[i].kind \in {"attraction", "food", "rest", "ride", "hotel_return"}
          /\ timeline[i].start \in Nat /\ timeline[i].end \in Nat
    BY <2>1 DEF Line
  <2>3. QED
    BY <2>2 DEF TimelineInv, TypedDay, TimelineTypeOK
<1>2. QED
  BY <1>1, TimelineInitially, TimelineStep, PTL DEF TimelineSpec
==============================================================================
