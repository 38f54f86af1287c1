-------------------------- MODULE BookkeepingProofs -------------------------
(***************************************************************************)
(* What TLAPS proves about the books that are kept beside the trips: the   *)
(* prices of places (PriceBook), for any places, prices and names, any     *)
(* number of reports and any number of failing statements; the tokens each *)
(* run is charged for (RunCosts), for any number of runs that overlap and  *)
(* any number of tokens, resets and restarts; and the samples of what went *)
(* wrong (FailureSamples), for any cases, findings and targets.            *)
(***************************************************************************)
EXTENDS PriceBook, RunCosts, FailureSamples, FiniteSetTheorems, SequenceFacts

-----------------------------------------------------------------------------
(* Reference prices and what users report of them.                         *)

(* The reports, and those whose price went into the book.                  *)
ReportsTyped ==
  /\ reports \in Seq(Report)
  /\ applied \in Seq(DOMAIN reports)
  /\ halfDecided \subseteq DOMAIN reports

(* A report whose price went into the book is marked as approved, unless   *)
(* marking it failed.                                                      *)
AppliedAreMarked ==
  \A j \in DOMAIN applied :
    applied[j] \notin halfDecided => reports[applied[j]].status = "approved"

AppliedDiffer ==
  \A j, k \in DOMAIN applied :
    applied[j] = applied[k] /\ applied[j] \notin halfDecided => j = k

ReportsInv == ReportsTyped /\ AppliedAreMarked /\ AppliedDiffer

LEMMA ReportsInitially == PricesInit => ReportsInv
  BY DEF PricesInit, ReportsInv, ReportsTyped, AppliedAreMarked, AppliedDiffer

(* A report that is marked is still a report, and says what it is marked   *)
(* as.                                                                     *)
LEMMA MarkedReport ==
  ASSUME NEW r \in Report, NEW status \in {"approved", "rejected"}
  PROVE  [r EXCEPT !.status = status] \in Report /\ [r EXCEPT !.status = status].status = status
<1>1. [r EXCEPT !.status = status] \in Report
  BY DEF Report
<1>2. [r EXCEPT !.status = status].status = status
  BY Zenon DEF Report
<1>3. QED
  BY <1>1, <1>2

LEMMA MarkingReport ==
  ASSUME ReportsTyped, NEW i \in DOMAIN reports, NEW status \in {"approved", "rejected"},
         reports' = [reports EXCEPT ![i].status = status]
  PROVE  /\ DOMAIN reports' = DOMAIN reports /\ reports' \in Seq(Report)
         /\ \A j \in DOMAIN reports : j # i => reports'[j] = reports[j]
         /\ reports'[i].status = status
<1>1. reports[i] \in Report
  BY DEF ReportsTyped
<1>2. PICK marked \in Report : marked = [reports[i] EXCEPT !.status = status]
                              /\ marked.status = status
  BY <1>1, MarkedReport
<1>3. reports' = [reports EXCEPT ![i] = marked]
  BY <1>2, Zenon
<1>4. /\ DOMAIN reports' = DOMAIN reports
      /\ \A j \in DOMAIN reports : reports'[j] = IF j = i THEN marked ELSE reports[j]
  BY <1>3, Zenon
<1>5. reports' \in Seq(Report)
  BY <1>3 DEF ReportsTyped
<1>6. QED
  BY <1>2, <1>4, <1>5, Zenon

LEMMA SubmitKeeps ==
  ASSUME ReportsInv, NEW place \in Places, NEW price \in Price, Submit(place, price)
  PROVE  ReportsInv'
<1> DEFINE report == [place |-> place, price |-> price, status |-> "pending"]
<1>1. report \in Report
  BY DEF Submit, Report, Price
<1>2. /\ reports' = Append(reports, report)
      /\ applied' = applied /\ halfDecided' = halfDecided
  BY DEF Submit
<1>3. /\ reports' \in Seq(Report) /\ DOMAIN reports \subseteq DOMAIN reports'
      /\ \A i \in DOMAIN reports : reports'[i] = reports[i]
  BY <1>1, <1>2 DEF ReportsInv, ReportsTyped
<1>4. applied' \in Seq(DOMAIN reports')
  BY <1>2, <1>3 DEF ReportsInv, ReportsTyped
<1>5. QED
  BY <1>2, <1>3, <1>4 DEF ReportsInv, ReportsTyped, AppliedAreMarked, AppliedDiffer

(* A decision marks a report as what was decided, or nothing at all.       *)
LEMMA DecideKeeps ==
  ASSUME ReportsInv, NEW i \in DOMAIN reports, NEW status \in {"approved", "rejected"},
         DecideReport(i, status)
  PROVE  ReportsInv'
<1> USE DEF ReportsInv
<1>1. /\ DOMAIN reports' = DOMAIN reports /\ reports' \in Seq(Report)
      /\ \A j \in DOMAIN reports : j # i => reports'[j] = reports[j]
  <2>1. CASE reports' = [reports EXCEPT ![i].status = status]
    BY <2>1, MarkingReport
  <2>2. CASE UNCHANGED reports
    BY <2>2 DEF ReportsTyped
  <2>3. QED
    BY <2>1, <2>2 DEF DecideReport
<1>2. reports[i].status = "pending"
  BY DEF DecideReport
<1>3. \A j \in DOMAIN applied : applied[j] = i => i \in halfDecided
  BY <1>2 DEF AppliedAreMarked
<1>4. /\ halfDecided \subseteq halfDecided' /\ halfDecided' \subseteq halfDecided \cup {i}
      /\ i \notin halfDecided' => reports'[i].status = status
  <2>1. \/ /\ reports' = [reports EXCEPT ![i].status = status]
           /\ halfDecided' = halfDecided
        \/ halfDecided' = halfDecided \cup {i}
    BY DEF DecideReport
  <2>2. ASSUME reports' = [reports EXCEPT ![i].status = status]
        PROVE  reports'[i].status = status
    BY <2>2, MarkingReport
  <2>3. QED
    BY <2>1, <2>2 DEF ReportsTyped
<1>5. CASE status = "approved"
  <2>1. applied' = Append(applied, i)
    BY <1>5 DEF DecideReport
  <2>2. /\ applied' \in Seq(DOMAIN reports')
        /\ DOMAIN applied' = DOMAIN applied \cup {Len(applied) + 1}
        /\ Len(applied) + 1 \notin DOMAIN applied
        /\ applied'[Len(applied) + 1] = i
        /\ \A j \in DOMAIN applied : applied'[j] = applied[j] /\ applied[j] \in DOMAIN reports
    BY <1>1, <2>1 DEF ReportsTyped
  <2>3. AppliedAreMarked'
    BY <1>1, <1>3, <1>4, <1>5, <2>2 DEF AppliedAreMarked
  <2>4. AppliedDiffer'
    BY <1>3, <1>4, <2>2 DEF AppliedDiffer
  <2>5. ReportsTyped'
    BY <1>1, <1>4, <2>2 DEF ReportsTyped
  <2>6. QED
    BY <2>3, <2>4, <2>5
<1>6. CASE status = "rejected"
  <2>1. applied' = applied
    BY <1>6 DEF DecideReport
  <2>2. \A j \in DOMAIN applied : applied[j] \in DOMAIN reports
    BY DEF ReportsTyped
  <2>3. QED
    BY <1>1, <1>3, <1>4, <2>1, <2>2 DEF ReportsTyped, AppliedAreMarked, AppliedDiffer
<1>7. QED
  BY <1>5, <1>6

LEMMA ReportsStep == ReportsInv /\ [PricesNext]_priceVars => ReportsInv'
<1> SUFFICES ASSUME ReportsInv, [PricesNext]_priceVars PROVE ReportsInv'
  OBVIOUS
<1>1. CASE UNCHANGED <<reports, applied, halfDecided>>
  BY <1>1 DEF ReportsInv, ReportsTyped, AppliedAreMarked, AppliedDiffer
<1>2. ASSUME NEW place \in Places, NEW price \in Price, Submit(place, price)
      PROVE  ReportsInv'
  BY <1>2, SubmitKeeps
<1>3. CASE AdminAct
  <2>1. ASSUME NEW i \in DOMAIN reports, NEW status \in {"approved", "rejected"},
               DecideReport(i, status)
        PROVE  ReportsInv'
    BY <2>1, DecideKeeps
  <2>2. QED
    BY <1>1, <1>3, <2>1 DEF AdminAct, AdminDelete, AdminUpsert
<1>4. ASSUME NEW plan \in [Places -> Price], NEW cached \in BOOLEAN,
             RunEndsWith(plan, cached)
      PROVE  ReportsInv'
  BY <1>1, <1>4 DEF RunEndsWith
<1>5. QED
  BY <1>1, <1>2, <1>3, <1>4 DEF PricesNext, priceVars

(* A report moves the price of its place at most once and never when it    *)
(* was rejected, whoever decides it how often, unless marking it failed.   *)
THEOREM ReportsAreAppliedOnce == PricesSpec => []ReportsAppliedOnce
<1>1. ReportsInv => ReportsAppliedOnce
  BY DEF ReportsInv, AppliedAreMarked, AppliedDiffer, ReportsAppliedOnce
<1>2. QED
  BY <1>1, ReportsInitially, ReportsStep, PTL DEF PricesSpec

-----------------------------------------------------------------------------
(* The book.                                                               *)

Statuses == {"approved", "pending"}

ApprovedOf(rows) == {r \in ToSet(rows) : r.status = "approved"}

OnePerPlace(rows) == \A i, j \in DOMAIN rows : rows[i].place = rows[j].place => i = j

Table(rows) == rows \in Seq(Row) /\ OnePerPlace(rows)

(* A condition picks the rows that meet it.                                *)
LEMMA OthersRows ==
  ASSUME NEW rows, Table(rows), NEW place
  PROVE  /\ Table(Others(rows, place))
         /\ ToSet(Others(rows, place)) = {r \in ToSet(rows) : r.place # place}
<1> DEFINE I == {i \in DOMAIN rows : rows[i].place # place}
           p == Picked(rows, I)
<1>1. Others(rows, place) = p
  BY DEF Others, Chosen
<1>2. rows \in Seq(Row)
  BY DEF Table
<1>3. /\ p \in Seq(Row)
      /\ \A k \in DOMAIN p : \E i \in I \cap DOMAIN rows : p[k] = rows[i]
      /\ \A i \in I \cap DOMAIN rows : \E k \in DOMAIN p : p[k] = rows[i]
  <2> HIDE DEF I
  <2>1. QED
    BY <1>2, PickedElements
<1>4. PICK e : Enumerates(e, p, rows, I, Len(rows))
  <2> HIDE DEF I
  <2>1. QED
    BY <1>2, PickedPlaces
<1> HIDE DEF p
<1>5. ToSet(p) = {r \in ToSet(rows) : r.place # place}
  BY <1>3 DEF ToSet
<1>6. OnePerPlace(p)
  <2> SUFFICES ASSUME NEW j \in DOMAIN p, NEW k \in DOMAIN p, p[j].place = p[k].place, j # k
               PROVE  FALSE
    BY DEF OnePerPlace
  <2>1. j \in 1 .. Len(p) /\ k \in 1 .. Len(p)
    BY <1>3
  <2>2. e[j] # e[k] /\ e[j] \in DOMAIN rows /\ e[k] \in DOMAIN rows
        /\ p[j] = rows[e[j]] /\ p[k] = rows[e[k]]
    <3>1. j < k \/ k < j
      BY <2>1
    <3>2. e[j] \in 1 .. Len(rows) /\ e[k] \in 1 .. Len(rows) /\ e[j] # e[k]
      BY <1>4, <2>1, <3>1 DEF Enumerates
    <3>3. QED
      BY <1>2, <1>4, <2>1, <3>2 DEF Enumerates
  <2>3. QED
    BY <2>2 DEF Table, OnePerPlace
<1>7. QED
  BY <1>1, <1>3, <1>5, <1>6 DEF Table

LEMMA ApprovedRows ==
  ASSUME NEW rows \in Seq(Row)
  PROVE  /\ Approved(rows) \in Seq(Row)
         /\ ToSet(Approved(rows)) = ApprovedOf(rows)
<1> DEFINE I == {i \in DOMAIN rows : rows[i].status = "approved"}
           p == Picked(rows, I)
<1>1. Approved(rows) = p
  BY DEF Approved, Chosen
<1>2. /\ p \in Seq(Row)
      /\ \A k \in DOMAIN p : \E i \in I \cap DOMAIN rows : p[k] = rows[i]
      /\ \A i \in I \cap DOMAIN rows : \E k \in DOMAIN p : p[k] = rows[i]
  <2> HIDE DEF I
  <2>1. QED
    BY PickedElements
<1> HIDE DEF p
<1>3. ToSet(p) = ApprovedOf(rows)
  BY <1>2 DEF ToSet, ApprovedOf
<1>4. QED
  BY <1>1, <1>2, <1>3

(* An upsert replaces the row of its place and no other.                   *)
LEMMA UpsertRows ==
  ASSUME NEW rows, Table(rows), NEW place \in Places, NEW price \in Price,
         NEW status \in Statuses
  PROVE  LET row == [place |-> place, price |-> price, status |-> status]
         IN /\ Table(Upsert(rows, place, price, status))
            /\ ToSet(Upsert(rows, place, price, status))
                 = {row} \cup {r \in ToSet(rows) : r.place # place}
<1> DEFINE row == [place |-> place, price |-> price, status |-> status]
           others == Others(rows, place)
           up == <<row>> \o others
<1>1. row \in Row /\ row.place = place
  BY DEF Row, Statuses
<1>2. /\ others \in Seq(Row) /\ OnePerPlace(others)
      /\ ToSet(others) = {r \in ToSet(rows) : r.place # place}
  BY OthersRows DEF Table
<1>3. up = Upsert(rows, place, price, status)
  BY DEF Upsert
<1> HIDE DEF row, others
<1>4. /\ up \in Seq(Row) /\ Len(up) = Len(others) + 1 /\ Len(others) \in Nat
      /\ DOMAIN up = 1 .. Len(others) + 1 /\ DOMAIN others = 1 .. Len(others)
      /\ up[1] = row /\ \A i \in 1 .. Len(others) : up[i + 1] = others[i]
  BY <1>1, <1>2
<1> HIDE DEF up
<1>5. \A i \in DOMAIN up : i = 1 \/ (i - 1 \in DOMAIN others /\ up[i] = others[i - 1])
  <2> SUFFICES ASSUME NEW i \in DOMAIN up, i # 1
               PROVE  i - 1 \in DOMAIN others /\ up[i] = others[i - 1]
    OBVIOUS
  <2>1. i - 1 \in 1 .. Len(others) /\ (i - 1) + 1 = i
    BY <1>4
  <2>2. QED
    BY <1>4, <2>1
<1>6. \A i \in DOMAIN others : i + 1 \in DOMAIN up /\ up[i + 1] = others[i]
  BY <1>4
<1>7. 1 \in DOMAIN up
  BY <1>4
<1>8. ToSet(up) = {row} \cup ToSet(others)
  BY <1>4, <1>5, <1>6, <1>7 DEF ToSet
<1>9. OnePerPlace(up)
  <2> SUFFICES ASSUME NEW i \in DOMAIN up, NEW j \in DOMAIN up, up[i].place = up[j].place
               PROVE  i = j
    BY DEF OnePerPlace
  <2>1. \A k \in DOMAIN others : others[k].place # place
    BY <1>2 DEF ToSet
  <2>2. CASE i = 1 \/ j = 1
    BY <2>2, <1>1, <1>4, <1>5, <2>1
  <2>3. CASE i # 1 /\ j # 1
    <3>1. i - 1 = j - 1
      BY <2>3, <1>2, <1>5 DEF OnePerPlace
    <3>2. QED
      BY <1>4, <3>1
  <2>4. QED
    BY <2>2, <2>3
<1>10. QED
  BY <1>2, <1>3, <1>4, <1>8, <1>9 DEF Table, row

(* A finite set can be gone through in some order.                         *)
LEMMA SetInOrder ==
  ASSUME NEW S, IsFiniteSet(S)
  PROVE  SetToSeq(S) \in Seq(S)
<1>1. Cardinality(S) \in Nat /\ ExistsBijection(1 .. Cardinality(S), S)
  BY FS_CardinalityType
<1>2. \E f \in [1 .. Cardinality(S) -> S] : IsInjective(f)
  BY <1>1 DEF ExistsBijection, Bijection, Injection
<1>3. SetToSeq(S) \in [1 .. Cardinality(S) -> S]
  BY <1>2 DEF SetToSeq
<1>4. QED
  BY <1>1, <1>3

(* Recording what has no approved row leaves the approved rows alone.      *)
LEMMA RecordedRows ==
  ASSUME NEW rows, Table(rows), NEW plan \in [Places -> Price], NEW items \in SUBSET Places,
         \A r \in ApprovedOf(rows) : r.place \notin items
  PROVE  /\ Table(Recorded(rows, plan, items))
         /\ ApprovedOf(Recorded(rows, plan, items)) = ApprovedOf(rows)
<1> DEFINE order == SetToSeq(items)
           l == Len(order)
           next(t, n) == Upsert(t, order[n], plan[order[n]], "pending")
           Tables == {t \in Seq(Row) : OnePerPlace(t)}
           G == [p \in (1 .. l) \X Tables |-> next(p[2], p[1])]
           F(f) == [n \in 0 .. l |-> IF n = 0 THEN rows ELSE next(f[n - 1], n)]
           after == CHOOSE f : f = F(f)
<1>1. order \in Seq(items) /\ l \in Nat
  <2>1. IsFiniteSet(items)
    BY PricesAssumption, FS_Subset
  <2>2. QED
    BY <2>1, SetInOrder
<1>2. \A n \in 1 .. l : order[n] \in items /\ order[n] \in Places /\ plan[order[n]] \in Price
  BY <1>1
<1>3. Recorded(rows, plan, items) = after[l]
  BY DEF Recorded
<1> HIDE DEF order, l
<1>4. ASSUME NEW t, Table(t), NEW n \in 1 .. l
      PROVE  /\ Table(next(t, n))
             /\ ToSet(next(t, n))
                  = {[place |-> order[n], price |-> plan[order[n]], status |-> "pending"]}
                      \cup {r \in ToSet(t) : r.place # order[n]}
  BY <1>2, <1>4, UpsertRows DEF Statuses
<1> HIDE DEF next
<1>5. G \in StepFunctions(l, Tables)
  BY <1>4 DEF StepFunctions, Table
<1>6. \A n \in 1 .. l : \A t \in Tables : G[<<n, t>>] = next(t, n)
  OBVIOUS
<1>7. rows \in Tables
  BY DEF Table
<1> HIDE DEF G, Tables
<1>8. PICK g \in [0 .. l -> Tables] : Follows(g, l, rows, G)
  BY <1>1, <1>5, <1>7, Recursion
<1>9. g = F(g)
  <2>1. \A n \in 1 .. l : n - 1 \in 0 .. l /\ g[n - 1] \in Tables
    BY <1>1, <1>8
  <2>2. \A n \in 0 .. l : n = 0 \/ n \in 1 .. l
    BY <1>1
  <2>3. \A n \in 0 .. l : g[n] = F(g)[n]
    BY <1>6, <1>8, <2>1, <2>2 DEF Follows
  <2>4. QED
    BY <1>8, <2>3
<1>10. after = F(after)
  BY <1>9
<1> HIDE DEF after
<1>11. after[0] = rows
  BY <1>1, <1>10
<1>12. ASSUME NEW n \in 1 .. l PROVE after[n] = next(after[n - 1], n)
  <2>1. n \in 0 .. l /\ n # 0
    BY <1>1
  <2>2. F(after)[n] = next(after[n - 1], n)
    BY <2>1
  <2>3. QED
    BY <1>10, <2>2
<1> DEFINE Good == {n \in 0 .. l : Table(after[n]) /\ ApprovedOf(after[n]) = ApprovedOf(rows)}
<1>13. 0 \in Good
  BY <1>1, <1>11
<1>14. ASSUME NEW n \in 1 .. l, n - 1 \in Good PROVE n \in Good
  <2> DEFINE row == [place |-> order[n], price |-> plan[order[n]], status |-> "pending"]
             t == after[n - 1]
  <2>1. Table(t) /\ ApprovedOf(t) = ApprovedOf(rows)
    BY <1>14
  <2>2. Table(after[n]) /\ ToSet(after[n]) = {row} \cup {r \in ToSet(t) : r.place # order[n]}
    BY <1>4, <1>12, <2>1
  <2>3. row.status # "approved"
    OBVIOUS
  <2> HIDE DEF row, t
  <2>4. \A r \in ApprovedOf(t) : r.place # order[n]
    BY <1>2, <2>1
  <2>5. ApprovedOf(after[n]) = ApprovedOf(t)
    BY <2>2, <2>3, <2>4 DEF ApprovedOf
  <2>6. n \in 0 .. l
    BY <1>1
  <2>7. QED
    BY <2>1, <2>2, <2>5, <2>6
<1> HIDE DEF Good
<1>15. l \in Good
  <2>1. \A n \in 1 .. l : n - 1 \in Good => n \in Good
    BY <1>14
  <2>2. \A n \in 0 .. l : n \in Good
    BY <1>1, <1>13, <2>1, Induction
  <2>3. QED
    BY <1>1, <2>2
<1>16. QED
  BY <1>3, <1>15 DEF Good

(* The price an item takes is that of an approved row that matches it.     *)
LEMMA PriceIsApproved ==
  ASSUME NEW rows \in Seq(Row), NEW item
  PROVE  /\ PriceFor(rows, item) \in Price
         /\ PriceFor(rows, item) > 0 =>
              \E r \in ApprovedOf(rows) :
                <<r.place, item>> \in Matching /\ r.price = PriceFor(rows, item)
<1> DEFINE a == Approved(rows)
           I == {i \in DOMAIN a : <<a[i].place, item>> \in Matching}
           p == Picked(a, I)
<1>1. a \in Seq(Row) /\ ToSet(a) = ApprovedOf(rows)
  BY ApprovedRows
<1>2. PriceFor(rows, item) = IF p = << >> THEN 0 ELSE Head(p).price
  BY DEF PriceFor, Chosen
<1> HIDE DEF a
<1>3. p \in Seq(Row) /\ \A k \in DOMAIN p : \E i \in I \cap DOMAIN a : p[k] = a[i]
  <2> HIDE DEF I
  <2>1. QED
    BY <1>1, PickedElements
<1> HIDE DEF p
<1>4. CASE p = << >>
  BY <1>2, <1>4, PricesAssumption DEF Price
<1>5. CASE p # << >>
  <2>1. 1 \in DOMAIN p /\ Head(p) = p[1] /\ p[1] \in Row
    BY <1>3, <1>5
  <2>2. PICK i \in I \cap DOMAIN a : p[1] = a[i]
    BY <1>3, <2>1
  <2>3. p[1] \in ApprovedOf(rows) /\ <<p[1].place, item>> \in Matching
    BY <1>1, <2>2 DEF ToSet
  <2>4. PriceFor(rows, item) = p[1].price /\ p[1].price \in Price
    BY <1>2, <1>5, <2>1 DEF Row
  <2>5. QED
    BY <2>3, <2>4
<1>6. QED
  BY <1>4, <1>5

-----------------------------------------------------------------------------
(* What administrators have approved.                                      *)

BookInv ==
  /\ Table(book)
  /\ \A r \in ApprovedOf(book) : <<r.place, r.price>> \in endorsed
  /\ \A i \in DOMAIN reports : reports[i].place \in Places /\ reports[i].price \in Price
  /\ \A item \in DOMAIN shown : shown[item] > 0
  /\ ReusedPricesReviewed

(* The end of a run leaves the approved rows as they are.                  *)
LEMMA RunKeepsApproved ==
  ASSUME Table(book), NEW plan \in [Places -> Price], NEW cached \in BOOLEAN,
         RunEndsWith(plan, cached)
  PROVE  Table(book') /\ ApprovedOf(book') = ApprovedOf(book)
<1> DEFINE priced == Enriched(book, plan)
           items == IF cached THEN {} ELSE ToRecord(book, priced)
<1>1. book \in Seq(Row)
  BY DEF Table
<1>2. priced \in [Places -> Price]
  BY <1>1, PriceIsApproved DEF Enriched
<1>3. PICK part \in SUBSET items : book' = Recorded(book, priced, part)
  BY DEF RunEndsWith
<1> HIDE DEF priced
<1>4. part \in SUBSET Places /\ \A r \in ApprovedOf(book) : r.place \notin part
  BY <1>2 DEF ToRecord, ApprovedOf, ToSet
<1>5. QED
  BY <1>2, <1>3, <1>4, RecordedRows

LEMMA BookInitially == PricesInit => BookInv
  BY DEF PricesInit, BookInv, Table, OnePerPlace, ApprovedOf, ToSet, ReusedPricesReviewed

(* An approved price that is upserted was approved by who upserts it.      *)
LEMMA UpsertKeepsBook ==
  ASSUME BookInv, NEW place \in Places, NEW price \in Price, NEW status \in Statuses,
         book' = Upsert(book, place, price, status),
         endorsed' = endorsed \cup IF status = "approved" THEN {<<place, price>>} ELSE {},
         shown' = shown,
         \A i \in DOMAIN reports' : reports'[i].place \in Places /\ reports'[i].price \in Price
  PROVE  BookInv'
<1> DEFINE row == [place |-> place, price |-> price, status |-> status]
<1>1. Table(book') /\ ToSet(book') = {row} \cup {r \in ToSet(book) : r.place # place}
  BY UpsertRows DEF BookInv
<1>2. row.place = place /\ row.price = price /\ row.status = status
  OBVIOUS
<1> HIDE DEF row
<1>3. \A r \in ApprovedOf(book)' : <<r.place, r.price>> \in endorsed'
  BY <1>1, <1>2 DEF ApprovedOf, BookInv
<1>4. ReusedPricesReviewed'
  BY DEF BookInv, ReusedPricesReviewed
<1>5. QED
  BY <1>1, <1>3, <1>4 DEF BookInv

LEMMA BookStep == ReportsInv /\ BookInv /\ [PricesNext]_priceVars => BookInv'
<1> SUFFICES ASSUME ReportsInv, BookInv, [PricesNext]_priceVars PROVE BookInv'
  OBVIOUS
<1>1. \A i \in DOMAIN reports : /\ reports[i].place \in Places /\ reports[i].price \in Price
  BY DEF BookInv
<1>2. ASSUME NEW place \in Places, NEW price \in Price, NEW status \in Statuses,
             AdminUpsert(place, price, status)
      PROVE  BookInv'
  BY <1>2, <1>1, UpsertKeepsBook DEF AdminUpsert
<1>3. ASSUME NEW place \in Places, AdminDelete(place) PROVE BookInv'
  <2>1. Table(book') /\ ToSet(book') = {r \in ToSet(book) : r.place # place}
    BY <1>3, OthersRows DEF AdminDelete, BookInv
  <2>2. QED
    BY <1>3, <2>1 DEF AdminDelete, BookInv, ApprovedOf, ReusedPricesReviewed
<1>4. ASSUME NEW place \in Places, NEW price \in Price, Submit(place, price) PROVE BookInv'
  <2> DEFINE report == [place |-> place, price |-> price, status |-> "pending"]
  <2>1. \A i \in DOMAIN reports' : i \in DOMAIN reports \/ reports'[i] = report
    BY <1>4 DEF Submit, ReportsInv, ReportsTyped
  <2>2. \A i \in DOMAIN reports : reports'[i] = reports[i]
    BY <1>4 DEF Submit, ReportsInv, ReportsTyped
  <2>3. report.place \in Places /\ report.price \in Price
    OBVIOUS
  <2> HIDE DEF report
  <2>4. \A i \in DOMAIN reports' : reports'[i].place \in Places /\ reports'[i].price \in Price
    BY <1>1, <2>1, <2>2, <2>3
  <2>5. QED
    BY <1>4, <2>4 DEF Submit, BookInv, ReusedPricesReviewed
<1>5. ASSUME NEW i \in DOMAIN reports, NEW status \in {"approved", "rejected"},
             DecideReport(i, status)
      PROVE  BookInv'
  <2>1. \A j \in DOMAIN reports' : reports'[j].place \in Places /\ reports'[j].price \in Price
    <3>1. reports' \in Seq(Report)
      BY <1>5, DecideKeeps DEF ReportsInv, ReportsTyped
    <3>2. \A j \in DOMAIN reports' : reports'[j] \in Report
      BY <3>1
    <3>3. QED
      BY <3>2 DEF Report
  <2>2. CASE status = "approved"
    BY <1>1, <1>5, <2>1, <2>2, UpsertKeepsBook DEF DecideReport, Statuses
  <2>3. CASE status = "rejected"
    BY <1>5, <2>1, <2>3 DEF DecideReport, BookInv, ReusedPricesReviewed
  <2>4. QED
    BY <2>2, <2>3
<1>6. ASSUME NEW plan \in [Places -> Price], NEW cached \in BOOLEAN, RunEndsWith(plan, cached)
      PROVE  BookInv'
  <2> DEFINE priced == Enriched(book, plan)
  <2>1. Table(book') /\ ApprovedOf(book') = ApprovedOf(book) /\ UNCHANGED <<reports, endorsed>>
    BY <1>6, RunKeepsApproved DEF BookInv, RunEndsWith
  <2>2. ASSUME NEW item \in DOMAIN shown'
        PROVE  /\ shown'[item] > 0
               /\ \E place \in Places :
                    <<place, item>> \in Matching /\ <<place, shown'[item]>> \in endorsed
    <3>1. CASE shown' = shown
      BY <2>2, <3>1 DEF BookInv, ReusedPricesReviewed
    <3>2. CASE shown' = Restrict(priced, {x \in DOMAIN plan : PriceFor(book, x) > 0})
      <4>1. item \in DOMAIN plan /\ PriceFor(book, item) > 0 /\ shown'[item] = PriceFor(book, item)
        BY <2>2, <3>2 DEF Restrict, Enriched
      <4>2. PICK r \in ApprovedOf(book) :
              <<r.place, item>> \in Matching /\ r.price = PriceFor(book, item)
        BY <4>1, PriceIsApproved DEF BookInv, Table
      <4>3. <<r.place, r.price>> \in endorsed /\ r.place \in Places
        BY <4>2, MatchingAssumption DEF BookInv
      <4>4. QED
        BY <4>1, <4>2, <4>3
    <3>3. QED
      BY <1>6, <3>1, <3>2 DEF RunEndsWith
  <2>3. QED
    BY <2>1, <2>2 DEF BookInv, ReusedPricesReviewed
<1>7. CASE UNCHANGED priceVars
  BY <1>7 DEF priceVars, BookInv, ApprovedOf, ReusedPricesReviewed
<1>8. CASE AdminAct
  BY <1>2, <1>3, <1>5, <1>8 DEF AdminAct, Statuses
<1>9. QED
  BY <1>4, <1>6, <1>7, <1>8 DEF PricesNext

(* Whatever runs record, a plan takes from the book only what an           *)
(* administrator approved, for a place whose name is part of the item's.   *)
THEOREM ReusedAreReviewed == PricesSpec => []ReusedPricesReviewed
<1>1. BookInv => ReusedPricesReviewed
  BY DEF BookInv
<1>2. QED
  BY <1>1, ReportsInitially, ReportsStep, BookInitially, BookStep, PTL DEF PricesSpec

(* Only administrators move an approved price: no end of a run, however    *)
(* far it gets, and no report of a user does.                              *)
THEOREM ReviewedAreKept == PricesSpec => ReviewedPricesKept
<1>1. ReportsInv /\ BookInv /\ [PricesNext]_priceVars =>
        [ToSet(Approved(book')) # ToSet(Approved(book)) => AdminAct]_priceVars
  <2> SUFFICES ASSUME BookInv, BookInv', PricesNext, ~AdminAct
               PROVE  ToSet(Approved(book')) = ToSet(Approved(book))
    BY BookStep
  <2>1. book \in Seq(Row) /\ book' \in Seq(Row)
    BY DEF BookInv, Table
  <2>2. ApprovedOf(book') = ApprovedOf(book)
    <3>1. CASE \E place \in Places, price \in Price : Submit(place, price)
      BY <3>1 DEF Submit
    <3>2. CASE \E plan \in [Places -> Price], cached \in BOOLEAN : RunEndsWith(plan, cached)
      BY <3>2, RunKeepsApproved DEF BookInv
    <3>3. QED
      BY <3>1, <3>2 DEF PricesNext
  <2>3. QED
    BY <2>1, <2>2, ApprovedRows
<1>2. QED
  BY <1>1, ReportsInitially, ReportsStep, BookInitially, BookStep, PTL
  DEF PricesSpec, ReviewedPricesKept

(* What else the table and the plans can hold.                             *)
PricesBounded ==
  /\ Len(reports) <= MaxReports
  /\ shown \in [DOMAIN shown -> Price] /\ DOMAIN shown \subseteq Places
  /\ endorsed \subseteq Places \X Price
  /\ slips \in 0 .. MaxSlips

LEMMA PricesBoundedStep ==
  ReportsInv /\ BookInv /\ PricesBounded /\ [PricesNext]_priceVars => PricesBounded'
<1> SUFFICES ASSUME ReportsInv, BookInv, PricesBounded, [PricesNext]_priceVars
             PROVE  PricesBounded'
  OBVIOUS
<1>1. /\ Len(reports) \in Nat /\ book \in Seq(Row)
      /\ \A i \in DOMAIN reports : <<reports[i].place, reports[i].price>> \in Places \X Price
  BY DEF ReportsInv, ReportsTyped, BookInv, Table
<1>2. Slip => slips' \in 0 .. MaxSlips
  BY PricesAssumption DEF Slip, PricesBounded
<1>3. ASSUME NEW place \in Places, NEW price \in Price, NEW status \in Statuses,
             AdminUpsert(place, price, status)
      PROVE  PricesBounded'
  BY <1>3 DEF AdminUpsert, PricesBounded
<1>4. ASSUME NEW place \in Places, AdminDelete(place) PROVE PricesBounded'
  BY <1>4 DEF AdminDelete, PricesBounded
<1>5. ASSUME NEW place \in Places, NEW price \in Price, Submit(place, price)
      PROVE  PricesBounded'
  <2>1. Len(reports') <= MaxReports
    BY <1>1, <1>5, PricesAssumption DEF Submit, ReportsInv, ReportsTyped
  <2>2. QED
    BY <1>5, <2>1 DEF Submit, PricesBounded
<1>6. ASSUME NEW i \in DOMAIN reports, NEW status \in {"approved", "rejected"},
             DecideReport(i, status)
      PROVE  PricesBounded'
  <2>1. Len(reports') = Len(reports)
    <3>1. CASE reports' = [reports EXCEPT ![i].status = status]
      BY <3>1 DEF ReportsInv, ReportsTyped
    <3>2. CASE UNCHANGED reports
      BY <3>2
    <3>3. QED
      BY <1>6, <3>1, <3>2 DEF DecideReport
  <2>2. endorsed' \subseteq Places \X Price
    BY <1>1, <1>6 DEF DecideReport, PricesBounded
  <2>3. shown' = shown /\ slips' \in 0 .. MaxSlips
    BY <1>2, <1>6 DEF DecideReport, PricesBounded
  <2>4. QED
    BY <2>1, <2>2, <2>3 DEF PricesBounded
<1>7. ASSUME NEW plan \in [Places -> Price], NEW cached \in BOOLEAN, RunEndsWith(plan, cached)
      PROVE  PricesBounded'
  <2> DEFINE priced == Enriched(book, plan)
             kept == {item \in DOMAIN plan : PriceFor(book, item) > 0}
  <2>1. priced \in [Places -> Price]
    BY <1>1, PriceIsApproved DEF Enriched
  <2>2. \/ shown' = Restrict(priced, kept) /\ slips' = slips
        \/ shown' = shown /\ Slip
    BY <1>7 DEF RunEndsWith
  <2>3. kept \subseteq Places
    OBVIOUS
  <2> HIDE DEF priced, kept
  <2>4. /\ shown' \in [DOMAIN shown' -> Price] /\ DOMAIN shown' \subseteq Places
        /\ slips' \in 0 .. MaxSlips
    BY <1>2, <2>1, <2>2, <2>3 DEF Restrict, PricesBounded
  <2>5. QED
    BY <1>7, <2>4 DEF RunEndsWith, PricesBounded
<1>8. CASE UNCHANGED priceVars
  BY <1>8 DEF priceVars, PricesBounded
<1>9. CASE AdminAct
  BY <1>3, <1>4, <1>6, <1>9 DEF AdminAct, Statuses
<1>10. QED
  BY <1>5, <1>7, <1>8, <1>9 DEF PricesNext

(* The table has one row for each place, and what plans show and reports   *)
(* say are prices that are not zero.                                       *)
THEOREM PricesTypeCorrect == PricesSpec => []PricesTypeOK
<1>1. ReportsInv /\ BookInv /\ PricesBounded => PricesTypeOK
  BY DEF ReportsInv, ReportsTyped, BookInv, Table, OnePerPlace, PricesBounded, PricesTypeOK, Price
<1>2. PricesInit => PricesBounded
  BY PricesAssumption DEF PricesInit, PricesBounded
<1>3. QED
  BY <1>1, <1>2, ReportsInitially, ReportsStep, BookInitially, BookStep, PricesBoundedStep, PTL
  DEF PricesSpec

-----------------------------------------------------------------------------
(* The tokens of a run.                                                    *)

(* While a run is under way, the counter is ahead of what it was when the  *)
(* run began by all that was counted since, and behind that only by what a *)
(* reset took away.                                                        *)
CounterAhead ==
  \A r \in Running :
    /\ counted - before[r] <= used[r] + beside[r]
    /\ r \notin cut => counted - before[r] >= used[r]

(* A run that has not begun has used nothing.                              *)
NewRunsUnused ==
  \A r \in Runs : runState[r] = "new" => used[r] = 0 /\ r \notin cut

CostsInv == CostsTypeOK /\ CounterAhead /\ NewRunsUnused /\ RunsPayTheirOwn

LEMMA CostsInitially == CostsInit => CostsInv
  BY TokensAssumption
  DEF CostsInit, CostsInv, CostsTypeOK, CounterAhead, NewRunsUnused, RunsPayTheirOwn, Running

LEMMA CountingKeeps ==
  ASSUME CostsInv, NEW asking \in SUBSET Running, Counts(asking)
  PROVE  CostsInv'
<1> USE DEF CostsInv, CostsTypeOK, Counts, Running
<1>1. CostsTypeOK'
  BY TokensAssumption
<1>2. CounterAhead'
  BY DEF CounterAhead
<1>3. NewRunsUnused'
  BY DEF NewRunsUnused
<1>4. RunsPayTheirOwn'
  BY DEF RunsPayTheirOwn
<1>5. QED
  BY <1>1, <1>2, <1>3, <1>4

LEMMA CostsStep == CostsInv /\ [CostsNext]_costVars => CostsInv'
<1> SUFFICES ASSUME CostsInv, [CostsNext]_costVars PROVE CostsInv'
  OBVIOUS
<1> USE DEF CostsInv
<1>1. ASSUME NEW r \in Runs, RunBegins(r) PROVE CostsInv'
  <2>1. CostsTypeOK'
    BY <1>1, TokensAssumption DEF RunBegins, CostsTypeOK
  <2>2. CounterAhead'
    BY <1>1 DEF RunBegins, CostsTypeOK, CounterAhead, NewRunsUnused, Running
  <2>3. NewRunsUnused' /\ RunsPayTheirOwn'
    BY <1>1 DEF RunBegins, CostsTypeOK, NewRunsUnused, RunsPayTheirOwn
  <2>4. QED
    BY <2>1, <2>2, <2>3
<1>2. ASSUME NEW r \in Runs, RunAnswered(r) PROVE CostsInv'
  BY <1>2, CountingKeeps DEF RunAnswered
<1>3. ASSUME NEW r \in Runs, RunEndsCharged(r) PROVE CostsInv'
  <2> DEFINE due == counted - before[r]
  <2>1. due \in Int /\ r \in Running /\ runState[r] = "running"
    BY <1>3, TokensAssumption DEF RunEndsCharged, CostsTypeOK, Running
  <2>2. charged' = [charged EXCEPT ![r] = IF due > 0 THEN due ELSE 0]
    <3>1. Max({0, due}) = IF due > 0 THEN due ELSE 0
      BY <2>1, GreaterOfTwo
    <3>2. QED
      BY <1>3, <3>1 DEF RunEndsCharged
  <2>3. CostsTypeOK'
    BY <1>3, <2>1, <2>2 DEF RunEndsCharged, CostsTypeOK
  <2>4. CounterAhead' /\ NewRunsUnused'
    BY <1>3 DEF RunEndsCharged, CostsTypeOK, CounterAhead, NewRunsUnused, Running
  <2>5. RunsPayTheirOwn'
    <3> SUFFICES ASSUME NEW s \in Runs, runState'[s] = "ended"
                 PROVE  /\ charged'[s] <= used[s] + beside[s]
                        /\ s \notin cut => charged'[s] >= used[s]
      BY <1>3 DEF RunsPayTheirOwn, RunEndsCharged
    <3>1. CASE s = r
      BY <3>1, <2>1, <2>2, TokensAssumption DEF CounterAhead, CostsTypeOK
    <3>2. CASE s # r
      BY <3>2, <1>3, <2>2 DEF RunEndsCharged, CostsTypeOK, RunsPayTheirOwn
    <3>3. QED
      BY <3>1, <3>2
  <2>6. QED
    BY <2>3, <2>4, <2>5
<1>4. CASE OtherAnswered
  BY <1>4, CountingKeeps DEF OtherAnswered
<1>5. CASE ResetMetrics
  <2>1. CostsTypeOK'
    BY <1>5, TokensAssumption DEF ResetMetrics, CostsTypeOK, Running
  <2>2. CounterAhead'
    BY <1>5, TokensAssumption DEF ResetMetrics, CostsTypeOK, CounterAhead, Running
  <2>3. NewRunsUnused' /\ RunsPayTheirOwn'
    BY <1>5 DEF ResetMetrics, CostsTypeOK, NewRunsUnused, RunsPayTheirOwn, Running
  <2>4. QED
    BY <2>1, <2>2, <2>3
<1>6. CASE ProcessRestarts
  <2>1. CostsTypeOK'
    BY <1>6, TokensAssumption DEF ProcessRestarts, CostsTypeOK, Running
  <2>2. CounterAhead'
    BY <1>6 DEF ProcessRestarts, CostsTypeOK, CounterAhead, Running
  <2>3. NewRunsUnused' /\ RunsPayTheirOwn'
    BY <1>6 DEF ProcessRestarts, CostsTypeOK, NewRunsUnused, RunsPayTheirOwn, Running
  <2>4. QED
    BY <2>1, <2>2, <2>3
<1>7. CASE UNCHANGED costVars
  BY <1>7
  DEF costVars, CostsTypeOK, CounterAhead, NewRunsUnused, RunsPayTheirOwn, Running
<1>8. QED
  BY <1>1, <1>2, <1>3, <1>4, <1>5, <1>6, <1>7 DEF CostsNext

(* A run is charged for what it used, unless the counters were reset while *)
(* it ran, and never for more than was counted meanwhile.                  *)
THEOREM RunsPay == CostsSpec => []RunsPayTheirOwn
<1>1. CostsInv => RunsPayTheirOwn
  BY DEF CostsInv
<1>2. QED
  BY <1>1, CostsInitially, CostsStep, PTL DEF CostsSpec

(* No run is ever charged less than nothing.                               *)
THEOREM CostsTypeCorrect == CostsSpec => []CostsTypeOK
<1>1. CostsInv => CostsTypeOK
  BY DEF CostsInv
<1>2. QED
  BY <1>1, CostsInitially, CostsStep, PTL DEF CostsSpec

-----------------------------------------------------------------------------
(* The samples: what went wrong waits to be improved on.                   *)

(* The samples that should be there.                                       *)
WrongIn(report, i) ==
  {<<"eval", i, <<"main", c>>>> : c \in {c \in Cases : ~report.mains[c]}}
  \cup {<<"eval", i, <<"plan", c>>>> :
         c \in {c \in Cases : report.plans[c] # [passed |-> TRUE, missed |-> {}]}}

Unhappy == {i \in DOMAIN ratings : ratings[i].stars \in {1, 2}}

WrongFound == UNION {WrongIn(evaluations[i], i) : i \in DOMAIN evaluations}

Rated(ids) == {<<"feedback", i, ratings[i].target>> : i \in ids}

Wanted == WrongFound \cup Rated(Unhappy \ untracked)

SamplesWanted ==
  /\ DOMAIN samples = Wanted
  /\ \A k \in Wanted : samples[k] = IF k \in DOMAIN verdicts THEN verdicts[k] ELSE "open"

SamplesInv ==
  /\ evaluations \in Seq(Evaluation)
  /\ ratings \in Seq(Rating)
  /\ untracked \subseteq DOMAIN ratings
  /\ DOMAIN verdicts \subseteq DOMAIN samples
  /\ SamplesWanted

-----------------------------------------------------------------------------
(* The threshold lets a plan pass if it missed no check at all.            *)
LEMMA ThresholdIsAllChecks ==
  ASSUME NEW missed \in SUBSET Checks
  PROVE  4 * (Cardinality(Checks) - Cardinality(missed)) > 3 * Cardinality(Checks)
           <=> missed = {}
<1>1. IsFiniteSet(missed) /\ Cardinality(missed) \in Nat /\ Cardinality(Checks) = 4
  BY ReportsAssumption, FS_Subset, FS_CardinalityType
<1>2. Cardinality(missed) = 0 <=> missed = {}
  BY <1>1, FS_EmptySet
<1>3. QED
  BY <1>1, <1>2

LEMMA LowIsWrong ==
  ASSUME NEW report \in Evaluation, NEW i
  PROVE  {<<"eval", i, c>> : c \in Low(report)} = WrongIn(report, i)
<1> DEFINE bad(c) == report.plans[c] # [passed |-> TRUE, missed |-> {}]
           low(c) == ~ /\ report.plans[c].passed
                       /\ 4 * (Cardinality(Checks) - Cardinality(report.plans[c].missed))
                            > 3 * Cardinality(Checks)
<1>1. \A c \in Cases : low(c) <=> bad(c)
  <2> SUFFICES ASSUME NEW c \in Cases PROVE low(c) <=> bad(c)
    OBVIOUS
  <2> DEFINE result == report.plans[c]
  <2>1. result \in Result
    BY DEF Evaluation
  <2>2. result.missed \in SUBSET Checks /\ result.passed \in BOOLEAN
    BY <2>1 DEF Result
  <2>3. result = [passed |-> TRUE, missed |-> {}] <=> result.passed /\ result.missed = {}
    <3> DEFINE all == [passed |-> TRUE, missed |-> {}]
    <3>1. result = [passed |-> result.passed, missed |-> result.missed]
      BY <2>1 DEF Result
    <3>2. all.passed /\ all.missed = {}
      OBVIOUS
    <3>3. result.passed /\ result.missed = {} => result = all
      BY <2>2, <3>1
    <3> HIDE DEF all
    <3>4. result = all <=> result.passed /\ result.missed = {}
      BY <3>2, <3>3
    <3>5. QED
      BY <3>4 DEF all
  <2> HIDE DEF result
  <2>4. 4 * (Cardinality(Checks) - Cardinality(result.missed)) > 3 * Cardinality(Checks)
          <=> result.missed = {}
    BY <2>2, ThresholdIsAllChecks
  <2>5. QED
    BY <2>3, <2>4 DEF result
<1>2. Low(report) = {<<"plan", c>> : c \in {c \in Cases : low(c)}}
                      \cup {<<"main", c>> : c \in {c \in Cases : ~report.mains[c]}}
  BY DEF Low
<1> HIDE DEF low
<1>3. {<<"eval", i, k>> : k \in Low(report)}
        = {<<"eval", i, <<"plan", c>>>> : c \in {c \in Cases : low(c)}}
            \cup {<<"eval", i, <<"main", c>>>> : c \in {c \in Cases : ~report.mains[c]}}
  BY <1>2
<1>4. {c \in Cases : low(c)} = {c \in Cases : bad(c)}
  BY <1>1
<1>5. QED
  BY <1>3, <1>4 DEF WrongIn

(* A sample names the evaluation, or the rating, that it is of.            *)
LEMMA SamplesNameTheirRun ==
  /\ \A report, i : \A k \in WrongIn(report, i) : k[1] = "eval" /\ k[2] = i
  /\ \A k \in Wanted :
       \/ k[1] = "eval" /\ k[2] \in DOMAIN evaluations
       \/ k[1] = "feedback" /\ k[2] \in DOMAIN ratings
<1>1. \A report, i : \A k \in WrongIn(report, i) : k[1] = "eval" /\ k[2] = i
  BY DEF WrongIn
<1>2. \A k \in Wanted :
        \/ \E i \in DOMAIN evaluations : k \in WrongIn(evaluations[i], i)
        \/ \E i \in Unhappy \ untracked : k = <<"feedback", i, ratings[i].target>>
  <2>1. \A k \in WrongFound : \E i \in DOMAIN evaluations : k \in WrongIn(evaluations[i], i)
    BY Zenon DEF WrongFound
  <2>2. \A k \in Rated(Unhappy \ untracked) :
          \E i \in Unhappy \ untracked : k = <<"feedback", i, ratings[i].target>>
    BY Zenon DEF Rated
  <2>3. QED
    BY <2>1, <2>2 DEF Wanted
<1>3. Unhappy \subseteq DOMAIN ratings
  BY DEF Unhappy
<1>4. QED
  BY <1>1, <1>2, <1>3

(* Samples that are opened for the first time wait for an administrator.   *)
LEMMA OpenedAdds ==
  ASSUME SamplesInv, NEW keys, keys \cap Wanted = {},
         samples' = Opened(keys), verdicts' = verdicts, Wanted' = Wanted \cup keys
  PROVE  SamplesWanted' /\ DOMAIN verdicts' \subseteq DOMAIN samples'
<1>1. /\ DOMAIN samples = Wanted /\ DOMAIN samples' = Wanted \cup keys
      /\ DOMAIN verdicts \subseteq Wanted
      /\ \A k \in Wanted : samples[k] = IF k \in DOMAIN verdicts THEN verdicts[k] ELSE "open"
  BY DEF SamplesInv, SamplesWanted, Opened
<1>2. \A k \in Wanted \cup keys : samples'[k] = IF k \in keys THEN "open" ELSE samples[k]
  BY <1>1 DEF Opened
<1>3. \A k \in Wanted \cup keys :
        samples'[k] = IF k \in DOMAIN verdicts' THEN verdicts'[k] ELSE "open"
  BY <1>1, <1>2
<1>4. QED
  BY <1>1, <1>3 DEF SamplesWanted

-----------------------------------------------------------------------------
LEMMA SamplesInitially == SamplesInit => SamplesInv
  BY DEF SamplesInit, SamplesInv, SamplesWanted, Wanted, WrongFound, Rated, Unhappy

LEMMA EvaluateKeeps ==
  ASSUME SamplesInv, NEW report \in Reports, Evaluate(report)
  PROVE  SamplesInv'
<1> DEFINE id == Len(evaluations) + 1
           keys == WrongIn(report, id)
<1>1. report \in Evaluation /\ evaluations \in Seq(Evaluation)
  BY ReportsAssumption DEF SamplesInv
<1>2. /\ evaluations' \in Seq(Evaluation)
      /\ DOMAIN evaluations' = DOMAIN evaluations \cup {id} /\ id \notin DOMAIN evaluations
      /\ evaluations'[id] = report
      /\ \A i \in DOMAIN evaluations : evaluations'[i] = evaluations[i]
  BY <1>1 DEF Evaluate
<1>3. samples' = Opened(keys) /\ UNCHANGED <<ratings, untracked, verdicts>>
  BY <1>1, LowIsWrong DEF Evaluate
<1> HIDE DEF id
<1>4. Wanted' = Wanted \cup keys
  <2>1. WrongFound' = WrongFound \cup keys
    BY <1>2 DEF WrongFound
  <2>2. Rated(Unhappy \ untracked)' = Rated(Unhappy \ untracked)
    BY <1>3 DEF Rated, Unhappy
  <2>3. QED
    BY <2>1, <2>2 DEF Wanted
<1>5. keys \cap Wanted = {}
  <2>1. \A k \in keys : k[1] = "eval" /\ k[2] = id
    BY SamplesNameTheirRun
  <2>2. \A k \in Wanted : k[1] = "eval" => k[2] \in DOMAIN evaluations
    BY SamplesNameTheirRun
  <2>3. QED
    BY <1>2, <2>1, <2>2
<1> HIDE DEF keys
<1>6. SamplesWanted' /\ DOMAIN verdicts' \subseteq DOMAIN samples'
  BY <1>3, <1>4, <1>5, OpenedAdds
<1>7. QED
  BY <1>2, <1>3, <1>6 DEF SamplesInv

LEMMA RateKeeps ==
  ASSUME SamplesInv, NEW rating \in Rating, Rate(rating)
  PROVE  SamplesInv'
<1> DEFINE id == Len(ratings) + 1
           key == <<"feedback", id, rating.target>>
<1>1. ratings \in Seq(Rating) /\ untracked \subseteq DOMAIN ratings
  BY DEF SamplesInv
<1>2. rating.stars <= 2 <=> rating.stars \in {1, 2}
  BY DEF Rating
<1>3. /\ ratings' \in Seq(Rating)
      /\ DOMAIN ratings' = DOMAIN ratings \cup {id} /\ id \notin DOMAIN ratings
      /\ ratings'[id] = rating
      /\ \A i \in DOMAIN ratings : ratings'[i] = ratings[i]
      /\ UNCHANGED <<evaluations, verdicts>>
  BY <1>1 DEF Rate
<1>4. \/ /\ rating.stars \in {1, 2} /\ samples' = Opened({key}) /\ untracked' = untracked
      \/ /\ rating.stars \notin {1, 2} /\ samples' = samples /\ untracked' = untracked
      \/ /\ samples' = samples /\ untracked' = untracked \cup {id}
  BY <1>2 DEF Rate
<1> HIDE DEF id
<1>5. Unhappy' = Unhappy \cup (IF rating.stars \in {1, 2} THEN {id} ELSE {})
  BY <1>3 DEF Unhappy
<1>6. Unhappy \subseteq DOMAIN ratings
  BY DEF Unhappy
<1>7. CASE rating.stars \in {1, 2} /\ samples' = Opened({key}) /\ untracked' = untracked
  <2>1. Wanted' = Wanted \cup {key}
    <3>1. Unhappy' \ untracked' = (Unhappy \ untracked) \cup {id}
      BY <1>1, <1>3, <1>5, <1>6, <1>7
    <3>2. WrongFound' = WrongFound
      BY <1>3 DEF WrongFound
    <3>3. Rated(Unhappy \ untracked)' = Rated(Unhappy \ untracked) \cup {key}
      BY <1>3, <1>6, <3>1 DEF Rated
    <3>4. QED
      BY <3>2, <3>3 DEF Wanted
  <2>2. {key} \cap Wanted = {}
    <3>1. \A k \in Wanted : k[1] = "feedback" => k[2] \in DOMAIN ratings
      BY SamplesNameTheirRun
    <3>2. QED
      BY <1>3, <3>1
  <2> HIDE DEF key
  <2>3. SamplesWanted' /\ DOMAIN verdicts' \subseteq DOMAIN samples'
    BY <1>3, <1>7, <2>1, <2>2, OpenedAdds
  <2>4. QED
    BY <1>1, <1>3, <1>7, <2>3 DEF SamplesInv
<1>8. CASE /\ samples' = samples
           /\ \/ rating.stars \notin {1, 2} /\ untracked' = untracked
              \/ untracked' = untracked \cup {id}
  <2>1. Unhappy' \ untracked' = Unhappy \ untracked
    BY <1>3, <1>5, <1>6, <1>8
  <2>2. Wanted' = Wanted
    <3>1. WrongFound' = WrongFound
      BY <1>3 DEF WrongFound
    <3>2. Rated(Unhappy \ untracked)' = Rated(Unhappy \ untracked)
      BY <1>3, <1>6, <2>1 DEF Rated
    <3>3. QED
      BY <3>1, <3>2 DEF Wanted
  <2>3. QED
    BY <1>1, <1>3, <1>8, <2>2 DEF SamplesInv, SamplesWanted
<1>9. QED
  BY <1>4, <1>7, <1>8

LEMMA MarkKeeps ==
  ASSUME SamplesInv, NEW k \in DOMAIN samples, NEW status, MarkSample(k, status)
  PROVE  SamplesInv'
<1>1. UNCHANGED <<evaluations, ratings, untracked>>
  BY DEF MarkSample
<1>2. Wanted' = Wanted
  BY <1>1 DEF Wanted, WrongFound, Rated, Unhappy
<1>3. /\ samples' = [samples EXCEPT ![k] = status]
      /\ DOMAIN verdicts' = DOMAIN verdicts \cup {k}
      /\ verdicts'[k] = status
      /\ \A j \in DOMAIN verdicts \ {k} : verdicts'[j] = verdicts[j]
  BY DEF MarkSample
<1>4. QED
  BY <1>1, <1>2, <1>3 DEF SamplesInv, SamplesWanted

LEMMA SamplesStep == SamplesInv /\ [SamplesNext]_sampleVars => SamplesInv'
<1>1. ASSUME SamplesInv, UNCHANGED sampleVars PROVE SamplesInv'
  BY <1>1 DEF sampleVars, SamplesInv, SamplesWanted, Wanted, WrongFound, Rated, Unhappy
<1>2. QED
  BY <1>1, EvaluateKeeps, RateKeeps, MarkKeeps DEF SamplesNext

(* A sample waits for each thing that went wrong and for nothing else,     *)
(* however many evaluations and ratings there are of the same case.        *)
THEOREM WrongIsTracked == SamplesSpec => []LowScoresTracked
<1>1. SamplesInv => LowScoresTracked
  <2> SUFFICES ASSUME SamplesInv PROVE LowScoresTracked
    OBVIOUS
  <2>1. /\ DOMAIN samples = WrongFound \cup Rated(Unhappy \ untracked)
        /\ \A k \in DOMAIN samples :
             samples[k] = IF k \in DOMAIN verdicts THEN verdicts[k] ELSE "open"
    BY DEF SamplesInv, SamplesWanted, Wanted
  <2>2. QED
    BY <2>1 DEF WrongFound, Rated, WrongIn, Unhappy, LowScoresTracked
<1>2. QED
  BY SamplesInitially, SamplesStep, <1>1, PTL DEF SamplesSpec

(* There are as many runs as there may be, and samples say open or fixed.  *)
SamplesBounded ==
  /\ Len(evaluations) <= MaxEvaluations /\ Len(ratings) <= MaxRatings
  /\ \A k \in DOMAIN samples : samples[k] \in {"open", "fixed"}
  /\ failures \in 0 .. MaxFailures

LEMMA SamplesBoundedStep ==
  SamplesInv /\ SamplesBounded /\ [SamplesNext]_sampleVars => SamplesBounded'
<1> SUFFICES ASSUME SamplesInv, SamplesBounded, [SamplesNext]_sampleVars
             PROVE  SamplesBounded'
  OBVIOUS
<1>1. Len(evaluations) \in Nat /\ Len(ratings) \in Nat
      /\ evaluations \in Seq(Evaluation) /\ ratings \in Seq(Rating)
  BY DEF SamplesInv
<1>2. \A keys : samples' = Opened(keys) =>
                \A k \in DOMAIN samples' : samples'[k] \in {"open", "fixed"}
  BY DEF Opened, SamplesBounded
<1>3. ASSUME NEW report \in Reports, Evaluate(report) PROVE SamplesBounded'
  <2>1. Len(evaluations') <= MaxEvaluations
    BY <1>1, <1>3, ReportsAssumption DEF Evaluate
  <2>2. \A k \in DOMAIN samples' : samples'[k] \in {"open", "fixed"}
    BY <1>2, <1>3, Zenon DEF Evaluate
  <2>3. QED
    BY <1>3, <2>1, <2>2 DEF Evaluate, SamplesBounded
<1>4. ASSUME NEW rating \in Rating, Rate(rating) PROVE SamplesBounded'
  <2>1. Len(ratings') <= MaxRatings
    BY <1>1, <1>4, ReportsAssumption DEF Rate
  <2>2. \/ samples' = samples
        \/ samples' = Opened({<<"feedback", Len(ratings) + 1, rating.target>>})
    BY <1>4 DEF Rate
  <2>3. \A k \in DOMAIN samples' : samples'[k] \in {"open", "fixed"}
    BY <1>2, <2>2 DEF SamplesBounded
  <2>4. failures' \in 0 .. MaxFailures /\ evaluations' = evaluations
    BY <1>4, ReportsAssumption DEF Rate, SamplesBounded
  <2>5. QED
    BY <2>1, <2>3, <2>4 DEF SamplesBounded
<1>5. ASSUME NEW k \in DOMAIN samples, NEW status \in {"open", "fixed"}, MarkSample(k, status)
      PROVE  SamplesBounded'
  BY <1>5 DEF MarkSample, SamplesBounded
<1>6. CASE UNCHANGED sampleVars
  BY <1>6 DEF sampleVars, SamplesBounded
<1>7. QED
  BY <1>3, <1>4, <1>5, <1>6 DEF SamplesNext

(* The samples that should be there are of the runs that there are.        *)
LEMMA WantedAreKeys ==
  ASSUME SamplesInv, SamplesBounded
  PROVE  Wanted \subseteq SampleKeys
<1>1. /\ DOMAIN evaluations \subseteq 1 .. MaxEvaluations
      /\ DOMAIN ratings \subseteq 1 .. MaxRatings
  BY ReportsAssumption DEF SamplesInv, SamplesBounded
<1>2. \A i \in DOMAIN evaluations : WrongIn(evaluations[i], i) \subseteq SampleKeys
  BY <1>1 DEF WrongIn, SampleKeys
<1>3. WrongFound \subseteq SampleKeys
  <2>1. \A k \in WrongFound : \E i \in DOMAIN evaluations : k \in WrongIn(evaluations[i], i)
    BY Zenon DEF WrongFound
  <2>2. QED
    BY <1>2, <2>1
<1>4. \A i \in DOMAIN ratings : ratings[i].target \in Targets
  <2>1. \A i \in DOMAIN ratings : ratings[i] \in Rating
    BY DEF SamplesInv
  <2>2. QED
    BY <2>1 DEF Rating
<1>5. Rated(Unhappy \ untracked) \subseteq SampleKeys
  BY <1>1, <1>4 DEF Rated, Unhappy, SampleKeys
<1>6. QED
  BY <1>3, <1>5 DEF Wanted

(* Every sample is of a run and a case that there is, open or fixed.       *)
THEOREM SamplesTypeCorrect == SamplesSpec => []SamplesTypeOK
<1>1. SamplesInv /\ SamplesBounded => SamplesTypeOK
  BY WantedAreKeys DEF SamplesInv, SamplesWanted, SamplesBounded, SamplesTypeOK
<1>2. SamplesInit => SamplesBounded
  BY ReportsAssumption DEF SamplesInit, SamplesBounded
<1>3. QED
  BY <1>1, <1>2, SamplesInitially, SamplesStep, SamplesBoundedStep, PTL DEF SamplesSpec
=============================================================================
