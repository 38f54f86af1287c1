----------------------------- MODULE PriceBook -----------------------------
(***************************************************************************)
(* The reference prices of the places of one city: the table, the reports  *)
(* of users about it, and the runs that put its prices into their plans    *)
(* and write the prices they found back for review (price_enrich.py).      *)
(*                                                                         *)
(* Nothing here awaits, so a handler, and the end of a run, is one step;   *)
(* statements commit one by one.  A run that fails stores no plan.  A plan *)
(* has an item of each name, some of them without a price.                 *)
(***************************************************************************)
EXTENDS Naturals, Sequences, SequencesExt, FiniteSets, Selections

CONSTANTS
  Places,            \* names; also those of the attractions and restaurants of a plan
  Matching,          \* pairs of names of which one is part of the other
  TopPrice,          \* prices are 0 .. TopPrice
  MaxReports,        \* bound on the rows of price_feedback
  MaxSlips           \* bound on statements that fail

ASSUME PricesAssumption ==
  IsFiniteSet(Places) /\ TopPrice \in Nat /\ MaxReports \in Nat /\ MaxSlips \in Nat

ASSUME MatchingAssumption ==
  /\ Matching \subseteq Places \X Places
  /\ \A p \in Places : <<p, p>> \in Matching
  /\ \A p, q \in Places : <<p, q>> \in Matching => <<q, p>> \in Matching

VARIABLES
  book,              \* place_prices, the row updated last comes first
  reports,           \* price_feedback
  shown,             \* the items of the last plan that have a price of the book
  endorsed,          \* what administrators ever approved: <<place, price>>
  applied,           \* the reports whose price went into the book, in order
  halfDecided,       \* reports applied without being marked as decided
  slips

priceVars == <<book, reports, shown, endorsed, applied, halfDecided, slips>>

-----------------------------------------------------------------------------
Price == 0 .. TopPrice
Row == [place : Places, price : Price, status : {"approved", "pending"}]
Report == [place : Places, price : Price \ {0},
           status : {"pending", "approved", "rejected"}]

PricesTypeOK ==
  /\ book \in Seq(Row)
  /\ \A i, j \in DOMAIN book : book[i].place = book[j].place => i = j
  /\ reports \in Seq(Report) /\ Len(reports) <= MaxReports
  /\ DOMAIN shown \subseteq Places
  /\ \A p \in DOMAIN shown : shown[p] \in Price \ {0}
  /\ endorsed \subseteq Places \X Price
  /\ applied \in Seq(DOMAIN reports)
  /\ halfDecided \subseteq DOMAIN reports
  /\ slips \in 0 .. MaxSlips

PricesInit ==
  /\ book = << >>
  /\ reports = << >>
  /\ shown = << >>
  /\ endorsed = {}
  /\ applied = << >>
  /\ halfDecided = {}
  /\ slips = 0

Slip == slips < MaxSlips /\ slips' = slips + 1

-----------------------------------------------------------------------------
Others(rows, place) == Chosen(rows, LAMBDA r : r.place # place)

(* upsert_place_price: the row of the place, there or new, is the newest. *)
Upsert(rows, place, price, status) ==
  <<[place |-> place, price |-> price, status |-> status]>> \o Others(rows, place)

\* Mutant: rows that wait for review count as well.
ApprovedOrNot(rows) == rows

Approved(rows) == Chosen(rows, LAMBDA r : r.status = "approved")

(* admin_upsert_price *)
AdminUpsert(place, price, status) ==
  /\ book' = Upsert(book, place, price, status)
  /\ endorsed' = endorsed \cup IF status = "approved" THEN {<<place, price>>} ELSE {}
  /\ UNCHANGED <<reports, shown, applied, halfDecided, slips>>

(* admin_delete_price *)
AdminDelete(place) ==
  /\ book' = Others(book, place)
  /\ UNCHANGED <<reports, shown, endorsed, applied, halfDecided, slips>>

(* submit_price_feedback *)
Submit(place, price) ==
  /\ Len(reports) < MaxReports
  /\ price > 0
  /\ reports' = Append(reports, [place |-> place, price |-> price, status |-> "pending"])
  /\ UNCHANGED <<book, shown, endorsed, applied, halfDecided, slips>>

(* Mutant: a report is decided without a look at its status. *)
DecideReportAgain(i, status) ==
  /\ IF status = "approved"
     THEN /\ Len(applied) < 2 * MaxReports
          /\ book' = Upsert(book, reports[i].place, reports[i].price, "approved")
          /\ endorsed' = endorsed \cup {<<reports[i].place, reports[i].price>>}
          /\ applied' = Append(applied, i)
     ELSE UNCHANGED <<book, endorsed, applied>>
  /\ reports' = [reports EXCEPT ![i].status = status]
  /\ UNCHANGED <<shown, halfDecided, slips>>

(* decide_price_feedback: an approved price goes into the book, then the   *)
(* report is marked.                                                       *)
DecideReport(i, status) ==
  /\ reports[i].status = "pending"
  /\ IF status = "approved"
     THEN /\ book' = Upsert(book, reports[i].place, reports[i].price, "approved")
          /\ endorsed' = endorsed \cup {<<reports[i].place, reports[i].price>>}
          /\ applied' = Append(applied, i)
     ELSE UNCHANGED <<book, endorsed, applied>>
  /\ \/ /\ reports' = [reports EXCEPT ![i].status = status]
        /\ UNCHANGED <<halfDecided, slips>>
     \/ /\ Slip
        /\ status = "approved"
        /\ halfDecided' = halfDecided \cup {i}
        /\ UNCHANGED reports
  /\ UNCHANGED shown

-----------------------------------------------------------------------------
(* What an item takes from the book: the price of the newest approved row  *)
(* whose name is part of the item's or the other way round, 0 for none.    *)
PriceFor(rows, item) ==
  LET matches == Chosen(Approved(rows), LAMBDA r : <<r.place, item>> \in Matching)
  IN IF matches = << >> THEN 0 ELSE Head(matches).price

(* enrich_plan_with_prices *)
Enriched(rows, plan) ==
  [item \in DOMAIN plan |->
     IF PriceFor(rows, item) > 0 THEN PriceFor(rows, item) ELSE plan[item]]

(* Mutant: approved rows are recorded over. *)
ToRecordAll(rows, plan) == {item \in DOMAIN plan : plan[item] > 0}

(* record_pending_prices: what has a price and no approved row. *)
ToRecord(rows, plan) ==
  {item \in DOMAIN plan :
     /\ plan[item] > 0
     /\ \A i \in DOMAIN rows : rows[i].place = item => rows[i].status # "approved"}

(* One after the other. *)
Recorded(rows, plan, items) ==
  LET order == SetToSeq(items)
      after[n \in 0 .. Len(order)] ==
        IF n = 0 THEN rows
        ELSE Upsert(after[n - 1], order[n], plan[order[n]], "pending")
  IN after[Len(order)]

(* The end of a run: its plan is priced from the book, then, save for a    *)
(* plan from the cache, what it found is recorded.                         *)
RunEndsWith(plan, cached) ==
  LET priced == Enriched(book, plan)
      found == IF cached THEN {} ELSE ToRecord(book, priced)
  IN /\ \/ /\ book' = Recorded(book, priced, found)
           /\ shown' = Restrict(priced, {item \in DOMAIN plan : PriceFor(book, item) > 0})
           /\ UNCHANGED slips
        \/ /\ Slip
           /\ \E part \in (SUBSET found) \ {found} : book' = Recorded(book, priced, part)
           /\ UNCHANGED shown
     /\ UNCHANGED <<reports, endorsed, applied, halfDecided>>

AdminAct ==
  \/ \E place \in Places :
       \/ AdminDelete(place)
       \/ \E price \in Price, status \in {"approved", "pending"} :
            AdminUpsert(place, price, status)
  \/ \E i \in DOMAIN reports, status \in {"approved", "rejected"} : DecideReport(i, status)

PricesNext ==
  \/ AdminAct
  \/ \E place \in Places, price \in Price : Submit(place, price)
  \/ \E plan \in [Places -> Price], cached \in BOOLEAN : RunEndsWith(plan, cached)

PricesSpec == PricesInit /\ [][PricesNext]_priceVars

-----------------------------------------------------------------------------
(* Prices that runs find on the web are reused only after review           *)
(* (price_enrich.py:80): what a plan takes from the book an administrator  *)
(* has approved, for a place whose name is part of the item's or the other *)
(* way round, whatever runs have recorded in between.                      *)
ReusedPricesReviewed ==
  \A item \in DOMAIN shown :
    \E place \in Places :
      <<place, item>> \in Matching /\ <<place, shown[item]>> \in endorsed

(* An approved price is changed, withdrawn or replaced by administrators   *)
(* only: the end of a run never touches it, nor what users report.         *)
ReviewedPricesKept ==
  [][ToSet(Approved(book')) # ToSet(Approved(book)) => AdminAct]_priceVars

(* A report moves the price of its place at most once, and never when it   *)
(* was rejected, unless marking it had failed (db.py 1786).                *)
ReportsAppliedOnce ==
  \A j \in DOMAIN applied :
    applied[j] \notin halfDecided =>
      /\ reports[applied[j]].status = "approved"
      /\ \A k \in DOMAIN applied : applied[k] = applied[j] => k = j
=============================================================================
