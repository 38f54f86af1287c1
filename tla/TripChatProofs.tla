--------------------------- MODULE TripChatProofs ---------------------------
(***************************************************************************)
(* What TLAPS proves about TripChat, for any sets of requests, trips and   *)
(* sessions and any number of crashes and failing statements.              *)
(***************************************************************************)
EXTENDS TripChat, TLAPS

(* The points of a chat at which its plan has been made.                   *)
Made == {"finishing", "finishVersion", "posting", "weather", "storing",
         "storeVersion", "storeLast", "storeConv", "storeRun", "failing", "done"}

(* The points at which a block is under way, and those at which the next   *)
(* statement saves a version.                                              *)
Blocks == {"finishVersion", "storing", "storeVersion", "storeLast", "storeConv",
           "storeRun", "failing", "writeVersion", "deleteVersions"}
Saving == {"finishVersion", "storeVersion", "writeVersion"}

(* Each request has the local variables its next steps use.                *)
ChatLocals ==
  \A r \in Chats :
    /\ pc[r] \notin {"refreshing", "writeVersion", "deleteVersions"}
    /\ InProgress(r) =>
         req[r].sess \in Sessions /\ req[r].key \in Keys /\ req[r].obj \in Chats
    /\ InProgress(r) /\ req[r].obj # r =>
         mem[req[r].obj] # None /\ pc[req[r].obj] \in Made
    /\ pc[r] \in {"finishVersion", "weather", "storing", "storeVersion",
                  "storeLast", "storeConv", "storeRun"} /\ req[r].trip # None =>
         PlanOf(r) # None

RefreshLocals ==
  \A r \in Alerts \cup Dates :
    pc[r] = "refreshing" => req[r].trip \in Trips /\ req[r].base \in TripRow

(* The plan cache holds plans that are finished.                           *)
CachedPlans ==
  \A k \in Keys : cache[k] # None => mem[cache[k]] # None /\ pc[cache[k]] \in Made

(* The loop runs the one request that is in a block; a version waits to be *)
(* saved only in such a block, and is the one of its trip as it is.        *)
LoopBlock ==
  /\ \A r \in Requests : pc[r] \in Blocks <=> loop = r
  /\ \A r \in Requests : pc[r] \in Saving => pending # None
  /\ pending # None =>
       /\ loop # None /\ pc[loop] \in Saving
       /\ trips[pending.trip] # None
       /\ trips[pending.trip].version = pending.version
       /\ trips[pending.trip].plan = pending.plan
  /\ loop # None /\ pc[loop] = "deleteVersions" =>
       req[loop].trip \in Trips /\ trips[req[loop].trip] = None

Shape == TypeOK /\ ChatLocals /\ RefreshLocals /\ CachedPlans /\ LoopBlock

(* While nothing has failed, only the block under way separates the trips  *)
(* from their saved versions.                                              *)
Saved ==
  Unharmed => \A t \in Trips : trips[t] # None =>
    LET row == [trip |-> t, version |-> trips[t].version, plan |-> trips[t].plan]
    IN row \in versions \/ row = pending

Orphans ==
  Unharmed => \A v \in versions :
    \/ trips[v.trip] # None
    \/ loop # None /\ pc[loop] = "deleteVersions" /\ req[loop].trip = v.trip

(* Where a run is says what the ledger holds for it.                       *)
RunPhase ==
  \A r \in Chats :
    /\ pc[r] = "idle" <=> runs[r] = "none"
    /\ InProgress(r) => runs[r] = "running"
    /\ Unharmed /\ pc[r] = "done" => runs[r] # "running"

-----------------------------------------------------------------------------
(* Types of the parts of a state.                                          *)

LEMMA Kinds ==
  /\ Chats \subseteq Requests /\ Alerts \subseteq Requests /\ Dates \subseteq Requests
  /\ Publishes \subseteq Requests /\ Copies \subseteq Requests /\ Deletes \subseteq Requests
  /\ None \notin Requests /\ None \notin Trips /\ None \notin Chats
  /\ None \notin Sessions /\ None \notin Keys
  BY NoneIsNoId DEF Requests

LEMMA LocalTypes ==
  ASSUME TypeOK, NEW r \in Requests
  PROVE  /\ req[r] \in Local
         /\ req[r].sess \in Sessions \cup {None} /\ req[r].trip \in Trips \cup {None}
         /\ req[r].key \in Keys \cup {None} /\ req[r].intent \in Intents \cup {None}
         /\ req[r].obj \in Chats \cup {None} /\ req[r].base \in TripRow \cup {None}
         /\ req[r].version \in Nat /\ req[r].hist \in Seq(Message)
  BY DEF TypeOK, Local

LEMMA SetLocal ==
  ASSUME NEW l \in Local
  PROVE  /\ \A x \in TripRow \cup {None} : [l EXCEPT !.base = x] \in Local
         /\ \A x \in Trips \cup {None} : [l EXCEPT !.trip = x] \in Local
         /\ \A x \in Nat : [l EXCEPT !.version = x] \in Local
         /\ \A x \in Intents : [l EXCEPT !.intent = x] \in Local
         /\ \A x \in Chats : [l EXCEPT !.obj = x] \in Local
  BY DEF Local

LEMMA MoveTypes ==
  ASSUME TypeOK, NEW r \in Requests, NEW label \in PC,
         Await(r, label) \/ Continue(r, label)
  PROVE  pc' \in [Requests -> PC] /\ loop' \in Requests \cup {None}
  BY DEF TypeOK, Await, Continue, Goto

LEMMA BlankType == Blank \in Local
  BY DEF Blank, Local

LEMMA ReturnTypes ==
  ASSUME TypeOK, NEW r \in Requests, Return(r)
  PROVE  /\ pc' \in [Requests -> PC] /\ loop' \in Requests \cup {None}
         /\ req' \in [Requests -> Local]
  <1>1. pc' \in [Requests -> PC] /\ loop' \in Requests \cup {None}
    BY MoveTypes DEF Return, PC
  <1> QED
    BY <1>1, BlankType DEF TypeOK, Return

LEMMA WriteRowTypes ==
  ASSUME TypeOK, NEW t \in Trips, NEW version \in Nat, NEW status \in TripStatus,
         NEW plan \in Plan, WriteRow(t, version, status, plan)
  PROVE  /\ trips' \in [Trips -> TripRow \cup {None}]
         /\ pending' \in VersionRow
  BY DEF TypeOK, WriteRow, TripRow, VersionRow

LEMMA PlanTypes ==
  ASSUME Shape, NEW r \in Chats, InProgress(r)
  PROVE  req[r].obj \in Chats /\ PlanOf(r) \in Plan \cup {None}
  BY DEF Shape, TypeOK, ChatLocals, PlanOf

(* What a chat is about to store in the trip that is there. *)
LEMMA StoredTypes ==
  ASSUME Shape, NEW r \in Chats, StoreTrip(r)
  PROVE  /\ PlanOf(r) \in Plan /\ req[r].trip \in Trips /\ req[r].version \in Nat
         /\ trips[req[r].trip].status \in TripStatus
<1>1. pc[r] = "storing" /\ req[r].trip # None /\ trips[req[r].trip] # None
  BY DEF StoreTrip, InBlock
<1>2. req[r].trip \in Trips /\ req[r].version \in Nat
  BY <1>1, LocalTypes, Kinds DEF Shape
<1>3. trips[req[r].trip] \in TripRow
  BY <1>1, <1>2 DEF Shape, TypeOK
<1>4. PlanOf(r) # None
  BY <1>1 DEF Shape, ChatLocals
<1> QED
  BY <1>1, <1>2, <1>3, <1>4, PlanTypes DEF InProgress, TripRow

(* Every step of a chat keeps the types ... *)
LEMMA ChatTypes ==
  ASSUME Shape, NEW r \in Chats, ChatStep(r)
  PROVE  TypeOK'
<1> USE DEF TypeOK
<1>0. TypeOK /\ r \in Requests
  BY Kinds DEF Shape
<1>1. CASE ParseRead(r)
  <2>1. (IF req[r].trip = None THEN None ELSE trips[req[r].trip]) \in TripRow \cup {None}
    BY <1>0, LocalTypes
  <2>2. req' \in [Requests -> Local]
    BY <1>0, <2>1, <1>1, LocalTypes, SetLocal DEF ParseRead
  <2> QED
    BY <1>0, <2>2, <1>1, MoveTypes DEF ParseRead, PC, db, faults
<1>2. CASE CacheHit(r)
  <2>1. cache[req[r].key] \in Chats
    BY <1>0, <1>2 DEF CacheHit, AtAwait, Shape, ChatLocals, InProgress
  <2>2. [[req[r] EXCEPT !.intent = "create"] EXCEPT !.obj = cache[req[r].key]] \in Local
    BY <1>0, <2>1, <1>2, LocalTypes, SetLocal DEF CacheHit
  <2>3. req' \in [Requests -> Local]
    BY <1>0, <2>2, <1>2 DEF CacheHit
  <2> QED
    BY <1>0, <2>3, <1>2, MoveTypes DEF CacheHit, PC, db, faults
<1>3. ASSUME NEW i \in Intents, Route(r, i) PROVE TypeOK'
  <2>1. req' \in [Requests -> Local]
    BY <1>0, <1>3, LocalTypes DEF Route, Local
  <2> QED
    BY <1>0, <2>1, <1>3, MoveTypes DEF Route, PC, db, process, faults
<1>4. CASE AnswerFails(r)
  BY <1>0, <1>4, MoveTypes
  DEF AnswerFails, AtAwait, InBlock, PC, db, process, faults
<1>5. CASE Generate(r)
  <2>1. req' \in [Requests -> Local]
    BY <1>0, <1>5, LocalTypes, SetLocal DEF Generate
  <2>2. \A marks \in Generated(r) : [marks |-> marks, weather |-> TRUE] \in Plan
    BY <1>0, Kinds, LocalTypes DEF Generated, Plan, Marks, TripRow
  <2>3. mem' \in [Chats -> Plan \cup {None}]
    BY <1>0, <2>2, <1>5 DEF Generate
  <2> QED
    BY <1>0, <2>1, <2>3, <1>5, MoveTypes DEF Generate, PC, db, faults
<1>6. CASE GenerateFails(r)
  <2>1. EmptyPlan \in Plan
    BY DEF EmptyPlan, Plan
  <2>2. mem' \in [Chats -> Plan \cup {None}]
    BY <1>0, <2>1, <1>6 DEF GenerateFails
  <2> QED
    BY <1>0, <2>2, <1>6, MoveTypes DEF GenerateFails, PC, db, faults
<1>7. ASSUME NEW t \in Trips, FinishInsert(r, t) PROVE TypeOK'
  <2>1. PlanOf(r) \in Plan
    BY <1>7, PlanTypes DEF FinishInsert, AtAwait, InProgress
  <2>2. req' \in [Requests -> Local]
    BY <1>0, <1>7, LocalTypes, SetLocal DEF FinishInsert
  <2>3. trips' \in [Trips -> TripRow \cup {None}] /\ pending' \in VersionRow /\ used' \subseteq Trips
    BY <1>0, <2>1, <1>7, WriteRowTypes DEF FinishInsert, InsertTrip, TripStatus
  <2> QED
    BY <1>0, <2>2, <2>3, <1>7, MoveTypes DEF FinishInsert, PC, faults
<1>8. CASE FinishUpdate(r)
  <2>1. PlanOf(r) \in Plan
    BY <1>8, PlanTypes DEF FinishUpdate, AtAwait, InProgress
  <2>2. req[r].trip \in Trips /\ req[r].version \in Nat
    BY <1>0, <1>8, LocalTypes DEF FinishUpdate
  <2>3. trips' \in [Trips -> TripRow \cup {None}] /\ pending' \in VersionRow
    BY <1>0, <2>1, <2>2, <1>8, WriteRowTypes DEF FinishUpdate, TripStatus
  <2> QED
    BY <1>0, <2>3, <1>8, MoveTypes DEF FinishUpdate, PC, faults
<1>9. CASE FinishVersion(r)
  <2>1. req[r].obj \in Chats /\ PlanOf(r) \in Plan \cup {None}
    BY <1>9, PlanTypes DEF FinishVersion, InBlock, InProgress
  <2>2. cache' \in [Keys -> Chats \cup {None}]
    BY <1>0, <2>1, <1>9 DEF FinishVersion, CachePlan
  <2>3. versions' \subseteq VersionRow /\ pending' = None
    BY <1>0, <1>9 DEF Shape, LoopBlock, Saving, FinishVersion, InBlock, SaveVersion
  <2> QED
    BY <1>0, <2>2, <2>3, <1>9, MoveTypes DEF FinishVersion, PC, faults
<1>10. CASE FinishOnly(r)
  <2>1. req[r].obj \in Chats /\ PlanOf(r) \in Plan \cup {None}
    BY <1>10, PlanTypes DEF FinishOnly, AtAwait, InBlock, InProgress
  <2>2. cache' \in [Keys -> Chats \cup {None}]
    BY <1>0, <2>1, <1>10 DEF FinishOnly, CachePlan
  <2> QED
    BY <1>0, <2>2, <1>10, MoveTypes DEF FinishOnly, PC, db, faults
<1>11. CASE PostCached(r)
  BY <1>0, <1>11, MoveTypes
  DEF PostCached, AtAwait, InBlock, PC, db, process, faults
<1>12. CASE DropWeather(r)
  <2>1. req[r].obj \in Chats /\ PlanOf(r) \in Plan \cup {None}
    BY <1>12, PlanTypes DEF DropWeather, AtAwait, InBlock, InProgress
  <2>2. mem' \in [Chats -> Plan \cup {None}]
    BY <1>0, <2>1, <1>12 DEF DropWeather, SetWeather, EmptyPlan, Plan
  <2> QED
    BY <1>0, <2>2, <1>12, MoveTypes DEF DropWeather, PC, db, faults
<1>13. CASE SyncWeather(r)
  <2>1. req[r].obj \in Chats /\ PlanOf(r) \in Plan \cup {None}
    BY <1>13, PlanTypes DEF SyncWeather, AtAwait, InBlock, InProgress
  <2>2. mem' \in [Chats -> Plan \cup {None}]
    BY <1>0, <2>1, <1>13 DEF SyncWeather, SetWeather, EmptyPlan, Plan
  <2> QED
    BY <1>0, <2>2, <1>13, MoveTypes DEF SyncWeather, PC, db, faults
<1>14. CASE WeatherFails(r)
  BY <1>0, <1>14, MoveTypes
  DEF WeatherFails, AtAwait, InBlock, PC, db, process, faults
<1>15. CASE StoreTrip(r)
  <2>1. /\ PlanOf(r) \in Plan /\ req[r].trip \in Trips /\ req[r].version \in Nat
        /\ trips[req[r].trip].status \in TripStatus
    BY <1>15, StoredTypes
  <2>2. trips' \in [Trips -> TripRow \cup {None}] /\ pending' \in VersionRow
    BY <1>0, <2>1, <1>15, WriteRowTypes DEF StoreTrip
  <2> QED
    BY <1>0, <2>2, <1>15, MoveTypes DEF StoreTrip, PC, faults
<1>16. CASE StoreNoTrip(r)
  BY <1>0, <1>16, MoveTypes
  DEF StoreNoTrip, AtAwait, InBlock, PC, db, process, faults
<1>17. CASE StoreVersion(r)
  <2>1. versions' \subseteq VersionRow /\ pending' = None
    BY <1>0, <1>17 DEF Shape, LoopBlock, Saving, StoreVersion, InBlock, SaveVersion
  <2> QED
    BY <1>0, <2>1, <1>17, MoveTypes DEF StoreVersion, PC, faults
<1>18. CASE StoreLast(r)
  BY <1>0, <1>18, MoveTypes, LocalTypes DEF StoreLast, PC, faults
<1>19. CASE StoreConv(r)
  <2>1. Append(req[r].hist, <<r, "assistant">>) \in Seq(Message)
    BY <1>0, LocalTypes DEF Message
  <2> QED
    BY <1>0, <2>1, <1>19, MoveTypes DEF StoreConv, PC, faults
<1>20. CASE StoreRun(r)
  BY <1>0, <1>20, ReturnTypes DEF StoreRun, faults
<1>21. CASE SaveFailed(r)
  BY <1>0, <1>21, ReturnTypes DEF SaveFailed, faults
<1> QED
  BY <1>1, <1>2, <1>3, <1>4, <1>5, <1>6, <1>7, <1>8, <1>9, <1>10, <1>11, <1>12,
     <1>13, <1>14, <1>15, <1>16, <1>17, <1>18, <1>19, <1>20, <1>21
  DEF ChatStep

(* ... and so does any other step. *)
LEMMA OtherTypes ==
  ASSUME Shape, [Next]_vars, ~ \E r \in Chats : ChatStep(r)
  PROVE  TypeOK'
<1> USE DEF TypeOK
<1>0. TypeOK
  BY DEF Shape
<1>1. ASSUME NEW r \in Chats, NEW s \in Sessions, NEW t \in Trips \cup {None},
             NEW k \in Keys, ChatStart(r, s, t, k) PROVE TypeOK'
  <2>1. Append(conv[s], <<r, "user">>) \in Seq(Message)
    BY <1>0 DEF Message
  <2>2. req' \in [Requests -> Local]
    BY <1>0, <2>1, <1>1 DEF ChatStart, Blank, Local
  <2> QED
    BY <1>0, <2>2, <1>1, MoveTypes, Kinds DEF ChatStart, PC, faults
<1>2. ASSUME NEW r \in Requests, NEW t \in Trips, RefreshRead(r, t) PROVE TypeOK'
  <2>1. [[req[r] EXCEPT !.trip = t] EXCEPT !.base = trips[t]] \in Local
    BY <1>0, LocalTypes, SetLocal
  <2>2. req' \in [Requests -> Local]
    BY <1>0, <2>1, <1>2 DEF RefreshRead
  <2> QED
    BY <1>0, <2>2, <1>2, MoveTypes DEF RefreshRead, PC, db, faults
<1>3. ASSUME NEW r \in Alerts \cup Dates, RefreshWrite(r) PROVE TypeOK'
  <2> DEFINE edit == IF r \in Dates THEN {r} ELSE {}
  <2>1. req[r].trip \in Trips /\ req[r].base \in TripRow
    BY <1>3 DEF Shape, RefreshLocals, RefreshWrite, AtAwait
  <2>2. [marks |-> req[r].base.plan.marks \cup edit, weather |-> TRUE] \in Plan
    BY <2>1, Kinds DEF TripRow, Plan, Marks
  <2>3. req[r].base.version \in Nat /\ req[r].base.status \in TripStatus
    BY <2>1 DEF TripRow
  <2>4. trips' \in [Trips -> TripRow \cup {None}] /\ pending' \in VersionRow
    BY <1>0, <2>1, <2>2, <2>3, <1>3, WriteRowTypes DEF RefreshWrite
  <2> QED
    BY <1>0, <2>4, <1>3, MoveTypes, Kinds DEF RefreshWrite, PC, faults
<1>4. ASSUME NEW r \in Requests, RefreshEnds(r) PROVE TypeOK'
  BY <1>0, <1>4, ReturnTypes DEF RefreshEnds, db, faults
<1>5. ASSUME NEW r \in Requests, NEW t \in Trips, Publish(r, t) PROVE TypeOK'
  <2>1. /\ trips[t].version \in Nat /\ trips[t].plan \in Plan
        /\ trips[t].plan.marks \subseteq Marks
    BY <1>0, <1>5 DEF Publish, TripRow, Plan
  <2>2. trips' \in [Trips -> TripRow \cup {None}] /\ pending' \in VersionRow
    BY <1>0, <2>1, <1>5, WriteRowTypes DEF Publish, TripStatus
  <2> QED
    BY <1>0, <2>1, <2>2, <1>5, MoveTypes DEF Publish, PC, faults
<1>6. ASSUME NEW r \in Requests, NEW t \in Trips, NEW new \in Trips, CopyTrip(r, t, new)
      PROVE TypeOK'
  <2>1. trips[t].plan \in Plan
    BY <1>0, <1>6 DEF CopyTrip, TripRow
  <2>2. trips' \in [Trips -> TripRow \cup {None}] /\ pending' \in VersionRow /\ used' \subseteq Trips
    BY <1>0, <2>1, <1>6, WriteRowTypes DEF CopyTrip, InsertTrip, TripStatus
  <2> QED
    BY <1>0, <2>2, <1>6, MoveTypes DEF CopyTrip, PC, faults
<1>7. ASSUME NEW r \in Requests, WriteVersion(r) PROVE TypeOK'
  <2>1. versions' \subseteq VersionRow /\ pending' = None
    BY <1>0, <1>7 DEF Shape, LoopBlock, Saving, WriteVersion, InBlock, SaveVersion
  <2> QED
    BY <1>0, <2>1, <1>7, ReturnTypes DEF WriteVersion, faults
<1>8. ASSUME NEW r \in Requests, NEW t \in Trips, DeleteTrip(r, t) PROVE TypeOK'
  <2>1. req' \in [Requests -> Local]
    BY <1>0, <1>8, LocalTypes, SetLocal DEF DeleteTrip
  <2> QED
    BY <1>0, <2>1, <1>8, MoveTypes DEF DeleteTrip, PC, faults
<1>9. ASSUME NEW r \in Requests, DeleteVersions(r) PROVE TypeOK'
  BY <1>0, <1>9, ReturnTypes DEF DeleteVersions, faults
<1>10. ASSUME NEW r \in Requests, DbError(r) PROVE TypeOK'
  <2>1. dbErrors' \in 0 .. MaxDbErrors
    BY <1>0, <1>10, BoundsAreNat DEF DbError
  <2>2. /\ pc' \in [Requests -> PC] /\ loop' \in Requests \cup {None}
        /\ req' \in [Requests -> Local]
    BY <1>0, <1>10, MoveTypes, ReturnTypes DEF DbError, PC
  <2> QED
    BY <1>0, <2>1, <2>2, <1>10 DEF DbError, db
<1>11. ASSUME Crash PROVE TypeOK'
  <2>1. crashes' \in 0 .. MaxCrashes
    BY <1>0, <1>11, BoundsAreNat DEF Crash
  <2> QED
    BY <1>0, <2>1, <1>11, BlankType DEF Crash, PC, db
<1>12. CASE UNCHANGED vars
  BY <1>0, <1>12 DEF vars, db, process, faults
<1> QED
  BY <1>1, <1>2, <1>3, <1>4, <1>5, <1>6, <1>7, <1>8, <1>9, <1>10, <1>11, <1>12,
     Kinds
  DEF Next, RefreshStep

(* A request is of one kind. *)
LEMMA OthersAreNoChats ==
  Alerts \cup Dates \cup Publishes \cup Copies \cup Deletes \subseteq Requests \ Chats
  BY DistinctKinds DEF Requests

(* After the first statement of update_trip or create_trip, the pending version
   is the one of a trip that exists, as it is. *)
LEMMA WriteRowPending ==
  ASSUME TypeOK, NEW t \in Trips, NEW version \in Nat, NEW status \in TripStatus,
         NEW plan \in Plan, WriteRow(t, version, status, plan)
  PROVE  /\ pending' # None /\ trips'[pending'.trip] # None
         /\ trips'[pending'.trip].version = pending'.version
         /\ trips'[pending'.trip].plan = pending'.plan
  <1>1. [version |-> version, status |-> status, plan |-> plan] \in TripRow
    BY DEF TripRow
  <1> QED
    BY <1>1, WriteRowTypes, NoneIsNoRow DEF TypeOK, WriteRow

(* One block at a time, and what it has pending. *)
LEMMA LoopStep ==
  ASSUME Shape, [Next]_vars
  PROVE  LoopBlock'
<1> USE Kinds, BoundsAreNat DEF LoopBlock, TypeOK, VersionRow, AtAwait, InBlock, Await, Continue, Goto, Return, WriteRow, SaveVersion, InsertTrip, Blocks, Saving, PC
<1>0. TypeOK /\ LoopBlock
  BY DEF Shape
<1>1. ASSUME NEW r \in Chats, ParseRead(r) PROVE LoopBlock'
  BY <1>0, <1>1 DEF ParseRead
<1>2. ASSUME NEW r \in Chats, CacheHit(r) PROVE LoopBlock'
  BY <1>0, <1>2 DEF CacheHit
<1>3. ASSUME NEW r \in Chats, NEW i \in Intents, Route(r, i) PROVE LoopBlock'
  BY <1>0, <1>3 DEF Route
<1>4. ASSUME NEW r \in Chats, AnswerFails(r) PROVE LoopBlock'
  BY <1>0, <1>4 DEF AnswerFails
<1>5. ASSUME NEW r \in Chats, Generate(r) PROVE LoopBlock'
  BY <1>0, <1>5 DEF Generate
<1>6. ASSUME NEW r \in Chats, GenerateFails(r) PROVE LoopBlock'
  BY <1>0, <1>6 DEF GenerateFails
<1>7. ASSUME NEW r \in Chats, NEW t \in Trips, FinishInsert(r, t) PROVE LoopBlock'
  <2>1. PlanOf(r) \in Plan
    BY <1>7, PlanTypes DEF FinishInsert, AtAwait, InProgress
  <2>2. /\ pending' # None /\ trips'[pending'.trip] # None
        /\ trips'[pending'.trip].version = pending'.version
        /\ trips'[pending'.trip].plan = pending'.plan
    BY <1>0, <2>1, <1>7, WriteRowPending DEF FinishInsert, InsertTrip, TripStatus
  <2> QED
    BY <1>0, <2>2, <1>7
    DEF FinishInsert, TypeOK, AtAwait, InBlock, Await, Continue, Goto, Blocks,
        Saving, PC
<1>8. ASSUME NEW r \in Chats, FinishUpdate(r) PROVE LoopBlock'
  <2>1. PlanOf(r) \in Plan /\ req[r].trip \in Trips /\ req[r].version \in Nat
    BY <1>0, <1>8, PlanTypes, LocalTypes DEF FinishUpdate, AtAwait, InProgress
  <2>2. /\ pending' # None /\ trips'[pending'.trip] # None
        /\ trips'[pending'.trip].version = pending'.version
        /\ trips'[pending'.trip].plan = pending'.plan
    BY <1>0, <2>1, <1>8, WriteRowPending DEF FinishUpdate, InsertTrip, TripStatus
  <2> QED
    BY <1>0, <2>2, <1>8
    DEF FinishUpdate, TypeOK, AtAwait, InBlock, Await, Continue, Goto, Blocks,
        Saving, PC
<1>9. ASSUME NEW r \in Chats, FinishVersion(r) PROVE LoopBlock'
  BY <1>0, <1>9 DEF FinishVersion
<1>10. ASSUME NEW r \in Chats, FinishOnly(r) PROVE LoopBlock'
  BY <1>0, <1>10 DEF FinishOnly
<1>11. ASSUME NEW r \in Chats, PostCached(r) PROVE LoopBlock'
  BY <1>0, <1>11 DEF PostCached
<1>12. ASSUME NEW r \in Chats, DropWeather(r) PROVE LoopBlock'
  BY <1>0, <1>12 DEF DropWeather
<1>13. ASSUME NEW r \in Chats, SyncWeather(r) PROVE LoopBlock'
  BY <1>0, <1>13 DEF SyncWeather
<1>14. ASSUME NEW r \in Chats, WeatherFails(r) PROVE LoopBlock'
  BY <1>0, <1>14 DEF WeatherFails
<1>15. ASSUME NEW r \in Chats, StoreTrip(r) PROVE LoopBlock'
  <2>1. /\ PlanOf(r) \in Plan /\ req[r].trip \in Trips /\ req[r].version \in Nat
        /\ trips[req[r].trip].status \in TripStatus
    BY <1>15, StoredTypes
  <2>2. /\ pending' # None /\ trips'[pending'.trip] # None
        /\ trips'[pending'.trip].version = pending'.version
        /\ trips'[pending'.trip].plan = pending'.plan
    BY <1>0, <2>1, <1>15, WriteRowPending DEF StoreTrip, InsertTrip, TripStatus
  <2> QED
    BY <1>0, <2>2, <1>15
    DEF StoreTrip, TypeOK, AtAwait, InBlock, Await, Continue, Goto, Blocks,
        Saving, PC
<1>16. ASSUME NEW r \in Chats, StoreNoTrip(r) PROVE LoopBlock'
  BY <1>0, <1>16 DEF StoreNoTrip
<1>17. ASSUME NEW r \in Chats, StoreVersion(r) PROVE LoopBlock'
  BY <1>0, <1>17 DEF StoreVersion
<1>18. ASSUME NEW r \in Chats, StoreLast(r) PROVE LoopBlock'
  BY <1>0, <1>18 DEF StoreLast
<1>19. ASSUME NEW r \in Chats, StoreConv(r) PROVE LoopBlock'
  BY <1>0, <1>19 DEF StoreConv
<1>20. ASSUME NEW r \in Chats, StoreRun(r) PROVE LoopBlock'
  BY <1>0, <1>20 DEF StoreRun
<1>21. ASSUME NEW r \in Chats, SaveFailed(r) PROVE LoopBlock'
  BY <1>0, <1>21 DEF SaveFailed
<1>22. ASSUME NEW r \in Chats, NEW s \in Sessions, NEW t \in Trips \cup {None}, NEW k \in Keys,
             ChatStart(r, s, t, k) PROVE LoopBlock'
  BY <1>0, <1>22 DEF ChatStart
<1>23. ASSUME NEW r \in Requests \ Chats, NEW t \in Trips, RefreshRead(r, t)
       PROVE LoopBlock'
  BY <1>0, <1>23 DEF RefreshRead
<1>24. ASSUME NEW r \in Alerts \cup Dates, RefreshWrite(r) PROVE LoopBlock'
  <2> DEFINE edit == IF r \in Dates THEN {r} ELSE {}
  <2>0. req[r].trip \in Trips /\ req[r].base \in TripRow
    BY <1>24 DEF Shape, RefreshLocals, RefreshWrite, AtAwait
  <2>1. /\ req[r].trip \in Trips
        /\ [marks |-> req[r].base.plan.marks \cup edit, weather |-> TRUE] \in Plan
        /\ req[r].base.version \in Nat /\ req[r].base.status \in TripStatus
    BY <2>0 DEF TripRow, Plan, Marks
  <2>2. /\ pending' # None /\ trips'[pending'.trip] # None
        /\ trips'[pending'.trip].version = pending'.version
        /\ trips'[pending'.trip].plan = pending'.plan
    BY <1>0, <2>1, <1>24, WriteRowPending DEF RefreshWrite, InsertTrip, TripStatus
  <2> QED
    BY <1>0, <2>2, <1>24
    DEF RefreshWrite, TypeOK, AtAwait, InBlock, Await, Continue, Goto, Blocks,
        Saving, PC
<1>25. ASSUME NEW r \in Requests \ Chats, RefreshEnds(r) PROVE LoopBlock'
  BY <1>0, <1>25 DEF RefreshEnds
<1>26. ASSUME NEW r \in Requests \ Chats, NEW t \in Trips, Publish(r, t)
       PROVE LoopBlock'
  <2>1. trips[t].version \in Nat /\ trips[t].plan \in Plan
    BY <1>0, <1>26 DEF Publish, TypeOK, TripRow
  <2>2. /\ pending' # None /\ trips'[pending'.trip] # None
        /\ trips'[pending'.trip].version = pending'.version
        /\ trips'[pending'.trip].plan = pending'.plan
    BY <1>0, <2>1, <1>26, WriteRowPending DEF Publish, InsertTrip, TripStatus
  <2> QED
    BY <1>0, <2>2, <1>26
    DEF Publish, TypeOK, AtAwait, InBlock, Await, Continue, Goto, Blocks,
        Saving, PC
<1>27. ASSUME NEW r \in Requests \ Chats, NEW t \in Trips, NEW new \in Trips, CopyTrip(r, t, new)
       PROVE LoopBlock'
  <2>1. trips[t].plan \in Plan
    BY <1>0, <1>27 DEF CopyTrip, TypeOK, TripRow
  <2>2. /\ pending' # None /\ trips'[pending'.trip] # None
        /\ trips'[pending'.trip].version = pending'.version
        /\ trips'[pending'.trip].plan = pending'.plan
    BY <1>0, <2>1, <1>27, WriteRowPending DEF CopyTrip, InsertTrip, TripStatus
  <2> QED
    BY <1>0, <2>2, <1>27
    DEF CopyTrip, TypeOK, AtAwait, InBlock, Await, Continue, Goto, Blocks,
        Saving, PC
<1>28. ASSUME NEW r \in Requests \ Chats, WriteVersion(r) PROVE LoopBlock'
  BY <1>0, <1>28 DEF WriteVersion
<1>29. ASSUME NEW r \in Requests \ Chats, NEW t \in Trips, DeleteTrip(r, t)
       PROVE LoopBlock'
  BY <1>0, <1>29 DEF DeleteTrip
<1>30. ASSUME NEW r \in Requests \ Chats, DeleteVersions(r) PROVE LoopBlock'
  BY <1>0, <1>30 DEF DeleteVersions
<1>31. ASSUME NEW r \in Requests, DbError(r) PROVE LoopBlock'
  BY <1>0, <1>31 DEF DbError
<1>32. CASE Crash
  BY <1>0, <1>32 DEF Crash
<1>33. CASE UNCHANGED vars
  BY <1>0, <1>33 DEF vars, db, process, faults
<1> QED
  BY <1>1, <1>2, <1>3, <1>4, <1>5, <1>6, <1>7, <1>8, <1>9, <1>10, <1>11, <1>12,
     <1>13, <1>14, <1>15, <1>16, <1>17, <1>18, <1>19, <1>20, <1>21, <1>22,
     <1>23, <1>24, <1>25, <1>26, <1>27, <1>28, <1>29, <1>30, <1>31, <1>32,
     <1>33, Kinds, OthersAreNoChats
  DEF Next, ChatStep, RefreshStep

(* Refreshing the weather makes no plan disappear. *)
LEMMA WeatherKeepsPlans ==
  ASSUME TypeOK, NEW r \in Chats, NEW known \in BOOLEAN, req[r].obj \in Chats,
         SetWeather(r, known)
  PROVE  /\ mem'[req[r].obj] # None
         /\ \A c \in Chats : mem[c] # None => mem'[c] # None
  <1> DEFINE old == IF mem[req[r].obj] = None THEN EmptyPlan ELSE mem[req[r].obj]
  <1>1. old \in Plan
    BY DEF TypeOK, EmptyPlan, Plan
  <1>2. [old EXCEPT !.weather = known] \in Plan
    BY <1>1 DEF Plan
  <1>3. mem' = [mem EXCEPT ![req[r].obj] = [old EXCEPT !.weather = known]]
    BY DEF SetWeather
  <1> QED
    BY <1>2, <1>3, NoneIsNoRow DEF TypeOK

(* A chat under way has what its next steps need. *)
LEMMA LocalsStep ==
  ASSUME Shape, [Next]_vars
  PROVE  ChatLocals'
<1> USE Kinds, DistinctKinds, NoneIsNoRow DEF ChatLocals, TypeOK, PlanOf, Requests, AtAwait, InBlock, Await, Continue, Goto, Return, InProgress, Made, PC
<1>0. TypeOK /\ ChatLocals /\ CachedPlans
  BY DEF Shape
<1>1. ASSUME NEW r \in Chats, ParseRead(r) PROVE ChatLocals'
  BY <1>0, <1>1 DEF ParseRead
<1>2. ASSUME NEW r \in Chats, CacheHit(r) PROVE ChatLocals'
  <2>1. cache[req[r].key] \in Chats /\ cache[req[r].key] \notin {None}
    BY <1>0, <1>2 DEF CacheHit, TypeOK, AtAwait, InProgress
  <2>2. /\ mem[cache[req[r].key]] # None /\ pc[cache[req[r].key]] \in Made
        /\ pc[r] = "planning" /\ req[r].sess \in Sessions /\ req[r].key \in Keys
    BY <1>0, <2>1, <1>2 DEF CacheHit, CachedPlans, AtAwait, InProgress
  <2>3. /\ req'[r].obj = cache[req[r].key] /\ req'[r].sess = req[r].sess
        /\ req'[r].key = req[r].key
        /\ \A q \in Requests \ {r} : req'[q] = req[q]
    BY <1>0, <1>2, LocalTypes DEF CacheHit, TypeOK, Local
  <2>4. pc' = [pc EXCEPT ![r] = "finishing"] /\ mem' = mem
    BY <1>2 DEF CacheHit, Await, Goto
  <2> QED
    BY <1>0, <2>1, <2>2, <2>3, <2>4 DEF TypeOK, InProgress, Made, PlanOf
<1>3. ASSUME NEW r \in Chats, NEW i \in Intents, Route(r, i) PROVE ChatLocals'
  BY <1>0, <1>3 DEF Route
<1>4. ASSUME NEW r \in Chats, AnswerFails(r) PROVE ChatLocals'
  BY <1>0, <1>4 DEF AnswerFails
<1>5. ASSUME NEW r \in Chats, Generate(r) PROVE ChatLocals'
  BY <1>0, <1>5 DEF Generate
<1>6. ASSUME NEW r \in Chats, GenerateFails(r) PROVE ChatLocals'
  BY <1>0, <1>6 DEF GenerateFails
<1>7. ASSUME NEW r \in Chats, NEW t \in Trips, FinishInsert(r, t) PROVE ChatLocals'
  BY <1>0, <1>7 DEF FinishInsert
<1>8. ASSUME NEW r \in Chats, FinishUpdate(r) PROVE ChatLocals'
  BY <1>0, <1>8 DEF FinishUpdate
<1>9. ASSUME NEW r \in Chats, FinishVersion(r) PROVE ChatLocals'
  BY <1>0, <1>9 DEF FinishVersion
<1>10. ASSUME NEW r \in Chats, FinishOnly(r) PROVE ChatLocals'
  BY <1>0, <1>10 DEF FinishOnly
<1>11. ASSUME NEW r \in Chats, PostCached(r) PROVE ChatLocals'
  <2>1. PlanOf(r) # None
    BY <1>0, <1>11 DEF PostCached, Cached, PlanOf, AtAwait, InProgress
  <2> QED
    BY <1>0, <2>1, <1>11
    DEF PostCached, TypeOK, PlanOf, Continue, Goto, AtAwait, InProgress, Made
<1>12. ASSUME NEW r \in Chats, DropWeather(r) PROVE ChatLocals'
  <2>1. req[r].obj \in Chats /\ mem'[req[r].obj] # None
          /\ \A c \in Chats : mem[c] # None => mem'[c] # None
    BY <1>0, <1>12, WeatherKeepsPlans DEF DropWeather, AtAwait, InProgress
  <2> QED
    BY <1>0, <2>1, <1>12
    DEF DropWeather, TypeOK, PlanOf, AtAwait, Await, Continue, Goto,
        InProgress, Made
<1>13. ASSUME NEW r \in Chats, SyncWeather(r) PROVE ChatLocals'
  <2>1. req[r].obj \in Chats /\ mem'[req[r].obj] # None
          /\ \A c \in Chats : mem[c] # None => mem'[c] # None
    BY <1>0, <1>13, WeatherKeepsPlans DEF SyncWeather, AtAwait, InProgress
  <2> QED
    BY <1>0, <2>1, <1>13
    DEF SyncWeather, TypeOK, PlanOf, AtAwait, Await, Continue, Goto,
        InProgress, Made
<1>14. ASSUME NEW r \in Chats, WeatherFails(r) PROVE ChatLocals'
  BY <1>0, <1>14 DEF WeatherFails
<1>15. ASSUME NEW r \in Chats, StoreTrip(r) PROVE ChatLocals'
  BY <1>0, <1>15 DEF StoreTrip
<1>16. ASSUME NEW r \in Chats, StoreNoTrip(r) PROVE ChatLocals'
  <2>1. req[r].trip # None => PlanOf(r) # None
    BY <1>0, <1>16 DEF StoreNoTrip, InBlock
  <2>2. CASE req[r].trip = None
    BY <1>0, <2>2, <1>16
    DEF StoreNoTrip, TypeOK, PlanOf, InBlock, Continue, Goto, InProgress, Made
  <2>3. CASE req[r].trip # None
    BY <1>0, <2>1, <2>3, <1>16
    DEF StoreNoTrip, TypeOK, PlanOf, InBlock, Continue, Goto, InProgress, Made
  <2> QED
    BY <2>2, <2>3
<1>17. ASSUME NEW r \in Chats, StoreVersion(r) PROVE ChatLocals'
  BY <1>0, <1>17 DEF StoreVersion
<1>18. ASSUME NEW r \in Chats, StoreLast(r) PROVE ChatLocals'
  BY <1>0, <1>18 DEF StoreLast
<1>19. ASSUME NEW r \in Chats, StoreConv(r) PROVE ChatLocals'
  BY <1>0, <1>19 DEF StoreConv
<1>20. ASSUME NEW r \in Chats, StoreRun(r) PROVE ChatLocals'
  BY <1>0, <1>20 DEF StoreRun
<1>21. ASSUME NEW r \in Chats, SaveFailed(r) PROVE ChatLocals'
  BY <1>0, <1>21 DEF SaveFailed
<1>22. ASSUME NEW r \in Chats, NEW s \in Sessions, NEW t \in Trips \cup {None}, NEW k \in Keys,
             ChatStart(r, s, t, k) PROVE ChatLocals'
  BY <1>0, <1>22 DEF ChatStart
<1>23. ASSUME NEW r \in Requests \ Chats, NEW t \in Trips, RefreshRead(r, t)
       PROVE ChatLocals'
  BY <1>0, <1>23 DEF RefreshRead
<1>24. ASSUME NEW r \in Alerts \cup Dates, RefreshWrite(r) PROVE ChatLocals'
  BY <1>0, <1>24 DEF RefreshWrite
<1>25. ASSUME NEW r \in Requests \ Chats, RefreshEnds(r) PROVE ChatLocals'
  BY <1>0, <1>25 DEF RefreshEnds
<1>26. ASSUME NEW r \in Requests \ Chats, NEW t \in Trips, Publish(r, t)
       PROVE ChatLocals'
  BY <1>0, <1>26 DEF Publish
<1>27. ASSUME NEW r \in Requests \ Chats, NEW t \in Trips, NEW new \in Trips, CopyTrip(r, t, new)
       PROVE ChatLocals'
  BY <1>0, <1>27 DEF CopyTrip
<1>28. ASSUME NEW r \in Requests \ Chats, WriteVersion(r) PROVE ChatLocals'
  BY <1>0, <1>28 DEF WriteVersion
<1>29. ASSUME NEW r \in Requests \ Chats, NEW t \in Trips, DeleteTrip(r, t)
       PROVE ChatLocals'
  BY <1>0, <1>29 DEF DeleteTrip
<1>30. ASSUME NEW r \in Requests \ Chats, DeleteVersions(r) PROVE ChatLocals'
  BY <1>0, <1>30 DEF DeleteVersions
<1>31. ASSUME NEW r \in Requests, DbError(r) PROVE ChatLocals'
  <2>1. CASE r \in Chats /\ pc[r] # "failing"
    <3>1. pc' = [pc EXCEPT ![r] = "failing"] /\ UNCHANGED <<req, mem>>
      BY <2>1, <1>31 DEF DbError, Continue, Goto
    <3>2. InProgress(r)
      BY <1>0, <2>1, <1>31
      DEF DbError, AtAwait, InProgress, Shape, LoopBlock, Blocks
    <3> QED
      BY <1>0, <2>1, <3>1, <3>2 DEF TypeOK, PlanOf, InProgress, Made
  <2>2. CASE ~(r \in Chats /\ pc[r] # "failing")
    <3>1. pc' = [pc EXCEPT ![r] = "done"] /\ req' = [req EXCEPT ![r] = Blank] /\ mem' = mem
      BY <2>2, <1>31 DEF DbError, Return, Await, Goto
    <3> QED
      BY <1>0, <3>1 DEF TypeOK, PlanOf, InProgress, Made
  <2> QED
    BY <2>1, <2>2
<1>32. CASE Crash
  BY <1>0, <1>32 DEF Crash
<1>33. CASE UNCHANGED vars
  BY <1>0, <1>33 DEF vars, db, process, faults
<1> QED
  BY <1>1, <1>2, <1>3, <1>4, <1>5, <1>6, <1>7, <1>8, <1>9, <1>10, <1>11, <1>12,
     <1>13, <1>14, <1>15, <1>16, <1>17, <1>18, <1>19, <1>20, <1>21, <1>22,
     <1>23, <1>24, <1>25, <1>26, <1>27, <1>28, <1>29, <1>30, <1>31, <1>32,
     <1>33, Kinds, OthersAreNoChats
  DEF Next, ChatStep, RefreshStep

(* The cache holds finished plans, changed in place as the weather is refreshed. *)
LEMMA CacheStep ==
  ASSUME Shape, [Next]_vars
  PROVE  CachedPlans'
<1> USE Kinds DEF CachedPlans, ChatLocals, TypeOK, PlanOf, CachePlan, AtAwait, InBlock, Await, Continue, Goto, Return, InProgress, Made, PC
<1>0. TypeOK /\ CachedPlans /\ ChatLocals
  BY DEF Shape
<1>1. ASSUME NEW r \in Chats, ParseRead(r) PROVE CachedPlans'
  BY <1>0, <1>1 DEF ParseRead
<1>2. ASSUME NEW r \in Chats, CacheHit(r) PROVE CachedPlans'
  BY <1>0, <1>2 DEF CacheHit
<1>3. ASSUME NEW r \in Chats, NEW i \in Intents, Route(r, i) PROVE CachedPlans'
  BY <1>0, <1>3 DEF Route
<1>4. ASSUME NEW r \in Chats, AnswerFails(r) PROVE CachedPlans'
  BY <1>0, <1>4 DEF AnswerFails
<1>5. ASSUME NEW r \in Chats, Generate(r) PROVE CachedPlans'
  BY <1>0, <1>5 DEF Generate
<1>6. ASSUME NEW r \in Chats, GenerateFails(r) PROVE CachedPlans'
  BY <1>0, <1>6 DEF GenerateFails
<1>7. ASSUME NEW r \in Chats, NEW t \in Trips, FinishInsert(r, t) PROVE CachedPlans'
  BY <1>0, <1>7 DEF FinishInsert
<1>8. ASSUME NEW r \in Chats, FinishUpdate(r) PROVE CachedPlans'
  BY <1>0, <1>8 DEF FinishUpdate
<1>9. ASSUME NEW r \in Chats, FinishVersion(r) PROVE CachedPlans'
  BY <1>0, <1>9 DEF FinishVersion
<1>10. ASSUME NEW r \in Chats, FinishOnly(r) PROVE CachedPlans'
  BY <1>0, <1>10 DEF FinishOnly
<1>11. ASSUME NEW r \in Chats, PostCached(r) PROVE CachedPlans'
  BY <1>0, <1>11 DEF PostCached
<1>12. ASSUME NEW r \in Chats, DropWeather(r) PROVE CachedPlans'
  <2>1. req[r].obj \in Chats /\ mem'[req[r].obj] # None
          /\ \A c \in Chats : mem[c] # None => mem'[c] # None
    BY <1>0, <1>12, WeatherKeepsPlans
    DEF DropWeather, AtAwait, InProgress, ChatLocals
  <2> QED
    BY <1>0, <2>1, <1>12
    DEF DropWeather, TypeOK, AtAwait, Await, Continue, Goto, Made
<1>13. ASSUME NEW r \in Chats, SyncWeather(r) PROVE CachedPlans'
  <2>1. req[r].obj \in Chats /\ mem'[req[r].obj] # None
          /\ \A c \in Chats : mem[c] # None => mem'[c] # None
    BY <1>0, <1>13, WeatherKeepsPlans
    DEF SyncWeather, AtAwait, InProgress, ChatLocals
  <2> QED
    BY <1>0, <2>1, <1>13
    DEF SyncWeather, TypeOK, AtAwait, Await, Continue, Goto, Made
<1>14. ASSUME NEW r \in Chats, WeatherFails(r) PROVE CachedPlans'
  BY <1>0, <1>14 DEF WeatherFails
<1>15. ASSUME NEW r \in Chats, StoreTrip(r) PROVE CachedPlans'
  BY <1>0, <1>15 DEF StoreTrip
<1>16. ASSUME NEW r \in Chats, StoreNoTrip(r) PROVE CachedPlans'
  BY <1>0, <1>16 DEF StoreNoTrip
<1>17. ASSUME NEW r \in Chats, StoreVersion(r) PROVE CachedPlans'
  BY <1>0, <1>17 DEF StoreVersion
<1>18. ASSUME NEW r \in Chats, StoreLast(r) PROVE CachedPlans'
  BY <1>0, <1>18 DEF StoreLast
<1>19. ASSUME NEW r \in Chats, StoreConv(r) PROVE CachedPlans'
  BY <1>0, <1>19 DEF StoreConv
<1>20. ASSUME NEW r \in Chats, StoreRun(r) PROVE CachedPlans'
  BY <1>0, <1>20 DEF StoreRun
<1>21. ASSUME NEW r \in Chats, SaveFailed(r) PROVE CachedPlans'
  BY <1>0, <1>21 DEF SaveFailed
<1>22. ASSUME NEW r \in Chats, NEW s \in Sessions, NEW t \in Trips \cup {None}, NEW k \in Keys,
             ChatStart(r, s, t, k) PROVE CachedPlans'
  BY <1>0, <1>22 DEF ChatStart
<1>23. ASSUME NEW r \in Requests \ Chats, NEW t \in Trips, RefreshRead(r, t)
       PROVE CachedPlans'
  BY <1>0, <1>23 DEF RefreshRead
<1>24. ASSUME NEW r \in Alerts \cup Dates, RefreshWrite(r) PROVE CachedPlans'
  BY <1>0, <1>24 DEF RefreshWrite
<1>25. ASSUME NEW r \in Requests \ Chats, RefreshEnds(r) PROVE CachedPlans'
  BY <1>0, <1>25 DEF RefreshEnds
<1>26. ASSUME NEW r \in Requests \ Chats, NEW t \in Trips, Publish(r, t)
       PROVE CachedPlans'
  BY <1>0, <1>26 DEF Publish
<1>27. ASSUME NEW r \in Requests \ Chats, NEW t \in Trips, NEW new \in Trips, CopyTrip(r, t, new)
       PROVE CachedPlans'
  BY <1>0, <1>27 DEF CopyTrip
<1>28. ASSUME NEW r \in Requests \ Chats, WriteVersion(r) PROVE CachedPlans'
  BY <1>0, <1>28 DEF WriteVersion
<1>29. ASSUME NEW r \in Requests \ Chats, NEW t \in Trips, DeleteTrip(r, t)
       PROVE CachedPlans'
  BY <1>0, <1>29 DEF DeleteTrip
<1>30. ASSUME NEW r \in Requests \ Chats, DeleteVersions(r) PROVE CachedPlans'
  BY <1>0, <1>30 DEF DeleteVersions
<1>31. ASSUME NEW r \in Requests, DbError(r) PROVE CachedPlans'
  BY <1>0, <1>31 DEF DbError
<1>32. CASE Crash
  BY <1>0, <1>32 DEF Crash
<1>33. CASE UNCHANGED vars
  BY <1>0, <1>33 DEF vars, db, process, faults
<1> QED
  BY <1>1, <1>2, <1>3, <1>4, <1>5, <1>6, <1>7, <1>8, <1>9, <1>10, <1>11, <1>12,
     <1>13, <1>14, <1>15, <1>16, <1>17, <1>18, <1>19, <1>20, <1>21, <1>22,
     <1>23, <1>24, <1>25, <1>26, <1>27, <1>28, <1>29, <1>30, <1>31, <1>32,
     <1>33, Kinds, OthersAreNoChats
  DEF Next, ChatStep, RefreshStep

(* A handler waiting for the weather has the row it read. *)
LEMMA RefreshLocalsStep ==
  ASSUME Shape, [Next]_vars
  PROVE  RefreshLocals'
<1> USE Kinds, DistinctKinds DEF RefreshLocals, TypeOK, Requests, AtAwait, InBlock, Await, Continue, Goto, Return, InProgress, Made, PC
<1>0. TypeOK /\ RefreshLocals
  BY DEF Shape
<1>1. ASSUME NEW r \in Chats, ParseRead(r) PROVE RefreshLocals'
  BY <1>0, <1>1 DEF ParseRead
<1>2. ASSUME NEW r \in Chats, CacheHit(r) PROVE RefreshLocals'
  BY <1>0, <1>2 DEF CacheHit
<1>3. ASSUME NEW r \in Chats, NEW i \in Intents, Route(r, i) PROVE RefreshLocals'
  BY <1>0, <1>3 DEF Route
<1>4. ASSUME NEW r \in Chats, AnswerFails(r) PROVE RefreshLocals'
  BY <1>0, <1>4 DEF AnswerFails
<1>5. ASSUME NEW r \in Chats, Generate(r) PROVE RefreshLocals'
  BY <1>0, <1>5 DEF Generate
<1>6. ASSUME NEW r \in Chats, GenerateFails(r) PROVE RefreshLocals'
  BY <1>0, <1>6 DEF GenerateFails
<1>7. ASSUME NEW r \in Chats, NEW t \in Trips, FinishInsert(r, t)
      PROVE RefreshLocals'
  BY <1>0, <1>7 DEF FinishInsert
<1>8. ASSUME NEW r \in Chats, FinishUpdate(r) PROVE RefreshLocals'
  BY <1>0, <1>8 DEF FinishUpdate
<1>9. ASSUME NEW r \in Chats, FinishVersion(r) PROVE RefreshLocals'
  BY <1>0, <1>9 DEF FinishVersion
<1>10. ASSUME NEW r \in Chats, FinishOnly(r) PROVE RefreshLocals'
  BY <1>0, <1>10 DEF FinishOnly
<1>11. ASSUME NEW r \in Chats, PostCached(r) PROVE RefreshLocals'
  BY <1>0, <1>11 DEF PostCached
<1>12. ASSUME NEW r \in Chats, DropWeather(r) PROVE RefreshLocals'
  BY <1>0, <1>12 DEF DropWeather
<1>13. ASSUME NEW r \in Chats, SyncWeather(r) PROVE RefreshLocals'
  BY <1>0, <1>13 DEF SyncWeather
<1>14. ASSUME NEW r \in Chats, WeatherFails(r) PROVE RefreshLocals'
  BY <1>0, <1>14 DEF WeatherFails
<1>15. ASSUME NEW r \in Chats, StoreTrip(r) PROVE RefreshLocals'
  BY <1>0, <1>15 DEF StoreTrip
<1>16. ASSUME NEW r \in Chats, StoreNoTrip(r) PROVE RefreshLocals'
  BY <1>0, <1>16 DEF StoreNoTrip
<1>17. ASSUME NEW r \in Chats, StoreVersion(r) PROVE RefreshLocals'
  BY <1>0, <1>17 DEF StoreVersion
<1>18. ASSUME NEW r \in Chats, StoreLast(r) PROVE RefreshLocals'
  BY <1>0, <1>18 DEF StoreLast
<1>19. ASSUME NEW r \in Chats, StoreConv(r) PROVE RefreshLocals'
  BY <1>0, <1>19 DEF StoreConv
<1>20. ASSUME NEW r \in Chats, StoreRun(r) PROVE RefreshLocals'
  BY <1>0, <1>20 DEF StoreRun
<1>21. ASSUME NEW r \in Chats, SaveFailed(r) PROVE RefreshLocals'
  BY <1>0, <1>21 DEF SaveFailed
<1>22. ASSUME NEW r \in Chats, NEW s \in Sessions, NEW t \in Trips \cup {None}, NEW k \in Keys,
             ChatStart(r, s, t, k) PROVE RefreshLocals'
  BY <1>0, <1>22 DEF ChatStart
<1>23. ASSUME NEW r \in Requests \ Chats, NEW t \in Trips, RefreshRead(r, t)
       PROVE RefreshLocals'
  BY <1>0, <1>23 DEF RefreshRead
<1>24. ASSUME NEW r \in Alerts \cup Dates, RefreshWrite(r) PROVE RefreshLocals'
  BY <1>0, <1>24 DEF RefreshWrite
<1>25. ASSUME NEW r \in Requests \ Chats, RefreshEnds(r) PROVE RefreshLocals'
  BY <1>0, <1>25 DEF RefreshEnds
<1>26. ASSUME NEW r \in Requests \ Chats, NEW t \in Trips, Publish(r, t)
       PROVE RefreshLocals'
  BY <1>0, <1>26 DEF Publish
<1>27. ASSUME NEW r \in Requests \ Chats, NEW t \in Trips, NEW new \in Trips, CopyTrip(r, t, new)
       PROVE RefreshLocals'
  BY <1>0, <1>27 DEF CopyTrip
<1>28. ASSUME NEW r \in Requests \ Chats, WriteVersion(r) PROVE RefreshLocals'
  BY <1>0, <1>28 DEF WriteVersion
<1>29. ASSUME NEW r \in Requests \ Chats, NEW t \in Trips, DeleteTrip(r, t)
       PROVE RefreshLocals'
  BY <1>0, <1>29 DEF DeleteTrip
<1>30. ASSUME NEW r \in Requests \ Chats, DeleteVersions(r) PROVE RefreshLocals'
  BY <1>0, <1>30 DEF DeleteVersions
<1>31. ASSUME NEW r \in Requests, DbError(r) PROVE RefreshLocals'
  BY <1>0, <1>31 DEF DbError
<1>32. CASE Crash
  BY <1>0, <1>32 DEF Crash
<1>33. CASE UNCHANGED vars
  BY <1>0, <1>33 DEF vars, db, process, faults
<1> QED
  BY <1>1, <1>2, <1>3, <1>4, <1>5, <1>6, <1>7, <1>8, <1>9, <1>10, <1>11, <1>12,
     <1>13, <1>14, <1>15, <1>16, <1>17, <1>18, <1>19, <1>20, <1>21, <1>22,
     <1>23, <1>24, <1>25, <1>26, <1>27, <1>28, <1>29, <1>30, <1>31, <1>32,
     <1>33, Kinds, OthersAreNoChats
  DEF Next, ChatStep, RefreshStep

(* Writing a row leaves its version as the only one to save. *)
LEMMA WriteRowSaved ==
  ASSUME TypeOK, Saved, pending = None, UNCHANGED <<versions, crashes, dbErrors>>,
         NEW t \in Trips, NEW version \in Nat, NEW status \in TripStatus,
         NEW plan \in Plan, WriteRow(t, version, status, plan)
  PROVE  Saved'
  <1>1. \A row \in VersionRow : row # None
    BY NoneIsNoRow
  <1>2. \A u \in Trips : trips[u] # None =>
          [trip |-> u, version |-> trips[u].version, plan |-> trips[u].plan] \in VersionRow
    BY DEF TypeOK, TripRow, VersionRow
  <1> QED
    BY <1>1, <1>2 DEF TypeOK, Saved, Unharmed, WriteRow

(* Writing a row gives no saved version up. *)
LEMMA WriteRowOrphans ==
  ASSUME TypeOK, Orphans, UNCHANGED <<versions, crashes, dbErrors>>,
         loop # None => pc[loop] # "deleteVersions",
         NEW t \in Trips, NEW version \in Nat, NEW status \in TripStatus,
         NEW plan \in Plan, WriteRow(t, version, status, plan)
  PROVE  Orphans'
  <1>1. [version |-> version, status |-> status, plan |-> plan] \in TripRow
    BY DEF TripRow
  <1>2. trips'[t] # None
    BY <1>1, NoneIsNoRow DEF TypeOK, WriteRow
  <1> QED
    BY <1>2 DEF TypeOK, Orphans, Unharmed, WriteRow

(* Only the block under way separates the trips from their versions. *)
LEMMA SavedStep ==
  ASSUME Shape, Saved, [Next]_vars
  PROVE  Saved'
<1> USE DEF Unharmed, LoopBlock, TypeOK, AtAwait, InBlock, Await, Continue, Goto, Return, SaveVersion, Saving, Saved, db, faults
<1>0. TypeOK /\ LoopBlock
  BY DEF Shape
<1>1. ASSUME NEW r \in Chats, ParseRead(r) PROVE Saved'
  BY <1>0, <1>1, Kinds DEF ParseRead
<1>2. ASSUME NEW r \in Chats, CacheHit(r) PROVE Saved'
  BY <1>0, <1>2, Kinds DEF CacheHit
<1>3. ASSUME NEW r \in Chats, NEW i \in Intents, Route(r, i) PROVE Saved'
  BY <1>0, <1>3, Kinds DEF Route
<1>4. ASSUME NEW r \in Chats, AnswerFails(r) PROVE Saved'
  BY <1>0, <1>4, Kinds DEF AnswerFails
<1>5. ASSUME NEW r \in Chats, Generate(r) PROVE Saved'
  BY <1>0, <1>5, Kinds DEF Generate
<1>6. ASSUME NEW r \in Chats, GenerateFails(r) PROVE Saved'
  BY <1>0, <1>6, Kinds DEF GenerateFails
<1>7. ASSUME NEW r \in Chats, NEW t \in Trips, FinishInsert(r, t) PROVE Saved'
  <2>1. PlanOf(r) \in Plan
    BY <1>7, PlanTypes DEF FinishInsert, AtAwait, InProgress
  <2> QED
    BY <1>0, <2>1, <1>7, WriteRowSaved, Kinds
    DEF FinishInsert, AtAwait, InBlock, LoopBlock, Saving, faults, InsertTrip,
        TripStatus
<1>8. ASSUME NEW r \in Chats, FinishUpdate(r) PROVE Saved'
  <2>1. PlanOf(r) \in Plan /\ req[r].trip \in Trips /\ req[r].version \in Nat
    BY <1>0, <1>8, Kinds, PlanTypes, LocalTypes
    DEF FinishUpdate, AtAwait, InProgress
  <2> QED
    BY <1>0, <2>1, <1>8, WriteRowSaved, Kinds
    DEF FinishUpdate, AtAwait, InBlock, LoopBlock, Saving, faults, TripStatus
<1>9. ASSUME NEW r \in Chats, FinishVersion(r) PROVE Saved'
  BY <1>0, <1>9, Kinds DEF FinishVersion
<1>10. ASSUME NEW r \in Chats, FinishOnly(r) PROVE Saved'
  BY <1>0, <1>10, Kinds DEF FinishOnly
<1>11. ASSUME NEW r \in Chats, PostCached(r) PROVE Saved'
  BY <1>0, <1>11, Kinds DEF PostCached
<1>12. ASSUME NEW r \in Chats, DropWeather(r) PROVE Saved'
  BY <1>0, <1>12, Kinds DEF DropWeather
<1>13. ASSUME NEW r \in Chats, SyncWeather(r) PROVE Saved'
  BY <1>0, <1>13, Kinds DEF SyncWeather
<1>14. ASSUME NEW r \in Chats, WeatherFails(r) PROVE Saved'
  BY <1>0, <1>14, Kinds DEF WeatherFails
<1>15. ASSUME NEW r \in Chats, StoreTrip(r) PROVE Saved'
  <2>1. /\ PlanOf(r) \in Plan /\ req[r].trip \in Trips /\ req[r].version \in Nat
        /\ trips[req[r].trip].status \in TripStatus
    BY <1>15, StoredTypes
  <2> QED
    BY <1>0, <2>1, <1>15, WriteRowSaved, Kinds
    DEF StoreTrip, AtAwait, InBlock, LoopBlock, Saving, faults
<1>16. ASSUME NEW r \in Chats, StoreNoTrip(r) PROVE Saved'
  BY <1>0, <1>16, Kinds DEF StoreNoTrip
<1>17. ASSUME NEW r \in Chats, StoreVersion(r) PROVE Saved'
  BY <1>0, <1>17, Kinds DEF StoreVersion
<1>18. ASSUME NEW r \in Chats, StoreLast(r) PROVE Saved'
  BY <1>0, <1>18, Kinds DEF StoreLast
<1>19. ASSUME NEW r \in Chats, StoreConv(r) PROVE Saved'
  BY <1>0, <1>19, Kinds DEF StoreConv
<1>20. ASSUME NEW r \in Chats, StoreRun(r) PROVE Saved'
  BY <1>0, <1>20, Kinds DEF StoreRun
<1>21. ASSUME NEW r \in Chats, SaveFailed(r) PROVE Saved'
  BY <1>0, <1>21, Kinds DEF SaveFailed
<1>22. ASSUME NEW r \in Chats, NEW s \in Sessions, NEW t \in Trips \cup {None}, NEW k \in Keys,
             ChatStart(r, s, t, k) PROVE Saved'
  BY <1>0, <1>22, Kinds DEF ChatStart
<1>23. ASSUME NEW r \in Requests \ Chats, NEW t \in Trips, RefreshRead(r, t)
       PROVE Saved'
  BY <1>0, <1>23, Kinds DEF RefreshRead
<1>24. ASSUME NEW r \in Alerts \cup Dates, RefreshWrite(r) PROVE Saved'
  <2> DEFINE edit == IF r \in Dates THEN {r} ELSE {}
  <2>0. req[r].trip \in Trips /\ req[r].base \in TripRow
    BY <1>24 DEF Shape, RefreshLocals, RefreshWrite, AtAwait
  <2>1. /\ req[r].trip \in Trips
        /\ [marks |-> req[r].base.plan.marks \cup edit, weather |-> TRUE] \in Plan
        /\ req[r].base.version \in Nat /\ req[r].base.status \in TripStatus
    BY <2>0, Kinds DEF TripRow, Plan, Marks
  <2> QED
    BY <1>0, <2>1, <1>24, WriteRowSaved, Kinds
    DEF RefreshWrite, AtAwait, InBlock, LoopBlock, Saving, faults
<1>25. ASSUME NEW r \in Requests \ Chats, RefreshEnds(r) PROVE Saved'
  BY <1>0, <1>25, Kinds DEF RefreshEnds
<1>26. ASSUME NEW r \in Requests \ Chats, NEW t \in Trips, Publish(r, t)
       PROVE Saved'
  <2>1. trips[t].version \in Nat /\ trips[t].plan \in Plan
    BY <1>0, <1>26 DEF Publish, TypeOK, TripRow
  <2> QED
    BY <1>0, <2>1, <1>26, WriteRowSaved, Kinds
    DEF Publish, AtAwait, InBlock, LoopBlock, Saving, faults, TripStatus
<1>27. ASSUME NEW r \in Requests \ Chats, NEW t \in Trips, NEW new \in Trips, CopyTrip(r, t, new)
       PROVE Saved'
  <2>1. trips[t].plan \in Plan
    BY <1>0, <1>27 DEF CopyTrip, TypeOK, TripRow
  <2> QED
    BY <1>0, <2>1, <1>27, WriteRowSaved, Kinds
    DEF CopyTrip, AtAwait, InBlock, LoopBlock, Saving, faults, InsertTrip,
        TripStatus
<1>28. ASSUME NEW r \in Requests \ Chats, WriteVersion(r) PROVE Saved'
  BY <1>0, <1>28, Kinds DEF WriteVersion
<1>29. ASSUME NEW r \in Requests \ Chats, NEW t \in Trips, DeleteTrip(r, t)
       PROVE Saved'
  BY <1>0, <1>29, Kinds DEF DeleteTrip
<1>30. ASSUME NEW r \in Requests \ Chats, DeleteVersions(r) PROVE Saved'
  <2>1. trips[req[r].trip] = None /\ loop = r /\ pending = None
    BY <1>0, <1>30, Kinds DEF DeleteVersions, InBlock, LoopBlock, Saving, faults
  <2> QED
    BY <1>0, <2>1, <1>30 DEF DeleteVersions, Saved, TypeOK, faults
<1>31. ASSUME NEW r \in Requests, DbError(r) PROVE Saved'
  BY <1>0, <1>31, Kinds DEF DbError
<1>32. CASE Crash
  BY <1>0, <1>32, Kinds DEF Crash
<1>33. CASE UNCHANGED vars
  BY <1>0, <1>33, Kinds DEF vars, db, process, faults
<1> QED
  BY <1>1, <1>2, <1>3, <1>4, <1>5, <1>6, <1>7, <1>8, <1>9, <1>10, <1>11, <1>12,
     <1>13, <1>14, <1>15, <1>16, <1>17, <1>18, <1>19, <1>20, <1>21, <1>22,
     <1>23, <1>24, <1>25, <1>26, <1>27, <1>28, <1>29, <1>30, <1>31, <1>32,
     <1>33, Kinds, OthersAreNoChats
  DEF Next, ChatStep, RefreshStep

(* Only a deletion under way leaves versions without a trip. *)
LEMMA OrphansStep ==
  ASSUME Shape, Orphans, [Next]_vars
  PROVE  Orphans'
<1> USE DEF Unharmed, LoopBlock, TypeOK, Orphans, AtAwait, InBlock, Await, Continue, Goto, Return, SaveVersion, Saving, Blocks, db, faults
<1>0. TypeOK /\ LoopBlock
  BY DEF Shape
<1>1. ASSUME NEW r \in Chats, ParseRead(r) PROVE Orphans'
  BY <1>0, <1>1, Kinds DEF ParseRead
<1>2. ASSUME NEW r \in Chats, CacheHit(r) PROVE Orphans'
  BY <1>0, <1>2, Kinds DEF CacheHit
<1>3. ASSUME NEW r \in Chats, NEW i \in Intents, Route(r, i) PROVE Orphans'
  BY <1>0, <1>3, Kinds DEF Route
<1>4. ASSUME NEW r \in Chats, AnswerFails(r) PROVE Orphans'
  BY <1>0, <1>4, Kinds DEF AnswerFails
<1>5. ASSUME NEW r \in Chats, Generate(r) PROVE Orphans'
  BY <1>0, <1>5, Kinds DEF Generate
<1>6. ASSUME NEW r \in Chats, GenerateFails(r) PROVE Orphans'
  BY <1>0, <1>6, Kinds DEF GenerateFails
<1>7. ASSUME NEW r \in Chats, NEW t \in Trips, FinishInsert(r, t) PROVE Orphans'
  <2>1. PlanOf(r) \in Plan
    BY <1>7, PlanTypes DEF FinishInsert, AtAwait, InProgress
  <2> QED
    BY <1>0, <2>1, <1>7, WriteRowOrphans, Kinds
    DEF FinishInsert, AtAwait, InBlock, faults, InsertTrip, TripStatus
<1>8. ASSUME NEW r \in Chats, FinishUpdate(r) PROVE Orphans'
  <2>1. PlanOf(r) \in Plan /\ req[r].trip \in Trips /\ req[r].version \in Nat
    BY <1>0, <1>8, Kinds, PlanTypes, LocalTypes
    DEF FinishUpdate, AtAwait, InProgress
  <2> QED
    BY <1>0, <2>1, <1>8, WriteRowOrphans, Kinds
    DEF FinishUpdate, AtAwait, InBlock, faults, TripStatus
<1>9. ASSUME NEW r \in Chats, FinishVersion(r) PROVE Orphans'
  BY <1>0, <1>9, Kinds DEF FinishVersion
<1>10. ASSUME NEW r \in Chats, FinishOnly(r) PROVE Orphans'
  BY <1>0, <1>10, Kinds DEF FinishOnly
<1>11. ASSUME NEW r \in Chats, PostCached(r) PROVE Orphans'
  BY <1>0, <1>11, Kinds DEF PostCached
<1>12. ASSUME NEW r \in Chats, DropWeather(r) PROVE Orphans'
  BY <1>0, <1>12, Kinds DEF DropWeather
<1>13. ASSUME NEW r \in Chats, SyncWeather(r) PROVE Orphans'
  BY <1>0, <1>13, Kinds DEF SyncWeather
<1>14. ASSUME NEW r \in Chats, WeatherFails(r) PROVE Orphans'
  BY <1>0, <1>14, Kinds DEF WeatherFails
<1>15. ASSUME NEW r \in Chats, StoreTrip(r) PROVE Orphans'
  <2>1. /\ PlanOf(r) \in Plan /\ req[r].trip \in Trips /\ req[r].version \in Nat
        /\ trips[req[r].trip].status \in TripStatus
    BY <1>15, StoredTypes
  <2> QED
    BY <1>0, <2>1, <1>15, WriteRowOrphans, Kinds
    DEF StoreTrip, AtAwait, InBlock, faults
<1>16. ASSUME NEW r \in Chats, StoreNoTrip(r) PROVE Orphans'
  BY <1>0, <1>16, Kinds DEF StoreNoTrip
<1>17. ASSUME NEW r \in Chats, StoreVersion(r) PROVE Orphans'
  BY <1>0, <1>17, Kinds DEF StoreVersion
<1>18. ASSUME NEW r \in Chats, StoreLast(r) PROVE Orphans'
  BY <1>0, <1>18, Kinds DEF StoreLast
<1>19. ASSUME NEW r \in Chats, StoreConv(r) PROVE Orphans'
  BY <1>0, <1>19, Kinds DEF StoreConv
<1>20. ASSUME NEW r \in Chats, StoreRun(r) PROVE Orphans'
  BY <1>0, <1>20, Kinds DEF StoreRun
<1>21. ASSUME NEW r \in Chats, SaveFailed(r) PROVE Orphans'
  BY <1>0, <1>21, Kinds DEF SaveFailed
<1>22. ASSUME NEW r \in Chats, NEW s \in Sessions, NEW t \in Trips \cup {None}, NEW k \in Keys,
             ChatStart(r, s, t, k) PROVE Orphans'
  BY <1>0, <1>22, Kinds DEF ChatStart
<1>23. ASSUME NEW r \in Requests \ Chats, NEW t \in Trips, RefreshRead(r, t)
       PROVE Orphans'
  BY <1>0, <1>23, Kinds DEF RefreshRead
<1>24. ASSUME NEW r \in Alerts \cup Dates, RefreshWrite(r) PROVE Orphans'
  <2> DEFINE edit == IF r \in Dates THEN {r} ELSE {}
  <2>0. req[r].trip \in Trips /\ req[r].base \in TripRow
    BY <1>24 DEF Shape, RefreshLocals, RefreshWrite, AtAwait
  <2>1. /\ req[r].trip \in Trips
        /\ [marks |-> req[r].base.plan.marks \cup edit, weather |-> TRUE] \in Plan
        /\ req[r].base.version \in Nat /\ req[r].base.status \in TripStatus
    BY <2>0, Kinds DEF TripRow, Plan, Marks
  <2> QED
    BY <1>0, <2>1, <1>24, WriteRowOrphans, Kinds
    DEF RefreshWrite, AtAwait, InBlock, faults
<1>25. ASSUME NEW r \in Requests \ Chats, RefreshEnds(r) PROVE Orphans'
  BY <1>0, <1>25, Kinds DEF RefreshEnds
<1>26. ASSUME NEW r \in Requests \ Chats, NEW t \in Trips, Publish(r, t)
       PROVE Orphans'
  <2>1. trips[t].version \in Nat /\ trips[t].plan \in Plan
    BY <1>0, <1>26 DEF Publish, TypeOK, TripRow
  <2> QED
    BY <1>0, <2>1, <1>26, WriteRowOrphans, Kinds
    DEF Publish, AtAwait, InBlock, faults, TripStatus
<1>27. ASSUME NEW r \in Requests \ Chats, NEW t \in Trips, NEW new \in Trips, CopyTrip(r, t, new)
       PROVE Orphans'
  <2>1. trips[t].plan \in Plan
    BY <1>0, <1>27 DEF CopyTrip, TypeOK, TripRow
  <2> QED
    BY <1>0, <2>1, <1>27, WriteRowOrphans, Kinds
    DEF CopyTrip, AtAwait, InBlock, faults, InsertTrip, TripStatus
<1>28. ASSUME NEW r \in Requests \ Chats, WriteVersion(r) PROVE Orphans'
  BY <1>0, <1>28, Kinds DEF WriteVersion
<1>29. ASSUME NEW r \in Requests \ Chats, NEW t \in Trips, DeleteTrip(r, t)
       PROVE Orphans'
  BY <1>0, <1>29, Kinds DEF DeleteTrip
<1>30. ASSUME NEW r \in Requests \ Chats, DeleteVersions(r) PROVE Orphans'
  BY <1>0, <1>30, Kinds DEF DeleteVersions
<1>31. ASSUME NEW r \in Requests, DbError(r) PROVE Orphans'
  BY <1>0, <1>31, Kinds DEF DbError
<1>32. CASE Crash
  BY <1>0, <1>32, Kinds DEF Crash
<1>33. CASE UNCHANGED vars
  BY <1>0, <1>33, Kinds DEF vars, db, process, faults
<1> QED
  BY <1>1, <1>2, <1>3, <1>4, <1>5, <1>6, <1>7, <1>8, <1>9, <1>10, <1>11, <1>12,
     <1>13, <1>14, <1>15, <1>16, <1>17, <1>18, <1>19, <1>20, <1>21, <1>22,
     <1>23, <1>24, <1>25, <1>26, <1>27, <1>28, <1>29, <1>30, <1>31, <1>32,
     <1>33, Kinds, OthersAreNoChats
  DEF Next, ChatStep, RefreshStep

(* Where a run is says what the ledger holds for it. *)
LEMMA RunStep ==
  ASSUME Shape, RunPhase, [Next]_vars
  PROVE  RunPhase'
<1> USE DEF RunPhase, Unharmed, InProgress, TypeOK, AtAwait, InBlock, Await, Continue, Goto, Return, db, faults
<1>0. TypeOK /\ LoopBlock
  BY DEF Shape
<1>1. ASSUME NEW r \in Chats, ParseRead(r) PROVE RunPhase'
  BY <1>0, <1>1, Kinds DEF ParseRead
<1>2. ASSUME NEW r \in Chats, CacheHit(r) PROVE RunPhase'
  BY <1>0, <1>2, Kinds DEF CacheHit
<1>3. ASSUME NEW r \in Chats, NEW i \in Intents, Route(r, i) PROVE RunPhase'
  BY <1>0, <1>3, Kinds DEF Route
<1>4. ASSUME NEW r \in Chats, AnswerFails(r) PROVE RunPhase'
  BY <1>0, <1>4, Kinds DEF AnswerFails
<1>5. ASSUME NEW r \in Chats, Generate(r) PROVE RunPhase'
  BY <1>0, <1>5, Kinds DEF Generate
<1>6. ASSUME NEW r \in Chats, GenerateFails(r) PROVE RunPhase'
  BY <1>0, <1>6, Kinds DEF GenerateFails
<1>7. ASSUME NEW r \in Chats, NEW t \in Trips, FinishInsert(r, t) PROVE RunPhase'
  BY <1>0, <1>7, Kinds DEF FinishInsert
<1>8. ASSUME NEW r \in Chats, FinishUpdate(r) PROVE RunPhase'
  BY <1>0, <1>8, Kinds DEF FinishUpdate
<1>9. ASSUME NEW r \in Chats, FinishVersion(r) PROVE RunPhase'
  BY <1>0, <1>9, Kinds DEF FinishVersion
<1>10. ASSUME NEW r \in Chats, FinishOnly(r) PROVE RunPhase'
  BY <1>0, <1>10, Kinds DEF FinishOnly
<1>11. ASSUME NEW r \in Chats, PostCached(r) PROVE RunPhase'
  BY <1>0, <1>11, Kinds DEF PostCached
<1>12. ASSUME NEW r \in Chats, DropWeather(r) PROVE RunPhase'
  BY <1>0, <1>12, Kinds DEF DropWeather
<1>13. ASSUME NEW r \in Chats, SyncWeather(r) PROVE RunPhase'
  BY <1>0, <1>13, Kinds DEF SyncWeather
<1>14. ASSUME NEW r \in Chats, WeatherFails(r) PROVE RunPhase'
  BY <1>0, <1>14, Kinds DEF WeatherFails
<1>15. ASSUME NEW r \in Chats, StoreTrip(r) PROVE RunPhase'
  BY <1>0, <1>15, Kinds DEF StoreTrip
<1>16. ASSUME NEW r \in Chats, StoreNoTrip(r) PROVE RunPhase'
  BY <1>0, <1>16, Kinds DEF StoreNoTrip
<1>17. ASSUME NEW r \in Chats, StoreVersion(r) PROVE RunPhase'
  BY <1>0, <1>17, Kinds DEF StoreVersion
<1>18. ASSUME NEW r \in Chats, StoreLast(r) PROVE RunPhase'
  BY <1>0, <1>18, Kinds DEF StoreLast
<1>19. ASSUME NEW r \in Chats, StoreConv(r) PROVE RunPhase'
  BY <1>0, <1>19, Kinds DEF StoreConv
<1>20. ASSUME NEW r \in Chats, StoreRun(r) PROVE RunPhase'
  BY <1>0, <1>20, Kinds DEF StoreRun
<1>21. ASSUME NEW r \in Chats, SaveFailed(r) PROVE RunPhase'
  BY <1>0, <1>21, Kinds DEF SaveFailed
<1>22. ASSUME NEW r \in Chats, NEW s \in Sessions, NEW t \in Trips \cup {None}, NEW k \in Keys,
             ChatStart(r, s, t, k) PROVE RunPhase'
  BY <1>0, <1>22, Kinds DEF ChatStart
<1>23. ASSUME NEW r \in Requests \ Chats, NEW t \in Trips, RefreshRead(r, t)
       PROVE RunPhase'
  BY <1>0, <1>23, Kinds DEF RefreshRead
<1>24. ASSUME NEW r \in Alerts \cup Dates, RefreshWrite(r) PROVE RunPhase'
  BY <1>0, <1>24, Kinds DEF RefreshWrite
<1>25. ASSUME NEW r \in Requests \ Chats, RefreshEnds(r) PROVE RunPhase'
  BY <1>0, <1>25, Kinds DEF RefreshEnds
<1>26. ASSUME NEW r \in Requests \ Chats, NEW t \in Trips, Publish(r, t)
       PROVE RunPhase'
  BY <1>0, <1>26, Kinds DEF Publish
<1>27. ASSUME NEW r \in Requests \ Chats, NEW t \in Trips, NEW new \in Trips, CopyTrip(r, t, new)
       PROVE RunPhase'
  BY <1>0, <1>27, Kinds DEF CopyTrip
<1>28. ASSUME NEW r \in Requests \ Chats, WriteVersion(r) PROVE RunPhase'
  BY <1>0, <1>28, Kinds DEF WriteVersion
<1>29. ASSUME NEW r \in Requests \ Chats, NEW t \in Trips, DeleteTrip(r, t)
       PROVE RunPhase'
  BY <1>0, <1>29, Kinds DEF DeleteTrip
<1>30. ASSUME NEW r \in Requests \ Chats, DeleteVersions(r) PROVE RunPhase'
  BY <1>0, <1>30, Kinds DEF DeleteVersions
<1>31. ASSUME NEW r \in Requests, DbError(r) PROVE RunPhase'
  <2>1. InProgress(r) /\ runs' = runs /\ ~ Unharmed'
    BY <1>0, <1>31 DEF DbError, AtAwait, TypeOK, LoopBlock, Blocks, db, Unharmed
  <2>2. pc' = [pc EXCEPT ![r] = "failing"] \/ pc' = [pc EXCEPT ![r] = "done"]
    BY <1>31 DEF DbError, Continue, Return, Await, Goto
  <2>3. \A q \in Chats : pc'[q] = pc[q] \/ (q = r /\ pc'[q] \in {"failing", "done"})
    BY <1>0, <2>2, Kinds DEF TypeOK
  <2>4. \A q \in Chats : runs'[q] = runs[q]
    BY <2>1
  <2> QED
    BY <2>1, <2>3, <2>4
<1>32. CASE Crash
  BY <1>0, <1>32, Kinds DEF Crash
<1>33. CASE UNCHANGED vars
  BY <1>0, <1>33, Kinds DEF vars, db, process, faults
<1> QED
  BY <1>1, <1>2, <1>3, <1>4, <1>5, <1>6, <1>7, <1>8, <1>9, <1>10, <1>11, <1>12,
     <1>13, <1>14, <1>15, <1>16, <1>17, <1>18, <1>19, <1>20, <1>21, <1>22,
     <1>23, <1>24, <1>25, <1>26, <1>27, <1>28, <1>29, <1>30, <1>31, <1>32,
     <1>33, Kinds, OthersAreNoChats
  DEF Next, ChatStep, RefreshStep

-----------------------------------------------------------------------------
(* The theorems. *)
LEMMA InitShape == Init => Shape /\ Saved /\ Orphans /\ RunPhase
<1> SUFFICES ASSUME Init PROVE Shape /\ Saved /\ Orphans /\ RunPhase
  OBVIOUS
<1> DEFINE first == [marks |-> {Seed}, weather |-> TRUE]
           row == [version |-> 1, status |-> "draft", plan |-> first]
<1>1. first \in Plan
  BY DEF Plan, Marks
<1>2. row \in TripRow /\ \A t \in Trips : [trip |-> t, version |-> 1, plan |-> first] \in VersionRow
  BY <1>1 DEF TripRow, TripStatus, VersionRow
<1>3. /\ trips \in [Trips -> TripRow \cup {None}] /\ versions \subseteq VersionRow
      /\ used \subseteq Trips
  BY <1>2, SomeTripsExist DEF Init
<1>4. conv \in [Sessions -> Seq(Message)] /\ req \in [Requests -> Local]
  BY BlankType DEF Init
<1>5. TypeOK
  <2>1. /\ lastTrip \in [Sessions -> Trips \cup {None}] /\ pending \in VersionRow \cup {None}
        /\ runs \in [Chats -> {"none", "running", "success", "failed"}]
        /\ cache \in [Keys -> Chats \cup {None}] /\ mem \in [Chats -> Plan \cup {None}]
    BY DEF Init
  <2>2. /\ pc \in [Requests -> PC] /\ loop \in Requests \cup {None}
    BY DEF Init, PC
  <2>3. crashes \in 0 .. MaxCrashes /\ dbErrors \in 0 .. MaxDbErrors
    BY BoundsAreNat DEF Init
  <2> QED
    BY <1>3, <1>4, <2>1, <2>2, <2>3 DEF TypeOK
<1>6. ChatLocals /\ RefreshLocals /\ CachedPlans
  BY Kinds DEF Init, ChatLocals, RefreshLocals, CachedPlans, InProgress
<1>7. LoopBlock
  BY Kinds DEF Init, LoopBlock, Blocks, Saving
<1>8. Saved /\ Orphans
  <2>1. trips = [t \in Trips |-> IF t \in Existing THEN row ELSE None]
    BY DEF Init
  <2>2. versions = {[trip |-> t, version |-> 1, plan |-> first] : t \in Existing}
    BY DEF Init
  <2>3. row # None
    BY <1>2, NoneIsNoRow
  <2> HIDE DEF row
  <2>4. \A t \in Trips : trips[t] # None => t \in Existing /\ trips[t] = row
    BY <2>1
  <2>5. \A t \in Existing : t \in Trips /\ trips[t] = row
    BY <2>1, SomeTripsExist
  <2>6. row.version = 1 /\ row.plan = first
    BY DEF row
  <2>7. Saved
    BY <2>2, <2>4, <2>6 DEF Saved
  <2>8. Orphans
    BY <2>2, <2>3, <2>5 DEF Orphans
  <2> QED
    BY <2>7, <2>8
<1>9. RunPhase
  BY Kinds DEF Init, RunPhase, InProgress
<1> QED
  BY <1>5, <1>6, <1>7, <1>8, <1>9 DEF Shape

LEMMA ShapeStep == Shape /\ [Next]_vars => Shape'
  BY ChatTypes, OtherTypes, LocalsStep, CacheStep, RefreshLocalsStep, LoopStep
  DEF Shape

(* Every part of the state keeps its type.  The shape of the requests under *)
(* way is needed with it: a step stores the plan of the request it is of,   *)
(* which is a plan only if the request has come so far.                     *)
THEOREM TypeCorrect == Spec => []TypeOK
<1>1. Spec => []Shape
  BY InitShape, ShapeStep, PTL DEF Spec
<1>2. Shape => TypeOK
  BY DEF Shape
<1> QED
  BY <1>1, <1>2, PTL

(* Barring faults, between two blocks the current content of every trip is  *)
(* among its saved versions.                                                *)
THEOREM VersionsAreSaved == Spec => []CurrentVersionSaved
<1>1. Shape /\ Saved => CurrentVersionSaved
  <2> SUFFICES ASSUME Shape, Saved, Unharmed, Idle, NEW t \in Trips, trips[t] # None
               PROVE  [trip |-> t, version |-> trips[t].version,
                       plan |-> trips[t].plan] \in versions
    BY DEF CurrentVersionSaved
  <2>1. pending = None
    BY DEF Shape, LoopBlock, Idle
  <2>2. [trip |-> t, version |-> trips[t].version, plan |-> trips[t].plan] \in VersionRow
    BY DEF Shape, TypeOK, TripRow, VersionRow
  <2> QED
    BY <2>1, <2>2, NoneIsNoRow DEF Saved
<1>2. Shape /\ Saved /\ [Next]_vars => Shape' /\ Saved'
  BY ShapeStep, SavedStep
<1> QED
  BY InitShape, <1>1, <1>2, PTL DEF Spec

(* Barring faults, between two blocks every saved version is of a trip that *)
(* exists.                                                                  *)
THEOREM VersionsHaveTrips == Spec => []NoOrphanVersions
<1>1. Shape /\ Orphans => NoOrphanVersions
  BY DEF NoOrphanVersions, Orphans, Idle
<1>2. Shape /\ Orphans /\ [Next]_vars => Shape' /\ Orphans'
  BY ShapeStep, OrphansStep
<1> QED
  BY InitShape, <1>1, <1>2, PTL DEF Spec

(* Barring faults, agent_runs tells which runs are in progress.             *)
THEOREM RunsAreTruthful == Spec => []RunningIsInProgress
<1>1. RunPhase => RunningIsInProgress
  BY DEF RunPhase, RunningIsInProgress, InProgress
<1>2. Shape /\ RunPhase /\ [Next]_vars => Shape' /\ RunPhase'
  BY ShapeStep, RunStep
<1> QED
  BY InitShape, <1>1, <1>2, PTL DEF Spec
(* agent_runs refines the abstract ledger. *)

LEMMA LedgerStep ==
  ASSUME Shape, RunPhase, [Next]_vars
  PROVE  [RL!Next]_runs
<1> USE DEF db
<1>0. RunPhase
  OBVIOUS
<1>1. ASSUME NEW r \in Chats, ParseRead(r) PROVE [RL!Next]_runs
  BY <1>1 DEF ParseRead
<1>2. ASSUME NEW r \in Chats, CacheHit(r) PROVE [RL!Next]_runs
  BY <1>2 DEF CacheHit
<1>3. ASSUME NEW r \in Chats, NEW i \in Intents, Route(r, i) PROVE [RL!Next]_runs
  BY <1>3 DEF Route
<1>4. ASSUME NEW r \in Chats, AnswerFails(r) PROVE [RL!Next]_runs
  BY <1>4 DEF AnswerFails
<1>5. ASSUME NEW r \in Chats, Generate(r) PROVE [RL!Next]_runs
  BY <1>5 DEF Generate
<1>6. ASSUME NEW r \in Chats, GenerateFails(r) PROVE [RL!Next]_runs
  BY <1>6 DEF GenerateFails
<1>7. ASSUME NEW r \in Chats, NEW t \in Trips, FinishInsert(r, t)
      PROVE [RL!Next]_runs
  BY <1>7 DEF FinishInsert
<1>8. ASSUME NEW r \in Chats, FinishUpdate(r) PROVE [RL!Next]_runs
  BY <1>8 DEF FinishUpdate
<1>9. ASSUME NEW r \in Chats, FinishVersion(r) PROVE [RL!Next]_runs
  BY <1>9 DEF FinishVersion
<1>10. ASSUME NEW r \in Chats, FinishOnly(r) PROVE [RL!Next]_runs
  BY <1>10 DEF FinishOnly
<1>11. ASSUME NEW r \in Chats, PostCached(r) PROVE [RL!Next]_runs
  BY <1>11 DEF PostCached
<1>12. ASSUME NEW r \in Chats, DropWeather(r) PROVE [RL!Next]_runs
  BY <1>12 DEF DropWeather
<1>13. ASSUME NEW r \in Chats, SyncWeather(r) PROVE [RL!Next]_runs
  BY <1>13 DEF SyncWeather
<1>14. ASSUME NEW r \in Chats, WeatherFails(r) PROVE [RL!Next]_runs
  BY <1>14 DEF WeatherFails
<1>15. ASSUME NEW r \in Chats, StoreTrip(r) PROVE [RL!Next]_runs
  BY <1>15 DEF StoreTrip
<1>16. ASSUME NEW r \in Chats, StoreNoTrip(r) PROVE [RL!Next]_runs
  BY <1>16 DEF StoreNoTrip
<1>17. ASSUME NEW r \in Chats, StoreVersion(r) PROVE [RL!Next]_runs
  BY <1>17 DEF StoreVersion
<1>18. ASSUME NEW r \in Chats, StoreLast(r) PROVE [RL!Next]_runs
  BY <1>18 DEF StoreLast
<1>19. ASSUME NEW r \in Chats, StoreConv(r) PROVE [RL!Next]_runs
  BY <1>19 DEF StoreConv
<1>20. ASSUME NEW r \in Chats, StoreRun(r) PROVE [RL!Next]_runs
  <2>1. runs[r] = "running" /\ runs' = [runs EXCEPT ![r] = "success"]
    BY <1>20, <1>0 DEF StoreRun, AtAwait, InBlock, RunPhase, InProgress
  <2> QED
    BY <2>1 DEF RL!Next, RL!Settle
<1>21. ASSUME NEW r \in Chats, SaveFailed(r) PROVE [RL!Next]_runs
  <2>1. runs[r] = "running" /\ runs' = [runs EXCEPT ![r] = "failed"]
    BY <1>21, <1>0 DEF SaveFailed, AtAwait, InBlock, RunPhase, InProgress
  <2> QED
    BY <2>1 DEF RL!Next, RL!Settle
<1>22. ASSUME NEW r \in Chats, NEW s \in Sessions, NEW t \in Trips \cup {None}, NEW k \in Keys,
             ChatStart(r, s, t, k) PROVE [RL!Next]_runs
  <2>1. runs[r] = "none" /\ runs' = [runs EXCEPT ![r] = "running"]
    BY <1>22, <1>0 DEF ChatStart, AtAwait, InBlock, RunPhase, InProgress
  <2> QED
    BY <2>1 DEF RL!Next, RL!Register
<1>23. ASSUME NEW r \in Requests \ Chats, NEW t \in Trips, RefreshRead(r, t)
       PROVE [RL!Next]_runs
  BY <1>23 DEF RefreshRead
<1>24. ASSUME NEW r \in Alerts \cup Dates, RefreshWrite(r) PROVE [RL!Next]_runs
  BY <1>24 DEF RefreshWrite
<1>25. ASSUME NEW r \in Requests \ Chats, RefreshEnds(r) PROVE [RL!Next]_runs
  BY <1>25 DEF RefreshEnds
<1>26. ASSUME NEW r \in Requests \ Chats, NEW t \in Trips, Publish(r, t)
       PROVE [RL!Next]_runs
  BY <1>26 DEF Publish
<1>27. ASSUME NEW r \in Requests \ Chats, NEW t \in Trips, NEW new \in Trips, CopyTrip(r, t, new)
       PROVE [RL!Next]_runs
  BY <1>27 DEF CopyTrip
<1>28. ASSUME NEW r \in Requests \ Chats, WriteVersion(r) PROVE [RL!Next]_runs
  BY <1>28 DEF WriteVersion
<1>29. ASSUME NEW r \in Requests \ Chats, NEW t \in Trips, DeleteTrip(r, t)
       PROVE [RL!Next]_runs
  BY <1>29 DEF DeleteTrip
<1>30. ASSUME NEW r \in Requests \ Chats, DeleteVersions(r) PROVE [RL!Next]_runs
  BY <1>30 DEF DeleteVersions
<1>31. ASSUME NEW r \in Requests, DbError(r) PROVE [RL!Next]_runs
  BY <1>31 DEF DbError
<1>32. CASE Crash
  BY <1>32 DEF Crash
<1>33. CASE UNCHANGED vars
  BY <1>33 DEF vars, db, process, faults
<1> QED
  BY <1>1, <1>2, <1>3, <1>4, <1>5, <1>6, <1>7, <1>8, <1>9, <1>10, <1>11, <1>12,
     <1>13, <1>14, <1>15, <1>16, <1>17, <1>18, <1>19, <1>20, <1>21, <1>22,
     <1>23, <1>24, <1>25, <1>26, <1>27, <1>28, <1>29, <1>30, <1>31, <1>32,
     <1>33, Kinds, OthersAreNoChats
  DEF Next, ChatStep, RefreshStep

(* Rows are written only where there is one, or under a new id. *)
LEMMA DeletedStep ==
  ASSUME Shape, [Next]_vars
  PROVE  \A gone \in used : trips[gone] = None => trips'[gone] = None
<1> USE DEF db
<1>0. TypeOK
  BY DEF Shape
<1>1. ASSUME NEW r \in Chats, ParseRead(r)
      PROVE \A gone \in used : trips[gone] = None => trips'[gone] = None
  BY <1>1 DEF ParseRead
<1>2. ASSUME NEW r \in Chats, CacheHit(r)
      PROVE \A gone \in used : trips[gone] = None => trips'[gone] = None
  BY <1>2 DEF CacheHit
<1>3. ASSUME NEW r \in Chats, NEW i \in Intents, Route(r, i)
      PROVE \A gone \in used : trips[gone] = None => trips'[gone] = None
  BY <1>3 DEF Route
<1>4. ASSUME NEW r \in Chats, AnswerFails(r)
      PROVE \A gone \in used : trips[gone] = None => trips'[gone] = None
  BY <1>4 DEF AnswerFails
<1>5. ASSUME NEW r \in Chats, Generate(r)
      PROVE \A gone \in used : trips[gone] = None => trips'[gone] = None
  BY <1>5 DEF Generate
<1>6. ASSUME NEW r \in Chats, GenerateFails(r)
      PROVE \A gone \in used : trips[gone] = None => trips'[gone] = None
  BY <1>6 DEF GenerateFails
<1>7. ASSUME NEW r \in Chats, NEW t \in Trips, FinishInsert(r, t)
      PROVE \A gone \in used : trips[gone] = None => trips'[gone] = None
  BY <1>7 DEF FinishInsert, InsertTrip, WriteRow
<1>8. ASSUME NEW r \in Chats, FinishUpdate(r)
      PROVE \A gone \in used : trips[gone] = None => trips'[gone] = None
  BY <1>8 DEF FinishUpdate, WriteRow
<1>9. ASSUME NEW r \in Chats, FinishVersion(r)
      PROVE \A gone \in used : trips[gone] = None => trips'[gone] = None
  BY <1>9 DEF FinishVersion
<1>10. ASSUME NEW r \in Chats, FinishOnly(r)
       PROVE \A gone \in used : trips[gone] = None => trips'[gone] = None
  BY <1>10 DEF FinishOnly
<1>11. ASSUME NEW r \in Chats, PostCached(r)
       PROVE \A gone \in used : trips[gone] = None => trips'[gone] = None
  BY <1>11 DEF PostCached
<1>12. ASSUME NEW r \in Chats, DropWeather(r)
       PROVE \A gone \in used : trips[gone] = None => trips'[gone] = None
  BY <1>12 DEF DropWeather
<1>13. ASSUME NEW r \in Chats, SyncWeather(r)
       PROVE \A gone \in used : trips[gone] = None => trips'[gone] = None
  BY <1>13 DEF SyncWeather
<1>14. ASSUME NEW r \in Chats, WeatherFails(r)
       PROVE \A gone \in used : trips[gone] = None => trips'[gone] = None
  BY <1>14 DEF WeatherFails
<1>15. ASSUME NEW r \in Chats, StoreTrip(r)
       PROVE \A gone \in used : trips[gone] = None => trips'[gone] = None
  BY <1>15 DEF StoreTrip, WriteRow
<1>16. ASSUME NEW r \in Chats, StoreNoTrip(r)
       PROVE \A gone \in used : trips[gone] = None => trips'[gone] = None
  BY <1>16 DEF StoreNoTrip
<1>17. ASSUME NEW r \in Chats, StoreVersion(r)
       PROVE \A gone \in used : trips[gone] = None => trips'[gone] = None
  BY <1>17 DEF StoreVersion
<1>18. ASSUME NEW r \in Chats, StoreLast(r)
       PROVE \A gone \in used : trips[gone] = None => trips'[gone] = None
  BY <1>18 DEF StoreLast
<1>19. ASSUME NEW r \in Chats, StoreConv(r)
       PROVE \A gone \in used : trips[gone] = None => trips'[gone] = None
  BY <1>19 DEF StoreConv
<1>20. ASSUME NEW r \in Chats, StoreRun(r)
       PROVE \A gone \in used : trips[gone] = None => trips'[gone] = None
  BY <1>20 DEF StoreRun
<1>21. ASSUME NEW r \in Chats, SaveFailed(r)
       PROVE \A gone \in used : trips[gone] = None => trips'[gone] = None
  BY <1>21 DEF SaveFailed
<1>22. ASSUME NEW r \in Chats, NEW s \in Sessions, NEW t \in Trips \cup {None}, NEW k \in Keys,
             ChatStart(r, s, t, k) PROVE \A gone \in used : trips[gone] = None => trips'[gone] = None
  BY <1>22 DEF ChatStart
<1>23. ASSUME NEW r \in Requests \ Chats, NEW t \in Trips, RefreshRead(r, t)
       PROVE \A gone \in used : trips[gone] = None => trips'[gone] = None
  BY <1>23 DEF RefreshRead
<1>24. ASSUME NEW r \in Alerts \cup Dates, RefreshWrite(r)
       PROVE \A gone \in used : trips[gone] = None => trips'[gone] = None
  BY <1>24 DEF RefreshWrite, WriteRow
<1>25. ASSUME NEW r \in Requests \ Chats, RefreshEnds(r)
       PROVE \A gone \in used : trips[gone] = None => trips'[gone] = None
  BY <1>25 DEF RefreshEnds
<1>26. ASSUME NEW r \in Requests \ Chats, NEW t \in Trips, Publish(r, t)
       PROVE \A gone \in used : trips[gone] = None => trips'[gone] = None
  BY <1>26 DEF Publish, WriteRow
<1>27. ASSUME NEW r \in Requests \ Chats, NEW t \in Trips, NEW new \in Trips, CopyTrip(r, t, new)
       PROVE \A gone \in used : trips[gone] = None => trips'[gone] = None
  BY <1>27 DEF CopyTrip, InsertTrip, WriteRow
<1>28. ASSUME NEW r \in Requests \ Chats, WriteVersion(r)
       PROVE \A gone \in used : trips[gone] = None => trips'[gone] = None
  BY <1>28 DEF WriteVersion
<1>29. ASSUME NEW r \in Requests \ Chats, NEW t \in Trips, DeleteTrip(r, t)
       PROVE \A gone \in used : trips[gone] = None => trips'[gone] = None
  BY <1>0, <1>29 DEF DeleteTrip, TypeOK
<1>30. ASSUME NEW r \in Requests \ Chats, DeleteVersions(r)
       PROVE \A gone \in used : trips[gone] = None => trips'[gone] = None
  BY <1>30 DEF DeleteVersions
<1>31. ASSUME NEW r \in Requests, DbError(r)
       PROVE \A gone \in used : trips[gone] = None => trips'[gone] = None
  BY <1>31 DEF DbError
<1>32. CASE Crash
  BY <1>32 DEF Crash
<1>33. CASE UNCHANGED vars
  BY <1>33 DEF vars, db, process, faults
<1> QED
  BY <1>1, <1>2, <1>3, <1>4, <1>5, <1>6, <1>7, <1>8, <1>9, <1>10, <1>11, <1>12,
     <1>13, <1>14, <1>15, <1>16, <1>17, <1>18, <1>19, <1>20, <1>21, <1>22,
     <1>23, <1>24, <1>25, <1>26, <1>27, <1>28, <1>29, <1>30, <1>31, <1>32,
     <1>33, Kinds, OthersAreNoChats
  DEF Next, ChatStep, RefreshStep

(* agent_runs implements the ledger, whatever crashes or fails. *)
THEOREM LedgerIsKept == Spec => LedgerKept
<1>1. Init => RL!Init
  BY DEF Init, RL!Init
<1>2. Shape /\ RunPhase /\ [Next]_vars => Shape' /\ RunPhase' /\ [RL!Next]_runs
  BY ShapeStep, RunStep, LedgerStep
<1> QED
  BY InitShape, <1>1, <1>2, PTL DEF Spec, LedgerKept, RL!Spec

(* A deleted trip stays deleted, whatever crashes or fails. *)
THEOREM DeletionIsFinal == Spec => DeletedStaysDeleted
<1>1. Shape /\ [Next]_vars =>
        Shape' /\ (\A t \in used : trips[t] = None => trips'[t] = None)
  BY ShapeStep, DeletedStep
<1> QED
  BY InitShape, <1>1, PTL DEF Spec, DeletedStaysDeleted
-----------------------------------------------------------------------------
(* Conversations: who has spoken in a sequence of messages, and what the   *)
(* stored ones and the ones a request carries look like.                   *)
Spoken(q, r) == \E i \in DOMAIN q : q[i][1] = r

InTurns(q) ==
  \A i \in DOMAIN q : IF i % 2 = 1 THEN q[i][2] = "user"
                      ELSE q[i] = <<q[i - 1][1], "assistant">>
Once(q) == \A i, j \in DOMAIN q : q[i] = q[j] => i = j

Exchanges(q) == Len(q) % 2 = 0 /\ InTurns(q) /\ Once(q)

(* Complete exchanges of others, then the question of r.                   *)
Asked(h, r) ==
  /\ Len(h) % 2 = 1 /\ InTurns(h) /\ Once(h)
  /\ h[Len(h)] = <<r, "user">>
  /\ \A i \in 1 .. Len(h) - 1 : h[i][1] # r

(* A request that has not begun is heard nowhere; one under way carries    *)
(* the conversation it found and its own question.                         *)
Turns ==
  /\ \A s \in Sessions : Exchanges(conv[s])
  /\ \A r \in Chats : InProgress(r) => Asked(req[r].hist, r)
  /\ \A r \in Chats : pc[r] = "idle" =>
       /\ \A s \in Sessions : ~ Spoken(conv[s], r)
       /\ \A q \in Chats : ~ Spoken(req[q].hist, r)

(* While nothing has failed, only a run that has come to its last write is *)
(* heard by anyone else.                                                   *)
Heard ==
  Unharmed =>
    \A r \in Chats :
      \/ \E s \in Sessions : Spoken(conv[s], r)
      \/ \E q \in Chats \ {r} : Spoken(req[q].hist, r)
      => runs[r] = "success" \/ pc[r] = "storeRun"

(* The points behind the write of the trip, and what is stored there.      *)
Stores == {"storeVersion", "storeLast", "storeConv", "storeRun"}

StoredSoFar ==
  loop \in Chats /\ pc[loop] \in Stores =>
    LET r == loop
        s == req[r].sess
        t == req[r].trip
        row == [trip |-> t, version |-> req[r].version, plan |-> PlanOf(r)] IN
    /\ t # None /\ trips[t] # None =>
         /\ trips[t].plan = PlanOf(r)
         /\ IF pc[r] = "storeVersion" THEN pending = row ELSE row \in versions
    /\ pc[r] \in {"storeConv", "storeRun"} /\ t # None => lastTrip[s] = t
    /\ pc[r] = "storeRun" =>
         conv[s] # <<>> /\ conv[s][Len(conv[s])] = <<r, "assistant">>

-----------------------------------------------------------------------------
(* Most steps say nothing: no conversation changes, no request gets ahead  *)
(* and none changes what it carries, except that it may be dropped.        *)
Quiet ==
  /\ conv' = conv
  /\ \A q \in Chats :
       /\ pc'[q] = "idle" => pc[q] = "idle"
       /\ InProgress(q)' => InProgress(q) /\ req'[q].hist = req[q].hist
       /\ req'[q].hist \in {req[q].hist, <<>>}
       /\ Unharmed' => Unharmed /\
            (runs[q] = "success" \/ pc[q] = "storeRun" =>
               runs'[q] = "success" \/ pc'[q] = "storeRun")

LEMMA QuietChat ==
  ASSUME Shape, RunPhase, NEW r \in Chats, ChatStep(r), ~ StoreConv(r)
  PROVE  Quiet
<1> USE DEF Quiet, RunPhase, Unharmed, InProgress, TypeOK, Local, Blank, AtAwait, InBlock, Await,
        Continue, Goto, Return, db, faults
<1>0. TypeOK /\ r \in Requests
  BY Kinds DEF Shape
<1>1. CASE ParseRead(r)
  BY <1>0, Kinds, <1>1 DEF ParseRead
<1>2. CASE CacheHit(r)
  BY <1>0, Kinds, <1>2 DEF CacheHit
<1>3. ASSUME NEW i \in Intents, Route(r, i) PROVE Quiet
  BY <1>0, Kinds, <1>3 DEF Route
<1>4. CASE AnswerFails(r)
  BY <1>0, Kinds, <1>4 DEF AnswerFails
<1>5. CASE Generate(r)
  BY <1>0, Kinds, <1>5 DEF Generate
<1>6. CASE GenerateFails(r)
  BY <1>0, Kinds, <1>6 DEF GenerateFails
<1>7. ASSUME NEW t \in Trips, FinishInsert(r, t) PROVE Quiet
  BY <1>0, Kinds, <1>7 DEF FinishInsert
<1>8. CASE FinishUpdate(r)
  BY <1>0, Kinds, <1>8 DEF FinishUpdate
<1>9. CASE FinishVersion(r)
  BY <1>0, Kinds, <1>9 DEF FinishVersion
<1>10. CASE FinishOnly(r)
  BY <1>0, Kinds, <1>10 DEF FinishOnly
<1>11. CASE PostCached(r)
  BY <1>0, Kinds, <1>11 DEF PostCached
<1>12. CASE DropWeather(r)
  BY <1>0, Kinds, <1>12 DEF DropWeather
<1>13. CASE SyncWeather(r)
  BY <1>0, Kinds, <1>13 DEF SyncWeather
<1>14. CASE WeatherFails(r)
  BY <1>0, Kinds, <1>14 DEF WeatherFails
<1>15. CASE StoreTrip(r)
  BY <1>0, Kinds, <1>15 DEF StoreTrip
<1>16. CASE StoreNoTrip(r)
  BY <1>0, Kinds, <1>16 DEF StoreNoTrip
<1>17. CASE StoreVersion(r)
  BY <1>0, Kinds, <1>17 DEF StoreVersion
<1>18. CASE StoreLast(r)
  BY <1>0, Kinds, <1>18 DEF StoreLast
<1>19. CASE StoreRun(r)
  BY <1>0, Kinds, <1>19 DEF StoreRun
<1>20. CASE SaveFailed(r)
  BY <1>0, Kinds, <1>20 DEF SaveFailed
<1> QED
  BY <1>1, <1>2, <1>3, <1>4, <1>5, <1>6, <1>7, <1>8, <1>9, <1>10, <1>11,
     <1>12, <1>13, <1>14, <1>15, <1>16, <1>17, <1>18, <1>19, <1>20
  DEF ChatStep

LEMMA QuietOther ==
  ASSUME Shape, RunPhase, [Next]_vars, ~ \E r \in Chats : ChatStep(r),
         ~ \E r \in Chats, s \in Sessions, t \in Trips \cup {None}, k \in Keys :
             ChatStart(r, s, t, k)
  PROVE  Quiet
<1> USE DEF Quiet, RunPhase, Unharmed, InProgress, TypeOK, Local, Blank, AtAwait, InBlock, Await,
        Continue, Goto, Return, db, faults
<1>0. TypeOK /\ LoopBlock
  BY DEF Shape
<1>1. ASSUME NEW r \in Requests \ Chats, NEW t \in Trips, RefreshRead(r, t)
      PROVE Quiet
  BY <1>0, <1>1, Kinds DEF RefreshRead
<1>2. ASSUME NEW r \in Alerts \cup Dates, RefreshWrite(r) PROVE Quiet
  BY <1>0, <1>2, Kinds, OthersAreNoChats DEF RefreshWrite
<1>3. ASSUME NEW r \in Requests \ Chats, RefreshEnds(r) PROVE Quiet
  BY <1>0, <1>3, Kinds DEF RefreshEnds
<1>4. ASSUME NEW r \in Requests \ Chats, NEW t \in Trips, Publish(r, t)
      PROVE Quiet
  BY <1>0, <1>4, Kinds DEF Publish
<1>5. ASSUME NEW r \in Requests \ Chats, NEW t \in Trips, NEW new \in Trips, CopyTrip(r, t, new)
      PROVE Quiet
  BY <1>0, <1>5, Kinds DEF CopyTrip
<1>6. ASSUME NEW r \in Requests \ Chats, WriteVersion(r) PROVE Quiet
  BY <1>0, <1>6, Kinds DEF WriteVersion
<1>7. ASSUME NEW r \in Requests \ Chats, NEW t \in Trips, DeleteTrip(r, t)
      PROVE Quiet
  BY <1>0, <1>7, Kinds DEF DeleteTrip
<1>8. ASSUME NEW r \in Requests \ Chats, DeleteVersions(r) PROVE Quiet
  BY <1>0, <1>8, Kinds DEF DeleteVersions
<1>9. ASSUME NEW r \in Requests, DbError(r) PROVE Quiet
  <2>1. InProgress(r) /\ ~ Unharmed' /\ conv' = conv
    BY <1>0, <1>9 DEF DbError, LoopBlock, Blocks
  <2>2. \/ pc' = [pc EXCEPT ![r] = "failing"] /\ req' = req
        \/ pc' = [pc EXCEPT ![r] = "done"] /\ req' = [req EXCEPT ![r] = Blank]
    BY <1>9 DEF DbError
  <2>3. \A q \in Chats :
          /\ pc'[q] = "idle" => pc[q] = "idle"
          /\ InProgress(q)' => InProgress(q) /\ req'[q].hist = req[q].hist
          /\ req'[q].hist \in {req[q].hist, <<>>}
    <3> SUFFICES ASSUME NEW q \in Chats
                 PROVE  /\ pc'[q] = "idle" => pc[q] = "idle"
                        /\ InProgress(q)' => InProgress(q) /\ req'[q].hist = req[q].hist
                        /\ req'[q].hist \in {req[q].hist, <<>>}
      OBVIOUS
    <3>1. q \in Requests /\ Blank.hist = <<>>
      BY Kinds
    <3>2. CASE pc' = [pc EXCEPT ![r] = "failing"] /\ req' = req
      BY <1>0, <2>1, <3>1, <3>2
    <3>3. CASE pc' = [pc EXCEPT ![r] = "done"] /\ req' = [req EXCEPT ![r] = Blank]
      <4>1. q # r => pc'[q] = pc[q] /\ req'[q] = req[q]
        BY <1>0, <3>1, <3>3
      <4>2. pc'[r] = "done" /\ req'[r] = Blank
        BY <1>0, <3>3
      <4> QED
        BY <3>1, <4>1, <4>2
    <3> QED
      BY <2>2, <3>2, <3>3
  <2> QED
    BY <2>1, <2>3
<1>10. CASE Crash
  BY <1>0, <1>10, Kinds DEF Crash
<1>11. CASE UNCHANGED vars
  BY <1>0, <1>11, Kinds DEF vars, process
<1> QED
  BY <1>1, <1>2, <1>3, <1>4, <1>5, <1>6, <1>7, <1>8, <1>9, <1>10, <1>11, Kinds, OthersAreNoChats
  DEF Next, RefreshStep

(* A question after complete exchanges of others, and an answer after it.  *)
LEMMA AskedAfterExchanges ==
  ASSUME NEW r \in Chats, NEW q \in Seq(Message), Exchanges(q), ~ Spoken(q, r)
  PROVE  LET h == Append(q, <<r, "user">>) IN
         /\ Asked(h, r)
         /\ \A x \in Chats : Spoken(h, x) => x = r \/ Spoken(q, x)
<1> DEFINE n == Len(q)
           m == <<r, "user">>
           h == Append(q, m)
<1>1. /\ n \in Nat /\ n % 2 = 0 /\ DOMAIN q = 1 .. n
  BY DEF Exchanges
<1>2. Len(h) = n + 1 /\ h[n + 1] = m /\ DOMAIN h = 1 .. n + 1 /\ \A i \in 1 .. n : h[i] = q[i]
  BY <1>1 DEF Message
<1>3. (n + 1) % 2 = 1
  BY <1>1
<1> HIDE DEF n, h
<1>4. \A i \in 1 .. n : h[i][1] # r
  BY <1>1, <1>2 DEF Spoken
<1>5. InTurns(h)
  <2> SUFFICES ASSUME NEW i \in 1 .. n + 1
               PROVE  IF i % 2 = 1 THEN h[i][2] = "user"
                                   ELSE h[i] = <<h[i - 1][1], "assistant">>
    BY <1>2 DEF InTurns
  <2>1. CASE i = n + 1
    BY <2>1, <1>2, <1>3
  <2>2. CASE i \in 1 .. n
    <3>1. IF i % 2 = 1 THEN q[i][2] = "user" ELSE q[i] = <<q[i - 1][1], "assistant">>
      BY <2>2, <1>1 DEF Exchanges, InTurns
    <3>2. i % 2 # 1 => i - 1 \in 1 .. n
      BY <2>2, <1>1
    <3> QED
      BY <3>1, <3>2, <1>2, <2>2
  <2> QED
    BY <2>1, <2>2, <1>1
<1>6. Once(h)
  <2> SUFFICES ASSUME NEW i \in 1 .. n + 1, NEW j \in 1 .. n + 1, h[i] = h[j]
               PROVE  i = j
    BY <1>2 DEF Once
  <2>1. CASE i \in 1 .. n /\ j \in 1 .. n
    BY <2>1, <1>1, <1>2 DEF Exchanges, Once
  <2>2. CASE i = n + 1 /\ j \in 1 .. n
    BY <2>2, <1>2, <1>4
  <2>3. CASE j = n + 1 /\ i \in 1 .. n
    BY <2>3, <1>2, <1>4
  <2> QED
    BY <2>1, <2>2, <2>3, <1>1
<1>7. Asked(h, r)
  BY <1>1, <1>2, <1>3, <1>4, <1>5, <1>6 DEF Asked
<1>8. ASSUME NEW x \in Chats, Spoken(h, x) PROVE x = r \/ Spoken(q, x)
  <2>1. PICK i \in 1 .. n + 1 : h[i][1] = x
    BY <1>8, <1>2 DEF Spoken
  <2>2. CASE i = n + 1
    BY <2>1, <2>2, <1>2
  <2>3. CASE i \in 1 .. n
    BY <2>1, <2>3, <1>1, <1>2 DEF Spoken
  <2> QED
    BY <2>2, <2>3, <1>1
<1> QED
  BY <1>7, <1>8 DEF h

LEMMA ExchangesAfterAnswer ==
  ASSUME NEW r \in Chats, NEW h \in Seq(Message), Asked(h, r)
  PROVE  LET q == Append(h, <<r, "assistant">>) IN
         /\ Exchanges(q) /\ q # <<>> /\ q[Len(q)] = <<r, "assistant">>
         /\ \A x \in Chats : Spoken(q, x) => x = r \/ Spoken(h, x)
<1> DEFINE n == Len(h)
           m == <<r, "assistant">>
           q == Append(h, m)
<1>1. /\ n \in Nat /\ n % 2 = 1 /\ n \in 1 .. n /\ DOMAIN h = 1 .. n
      /\ h[n] = <<r, "user">> /\ \A i \in 1 .. n - 1 : h[i][1] # r
  BY DEF Asked
<1>2. Len(q) = n + 1 /\ q[n + 1] = m /\ DOMAIN q = 1 .. n + 1 /\ \A i \in 1 .. n : q[i] = h[i]
  BY <1>1 DEF Message
<1> HIDE DEF n, q
<1>3. (n + 1) % 2 = 0 /\ q # <<>>
  <2>1. (n + 1) % 2 = 0
    BY <1>1
  <2>2. n + 1 # 0 /\ Len(<<>>) = 0
    BY <1>1
  <2> QED
    BY <1>2, <2>1, <2>2
<1>4. \A i \in 1 .. n : h[i] # m
  BY <1>1
<1>5. InTurns(q)
  <2> SUFFICES ASSUME NEW i \in 1 .. n + 1
               PROVE  IF i % 2 = 1 THEN q[i][2] = "user"
                                   ELSE q[i] = <<q[i - 1][1], "assistant">>
    BY <1>2 DEF InTurns
  <2>1. CASE i = n + 1
    <3>1. i - 1 = n /\ q[n] = h[n]
      BY <2>1, <1>1, <1>2
    <3> QED
      BY <2>1, <3>1, <1>1, <1>2, <1>3
  <2>2. CASE i \in 1 .. n
    <3>1. IF i % 2 = 1 THEN h[i][2] = "user" ELSE h[i] = <<h[i - 1][1], "assistant">>
      BY <2>2, <1>1 DEF Asked, InTurns
    <3>2. i % 2 # 1 => i - 1 \in 1 .. n
      BY <2>2, <1>1
    <3> QED
      BY <3>1, <3>2, <1>2, <2>2
  <2> QED
    BY <2>1, <2>2, <1>1
<1>6. Once(q)
  <2> SUFFICES ASSUME NEW i \in 1 .. n + 1, NEW j \in 1 .. n + 1, q[i] = q[j]
               PROVE  i = j
    BY <1>2 DEF Once
  <2>1. CASE i \in 1 .. n /\ j \in 1 .. n
    BY <2>1, <1>1, <1>2 DEF Asked, Once
  <2>2. CASE i = n + 1 /\ j \in 1 .. n
    BY <2>2, <1>2, <1>4
  <2>3. CASE j = n + 1 /\ i \in 1 .. n
    BY <2>3, <1>2, <1>4
  <2> QED
    BY <2>1, <2>2, <2>3, <1>1
<1>7. Exchanges(q)
  BY <1>2, <1>3, <1>5, <1>6 DEF Exchanges
<1>8. ASSUME NEW x \in Chats, Spoken(q, x) PROVE x = r \/ Spoken(h, x)
  <2>1. PICK i \in 1 .. n + 1 : q[i][1] = x
    BY <1>8, <1>2 DEF Spoken
  <2>2. CASE i = n + 1
    BY <2>1, <2>2, <1>2
  <2>3. CASE i \in 1 .. n
    BY <2>1, <2>3, <1>1, <1>2 DEF Spoken
  <2> QED
    BY <2>2, <2>3, <1>1
<1> QED
  BY <1>2, <1>3, <1>7, <1>8 DEF q

(* The steps that are not quiet, as far as conversations go.               *)
LEMMA StartSpeaks ==
  ASSUME Shape, Turns, NEW r \in Chats, NEW s \in Sessions, NEW t \in Trips \cup {None},
         NEW k \in Keys, ChatStart(r, s, t, k)
  PROVE  /\ conv' = conv /\ pc[r] = "idle" /\ pc'[r] = "parsing"
         /\ \A q \in Chats \ {r} : pc'[q] = pc[q] /\ req'[q] = req[q] /\ runs'[q] = runs[q]
         /\ Asked(req'[r].hist, r)
         /\ \A x \in Chats : Spoken(req'[r].hist, x) => x = r \/ Spoken(conv[s], x)
<1>1. /\ r \in Requests /\ conv \in [Sessions -> Seq(Message)] /\ TypeOK
  BY Kinds DEF Shape, TypeOK
<1>2. /\ conv' = conv /\ pc[r] = "idle" /\ pc'[r] = "parsing"
      /\ \A q \in Chats \ {r} : pc'[q] = pc[q] /\ req'[q] = req[q] /\ runs'[q] = runs[q]
  BY <1>1, Kinds DEF ChatStart, AtAwait, Await, Goto, TypeOK
<1>3. req'[r].hist = Append(conv[s], <<r, "user">>)
  BY <1>1 DEF ChatStart, Blank, TypeOK
<1>4. Exchanges(conv[s]) /\ ~ Spoken(conv[s], r)
  BY <1>2 DEF Turns
<1> QED
  BY <1>1, <1>2, <1>3, <1>4, AskedAfterExchanges

LEMMA AnswerSpeaks ==
  ASSUME Shape, Turns, NEW r \in Chats, StoreConv(r)
  PROVE  /\ req' = req /\ runs' = runs /\ pc[r] = "storeConv" /\ pc'[r] = "storeRun"
         /\ \A q \in Chats \ {r} : pc'[q] = pc[q]
         /\ req[r].sess \in Sessions
         /\ \A s \in Sessions \ {req[r].sess} : conv'[s] = conv[s]
         /\ LET q == conv'[req[r].sess] IN
              /\ Exchanges(q) /\ q # <<>> /\ q[Len(q)] = <<r, "assistant">>
              /\ \A x \in Chats : Spoken(q, x) => x = r \/ Spoken(req[r].hist, x)
<1>1. /\ r \in Requests /\ TypeOK /\ req[r].hist \in Seq(Message)
  BY Kinds, LocalTypes DEF Shape
<1>2. /\ req' = req /\ runs' = runs /\ pc[r] = "storeConv" /\ pc'[r] = "storeRun"
      /\ \A q \in Chats \ {r} : pc'[q] = pc[q]
  BY <1>1, Kinds DEF StoreConv, InBlock, Continue, Goto, TypeOK
<1>3. InProgress(r) /\ req[r].sess \in Sessions
  BY <1>2 DEF InProgress, Shape, ChatLocals
<1>4. /\ conv'[req[r].sess] = Append(req[r].hist, <<r, "assistant">>)
      /\ \A s \in Sessions \ {req[r].sess} : conv'[s] = conv[s]
  BY <1>1, <1>3 DEF StoreConv, TypeOK
<1>5. Asked(req[r].hist, r)
  BY <1>3 DEF Turns
<1> QED
  BY <1>1, <1>2, <1>3, <1>4, <1>5, ExchangesAfterAnswer

(* Any other step is quiet. *)
LEMMA SpeakOrQuiet ==
  ASSUME Shape, RunPhase, [Next]_vars
  PROVE  \/ \E r \in Chats, s \in Sessions, t \in Trips \cup {None}, k \in Keys :
              ChatStart(r, s, t, k)
         \/ \E r \in Chats : StoreConv(r)
         \/ Quiet
  BY QuietChat, QuietOther

LEMMA TurnsStep ==
  ASSUME Shape, RunPhase, Turns, [Next]_vars
  PROVE  Turns'
<1>1. ASSUME NEW r \in Chats, NEW s \in Sessions, NEW t \in Trips \cup {None},
             NEW k \in Keys, ChatStart(r, s, t, k)
      PROVE  Turns'
  <2>1. /\ conv' = conv /\ pc[r] = "idle" /\ pc'[r] = "parsing"
        /\ \A q \in Chats \ {r} : pc'[q] = pc[q] /\ req'[q] = req[q]
        /\ Asked(req'[r].hist, r)
        /\ \A x \in Chats : Spoken(req'[r].hist, x) => x = r \/ Spoken(conv[s], x)
    BY <1>1, StartSpeaks
  <2>2. \A q \in Chats : InProgress(q)' => Asked(req'[q].hist, q)
    BY <2>1 DEF Turns, InProgress
  <2>3. \A q \in Chats : pc'[q] = "idle" => \A x \in Chats : ~ Spoken(req'[x].hist, q)
    BY <2>1 DEF Turns
  <2> QED
    BY <2>1, <2>2, <2>3 DEF Turns
<1>2. ASSUME NEW r \in Chats, StoreConv(r) PROVE Turns'
  <2> DEFINE s0 == req[r].sess
  <2>1. /\ req' = req /\ pc[r] = "storeConv" /\ pc'[r] = "storeRun"
        /\ \A q \in Chats \ {r} : pc'[q] = pc[q]
        /\ s0 \in Sessions /\ \A s \in Sessions \ {s0} : conv'[s] = conv[s]
        /\ Exchanges(conv'[s0])
        /\ \A x \in Chats : Spoken(conv'[s0], x) => x = r \/ Spoken(req[r].hist, x)
    BY <1>2, AnswerSpeaks
  <2> HIDE DEF s0
  <2>2. \A s \in Sessions : Exchanges(conv'[s])
    BY <2>1 DEF Turns
  <2>3. \A q \in Chats : pc'[q] = "idle" => \A s \in Sessions : ~ Spoken(conv'[s], q)
    BY <2>1 DEF Turns
  <2>4. \A q \in Chats : InProgress(q)' => Asked(req'[q].hist, q)
    BY <2>1 DEF Turns, InProgress
  <2> QED
    BY <2>1, <2>2, <2>3, <2>4 DEF Turns
<1>3. CASE Quiet
  <2>1. \A q \in Chats : InProgress(q)' => Asked(req'[q].hist, q)
    BY <1>3 DEF Quiet, Turns
  <2>2. \A q \in Chats : ~ Spoken(<<>>, q)
    BY DEF Spoken
  <2>3. \A x, q \in Chats : Spoken(req'[x].hist, q) => Spoken(req[x].hist, q)
    BY <1>3, <2>2 DEF Quiet
  <2> QED
    BY <1>3, <2>1, <2>3 DEF Quiet, Turns
<1> QED
  BY <1>1, <1>2, <1>3, SpeakOrQuiet

LEMMA HeardStep ==
  ASSUME Shape, RunPhase, Turns, Heard, [Next]_vars
  PROVE  Heard'
<1>1. ASSUME NEW r \in Chats, NEW s \in Sessions, NEW t \in Trips \cup {None},
             NEW k \in Keys, ChatStart(r, s, t, k)
      PROVE  Heard'
  <2>1. /\ conv' = conv /\ pc[r] = "idle" /\ pc'[r] = "parsing"
        /\ \A q \in Chats \ {r} : pc'[q] = pc[q] /\ req'[q] = req[q] /\ runs'[q] = runs[q]
        /\ \A x \in Chats : Spoken(req'[r].hist, x) => x = r \/ Spoken(conv[s], x)
    BY <1>1, StartSpeaks
  <2>2. Unharmed' = Unharmed
    BY <1>1 DEF ChatStart, faults, Unharmed
  <2>3. /\ \A z \in Sessions : ~ Spoken(conv[z], r)
        /\ \A q \in Chats : ~ Spoken(req[q].hist, r)
    BY <2>1 DEF Turns
  <2> QED
    BY <2>1, <2>2, <2>3 DEF Heard
<1>2. ASSUME NEW r \in Chats, StoreConv(r) PROVE Heard'
  <2> DEFINE s0 == req[r].sess
  <2>1. /\ req' = req /\ runs' = runs /\ pc[r] = "storeConv" /\ pc'[r] = "storeRun"
        /\ \A q \in Chats \ {r} : pc'[q] = pc[q]
        /\ s0 \in Sessions /\ \A s \in Sessions \ {s0} : conv'[s] = conv[s]
        /\ \A x \in Chats : Spoken(conv'[s0], x) => x = r \/ Spoken(req[r].hist, x)
    BY <1>2, AnswerSpeaks
  <2> HIDE DEF s0
  <2>2. Unharmed' = Unharmed
    BY <1>2 DEF StoreConv, faults, Unharmed
  <2> QED
    BY <2>1, <2>2 DEF Heard
<1>3. CASE Quiet
  <2>1. \A q \in Chats : ~ Spoken(<<>>, q)
    BY DEF Spoken
  <2>2. \A x, q \in Chats : Spoken(req'[x].hist, q) => Spoken(req[x].hist, q)
    BY <1>3, <2>1 DEF Quiet
  <2> QED
    BY <1>3, <2>2 DEF Quiet, Heard
<1> QED
  BY <1>1, <1>2, <1>3, SpeakOrQuiet

(* No other request moves while a chat is behind the write of its trip, and *)
(* none gets there but by that write.                                       *)
LEMMA StoringStep ==
  ASSUME Shape, [Next]_vars, loop' \in Chats, pc'[loop'] \in Stores
  PROVE  \/ \E r \in Chats : \/ StoreTrip(r) \/ StoreNoTrip(r) \/ StoreVersion(r)
                             \/ StoreLast(r) \/ StoreConv(r)
         \/ UNCHANGED vars
<1> USE DEF Stores, Await, Continue, Goto, Return
<1>0. pc \in [Requests -> PC]
  BY DEF Shape, TypeOK
<1>1. ASSUME NEW r \in Requests, NEW label \in PC \ Stores, Await(r, label) \/ Continue(r, label)
      PROVE  FALSE
  BY <1>0, <1>1, Kinds
<1>2. ASSUME NEW r \in Requests, Return(r) PROVE FALSE
  BY <1>2, Kinds
<1> HIDE DEF Stores, Await, Continue, Goto, Return
<1>3. \A l \in {"idle", "done", "parsing", "planning", "generating", "finishing",
                "finishVersion", "posting", "weather", "storing", "failing", "refreshing",
                "writeVersion", "deleteVersions"} : l \in PC \ Stores
  BY DEF PC, Stores
<1>4. ASSUME NEW r \in Chats, ChatStep(r)
      PROVE  StoreTrip(r) \/ StoreNoTrip(r) \/ StoreVersion(r) \/ StoreLast(r) \/ StoreConv(r)
  <2>1. r \in Requests
    BY Kinds
  <2> QED
    BY <1>1, <1>2, <1>3, <1>4, <2>1
    DEF ChatStep, ParseRead, CacheHit, Route, AnswerFails, Generate, GenerateFails,
        FinishInsert, FinishUpdate, FinishVersion, FinishOnly, PostCached, DropWeather,
        SyncWeather, WeatherFails, StoreRun, SaveFailed
<1>5. ASSUME NEW r \in Requests, DbError(r) PROVE FALSE
  BY <1>1, <1>2, <1>3, <1>5 DEF DbError
<1>6. ASSUME NEW r \in Chats, NEW s \in Sessions, NEW t \in Trips \cup {None}, NEW k \in Keys,
             ChatStart(r, s, t, k) PROVE FALSE
  BY <1>1, <1>3, <1>6, Kinds DEF ChatStart
<1>7. ASSUME NEW r \in Requests, NEW t \in Trips, RefreshRead(r, t) PROVE FALSE
  BY <1>1, <1>3, <1>7 DEF RefreshRead
<1>8. ASSUME NEW r \in Requests, RefreshStep(r) PROVE FALSE
  BY <1>1, <1>2, <1>3, <1>8 DEF RefreshStep, RefreshWrite, RefreshEnds, WriteVersion
<1>9. ASSUME NEW r \in Requests, NEW t \in Trips,
             Publish(r, t) \/ DeleteTrip(r, t) \/ \E new \in Trips : CopyTrip(r, t, new)
      PROVE FALSE
  BY <1>1, <1>3, <1>9 DEF Publish, DeleteTrip, CopyTrip
<1>10. ASSUME NEW r \in Requests, WriteVersion(r) \/ DeleteVersions(r) PROVE FALSE
  BY <1>2, <1>10 DEF WriteVersion, DeleteVersions
<1>11. ~ Crash
  BY Kinds DEF Crash
<1> QED
  BY <1>4, <1>5, <1>6, <1>7, <1>8, <1>9, <1>10, <1>11, Kinds DEF Next

(* What has been stored so far, statement by statement. *)
LEMMA StoredStep ==
  ASSUME Shape, Turns, StoredSoFar, [Next]_vars
  PROVE  StoredSoFar'
<1> SUFFICES ASSUME loop' \in Chats, pc'[loop'] \in Stores PROVE StoredSoFar'
  BY DEF StoredSoFar
<1>0. TypeOK /\ LoopBlock
  BY DEF Shape
<1> USE DEF StoredSoFar, Stores, InBlock, Continue, Goto, PlanOf
<1>1. ASSUME NEW r \in Chats, StoreTrip(r) PROVE StoredSoFar'
  <2> DEFINE t == req[r].trip
  <2>1. /\ r \in Requests /\ t \in Trips /\ PlanOf(r) \in Plan
    BY <1>1, StoredTypes, Kinds
  <2>2. loop' = r /\ pc'[r] = "storeVersion" /\ req' = req /\ mem' = mem
    BY <1>0, <2>1, <1>1 DEF StoreTrip, TypeOK
  <2>3. /\ trips'[t].plan = PlanOf(r)
        /\ pending' = [trip |-> t, version |-> req[r].version, plan |-> PlanOf(r)]
    BY <1>0, <2>1, <1>1 DEF StoreTrip, WriteRow, TypeOK
  <2> QED
    BY <2>2, <2>3
<1>2. ASSUME NEW r \in Chats, StoreNoTrip(r) PROVE StoredSoFar'
  BY <1>0, <1>2, Kinds DEF StoreNoTrip, TypeOK, db
<1>3. ASSUME NEW r \in Chats, StoreVersion(r) PROVE StoredSoFar'
  BY <1>0, <1>3, Kinds DEF StoreVersion, SaveVersion, TypeOK
<1>4. ASSUME NEW r \in Chats, StoreLast(r) PROVE StoredSoFar'
  <2>1. r \in Requests /\ req[r].sess \in Sessions
    BY <1>4, Kinds DEF StoreLast, Shape, ChatLocals, InProgress
  <2> QED
    BY <1>0, <1>4, <2>1 DEF StoreLast, TypeOK
<1>5. ASSUME NEW r \in Chats, StoreConv(r) PROVE StoredSoFar'
  <2>1. /\ pc'[r] = "storeRun" /\ req' = req
        /\ conv'[req[r].sess] # <<>>
        /\ conv'[req[r].sess][Len(conv'[req[r].sess])] = <<r, "assistant">>
    BY <1>5, AnswerSpeaks
  <2>2. loop = r /\ loop' = r /\ pc[r] = "storeConv"
    BY <1>5 DEF StoreConv
  <2>3. UNCHANGED <<trips, versions, lastTrip, mem>>
    BY <1>5 DEF StoreConv
  <2> QED
    BY <2>1, <2>2, <2>3
<1>6. CASE UNCHANGED vars
  BY <1>6 DEF vars, db, process
<1> QED
  BY <1>1, <1>2, <1>3, <1>4, <1>5, <1>6, StoringStep

-----------------------------------------------------------------------------
LEMMA InitTurns == Init => Turns /\ Heard /\ StoredSoFar
<1> SUFFICES ASSUME Init PROVE Turns /\ Heard /\ StoredSoFar
  OBVIOUS
<1>1. Exchanges(<<>>) /\ \A q \in Chats : ~ Spoken(<<>>, q)
  BY DEF Exchanges, InTurns, Once, Spoken
<1>2. /\ \A s \in Sessions : conv[s] = <<>>
      /\ \A r \in Chats : pc[r] = "idle" /\ req[r].hist = <<>>
  BY Kinds DEF Init, Blank
<1>3. Turns /\ Heard
  BY <1>1, <1>2 DEF Turns, Heard, InProgress
<1>4. StoredSoFar
  BY Kinds DEF Init, StoredSoFar
<1> QED
  BY <1>3, <1>4

(* A chat is called a success when all it promised has been stored.        *)
LEMMA SuccessStep ==
  ASSUME Shape, RunPhase, StoredSoFar, [Next]_vars
  PROVE  \A r \in Chats : runs[r] # "success" /\ runs'[r] = "success" => StoredBy(r)
<1> SUFFICES ASSUME NEW r \in Chats, runs[r] # "success", runs'[r] = "success"
             PROVE  StoredBy(r)
  OBVIOUS
<1>0. TypeOK
  BY DEF Shape
<1> USE DEF db
<1>1. StoreRun(r)
  <2>1. ASSUME NEW q \in Chats, ChatStep(q)
        PROVE  runs' = runs \/ StoreRun(q) \/ SaveFailed(q)
    BY <2>1 DEF ChatStep, ParseRead, CacheHit, Route, AnswerFails, Generate, GenerateFails,
                FinishInsert, FinishUpdate, FinishVersion, FinishOnly, PostCached,
                DropWeather, SyncWeather, WeatherFails, StoreTrip, StoreNoTrip,
                StoreVersion, StoreLast, StoreConv
  <2>2. ASSUME NEW q \in Chats, NEW s \in Sessions, NEW t \in Trips \cup {None},
               NEW k \in Keys, ChatStart(q, s, t, k)
        PROVE  FALSE
    BY <1>0, <2>2 DEF ChatStart, TypeOK
  <2>3. ASSUME NEW q \in Chats, SaveFailed(q) PROVE FALSE
    BY <1>0, <2>3 DEF SaveFailed, TypeOK
  <2>4. ASSUME NEW q \in Chats, StoreRun(q) PROVE q = r
    BY <1>0, <2>4 DEF StoreRun, TypeOK
  <2>5. ASSUME NEW q \in Requests, DbError(q) \/ RefreshStep(q) \/ DeleteVersions(q) \/ WriteVersion(q)
        PROVE  runs' = runs
    BY <2>5 DEF DbError, RefreshStep, RefreshWrite, RefreshEnds, WriteVersion, DeleteVersions
  <2>6. ASSUME NEW q \in Requests, NEW t \in Trips,
               \/ RefreshRead(q, t) \/ Publish(q, t) \/ DeleteTrip(q, t)
               \/ \E new \in Trips : CopyTrip(q, t, new)
        PROVE  runs' = runs
    BY <2>6 DEF RefreshRead, Publish, DeleteTrip, CopyTrip
  <2>7. Crash \/ UNCHANGED vars => runs' = runs
    BY DEF Crash, vars
  <2> QED
    BY <2>1, <2>2, <2>3, <2>4, <2>5, <2>6, <2>7, Kinds DEF Next
<1>2. loop = r /\ pc[r] = "storeRun"
  BY <1>1 DEF StoreRun, InBlock
<1> QED
  BY <1>2 DEF StoredSoFar, Stores, StoredBy

(* Stored conversations are complete exchanges, each once, whatever         *)
(* overlaps, fails or dies.                                                 *)
THEOREM ConversationsArePaired == Spec => []ConversationPaired
<1>1. Shape /\ RunPhase /\ Turns /\ [Next]_vars => Shape' /\ RunPhase' /\ Turns'
  BY ShapeStep, RunStep, TurnsStep
<1>2. Turns => ConversationPaired
  BY DEF Turns, ConversationPaired, Exchanges, InTurns, Once
<1> QED
  BY InitShape, InitTurns, <1>1, <1>2, PTL DEF Spec

(* Barring faults, only runs that end well are seen in a conversation: a    *)
(* question is heard once its run is at its last write.                     *)
THEOREM FailuresAreUnseen == Spec => []FailedTurnsUnseen
<1>1. Shape /\ RunPhase /\ Turns /\ Heard /\ [Next]_vars =>
        Shape' /\ RunPhase' /\ Turns' /\ Heard'
  BY ShapeStep, RunStep, TurnsStep, HeardStep
<1>2. Heard => FailedTurnsUnseen
  <2> SUFFICES ASSUME Heard, Unharmed, NEW r \in Chats, NEW s \in Sessions,
                      Says(conv[s], <<r, "user">>)
               PROVE  runs[r] = "success" \/ pc[r] = "storeRun"
    BY DEF FailedTurnsUnseen
  <2>1. Spoken(conv[s], r)
    BY DEF Says, Spoken
  <2> QED
    BY <2>1 DEF Heard
<1> QED
  BY InitShape, InitTurns, <1>1, <1>2, PTL DEF Spec

(* No fault makes a success of a run that did not store what it promised.   *)
THEOREM SuccessesAreStored == Spec => SuccessIsStored
<1>1. Shape /\ RunPhase /\ Turns /\ StoredSoFar /\ [Next]_vars =>
        /\ Shape' /\ RunPhase' /\ Turns' /\ StoredSoFar'
        /\ \A r \in Chats : runs[r] # "success" /\ runs'[r] = "success" => StoredBy(r)
  BY ShapeStep, RunStep, TurnsStep, StoredStep, SuccessStep
<1> QED
  BY InitShape, InitTurns, <1>1, PTL DEF Spec, SuccessIsStored
=============================================================================
