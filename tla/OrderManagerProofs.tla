------------------------- MODULE OrderManagerProofs -------------------------
(* Theorems about OrderManager, for every set of orders and quotes.         *)
EXTENDS OrderManager, TLAPS

USE OrderManagerAssumption DEF OrderManagerAssumption

(***************************************************************************)
(* The inductive invariant, by topic.                                      *)
(***************************************************************************)

(* Who holds the lock: every task inside a protected section, but for a     *)
(* quoter that came through a suppressed QuoteSet.                          *)
LockInv ==
    /\ \A t \in {"quoter", "cleaner"} :
          pc[t] \in {"cancel", "cancelRet", "place", "placeRet"} => lock = t
    /\ pc["killer"] \in {"read", "bulk", "clear"} => lock = "killer"
    /\ ~Suppresses /\ pc["quoter"] \in {"read", "bulk", "clear"}
          => lock = "quoter"
    /\ ~Running => /\ lock = Free
                   /\ tracked = {}
                   /\ \A t \in {"quoter", "killer", "cleaner"} : pc[t] = "idle"

(* Sizes: what rests, what is on its way and what is being handled never    *)
(* exceed the order, and an oid that was never given out has none of them.  *)
BookInv ==
    \A o \in Orders :
        /\ resting[o] + due[o] <= FullSize
        /\ filling = o => resting[o] + due[o] < FullSize
        /\ quoteOf[o] = NoQuote => resting[o] = 0 /\ due[o] = 0 /\ filling # o

(* The order of a call in flight agrees with the answer under way.          *)
CallInv ==
    /\ \A t \in {"quoter", "cleaner"} : pc[t] = "cancelRet" =>
          cur[t] \in Orders /\ (resting[cur[t]] = 0 \/ cur[t] \in faulted)
    /\ \A t \in {"quoter", "cleaner"} :
          pc[t] \notin {"cancelRet", "placeRet"} => cur[t] = NoOrder
    /\ pc["quoter"] = "placeRet" =>
          \/ resp["quoter"] = "resting" /\ cur["quoter"] \in Orders
          \/ resp["quoter"] = "filled" /\ cur["quoter"] \in Orders
             /\ resting[cur["quoter"]] = 0
          \/ resp["quoter"] = "error" /\ cur["quoter"] \in faulted
          \/ resp["quoter"] = "rejected" /\ cur["quoter"] = NoOrder
    /\ ~Updating => toPlace = {}

(* What a cancel-all knows of the book after each of its two calls, and     *)
(* what reconcile knows after its one.                                      *)
SweepInv ==
    /\ \A t \in {"quoter", "killer"}, o \in Orders : resting[o] > 0 =>
          /\ pc[t] = "bulk" => o \in opens[t] \cup faulted
          /\ pc[t] = "clear" => o \in faulted
    /\ pc["starter"] = "sync" =>
          \A o \in Orders : resting[o] > 0 => o \in opens["starter"]

(* Reports: none for an order that is tracked or being placed, nothing but  *)
(* tracked orders is being cancelled, and only orders the exchange accepted *)
(* are tracked.                                                             *)
ReportInv ==
    /\ \A o \in Orders : quoteOf[o] = NoQuote =>
          /\ o \notin tracked /\ o \notin opens["starter"]
          /\ pc["quoter"] = "placeRet" => cur["quoter"] # o
    /\ \A o \in Orders :
          (o \in tracked \/ quoteOf[o] = NoQuote \/ ~Running) => terminals[o] = 0
    /\ pc["quoter"] = "placeRet" /\ cur["quoter"] \in Orders =>
          cur["quoter"] \notin tracked /\ terminals[cur["quoter"]] = 0
    /\ \A t \in {"quoter", "cleaner"} :
          /\ pc[t] \in {"cancel", "cancelRet"} => toCancel[t] \subseteq tracked
          /\ pc[t] = "cancelRet" => cur[t] \in tracked \ toCancel[t]

(* An order that leaves the book while the manager is not looking at it,    *)
(* because it is being placed or read for the start, has a fill to come, to *)
(* be handled, or missed.                                                   *)
Seen(o) == due[o] > 0 \/ filling = o \/ o \in missed
GhostInv ==
    /\ pc["quoter"] = "placeRet" /\ resp["quoter"] = "resting"
          => resting[cur["quoter"]] > 0 \/ Seen(cur["quoter"])
    /\ pc["starter"] = "sync"
          => \A o \in opens["starter"] : resting[o] > 0 \/ Seen(o)

SafetyInv == TypeOK /\ LockInv /\ BookInv /\ CallInv /\ SweepInv /\ NoOrphan
             /\ OneOrderPerLevel

----------------------------------------------------------------------------
LEMMA EmptyTarget == <<>> \in Targets
<1>1. 0 \in 0 .. MaxQuotes
  OBVIOUS
<1>2. <<>> \in [1 .. 0 -> Quotes]
  OBVIOUS
<1>3. QED
  BY <1>1, <1>2 DEF Targets

LEMMA TargetLevel ==
    ASSUME NEW levels \in Targets, NEW i \in DOMAIN levels
    PROVE  levels[i] \in Quotes
BY DEF Targets

LEMMA InitType == Init => TypeOK
<1> SUFFICES ASSUME Init PROVE TypeOK
  OBVIOUS
<1>1. \A t \in Tasks : pc[t] \in PcOf(t) /\ pc[t] \in Labels
  BY DEF Init, Tasks, Labels, PcOf
<1>2. resting \in [Orders -> 0 .. FullSize] /\ due \in [Orders -> Nat]
  BY DEF Init
<1>3. pc \in [Tasks -> Labels]
  BY <1>1 DEF Init
<1>4. target \in Targets /\ toPlace \subseteq DOMAIN target
  BY EmptyTarget DEF Init
<1>5. QED
  BY <1>1, <1>2, <1>3, <1>4 DEF Init, TypeOK, Tasks

LEMMA TypeStep ==
    ASSUME TypeOK, CallInv, [Next]_vars
    PROVE  TypeOK'
<1>1. ASSUME NEW o \in Orders, ExchangeFill(o)
      PROVE  TypeOK'
  BY <1>1 DEF TypeOK, Tasks, ExchangeFill, locals, store, reports, history
<1>2. ASSUME NEW o \in Orders, DeliverFill(o)
      PROVE  TypeOK'
  BY <1>2 DEF TypeOK, Tasks, DeliverFill, locals, store, reports, history
<1>3. ASSUME FirstSnapshot
      PROVE  TypeOK'
  BY <1>3 DEF TypeOK, Tasks, FirstSnapshot, locals, store, reports
<1>4. ASSUME HandleFill
      PROVE  TypeOK'
  BY <1>4 DEF TypeOK, Tasks, HandleFill, FillMayEnter, Record,
     ReportCancelled, Plus1, locals, store, reports, books
<1>5. ASSUME ReconcileGet
      PROVE  TypeOK'
  BY <1>5 DEF TypeOK, Tasks, Labels, PcOf, ReconcileGet, Goto, OnBook, store,
     reports, books
<1>6. ASSUME ReconcileSync
      PROVE  TypeOK'
  BY <1>6 DEF TypeOK, Tasks, Labels, PcOf, ReconcileSync, Goto, Adopt, store,
     reports, books, history
<1>7. ASSUME NEW levels \in Targets, CallUpdate(levels)
      PROVE  TypeOK'
  BY <1>7 DEF TypeOK, CallInv, Updating, Tasks, Labels, PcOf, CallUpdate, Goto,
              store, reports, books, history
<1>8. ASSUME Diff
      PROVE  TypeOK'
  BY <1>8 DEF TypeOK, Injection, Tasks, Labels, PcOf, Diff, Goto, Unmatched,
     store, reports, books, history
<1>9. ASSUME NEW t \in {"quoter", "cleaner"}, CancelSend(t)
      PROVE  TypeOK'
  BY <1>9 DEF TypeOK, Tasks, Labels, PcOf, CancelSend, Goto, store, reports
<1>10. ASSUME NEW t \in {"quoter", "cleaner"}, CancelReturn(t)
      PROVE  TypeOK'
  BY <1>10 DEF TypeOK, Tasks, Labels, PcOf, CancelReturn, Goto, Popped,
     Record, ReportCancelled, Plus1, store, reports, books, history, CallInv
<1>11. ASSUME CancelsDone
      PROVE  TypeOK'
  BY <1>11 DEF TypeOK, Tasks, Labels, PcOf, CancelsDone, Goto, locals, store,
     reports, books, history
<1>12. ASSUME PlaceSend
      PROVE  TypeOK'
  BY <1>12, TargetLevel DEF TypeOK, Tasks, Labels, PcOf, PlaceSend,
     PlaceRests, PlaceFills, PlaceRefused, Goto, Fresh, books, store, reports
<1>13. ASSUME PlaceReturn
      PROVE  TypeOK'
  BY <1>13 DEF TypeOK, Tasks, Labels, PcOf, PlaceReturn, Goto, Accepted,
     Record, ReportCancelled, Plus1, store, reports, books, history, CallInv
<1>14. ASSUME UpdateDone
      PROVE  TypeOK'
  BY <1>14, EmptyTarget DEF TypeOK, Tasks, Labels, PcOf, UpdateDone, Goto,
     Released, store, reports, books, history
<1>15. ASSUME NEW t \in {"quoter", "killer"}, CallCancelAll(t)
      PROVE  TypeOK'
  BY <1>15 DEF TypeOK, Tasks, Labels, PcOf, CallCancelAll, Goto, locals,
               store, reports, books, history
<1>16. ASSUME NEW t \in {"quoter", "killer"}, LockForCancelAll(t)
      PROVE  TypeOK'
  BY <1>16 DEF TypeOK, Tasks, Labels, PcOf, LockForCancelAll, Goto, LockFree,
               locals, store, reports, books, history
<1>17. ASSUME CallSuppressed
      PROVE  TypeOK'
  BY <1>17 DEF TypeOK, Tasks, Labels, PcOf, CallSuppressed, Goto, locals,
               store, reports, books, history
<1>18. ASSUME NEW t \in {"quoter", "killer"}, ReadOpen(t)
      PROVE  TypeOK'
  BY <1>18 DEF TypeOK, Tasks, Labels, PcOf, ReadOpen, Goto, OnBook, store,
     reports, books
<1>19. ASSUME NEW t \in {"quoter", "killer"}, BulkCancel(t)
      PROVE  TypeOK'
  BY <1>19 DEF TypeOK, Tasks, Labels, PcOf, BulkCancel, Goto, locals, store,
     reports
<1>20. ASSUME NEW t \in {"quoter", "killer"}, ClearActive(t)
      PROVE  TypeOK'
  BY <1>20 DEF TypeOK, Tasks, Labels, PcOf, ClearActive, Goto, Released,
               Cleared, Record, ReportCancelled, Plus1, books, history
<1>21. ASSUME NEW stale \in SUBSET tracked, CleanStart(stale)
      PROVE  TypeOK'
  BY <1>21 DEF TypeOK, Tasks, Labels, PcOf, CleanStart, Goto, store, reports,
     books, history
<1>22. ASSUME CleanDone
      PROVE  TypeOK'
  BY <1>22 DEF TypeOK, Tasks, Labels, PcOf, CleanDone, Goto, Released, locals,
               store, reports, books, history
<1>23. ASSUME NEW t \in {"quoter", "cleaner"}, MetaFails(t)
      PROVE  TypeOK'
  BY <1>23, EmptyTarget DEF TypeOK, Tasks, Labels, PcOf, MetaFails, Goto,
     Released, store, reports, books, history
<1>24. CASE UNCHANGED vars
  BY <1>24 DEF TypeOK, Tasks, vars, locals, store, reports, books, history
<1>25. QED
  BY <1>1, <1>2, <1>3, <1>4, <1>5, <1>6, <1>7, <1>8, <1>9, <1>10,
                <1>11, <1>12, <1>13, <1>14, <1>15, <1>16, <1>17, <1>18, <1>19,
                <1>20, <1>21, <1>22, <1>23, <1>24
     DEF Next, Exchange, Starter, Canceller, CancelAll, Sweep, Quoter, Cleaner

LEMMA LockStep ==
    ASSUME TypeOK, LockInv, [Next]_vars
    PROVE  LockInv'
<1>1. ASSUME NEW o \in Orders, ExchangeFill(o)
      PROVE  LockInv'
  BY <1>1 DEF TypeOK, Tasks, LockInv, Running, ExchangeFill, locals, store,
     reports, history
<1>2. ASSUME NEW o \in Orders, DeliverFill(o)
      PROVE  LockInv'
  BY <1>2 DEF TypeOK, Tasks, LockInv, Running, DeliverFill, locals, store,
     reports, history
<1>3. ASSUME FirstSnapshot
      PROVE  LockInv'
  BY <1>3 DEF TypeOK, Tasks, LockInv, Running, FirstSnapshot, locals, store,
     reports
<1>4. ASSUME HandleFill
      PROVE  LockInv'
  BY <1>4 DEF TypeOK, Tasks, LockInv, Running, HandleFill, FillMayEnter,
              Record, ReportCancelled, Plus1, locals, store, reports, books
<1>5. ASSUME ReconcileGet
      PROVE  LockInv'
  BY <1>5 DEF TypeOK, Tasks, LockInv, Running, ReconcileGet, Goto, OnBook,
              store, reports, books
<1>6. ASSUME ReconcileSync
      PROVE  LockInv'
  BY <1>6 DEF TypeOK, Tasks, LockInv, Running, ReconcileSync, Goto, Adopt,
              store, reports, books, history
<1>7. ASSUME NEW levels \in Targets, CallUpdate(levels)
      PROVE  LockInv'
  BY <1>7 DEF TypeOK, Tasks, LockInv, Running, CallUpdate, Goto,
              store, reports, books, history
<1>8. ASSUME Diff
      PROVE  LockInv'
  BY <1>8 DEF TypeOK, Tasks, LockInv, Running, Diff, Goto, Unmatched, store,
     reports, books, history
<1>9. ASSUME NEW t \in {"quoter", "cleaner"}, CancelSend(t)
      PROVE  LockInv'
  BY <1>9 DEF TypeOK, Tasks, LockInv, Running, CancelSend, Goto, store, reports
<1>10. ASSUME NEW t \in {"quoter", "cleaner"}, CancelReturn(t)
      PROVE  LockInv'
  BY <1>10 DEF TypeOK, Tasks, LockInv, Running, CancelReturn, Goto, Popped,
               Record, ReportCancelled, Plus1, store, reports, books, history
<1>11. ASSUME CancelsDone
      PROVE  LockInv'
  BY <1>11 DEF TypeOK, Tasks, LockInv, Running, CancelsDone, Goto, locals,
               store, reports, books, history
<1>12. ASSUME PlaceSend
      PROVE  LockInv'
  BY <1>12 DEF TypeOK, Tasks, LockInv, Running, PlaceSend, PlaceRests,
               PlaceFills, PlaceRefused, Goto, Fresh, books, store, reports
<1>13. ASSUME PlaceReturn
      PROVE  LockInv'
  BY <1>13 DEF TypeOK, Tasks, LockInv, Running, PlaceReturn, Goto, Accepted,
               Record, ReportCancelled, Plus1, store, reports, books, history
<1>14. ASSUME UpdateDone
      PROVE  LockInv'
  BY <1>14 DEF TypeOK, Tasks, LockInv, Running, UpdateDone, Goto, Released,
               store, reports, books, history
<1>15. ASSUME NEW t \in {"quoter", "killer"}, CallCancelAll(t)
      PROVE  LockInv'
  BY <1>15 DEF TypeOK, Tasks, LockInv, Running, CallCancelAll, Goto, locals,
               store, reports, books, history
<1>16. ASSUME NEW t \in {"quoter", "killer"}, LockForCancelAll(t)
      PROVE  LockInv'
  BY <1>16 DEF TypeOK, Tasks, LockInv, Running, LockForCancelAll, Goto,
               LockFree, locals, store, reports, books, history
<1>17. ASSUME CallSuppressed
      PROVE  LockInv'
  BY <1>17 DEF TypeOK, Tasks, LockInv, Running, CallSuppressed, Goto, locals,
               store, reports, books, history
<1>18. ASSUME NEW t \in {"quoter", "killer"}, ReadOpen(t)
      PROVE  LockInv'
  BY <1>18 DEF TypeOK, Tasks, LockInv, Running, ReadOpen, Goto, OnBook, store,
     reports, books
<1>19. ASSUME NEW t \in {"quoter", "killer"}, BulkCancel(t)
      PROVE  LockInv'
  BY <1>19 DEF TypeOK, Tasks, LockInv, Running, BulkCancel, Goto, locals,
               store, reports
<1>20. ASSUME NEW t \in {"quoter", "killer"}, ClearActive(t)
      PROVE  LockInv'
  BY <1>20 DEF TypeOK, Tasks, LockInv, Running, ClearActive, Goto, Released,
               Cleared, Record, ReportCancelled, Plus1, books, history
<1>21. ASSUME NEW stale \in SUBSET tracked, CleanStart(stale)
      PROVE  LockInv'
  BY <1>21 DEF TypeOK, Tasks, LockInv, Running, CleanStart, Goto, store,
     reports, books, history
<1>22. ASSUME CleanDone
      PROVE  LockInv'
  BY <1>22 DEF TypeOK, Tasks, LockInv, Running, CleanDone, Goto, Released,
               locals, store, reports, books, history
<1>23. ASSUME NEW t \in {"quoter", "cleaner"}, MetaFails(t)
      PROVE  LockInv'
  BY <1>23 DEF TypeOK, Tasks, LockInv, Running, MetaFails, Goto, Released,
               store, reports, books, history
<1>24. CASE UNCHANGED vars
  BY <1>24 DEF TypeOK, Tasks, LockInv, Running, vars, locals, store, reports,
     books, history
<1>25. QED
  BY <1>1, <1>2, <1>3, <1>4, <1>5, <1>6, <1>7, <1>8, <1>9, <1>10,
                <1>11, <1>12, <1>13, <1>14, <1>15, <1>16, <1>17, <1>18, <1>19,
                <1>20, <1>21, <1>22, <1>23, <1>24
     DEF Next, Exchange, Starter, Canceller, CancelAll, Sweep, Quoter, Cleaner

LEMMA BookStep ==
    ASSUME TypeOK, BookInv, [Next]_vars
    PROVE  BookInv'
<1>1. ASSUME NEW o \in Orders, ExchangeFill(o)
      PROVE  BookInv'
  BY <1>1 DEF TypeOK, Tasks, BookInv, ExchangeFill, locals, store, reports,
     history
<1>2. ASSUME NEW o \in Orders, DeliverFill(o)
      PROVE  BookInv'
  BY <1>2 DEF TypeOK, Tasks, BookInv, DeliverFill, locals, store, reports,
     history
<1>3. ASSUME FirstSnapshot
      PROVE  BookInv'
  BY <1>3 DEF TypeOK, Tasks, BookInv, FirstSnapshot, locals, store, reports
<1>4. ASSUME HandleFill
      PROVE  BookInv'
  BY <1>4 DEF TypeOK, Tasks, BookInv, HandleFill, FillMayEnter, Record,
     ReportCancelled, Plus1, locals, store, reports, books
<1>5. ASSUME ReconcileGet
      PROVE  BookInv'
  BY <1>5 DEF TypeOK, Tasks, BookInv, ReconcileGet, Goto, OnBook, store,
     reports, books
<1>6. ASSUME ReconcileSync
      PROVE  BookInv'
  BY <1>6 DEF TypeOK, Tasks, BookInv, ReconcileSync, Goto, Adopt, store,
     reports, books, history
<1>7. ASSUME NEW levels \in Targets, CallUpdate(levels)
      PROVE  BookInv'
  BY <1>7 DEF TypeOK, Tasks, BookInv, CallUpdate, Goto, store, reports,
              books, history
<1>8. ASSUME Diff
      PROVE  BookInv'
  BY <1>8 DEF TypeOK, Tasks, BookInv, Diff, Goto, Unmatched, store, reports,
     books, history
<1>9. ASSUME NEW t \in {"quoter", "cleaner"}, CancelSend(t)
      PROVE  BookInv'
  BY <1>9 DEF TypeOK, Tasks, BookInv, CancelSend, Goto, store, reports
<1>10. ASSUME NEW t \in {"quoter", "cleaner"}, CancelReturn(t)
      PROVE  BookInv'
  BY <1>10 DEF TypeOK, Tasks, BookInv, CancelReturn, Goto, Popped, Record,
     ReportCancelled, Plus1, store, reports, books, history
<1>11. ASSUME CancelsDone
      PROVE  BookInv'
  BY <1>11 DEF TypeOK, Tasks, BookInv, CancelsDone, Goto, locals, store,
     reports, books, history
<1>12. ASSUME PlaceSend
      PROVE  BookInv'
  <2>1. PICK i \in toPlace : \/ PlaceRests(target[i]) \/ PlaceFills(target[i])
                           \/ PlaceRefused
    BY <1>12 DEF PlaceSend
  <2>2. /\ target[i] \in Quotes /\ target[i] # NoQuote /\ FullSize \in Nat
    BY DEF TypeOK, Targets
  <2>3. filling' = filling
    BY <1>12 DEF PlaceSend
  <2>4. CASE PlaceRests(target[i])
    BY <2>2, <2>3, <2>4 DEF TypeOK, BookInv, PlaceRests, Fresh
  <2>5. CASE PlaceFills(target[i])
    BY <2>2, <2>3, <2>5 DEF TypeOK, BookInv, PlaceFills, Fresh
  <2>6. CASE PlaceRefused
    BY <2>3, <2>6 DEF BookInv, PlaceRefused, books
  <2>7. QED
    BY <2>1, <2>4, <2>5, <2>6
<1>13. ASSUME PlaceReturn
      PROVE  BookInv'
  BY <1>13 DEF TypeOK, Tasks, BookInv, PlaceReturn, Goto, Accepted, Record,
     ReportCancelled, Plus1, store, reports, books, history
<1>14. ASSUME UpdateDone
      PROVE  BookInv'
  BY <1>14 DEF TypeOK, Tasks, BookInv, UpdateDone, Goto, Released, store,
     reports, books, history
<1>15. ASSUME NEW t \in {"quoter", "killer"}, CallCancelAll(t)
      PROVE  BookInv'
  BY <1>15 DEF TypeOK, Tasks, BookInv, CallCancelAll, Goto, locals, store,
     reports, books, history
<1>16. ASSUME NEW t \in {"quoter", "killer"}, LockForCancelAll(t)
      PROVE  BookInv'
  BY <1>16 DEF TypeOK, Tasks, BookInv, LockForCancelAll, Goto, LockFree,
               locals, store, reports, books, history
<1>17. ASSUME CallSuppressed
      PROVE  BookInv'
  BY <1>17 DEF TypeOK, Tasks, BookInv, CallSuppressed, Goto, locals, store,
     reports, books, history
<1>18. ASSUME NEW t \in {"quoter", "killer"}, ReadOpen(t)
      PROVE  BookInv'
  BY <1>18 DEF TypeOK, Tasks, BookInv, ReadOpen, Goto, OnBook, store, reports,
     books
<1>19. ASSUME NEW t \in {"quoter", "killer"}, BulkCancel(t)
      PROVE  BookInv'
  BY <1>19 DEF TypeOK, Tasks, BookInv, BulkCancel, Goto, locals, store, reports
<1>20. ASSUME NEW t \in {"quoter", "killer"}, ClearActive(t)
      PROVE  BookInv'
  BY <1>20 DEF TypeOK, Tasks, BookInv, ClearActive, Goto, Released, Cleared,
               Record, ReportCancelled, Plus1, books, history
<1>21. ASSUME NEW stale \in SUBSET tracked, CleanStart(stale)
      PROVE  BookInv'
  BY <1>21 DEF TypeOK, Tasks, BookInv, CleanStart, Goto, store, reports,
     books, history
<1>22. ASSUME CleanDone
      PROVE  BookInv'
  BY <1>22 DEF TypeOK, Tasks, BookInv, CleanDone, Goto, Released, locals,
               store, reports, books, history
<1>23. ASSUME NEW t \in {"quoter", "cleaner"}, MetaFails(t)
      PROVE  BookInv'
  BY <1>23 DEF TypeOK, Tasks, BookInv, MetaFails, Goto, Released, store,
     reports, books, history
<1>24. CASE UNCHANGED vars
  BY <1>24 DEF TypeOK, Tasks, BookInv, vars, locals, store, reports, books,
     history
<1>25. QED
  BY <1>1, <1>2, <1>3, <1>4, <1>5, <1>6, <1>7, <1>8, <1>9, <1>10,
                <1>11, <1>12, <1>13, <1>14, <1>15, <1>16, <1>17, <1>18, <1>19,
                <1>20, <1>21, <1>22, <1>23, <1>24
     DEF Next, Exchange, Starter, Canceller, CancelAll, Sweep, Quoter, Cleaner

LEMMA CallStep ==
    ASSUME TypeOK, LockInv, BookInv, CallInv, [Next]_vars
    PROVE  CallInv'
<1>1. ASSUME NEW o \in Orders, ExchangeFill(o)
      PROVE  CallInv'
  BY <1>1 DEF TypeOK, Tasks, LockInv, CallInv, Updating, ExchangeFill, locals,
     store, reports, history
<1>2. ASSUME NEW o \in Orders, DeliverFill(o)
      PROVE  CallInv'
  BY <1>2 DEF TypeOK, Tasks, LockInv, CallInv, Updating, DeliverFill, locals,
     store, reports, history
<1>3. ASSUME FirstSnapshot
      PROVE  CallInv'
  BY <1>3 DEF TypeOK, Tasks, LockInv, CallInv, Updating, FirstSnapshot,
     locals, store, reports
<1>4. ASSUME HandleFill
      PROVE  CallInv'
  BY <1>4 DEF TypeOK, Tasks, LockInv, CallInv, Updating, HandleFill,
     FillMayEnter, Record, ReportCancelled, Plus1, locals, store, reports,
     books
<1>5. ASSUME ReconcileGet
      PROVE  CallInv'
  BY <1>5 DEF TypeOK, Tasks, LockInv, CallInv, Updating, ReconcileGet, Goto,
     OnBook, store, reports, books
<1>6. ASSUME ReconcileSync
      PROVE  CallInv'
  BY <1>6 DEF TypeOK, Tasks, LockInv, CallInv, Updating, ReconcileSync, Goto,
     Adopt, store, reports, books, history
<1>7. ASSUME NEW levels \in Targets, CallUpdate(levels)
      PROVE  CallInv'
  BY <1>7 DEF TypeOK, Tasks, LockInv, CallInv, Updating, CallUpdate, Goto,
              store, reports, books, history
<1>8. ASSUME Diff
      PROVE  CallInv'
  BY <1>8 DEF TypeOK, Tasks, LockInv, CallInv, Updating, Diff, Goto,
     Unmatched, store, reports, books, history
<1>9. ASSUME NEW t \in {"quoter", "cleaner"}, CancelSend(t)
      PROVE  CallInv'
  BY <1>9 DEF TypeOK, Tasks, LockInv, CallInv, Updating, CancelSend, Goto,
     store, reports
<1>10. ASSUME NEW t \in {"quoter", "cleaner"}, CancelReturn(t)
      PROVE  CallInv'
  BY <1>10 DEF TypeOK, Tasks, LockInv, CallInv, Updating, CancelReturn, Goto,
     Popped, Record, ReportCancelled, Plus1, store, reports, books, history
<1>11. ASSUME CancelsDone
      PROVE  CallInv'
  BY <1>11 DEF TypeOK, Tasks, LockInv, CallInv, Updating, CancelsDone, Goto,
     locals, store, reports, books, history
<1>12. ASSUME PlaceSend
      PROVE  CallInv'
  <2>1. PICK i \in toPlace : \/ PlaceRests(target[i]) \/ PlaceFills(target[i])
                           \/ PlaceRefused
    BY <1>12 DEF PlaceSend
  <2>2. /\ lock = "quoter" /\ pc["cleaner"] \notin {"cancel", "cancelRet"}
        /\ pc["quoter"] = "place" /\ Running
    BY <1>12 DEF PlaceSend, LockInv, Tasks, TypeOK, Running
  <2>3. /\ pc'["quoter"] = "placeRet" /\ pc'["cleaner"] = pc["cleaner"]
        /\ pc'["starter"] = pc["starter"]
    BY <1>12 DEF PlaceSend, Goto, TypeOK, Tasks
  <2>4. CASE PlaceRests(target[i])
    <3>1. PICK o \in Orders : /\ cur'["quoter"] = o /\ cur'["cleaner"] = cur["cleaner"]
                             /\ \/ resp'["quoter"] = "resting"
                                \/ resp'["quoter"] = "error" /\ o \in faulted'
      BY <2>4 DEF PlaceRests, Fresh, TypeOK, Tasks
    <3>2. QED BY <2>2, <2>3, <3>1 DEF CallInv, Updating, TypeOK, Tasks
  <2>5. CASE PlaceFills(target[i])
    <3>1. PICK o \in Orders : /\ cur'["quoter"] = o /\ cur'["cleaner"] = cur["cleaner"]
                             /\ resp'["quoter"] = "filled" /\ resting'[o] = 0
      BY <2>5 DEF PlaceFills, Fresh, TypeOK, Tasks, BookInv
    <3>2. QED BY <2>2, <2>3, <3>1 DEF CallInv, Updating, TypeOK, Tasks
  <2>6. CASE PlaceRefused
    <3>1. resp'["quoter"] = "rejected" /\ cur' = cur /\ cur["quoter"] = NoOrder
      BY <2>2, <2>6 DEF PlaceRefused, TypeOK, Tasks, CallInv
    <3>2. QED BY <2>2, <2>3, <3>1 DEF CallInv, Updating, TypeOK, Tasks
  <2>7. QED BY <2>1, <2>4, <2>5, <2>6
<1>13. ASSUME PlaceReturn
      PROVE  CallInv'
  BY <1>13 DEF TypeOK, Tasks, LockInv, CallInv, Updating, PlaceReturn, Goto,
     Accepted, Record, ReportCancelled, Plus1, store, reports, books, history
<1>14. ASSUME UpdateDone
      PROVE  CallInv'
  BY <1>14 DEF TypeOK, Tasks, LockInv, CallInv, Updating, UpdateDone, Goto,
     Released, store, reports, books, history
<1>15. ASSUME NEW t \in {"quoter", "killer"}, CallCancelAll(t)
      PROVE  CallInv'
  BY <1>15 DEF TypeOK, Tasks, LockInv, CallInv, Updating, CallCancelAll, Goto,
     locals, store, reports, books, history
<1>16. ASSUME NEW t \in {"quoter", "killer"}, LockForCancelAll(t)
      PROVE  CallInv'
  BY <1>16 DEF TypeOK, Tasks, LockInv, CallInv, Updating, LockForCancelAll,
     Goto, LockFree, locals, store, reports, books, history
<1>17. ASSUME CallSuppressed
      PROVE  CallInv'
  BY <1>17 DEF TypeOK, Tasks, LockInv, CallInv, Updating, CallSuppressed,
     Goto, locals, store, reports, books, history
<1>18. ASSUME NEW t \in {"quoter", "killer"}, ReadOpen(t)
      PROVE  CallInv'
  BY <1>18 DEF TypeOK, Tasks, LockInv, CallInv, Updating, ReadOpen, Goto,
     OnBook, store, reports, books
<1>19. ASSUME NEW t \in {"quoter", "killer"}, BulkCancel(t)
      PROVE  CallInv'
  BY <1>19 DEF TypeOK, Tasks, LockInv, CallInv, Updating, BulkCancel, Goto,
     locals, store, reports
<1>20. ASSUME NEW t \in {"quoter", "killer"}, ClearActive(t)
      PROVE  CallInv'
  BY <1>20 DEF TypeOK, Tasks, LockInv, CallInv, Updating, ClearActive, Goto,
     Released, Cleared, Record, ReportCancelled, Plus1, books, history
<1>21. ASSUME NEW stale \in SUBSET tracked, CleanStart(stale)
      PROVE  CallInv'
  BY <1>21 DEF TypeOK, Tasks, LockInv, CallInv, Updating, CleanStart, Goto,
     store, reports, books, history
<1>22. ASSUME CleanDone
      PROVE  CallInv'
  BY <1>22 DEF TypeOK, Tasks, LockInv, CallInv, Updating, CleanDone, Goto,
     Released, locals, store, reports, books, history
<1>23. ASSUME NEW t \in {"quoter", "cleaner"}, MetaFails(t)
      PROVE  CallInv'
  BY <1>23 DEF TypeOK, Tasks, LockInv, CallInv, Updating, MetaFails, Goto,
     Released, store, reports, books, history
<1>24. CASE UNCHANGED vars
  BY <1>24 DEF TypeOK, Tasks, LockInv, CallInv, Updating, vars, locals, store,
     reports, books, history
<1>25. QED
  BY <1>1, <1>2, <1>3, <1>4, <1>5, <1>6, <1>7, <1>8, <1>9, <1>10,
                <1>11, <1>12, <1>13, <1>14, <1>15, <1>16, <1>17, <1>18, <1>19,
                <1>20, <1>21, <1>22, <1>23, <1>24
     DEF Next, Exchange, Starter, Canceller, CancelAll, Sweep, Quoter, Cleaner

LEMMA SweepStep ==
    ASSUME TypeOK, LockInv, SweepInv, [Next]_vars
    PROVE  SweepInv'
<1>1. ASSUME NEW o \in Orders, ExchangeFill(o)
      PROVE  SweepInv'
  BY <1>1 DEF TypeOK, Tasks, LockInv, Running, SweepInv, ExchangeFill, locals,
              store, reports, history
<1>2. ASSUME NEW o \in Orders, DeliverFill(o)
      PROVE  SweepInv'
  BY <1>2 DEF TypeOK, Tasks, LockInv, Running, SweepInv, DeliverFill, locals,
              store, reports, history
<1>3. ASSUME FirstSnapshot
      PROVE  SweepInv'
  BY <1>3 DEF TypeOK, Tasks, LockInv, Running, SweepInv, FirstSnapshot,
              locals, store, reports
<1>4. ASSUME HandleFill
      PROVE  SweepInv'
  BY <1>4 DEF TypeOK, Tasks, LockInv, Running, SweepInv, HandleFill,
     FillMayEnter, Record, ReportCancelled, Plus1, locals, store, reports,
     books
<1>5. ASSUME ReconcileGet
      PROVE  SweepInv'
  BY <1>5 DEF TypeOK, Tasks, LockInv, Running, SweepInv, ReconcileGet, Goto,
              OnBook, store, reports, books
<1>6. ASSUME ReconcileSync
      PROVE  SweepInv'
  BY <1>6 DEF TypeOK, Tasks, LockInv, Running, SweepInv, ReconcileSync, Goto,
              Adopt, store, reports, books, history
<1>7. ASSUME NEW levels \in Targets, CallUpdate(levels)
      PROVE  SweepInv'
  BY <1>7 DEF TypeOK, Tasks, LockInv, Running, SweepInv, CallUpdate, Goto,
              store, reports, books, history
<1>8. ASSUME Diff
      PROVE  SweepInv'
  BY <1>8 DEF TypeOK, Tasks, LockInv, Running, SweepInv, Diff, Goto,
              Unmatched, store, reports, books, history
<1>9. ASSUME NEW t \in {"quoter", "cleaner"}, CancelSend(t)
      PROVE  SweepInv'
  BY <1>9 DEF TypeOK, Tasks, LockInv, Running, SweepInv, CancelSend, Goto,
              store, reports
<1>10. ASSUME NEW t \in {"quoter", "cleaner"}, CancelReturn(t)
      PROVE  SweepInv'
  BY <1>10 DEF TypeOK, Tasks, LockInv, Running, SweepInv, CancelReturn, Goto,
     Popped, Record, ReportCancelled, Plus1, store, reports, books, history
<1>11. ASSUME CancelsDone
      PROVE  SweepInv'
  BY <1>11 DEF TypeOK, Tasks, LockInv, Running, SweepInv, CancelsDone, Goto,
               locals, store, reports, books, history
<1>12. ASSUME PlaceSend
      PROVE  SweepInv'
  BY <1>12 DEF TypeOK, Tasks, LockInv, Running, SweepInv, PlaceSend,
     PlaceRests, PlaceFills, PlaceRefused, Goto, Fresh, books, store, reports
<1>13. ASSUME PlaceReturn
      PROVE  SweepInv'
  BY <1>13 DEF TypeOK, Tasks, LockInv, Running, SweepInv, PlaceReturn, Goto,
     Accepted, Record, ReportCancelled, Plus1, store, reports, books, history
<1>14. ASSUME UpdateDone
      PROVE  SweepInv'
  BY <1>14 DEF TypeOK, Tasks, LockInv, Running, SweepInv, UpdateDone, Goto,
               Released, store, reports, books, history
<1>15. ASSUME NEW t \in {"quoter", "killer"}, CallCancelAll(t)
      PROVE  SweepInv'
  BY <1>15 DEF TypeOK, Tasks, LockInv, Running, SweepInv, CallCancelAll, Goto,
               locals, store, reports, books, history
<1>16. ASSUME NEW t \in {"quoter", "killer"}, LockForCancelAll(t)
      PROVE  SweepInv'
  BY <1>16 DEF TypeOK, Tasks, LockInv, Running, SweepInv, LockForCancelAll,
               Goto, LockFree, locals, store, reports, books, history
<1>17. ASSUME CallSuppressed
      PROVE  SweepInv'
  BY <1>17 DEF TypeOK, Tasks, LockInv, Running, SweepInv, CallSuppressed,
               Goto, locals, store, reports, books, history
<1>18. ASSUME NEW t \in {"quoter", "killer"}, ReadOpen(t)
      PROVE  SweepInv'
  BY <1>18 DEF TypeOK, Tasks, LockInv, Running, SweepInv, ReadOpen, Goto,
               OnBook, store, reports, books
<1>19. ASSUME NEW t \in {"quoter", "killer"}, BulkCancel(t)
      PROVE  SweepInv'
  BY <1>19 DEF TypeOK, Tasks, LockInv, Running, SweepInv, BulkCancel, Goto,
               locals, store, reports
<1>20. ASSUME NEW t \in {"quoter", "killer"}, ClearActive(t)
      PROVE  SweepInv'
  BY <1>20 DEF TypeOK, Tasks, LockInv, Running, SweepInv, ClearActive, Goto,
     Released, Cleared, Record, ReportCancelled, Plus1, books, history
<1>21. ASSUME NEW stale \in SUBSET tracked, CleanStart(stale)
      PROVE  SweepInv'
  BY <1>21 DEF TypeOK, Tasks, LockInv, Running, SweepInv, CleanStart, Goto,
               store, reports, books, history
<1>22. ASSUME CleanDone
      PROVE  SweepInv'
  BY <1>22 DEF TypeOK, Tasks, LockInv, Running, SweepInv, CleanDone, Goto,
               Released, locals, store, reports, books, history
<1>23. ASSUME NEW t \in {"quoter", "cleaner"}, MetaFails(t)
      PROVE  SweepInv'
  BY <1>23 DEF TypeOK, Tasks, LockInv, Running, SweepInv, MetaFails, Goto,
               Released, store, reports, books, history
<1>24. CASE UNCHANGED vars
  BY <1>24 DEF TypeOK, Tasks, LockInv, Running, SweepInv, vars, locals, store,
     reports, books, history
<1>25. QED
  BY <1>1, <1>2, <1>3, <1>4, <1>5, <1>6, <1>7, <1>8, <1>9, <1>10,
                <1>11, <1>12, <1>13, <1>14, <1>15, <1>16, <1>17, <1>18, <1>19,
                <1>20, <1>21, <1>22, <1>23, <1>24
     DEF Next, Exchange, Starter, Canceller, CancelAll, Sweep, Quoter, Cleaner

LEMMA OrphanStep ==
    ASSUME TypeOK, LockInv, BookInv, CallInv, SweepInv, NoOrphan, [Next]_vars
    PROVE  NoOrphan'
<1>1. ASSUME NEW o \in Orders, ExchangeFill(o)
      PROVE  NoOrphan'
  BY <1>1 DEF TypeOK, Tasks, LockInv, BookInv, CallInv, SweepInv, NoOrphan,
              Clean, Running, ExchangeFill, locals, store, reports, history
<1>2. ASSUME NEW o \in Orders, DeliverFill(o)
      PROVE  NoOrphan'
  BY <1>2 DEF TypeOK, Tasks, LockInv, BookInv, CallInv, SweepInv, NoOrphan,
              Clean, Running, DeliverFill, locals, store, reports, history
<1>3. ASSUME FirstSnapshot
      PROVE  NoOrphan'
  BY <1>3 DEF TypeOK, Tasks, LockInv, BookInv, CallInv, SweepInv, NoOrphan,
              Clean, Running, FirstSnapshot, locals, store, reports
<1>4. ASSUME HandleFill
      PROVE  NoOrphan'
  BY <1>4 DEF TypeOK, Tasks, LockInv, BookInv, CallInv, SweepInv, NoOrphan,
     Clean, Running, HandleFill, FillMayEnter, Record, ReportCancelled, Plus1,
     locals, store, reports, books
<1>5. ASSUME ReconcileGet
      PROVE  NoOrphan'
  BY <1>5 DEF TypeOK, Tasks, LockInv, BookInv, CallInv, SweepInv, NoOrphan,
              Clean, Running, ReconcileGet, Goto, OnBook, store, reports, books
<1>6. ASSUME ReconcileSync
      PROVE  NoOrphan'
  BY <1>6 DEF TypeOK, Tasks, LockInv, BookInv, CallInv, SweepInv, NoOrphan,
     Clean, Running, ReconcileSync, Goto, Adopt, store, reports, books,
     history
<1>7. ASSUME NEW levels \in Targets, CallUpdate(levels)
      PROVE  NoOrphan'
  BY <1>7 DEF TypeOK, Tasks, LockInv, BookInv, CallInv, SweepInv, NoOrphan,
              Clean, Running, CallUpdate, Goto, store, reports, books,
              history
<1>8. ASSUME Diff
      PROVE  NoOrphan'
  BY <1>8 DEF TypeOK, Tasks, LockInv, BookInv, CallInv, SweepInv, NoOrphan,
     Clean, Running, Diff, Goto, Unmatched, store, reports, books, history
<1>9. ASSUME NEW t \in {"quoter", "cleaner"}, CancelSend(t)
      PROVE  NoOrphan'
  BY <1>9 DEF TypeOK, Tasks, LockInv, BookInv, CallInv, SweepInv, NoOrphan,
              Clean, Running, CancelSend, Goto, store, reports
<1>10. ASSUME NEW t \in {"quoter", "cleaner"}, CancelReturn(t)
      PROVE  NoOrphan'
  BY <1>10 DEF TypeOK, Tasks, LockInv, BookInv, CallInv, SweepInv, NoOrphan,
     Clean, Running, CancelReturn, Goto, Popped, Record, ReportCancelled,
     Plus1, store, reports, books, history
<1>11. ASSUME CancelsDone
      PROVE  NoOrphan'
  BY <1>11 DEF TypeOK, Tasks, LockInv, BookInv, CallInv, SweepInv, NoOrphan,
     Clean, Running, CancelsDone, Goto, locals, store, reports, books, history
<1>12. ASSUME PlaceSend
      PROVE  NoOrphan'
  BY <1>12 DEF TypeOK, Tasks, LockInv, BookInv, CallInv, SweepInv, NoOrphan,
               Clean, Running, PlaceSend, PlaceRests, PlaceFills,
               PlaceRefused, Goto, Fresh, books, store, reports
<1>13. ASSUME PlaceReturn
      PROVE  NoOrphan'
  BY <1>13 DEF TypeOK, Tasks, LockInv, BookInv, CallInv, SweepInv, NoOrphan,
     Clean, Running, PlaceReturn, Goto, Accepted, Record, ReportCancelled,
     Plus1, store, reports, books, history
<1>14. ASSUME UpdateDone
      PROVE  NoOrphan'
  BY <1>14 DEF TypeOK, Tasks, LockInv, BookInv, CallInv, SweepInv, NoOrphan,
     Clean, Running, UpdateDone, Goto, Released, store, reports, books,
     history
<1>15. ASSUME NEW t \in {"quoter", "killer"}, CallCancelAll(t)
      PROVE  NoOrphan'
  BY <1>15 DEF TypeOK, Tasks, LockInv, BookInv, CallInv, SweepInv, NoOrphan,
     Clean, Running, CallCancelAll, Goto, locals, store, reports, books,
     history
<1>16. ASSUME NEW t \in {"quoter", "killer"}, LockForCancelAll(t)
      PROVE  NoOrphan'
  BY <1>16 DEF TypeOK, Tasks, LockInv, BookInv, CallInv, SweepInv, NoOrphan,
               Clean, Running, LockForCancelAll, Goto, LockFree, locals,
               store, reports, books, history
<1>17. ASSUME CallSuppressed
      PROVE  NoOrphan'
  BY <1>17 DEF TypeOK, Tasks, LockInv, BookInv, CallInv, SweepInv, NoOrphan,
     Clean, Running, CallSuppressed, Goto, locals, store, reports, books,
     history
<1>18. ASSUME NEW t \in {"quoter", "killer"}, ReadOpen(t)
      PROVE  NoOrphan'
  BY <1>18 DEF TypeOK, Tasks, LockInv, BookInv, CallInv, SweepInv, NoOrphan,
               Clean, Running, ReadOpen, Goto, OnBook, store, reports, books
<1>19. ASSUME NEW t \in {"quoter", "killer"}, BulkCancel(t)
      PROVE  NoOrphan'
  BY <1>19 DEF TypeOK, Tasks, LockInv, BookInv, CallInv, SweepInv, NoOrphan,
               Clean, Running, BulkCancel, Goto, locals, store, reports
<1>20. ASSUME NEW t \in {"quoter", "killer"}, ClearActive(t)
      PROVE  NoOrphan'
  BY <1>20 DEF TypeOK, Tasks, LockInv, BookInv, CallInv, SweepInv, NoOrphan,
     Clean, Running, ClearActive, Goto, Released, Cleared, Record,
     ReportCancelled, Plus1, books, history
<1>21. ASSUME NEW stale \in SUBSET tracked, CleanStart(stale)
      PROVE  NoOrphan'
  BY <1>21 DEF TypeOK, Tasks, LockInv, BookInv, CallInv, SweepInv, NoOrphan,
               Clean, Running, CleanStart, Goto, store, reports, books, history
<1>22. ASSUME CleanDone
      PROVE  NoOrphan'
  BY <1>22 DEF TypeOK, Tasks, LockInv, BookInv, CallInv, SweepInv, NoOrphan,
     Clean, Running, CleanDone, Goto, Released, locals, store, reports, books,
     history
<1>23. ASSUME NEW t \in {"quoter", "cleaner"}, MetaFails(t)
      PROVE  NoOrphan'
  BY <1>23 DEF TypeOK, Tasks, LockInv, BookInv, CallInv, SweepInv, NoOrphan,
     Clean, Running, MetaFails, Goto, Released, store, reports, books, history
<1>24. CASE UNCHANGED vars
  BY <1>24 DEF TypeOK, Tasks, LockInv, BookInv, CallInv, SweepInv, NoOrphan,
               Clean, Running, vars, locals, store, reports, books, history
<1>25. QED
  BY <1>1, <1>2, <1>3, <1>4, <1>5, <1>6, <1>7, <1>8, <1>9, <1>10,
                <1>11, <1>12, <1>13, <1>14, <1>15, <1>16, <1>17, <1>18, <1>19,
                <1>20, <1>21, <1>22, <1>23, <1>24
     DEF Next, Exchange, Starter, Canceller, CancelAll, Sweep, Quoter, Cleaner

LEMMA GhostStep ==
    ASSUME TypeOK, LockInv, CallInv, NoGhost, GhostInv, [Next]_vars
    PROVE  NoGhost' /\ GhostInv'
<1>1. ASSUME NEW o \in Orders, ExchangeFill(o)
      PROVE  NoGhost' /\ GhostInv'
  BY <1>1 DEF TypeOK, Tasks, LockInv, CallInv, NoGhost, GhostInv, Seen,
              Running, ExchangeFill, locals, store, reports, history
<1>2. ASSUME NEW o \in Orders, DeliverFill(o)
      PROVE  NoGhost' /\ GhostInv'
  BY <1>2 DEF TypeOK, Tasks, LockInv, CallInv, NoGhost, GhostInv, Seen,
              Running, DeliverFill, locals, store, reports, history
<1>3. ASSUME FirstSnapshot
      PROVE  NoGhost' /\ GhostInv'
  BY <1>3 DEF TypeOK, Tasks, LockInv, CallInv, NoGhost, GhostInv, Seen,
              Running, FirstSnapshot, locals, store, reports
<1>4. ASSUME HandleFill
      PROVE  NoGhost' /\ GhostInv'
  BY <1>4 DEF TypeOK, Tasks, LockInv, CallInv, NoGhost, GhostInv, Seen,
     Running, HandleFill, FillMayEnter, Record, ReportCancelled, Plus1,
     locals, store, reports, books
<1>5. ASSUME ReconcileGet
      PROVE  NoGhost' /\ GhostInv'
  BY <1>5 DEF TypeOK, Tasks, LockInv, CallInv, NoGhost, GhostInv, Seen,
              Running, ReconcileGet, Goto, OnBook, store, reports, books
<1>6. ASSUME ReconcileSync
      PROVE  NoGhost' /\ GhostInv'
  BY <1>6 DEF TypeOK, Tasks, LockInv, CallInv, NoGhost, GhostInv, Seen,
     Running, ReconcileSync, Goto, Adopt, store, reports, books, history
<1>7. ASSUME NEW levels \in Targets, CallUpdate(levels)
      PROVE  NoGhost' /\ GhostInv'
  BY <1>7 DEF TypeOK, Tasks, LockInv, CallInv, NoGhost, GhostInv, Seen,
              Running, CallUpdate, Goto, store, reports, books, history
<1>8. ASSUME Diff
      PROVE  NoGhost' /\ GhostInv'
  BY <1>8 DEF TypeOK, Tasks, LockInv, CallInv, NoGhost, GhostInv, Seen,
              Running, Diff, Goto, Unmatched, store, reports, books, history
<1>9. ASSUME NEW t \in {"quoter", "cleaner"}, CancelSend(t)
      PROVE  NoGhost' /\ GhostInv'
  BY <1>9 DEF TypeOK, Tasks, LockInv, CallInv, NoGhost, GhostInv, Seen,
              Running, CancelSend, Goto, store, reports
<1>10. ASSUME NEW t \in {"quoter", "cleaner"}, CancelReturn(t)
      PROVE  NoGhost' /\ GhostInv'
  BY <1>10 DEF TypeOK, Tasks, LockInv, CallInv, NoGhost, GhostInv, Seen,
     Running, CancelReturn, Goto, Popped, Record, ReportCancelled, Plus1,
     store, reports, books, history
<1>11. ASSUME CancelsDone
      PROVE  NoGhost' /\ GhostInv'
  BY <1>11 DEF TypeOK, Tasks, LockInv, CallInv, NoGhost, GhostInv, Seen,
     Running, CancelsDone, Goto, locals, store, reports, books, history
<1>12. ASSUME PlaceSend
      PROVE  NoGhost' /\ GhostInv'
  BY <1>12 DEF TypeOK, Tasks, LockInv, CallInv, NoGhost, GhostInv, Seen,
               Running, PlaceSend, PlaceRests, PlaceFills, PlaceRefused, Goto,
               Fresh, books, store, reports
<1>13. ASSUME PlaceReturn
      PROVE  NoGhost' /\ GhostInv'
  BY <1>13 DEF TypeOK, Tasks, LockInv, CallInv, NoGhost, GhostInv, Seen,
     Running, PlaceReturn, Goto, Accepted, Record, ReportCancelled, Plus1,
     store, reports, books, history
<1>14. ASSUME UpdateDone
      PROVE  NoGhost' /\ GhostInv'
  BY <1>14 DEF TypeOK, Tasks, LockInv, CallInv, NoGhost, GhostInv, Seen,
     Running, UpdateDone, Goto, Released, store, reports, books, history
<1>15. ASSUME NEW t \in {"quoter", "killer"}, CallCancelAll(t)
      PROVE  NoGhost' /\ GhostInv'
  BY <1>15 DEF TypeOK, Tasks, LockInv, CallInv, NoGhost, GhostInv, Seen,
     Running, CallCancelAll, Goto, locals, store, reports, books, history
<1>16. ASSUME NEW t \in {"quoter", "killer"}, LockForCancelAll(t)
      PROVE  NoGhost' /\ GhostInv'
  BY <1>16 DEF TypeOK, Tasks, LockInv, CallInv, NoGhost, GhostInv, Seen,
     Running, LockForCancelAll, Goto, LockFree, locals, store, reports, books,
     history
<1>17. ASSUME CallSuppressed
      PROVE  NoGhost' /\ GhostInv'
  BY <1>17 DEF TypeOK, Tasks, LockInv, CallInv, NoGhost, GhostInv, Seen,
     Running, CallSuppressed, Goto, locals, store, reports, books, history
<1>18. ASSUME NEW t \in {"quoter", "killer"}, ReadOpen(t)
      PROVE  NoGhost' /\ GhostInv'
  BY <1>18 DEF TypeOK, Tasks, LockInv, CallInv, NoGhost, GhostInv, Seen,
               Running, ReadOpen, Goto, OnBook, store, reports, books
<1>19. ASSUME NEW t \in {"quoter", "killer"}, BulkCancel(t)
      PROVE  NoGhost' /\ GhostInv'
  BY <1>19 DEF TypeOK, Tasks, LockInv, CallInv, NoGhost, GhostInv, Seen,
               Running, BulkCancel, Goto, locals, store, reports
<1>20. ASSUME NEW t \in {"quoter", "killer"}, ClearActive(t)
      PROVE  NoGhost' /\ GhostInv'
  BY <1>20 DEF TypeOK, Tasks, LockInv, CallInv, NoGhost, GhostInv, Seen,
     Running, ClearActive, Goto, Released, Cleared, Record, ReportCancelled,
     Plus1, books, history
<1>21. ASSUME NEW stale \in SUBSET tracked, CleanStart(stale)
      PROVE  NoGhost' /\ GhostInv'
  BY <1>21 DEF TypeOK, Tasks, LockInv, CallInv, NoGhost, GhostInv, Seen,
               Running, CleanStart, Goto, store, reports, books, history
<1>22. ASSUME CleanDone
      PROVE  NoGhost' /\ GhostInv'
  BY <1>22 DEF TypeOK, Tasks, LockInv, CallInv, NoGhost, GhostInv, Seen,
     Running, CleanDone, Goto, Released, locals, store, reports, books,
     history
<1>23. ASSUME NEW t \in {"quoter", "cleaner"}, MetaFails(t)
      PROVE  NoGhost' /\ GhostInv'
  <2>1. /\ pc[t] \in {"cancel", "place"} /\ pc' = [pc EXCEPT ![t] = "idle"]
        /\ UNCHANGED <<tracked, cur, resp, opens, filling, resting, due, missed>>
    BY <1>23 DEF MetaFails, Goto, books, history
  <2>2. QED
    BY <2>1 DEF TypeOK, Tasks, NoGhost, GhostInv, Seen, Running
<1>24. CASE UNCHANGED vars
  BY <1>24 DEF TypeOK, Tasks, LockInv, CallInv, NoGhost, GhostInv, Seen,
               Running, vars, locals, store, reports, books, history
<1>25. QED
  BY <1>1, <1>2, <1>3, <1>4, <1>5, <1>6, <1>7, <1>8, <1>9, <1>10,
                <1>11, <1>12, <1>13, <1>14, <1>15, <1>16, <1>17, <1>18, <1>19,
                <1>20, <1>21, <1>22, <1>23, <1>24
     DEF Next, Exchange, Starter, Canceller, CancelAll, Sweep, Quoter, Cleaner

(* A step that adds no order to those that stay and takes no level from     *)
(* those served keeps the assignment of orders to levels.                   *)
LevelsKept ==
    Updating' => /\ Updating
                 /\ target' = target /\ toPlace' \subseteq toPlace
                 /\ Staying' \subseteq Staying
                 /\ \A o \in Staying' : quoteOf'[o] = quoteOf[o]

LEMMA KeptLevels ==
    ASSUME OneOrderPerLevel, LevelsKept
    PROVE  OneOrderPerLevel'
<1> SUFFICES ASSUME Updating'
             PROVE  \E n \in Injection(Staying', Served') :
                        \A o \in Staying' : Near(quoteOf'[o], target'[n[o]])
  BY DEF OneOrderPerLevel
<1>1. PICK m \in Injection(Staying, Served) :
          \A o \in Staying : Near(quoteOf[o], target[m[o]])
  BY DEF OneOrderPerLevel, LevelsKept
<1> DEFINE n == [o \in Staying' |-> m[o]]
<1>2. Served \subseteq Served'
  BY DEF LevelsKept, Served
<1>3. n \in Injection(Staying', Served')
  BY <1>1, <1>2 DEF LevelsKept, Injection, IsInjective
<1>4. \A o \in Staying' : Near(quoteOf'[o], target'[n[o]])
  BY <1>1 DEF LevelsKept
<1>5. QED
  BY <1>3, <1>4

LEMMA NearItself == \A q \in Quotes : Near(q, q)
BY DEF Near

LEMMA LevelStep ==
    ASSUME TypeOK, LockInv, BookInv, NoOrphan, OneOrderPerLevel, [Next]_vars
    PROVE  OneOrderPerLevel'
<1>1. ASSUME NEW o \in Orders, ExchangeFill(o)
      PROVE  LevelsKept
  BY <1>1 DEF LevelsKept, Updating, Staying, Clean, TypeOK, Tasks, LockInv,
     BookInv, Running, ExchangeFill, locals, history
<1>2. ASSUME NEW o \in Orders, DeliverFill(o)
      PROVE  LevelsKept
  BY <1>2 DEF LevelsKept, Updating, Staying, Clean, TypeOK, Tasks, LockInv,
     BookInv, Running, DeliverFill, locals, history
<1>3. ASSUME FirstSnapshot
      PROVE  LevelsKept
  BY <1>3 DEF LevelsKept, Updating, Staying, Clean, TypeOK, Tasks, LockInv,
     BookInv, Running, FirstSnapshot, locals
<1>4. ASSUME HandleFill
      PROVE  LevelsKept
  BY <1>4 DEF LevelsKept, Updating, Staying, Clean, TypeOK, Tasks, LockInv,
     BookInv, Running, HandleFill, locals, books
<1>5. ASSUME ReconcileGet
      PROVE  LevelsKept
  BY <1>5 DEF LevelsKept, Updating, Staying, Clean, TypeOK, Tasks, LockInv,
     BookInv, Running, ReconcileGet, Goto
<1>6. ASSUME ReconcileSync
      PROVE  LevelsKept
  BY <1>6 DEF LevelsKept, Updating, Staying, Clean, TypeOK, Tasks, LockInv,
     BookInv, Running, ReconcileSync, Goto
<1>7. ASSUME NEW levels \in Targets, CallUpdate(levels)
      PROVE  LevelsKept
  BY <1>7 DEF LevelsKept, Updating, Staying, Clean, TypeOK, Tasks, LockInv,
     BookInv, Running, CallUpdate, Goto
<1>8. ASSUME Diff
      PROVE  OneOrderPerLevel'
  <2>0. PICK kept \in SUBSET DOMAIN target :
            \E match \in Injection(kept, tracked) :
                /\ IsDiff(match)
                /\ toCancel' = [toCancel EXCEPT
                                   !["quoter"] = tracked \ Range(match)]
                /\ toPlace' = Unmatched(match)
    BY <1>8 DEF Diff
  <2>1. PICK match \in Injection(kept, tracked) :
            /\ IsDiff(match)
            /\ toCancel' = [toCancel EXCEPT
                               !["quoter"] = tracked \ Range(match)]
            /\ toPlace' = Unmatched(match)
    BY <2>0
  <2>2. /\ pc["quoter"] = "lock" /\ Running
        /\ UNCHANGED <<target, quoteOf, resting, faulted>>
    BY <1>8 DEF Diff, LockInv, books, history, Running
  <2>3. \A o \in Orders : Clean(o) => o \in tracked
    BY <2>2 DEF NoOrphan
  <2>4. \A o \in Staying' : \E i \in kept : match[i] = o
    <3>1. toCancel'["quoter"] = tracked \ Range(match)
      BY <2>1 DEF TypeOK, Tasks
    <3>2. QED
      BY <2>1, <2>2, <2>3, <3>1 DEF Staying, Clean, Range, Injection
  <2> DEFINE n == [o \in Staying' |-> CHOOSE i \in kept : match[i] = o]
  <2>5. \A o \in Staying' : n[o] \in kept /\ match[n[o]] = o
    BY <2>4
  <2>6. DOMAIN match = kept /\ Served' = kept
    BY <2>1, <2>2 DEF Served, Unmatched, Injection
  <2>7. n \in Injection(Staying', Served')
    BY <2>5, <2>6 DEF Injection, IsInjective
  <2>8. \A o \in Staying' : Near(quoteOf'[o], target'[n[o]])
    BY <2>1, <2>2, <2>5, <2>6 DEF IsDiff
  <2>9. QED
    BY <2>7, <2>8 DEF OneOrderPerLevel
<1>9. ASSUME NEW t \in {"quoter", "cleaner"}, CancelSend(t)
      PROVE  LevelsKept
  BY <1>9 DEF LevelsKept, Updating, Staying, Clean, TypeOK, Tasks, LockInv,
     BookInv, Running, CancelSend, Goto
<1>10. ASSUME NEW t \in {"quoter", "cleaner"}, CancelReturn(t)
       PROVE  LevelsKept
  BY <1>10 DEF LevelsKept, Updating, Staying, Clean, TypeOK, Tasks, LockInv,
     BookInv, Running, CancelReturn, Goto, books, history
<1>11. ASSUME CancelsDone
       PROVE  LevelsKept
  BY <1>11 DEF LevelsKept, Updating, Staying, Clean, TypeOK, Tasks, LockInv,
     BookInv, Running, CancelsDone, Goto, locals, books, history
<1>12. ASSUME PlaceSend
       PROVE  OneOrderPerLevel'
  <2>1. PICK i \in toPlace :
            /\ toPlace' = toPlace \ {i}
            /\ PlaceRests(target[i]) \/ PlaceFills(target[i]) \/ PlaceRefused
    BY <1>12 DEF PlaceSend
  <2>2. Updating /\ UNCHANGED <<target, toCancel>>
    BY <1>12 DEF PlaceSend, Updating
  <2>3. CASE PlaceRefused
    <3>1. LevelsKept
      BY <2>1, <2>2, <2>3 DEF PlaceRefused, LevelsKept, Staying, Clean, books
    <3>2. QED
      BY <3>1, KeptLevels
  <2>4. CASE PlaceFills(target[i])
    <3>1. PICK o \in Fresh : quoteOf' = [quoteOf EXCEPT ![o] = target[i]]
      BY <2>4 DEF PlaceFills
    <3>2. o \in Orders /\ resting[o] = 0 /\ UNCHANGED <<resting, faulted>>
      BY <2>4, <3>1 DEF PlaceFills, Fresh, BookInv
    <3>3. LevelsKept
      BY <2>1, <2>2, <3>1, <3>2 DEF LevelsKept, Staying, Clean, TypeOK
    <3>4. QED
      BY <3>3, KeptLevels
  <2>5. CASE PlaceRests(target[i])
    <3>1. PICK o \in Fresh : /\ quoteOf' = [quoteOf EXCEPT ![o] = target[i]]
                             /\ resting' = [resting EXCEPT ![o] = FullSize]
                             /\ faulted \subseteq faulted'
      BY <2>5 DEF PlaceRests
    <3>2. o \in Orders /\ o \notin Staying
      BY <3>1 DEF Fresh, BookInv, Staying, Clean
    <3>3. Staying' \subseteq Staying \cup {o}
      BY <2>2, <3>1, <3>2 DEF Staying, Clean, TypeOK
    <3>4. PICK m \in Injection(Staying, Served) :
              \A x \in Staying : Near(quoteOf[x], target[m[x]])
      BY <2>2 DEF OneOrderPerLevel
    <3> DEFINE n == [x \in Staying' |-> IF x = o THEN i ELSE m[x]]
    <3>5. Served' = Served \cup {i} /\ i \notin Served
      BY <2>1, <2>2 DEF Served, TypeOK
    <3>6. n \in Injection(Staying', Served')
      BY <3>2, <3>3, <3>4, <3>5 DEF Injection, IsInjective
    <3>7. i \in DOMAIN target /\ target[i] \in Quotes
      BY <2>1 DEF TypeOK, Targets
    <3>8. \A x \in Staying' : Near(quoteOf'[x], target'[n[x]])
      <4>1. ASSUME NEW x \in Staying', x = o
            PROVE  Near(quoteOf'[x], target'[n[x]])
        BY <2>2, <3>1, <3>2, <3>7, <4>1, NearItself DEF TypeOK
      <4>2. ASSUME NEW x \in Staying', x # o
            PROVE  Near(quoteOf'[x], target'[n[x]])
        BY <2>2, <3>1, <3>3, <3>4, <4>2 DEF TypeOK
      <4>3. QED
        BY <4>1, <4>2
    <3>9. QED
      BY <3>6, <3>8 DEF OneOrderPerLevel
  <2>6. QED
    BY <2>1, <2>3, <2>4, <2>5
<1>13. ASSUME PlaceReturn
       PROVE  LevelsKept
  BY <1>13 DEF LevelsKept, Updating, Staying, Clean, TypeOK, Tasks, LockInv,
     BookInv, Running, PlaceReturn, Goto, books, history
<1>14. ASSUME UpdateDone
       PROVE  LevelsKept
  BY <1>14 DEF LevelsKept, Updating, Staying, Clean, TypeOK, Tasks, LockInv,
     BookInv, Running, UpdateDone, Goto
<1>15. ASSUME NEW t \in {"quoter", "killer"}, CallCancelAll(t)
       PROVE  LevelsKept
  BY <1>15 DEF LevelsKept, Updating, Staying, Clean, TypeOK, Tasks, LockInv,
     BookInv, Running, CallCancelAll, Goto, locals, books, history
<1>16. ASSUME NEW t \in {"quoter", "killer"}, LockForCancelAll(t)
       PROVE  LevelsKept
  BY <1>16 DEF LevelsKept, Updating, Staying, Clean, TypeOK, Tasks, LockInv,
     BookInv, Running, LockForCancelAll, Goto, locals, books, history
<1>17. ASSUME CallSuppressed
       PROVE  LevelsKept
  BY <1>17 DEF LevelsKept, Updating, Staying, Clean, TypeOK, Tasks, LockInv,
     BookInv, Running, CallSuppressed, Goto
<1>18. ASSUME NEW t \in {"quoter", "killer"}, ReadOpen(t)
       PROVE  LevelsKept
  BY <1>18 DEF LevelsKept, Updating, Staying, Clean, TypeOK, Tasks, LockInv,
     BookInv, Running, ReadOpen, Goto, books
<1>19. ASSUME NEW t \in {"quoter", "killer"}, BulkCancel(t)
       PROVE  LevelsKept
  BY <1>19 DEF LevelsKept, Updating, Staying, Clean, TypeOK, Tasks, LockInv,
     BookInv, Running, BulkCancel, Goto, locals
<1>20. ASSUME NEW t \in {"quoter", "killer"}, ClearActive(t)
       PROVE  LevelsKept
  BY <1>20 DEF LevelsKept, Updating, Staying, Clean, TypeOK, Tasks, LockInv,
     BookInv, Running, ClearActive, Goto, books
<1>21. ASSUME NEW stale \in SUBSET tracked, CleanStart(stale)
       PROVE  LevelsKept
  BY <1>21 DEF LevelsKept, Updating, Staying, Clean, TypeOK, Tasks, LockInv,
     BookInv, Running, CleanStart, Goto, books, history
<1>22. ASSUME CleanDone
       PROVE  LevelsKept
  BY <1>22 DEF LevelsKept, Updating, Staying, Clean, TypeOK, Tasks, LockInv,
     BookInv, Running, CleanDone, Goto, locals, books, history
<1>23. ASSUME NEW t \in {"quoter", "cleaner"}, MetaFails(t)
       PROVE  LevelsKept
  BY <1>23 DEF LevelsKept, Updating, Staying, Clean, TypeOK, Tasks, LockInv,
     BookInv, Running, MetaFails, Goto, books, history
<1>24. ASSUME UNCHANGED vars
       PROVE  LevelsKept
  BY <1>24 DEF LevelsKept, Updating, Staying, Clean, vars, locals, books,
     history
<1>25. QED
  BY KeptLevels, <1>1, <1>2, <1>3, <1>4, <1>5, <1>6, <1>7, <1>8, <1>9, <1>10, <1>11,
     <1>12, <1>13, <1>14, <1>15, <1>16, <1>17, <1>18, <1>19, <1>20,
     <1>21, <1>22, <1>23, <1>24
     DEF Next, Exchange, Starter, Canceller, CancelAll, Sweep, Quoter, Cleaner

LEMMA ReportStep ==
    ASSUME TypeOK, LockInv, CallInv, BookInv, ReportInv, ~Suppresses, [Next]_vars
    PROVE  ReportInv'
<1>1. ASSUME NEW o \in Orders, ExchangeFill(o)
      PROVE  ReportInv'
  BY <1>1 DEF TypeOK, Tasks, LockInv, CallInv, BookInv, ReportInv, Running,
              ExchangeFill, locals, store, reports, history
<1>2. ASSUME NEW o \in Orders, DeliverFill(o)
      PROVE  ReportInv'
  BY <1>2 DEF TypeOK, Tasks, LockInv, CallInv, BookInv, ReportInv, Running,
              DeliverFill, locals, store, reports, history
<1>3. ASSUME FirstSnapshot
      PROVE  ReportInv'
  BY <1>3 DEF TypeOK, Tasks, LockInv, CallInv, BookInv, ReportInv, Running,
              FirstSnapshot, locals, store, reports
<1>4. ASSUME HandleFill
      PROVE  ReportInv'
  BY <1>4 DEF TypeOK, Tasks, LockInv, CallInv, BookInv, ReportInv, Running,
     HandleFill, FillMayEnter, Record, ReportCancelled, Plus1, locals, store,
     reports, books
<1>5. ASSUME ReconcileGet
      PROVE  ReportInv'
  BY <1>5 DEF TypeOK, Tasks, LockInv, CallInv, BookInv, ReportInv, Running,
              ReconcileGet, Goto, OnBook, store, reports, books
<1>6. ASSUME ReconcileSync
      PROVE  ReportInv'
  BY <1>6 DEF TypeOK, Tasks, LockInv, CallInv, BookInv, ReportInv, Running,
              ReconcileSync, Goto, Adopt, store, reports, books, history
<1>7. ASSUME NEW levels \in Targets, CallUpdate(levels)
      PROVE  ReportInv'
  BY <1>7 DEF TypeOK, Tasks, LockInv, CallInv, BookInv, ReportInv, Running,
              CallUpdate, Goto, store, reports, books, history
<1>8. ASSUME Diff
      PROVE  ReportInv'
  BY <1>8 DEF TypeOK, Tasks, LockInv, CallInv, BookInv, ReportInv, Running,
              Diff, Goto, Unmatched, store, reports, books, history
<1>9. ASSUME NEW t \in {"quoter", "cleaner"}, CancelSend(t)
      PROVE  ReportInv'
  BY <1>9 DEF TypeOK, Tasks, LockInv, CallInv, BookInv, ReportInv, Running,
              CancelSend, Goto, store, reports
<1>10. ASSUME NEW t \in {"quoter", "cleaner"}, CancelReturn(t)
      PROVE  ReportInv'
  <2>1. lock = t /\ cur[t] \in tracked /\ cur[t] \in Orders
    BY <1>10 DEF CancelReturn, LockInv, ReportInv, TypeOK
  <2>2. \A u \in {"quoter", "cleaner"} \ {t} :
           pc[u] \notin {"cancel", "cancelRet", "place", "placeRet"}
    BY <2>1 DEF LockInv
  <2>3. /\ pc'[t] = "cancel"
        /\ \A u \in Tasks \ {t} : pc'[u] = pc[u]
        /\ tracked' = tracked \ {cur[t]}
        /\ UNCHANGED <<quoteOf, toCancel, opens>>
    BY <1>10 DEF CancelReturn, Goto, Popped, TypeOK, Tasks, books
  <2>4. \A o \in Orders : o # cur[t] => terminals'[o] = terminals[o]
    BY <1>10 DEF CancelReturn, Record, ReportCancelled, Plus1, store, reports,
       TypeOK
  <2>5. Running' /\ Running
    BY <2>2, <2>3, <1>10 DEF Running, Tasks, LockInv, CancelReturn
  <2>6. toCancel[t] \subseteq tracked'
    BY <2>1, <2>3, <1>10 DEF ReportInv, CancelReturn, CallInv
  <2>7. QED
    BY <2>1, <2>2, <2>3, <2>4, <2>5, <2>6 DEF ReportInv, TypeOK, Tasks
<1>11. ASSUME CancelsDone
      PROVE  ReportInv'
  BY <1>11 DEF TypeOK, Tasks, LockInv, CallInv, BookInv, ReportInv, Running,
               CancelsDone, Goto, locals, store, reports, books, history
<1>12. ASSUME PlaceSend
      PROVE  ReportInv'
  <2>1. PICK i \in toPlace : \/ PlaceRests(target[i]) \/ PlaceFills(target[i])
                           \/ PlaceRefused
    BY <1>12 DEF PlaceSend
  <2>2. /\ lock = "quoter" /\ pc["cleaner"] \notin {"cancel", "cancelRet"}
        /\ pc["quoter"] = "place" /\ Running
    BY <1>12 DEF PlaceSend, LockInv, Tasks, TypeOK, Running
  <2>3. /\ pc'["quoter"] = "placeRet" /\ pc'["cleaner"] = pc["cleaner"]
        /\ pc'["starter"] = pc["starter"]
    BY <1>12 DEF PlaceSend, Goto, TypeOK, Tasks
  <2>4. UNCHANGED <<tracked, toCancel, opens, terminals>>
    BY <1>12 DEF PlaceSend, store, reports
  <2>5. ASSUME NEW o \in Fresh, quoteOf' = [quoteOf EXCEPT ![o] = target[i]],
               cur'["quoter"] = o
        PROVE  ReportInv'
    BY <2>2, <2>3, <2>4, <2>5, TargetLevel DEF ReportInv, TypeOK, Fresh,
       Tasks, Running
  <2>6. CASE PlaceRests(target[i])
    BY <2>5, <2>6 DEF PlaceRests, TypeOK, Tasks
  <2>7. CASE PlaceFills(target[i])
    BY <2>5, <2>7 DEF PlaceFills, TypeOK, Tasks
  <2>8. CASE PlaceRefused
    <3>1. quoteOf' = quoteOf /\ cur'["quoter"] = NoOrder
      BY <2>2, <2>8 DEF PlaceRefused, books, CallInv
    <3>2. QED BY <2>2, <2>3, <2>4, <3>1 DEF ReportInv, TypeOK, Running
  <2>9. QED BY <2>1, <2>6, <2>7, <2>8
<1>13. ASSUME PlaceReturn
      PROVE  ReportInv'
  BY <1>13 DEF TypeOK, Tasks, LockInv, CallInv, BookInv, ReportInv, Running,
     PlaceReturn, Goto, Accepted, Record, ReportCancelled, Plus1, store,
     reports, books, history
<1>14. ASSUME UpdateDone
      PROVE  ReportInv'
  BY <1>14 DEF TypeOK, Tasks, LockInv, CallInv, BookInv, ReportInv, Running,
               UpdateDone, Goto, Released, store, reports, books, history
<1>15. ASSUME NEW t \in {"quoter", "killer"}, CallCancelAll(t)
      PROVE  ReportInv'
  BY <1>15 DEF TypeOK, Tasks, LockInv, CallInv, BookInv, ReportInv, Running,
               CallCancelAll, Goto, locals, store, reports, books, history
<1>16. ASSUME NEW t \in {"quoter", "killer"}, LockForCancelAll(t)
      PROVE  ReportInv'
  BY <1>16 DEF TypeOK, Tasks, LockInv, CallInv, BookInv, ReportInv, Running,
     LockForCancelAll, Goto, LockFree, locals, store, reports, books, history
<1>17. ASSUME CallSuppressed
      PROVE  ReportInv'
  BY <1>17 DEF TypeOK, Tasks, LockInv, CallInv, BookInv, ReportInv, Running,
               CallSuppressed, Goto, locals, store, reports, books, history
<1>18. ASSUME NEW t \in {"quoter", "killer"}, ReadOpen(t)
      PROVE  ReportInv'
  BY <1>18 DEF TypeOK, Tasks, LockInv, CallInv, BookInv, ReportInv, Running,
               ReadOpen, Goto, OnBook, store, reports, books
<1>19. ASSUME NEW t \in {"quoter", "killer"}, BulkCancel(t)
      PROVE  ReportInv'
  BY <1>19 DEF TypeOK, Tasks, LockInv, CallInv, BookInv, ReportInv, Running,
               BulkCancel, Goto, locals, store, reports
<1>20. ASSUME NEW t \in {"quoter", "killer"}, ClearActive(t)
      PROVE  ReportInv'
  BY <1>20 DEF TypeOK, Tasks, LockInv, CallInv, BookInv, ReportInv, Running,
     ClearActive, Goto, Released, Cleared, Record, ReportCancelled, Plus1,
     books, history
<1>21. ASSUME NEW stale \in SUBSET tracked, CleanStart(stale)
      PROVE  ReportInv'
  BY <1>21 DEF TypeOK, Tasks, LockInv, CallInv, BookInv, ReportInv, Running,
               CleanStart, Goto, store, reports, books, history
<1>22. ASSUME CleanDone
      PROVE  ReportInv'
  BY <1>22 DEF TypeOK, Tasks, LockInv, CallInv, BookInv, ReportInv, Running,
     CleanDone, Goto, Released, locals, store, reports, books, history
<1>23. ASSUME NEW t \in {"quoter", "cleaner"}, MetaFails(t)
      PROVE  ReportInv'
  BY <1>23 DEF TypeOK, Tasks, LockInv, CallInv, BookInv, ReportInv, Running,
               MetaFails, Goto, Released, store, reports, books, history
<1>24. CASE UNCHANGED vars
  BY <1>24 DEF TypeOK, Tasks, LockInv, CallInv, BookInv, ReportInv, Running,
               vars, locals, store, reports, books, history
<1>25. QED
  BY <1>1, <1>2, <1>3, <1>4, <1>5, <1>6, <1>7, <1>8, <1>9, <1>10,
                <1>11, <1>12, <1>13, <1>14, <1>15, <1>16, <1>17, <1>18, <1>19,
                <1>20, <1>21, <1>22, <1>23, <1>24
     DEF Next, Exchange, Starter, Canceller, CancelAll, Sweep, Quoter, Cleaner

(* The part of EndsOnce about the orders table.                             *)
OneEnd == \A o \in Orders : terminals[o] <= 1

LEMMA EndsStep ==
    ASSUME TypeOK, LockInv, CallInv, ReportInv, OneEnd, ~Suppresses, [Next]_vars
    PROVE  OneEnd'
<1>1. ASSUME NEW o \in Orders, ExchangeFill(o)
      PROVE  OneEnd'
  BY <1>1 DEF TypeOK, Tasks, LockInv, CallInv, ReportInv, OneEnd,
              ExchangeFill, locals, store, reports, history
<1>2. ASSUME NEW o \in Orders, DeliverFill(o)
      PROVE  OneEnd'
  BY <1>2 DEF TypeOK, Tasks, LockInv, CallInv, ReportInv, OneEnd,
              DeliverFill, locals, store, reports, history
<1>3. ASSUME FirstSnapshot
      PROVE  OneEnd'
  BY <1>3 DEF TypeOK, Tasks, LockInv, CallInv, ReportInv, OneEnd,
              FirstSnapshot, locals, store, reports
<1>4. ASSUME HandleFill
      PROVE  OneEnd'
  BY <1>4 DEF TypeOK, Tasks, LockInv, CallInv, ReportInv, OneEnd, HandleFill,
     FillMayEnter, Record, ReportCancelled, Plus1, locals, store, reports,
     books
<1>5. ASSUME ReconcileGet
      PROVE  OneEnd'
  BY <1>5 DEF TypeOK, Tasks, LockInv, CallInv, ReportInv, OneEnd,
              ReconcileGet, Goto, OnBook, store, reports, books
<1>6. ASSUME ReconcileSync
      PROVE  OneEnd'
  BY <1>6 DEF TypeOK, Tasks, LockInv, CallInv, ReportInv, OneEnd,
              ReconcileSync, Goto, Adopt, store, reports, books, history
<1>7. ASSUME NEW levels \in Targets, CallUpdate(levels)
      PROVE  OneEnd'
  BY <1>7 DEF TypeOK, Tasks, LockInv, CallInv, ReportInv, OneEnd,
              CallUpdate, Goto, store, reports, books, history
<1>8. ASSUME Diff
      PROVE  OneEnd'
  BY <1>8 DEF TypeOK, Tasks, LockInv, CallInv, ReportInv, OneEnd, Diff,
              Goto, Unmatched, store, reports, books, history
<1>9. ASSUME NEW t \in {"quoter", "cleaner"}, CancelSend(t)
      PROVE  OneEnd'
  BY <1>9 DEF TypeOK, Tasks, LockInv, CallInv, ReportInv, OneEnd,
              CancelSend, Goto, store, reports
<1>10. ASSUME NEW t \in {"quoter", "cleaner"}, CancelReturn(t)
      PROVE  OneEnd'
  BY <1>10 DEF TypeOK, Tasks, LockInv, CallInv, ReportInv, OneEnd,
     CancelReturn, Goto, Popped, Record, ReportCancelled, Plus1, store,
     reports, books, history
<1>11. ASSUME CancelsDone
      PROVE  OneEnd'
  BY <1>11 DEF TypeOK, Tasks, LockInv, CallInv, ReportInv, OneEnd,
               CancelsDone, Goto, locals, store, reports, books, history
<1>12. ASSUME PlaceSend
      PROVE  OneEnd'
  BY <1>12 DEF TypeOK, Tasks, LockInv, CallInv, ReportInv, OneEnd,
               PlaceSend, PlaceRests, PlaceFills, PlaceRefused, Goto, Fresh,
               books, store, reports
<1>13. ASSUME PlaceReturn
      PROVE  OneEnd'
  BY <1>13 DEF TypeOK, Tasks, LockInv, CallInv, ReportInv, OneEnd,
     PlaceReturn, Goto, Accepted, Record, ReportCancelled, Plus1, store,
     reports, books, history
<1>14. ASSUME UpdateDone
      PROVE  OneEnd'
  BY <1>14 DEF TypeOK, Tasks, LockInv, CallInv, ReportInv, OneEnd,
               UpdateDone, Goto, Released, store, reports, books, history
<1>15. ASSUME NEW t \in {"quoter", "killer"}, CallCancelAll(t)
      PROVE  OneEnd'
  BY <1>15 DEF TypeOK, Tasks, LockInv, CallInv, ReportInv, OneEnd,
               CallCancelAll, Goto, locals, store, reports, books, history
<1>16. ASSUME NEW t \in {"quoter", "killer"}, LockForCancelAll(t)
      PROVE  OneEnd'
  BY <1>16 DEF TypeOK, Tasks, LockInv, CallInv, ReportInv, OneEnd,
     LockForCancelAll, Goto, LockFree, locals, store, reports, books, history
<1>17. ASSUME CallSuppressed
      PROVE  OneEnd'
  BY <1>17 DEF TypeOK, Tasks, LockInv, CallInv, ReportInv, OneEnd,
               CallSuppressed, Goto, locals, store, reports, books, history
<1>18. ASSUME NEW t \in {"quoter", "killer"}, ReadOpen(t)
      PROVE  OneEnd'
  BY <1>18 DEF TypeOK, Tasks, LockInv, CallInv, ReportInv, OneEnd,
               ReadOpen, Goto, OnBook, store, reports, books
<1>19. ASSUME NEW t \in {"quoter", "killer"}, BulkCancel(t)
      PROVE  OneEnd'
  BY <1>19 DEF TypeOK, Tasks, LockInv, CallInv, ReportInv, OneEnd,
               BulkCancel, Goto, locals, store, reports
<1>20. ASSUME NEW t \in {"quoter", "killer"}, ClearActive(t)
      PROVE  OneEnd'
  BY <1>20 DEF TypeOK, Tasks, LockInv, CallInv, ReportInv, OneEnd,
     ClearActive, Goto, Released, Cleared, Record, ReportCancelled, Plus1,
     books, history
<1>21. ASSUME NEW stale \in SUBSET tracked, CleanStart(stale)
      PROVE  OneEnd'
  BY <1>21 DEF TypeOK, Tasks, LockInv, CallInv, ReportInv, OneEnd,
               CleanStart, Goto, store, reports, books, history
<1>22. ASSUME CleanDone
      PROVE  OneEnd'
  BY <1>22 DEF TypeOK, Tasks, LockInv, CallInv, ReportInv, OneEnd, CleanDone,
     Goto, Released, locals, store, reports, books, history
<1>23. ASSUME NEW t \in {"quoter", "cleaner"}, MetaFails(t)
      PROVE  OneEnd'
  BY <1>23 DEF TypeOK, Tasks, LockInv, CallInv, ReportInv, OneEnd,
               MetaFails, Goto, Released, store, reports, books, history
<1>24. CASE UNCHANGED vars
  BY <1>24 DEF TypeOK, Tasks, LockInv, CallInv, ReportInv, OneEnd, vars,
               locals, store, reports, books, history
<1>25. QED
  BY <1>1, <1>2, <1>3, <1>4, <1>5, <1>6, <1>7, <1>8, <1>9, <1>10,
                <1>11, <1>12, <1>13, <1>14, <1>15, <1>16, <1>17, <1>18, <1>19,
                <1>20, <1>21, <1>22, <1>23, <1>24
     DEF Next, Exchange, Starter, Canceller, CancelAll, Sweep, Quoter, Cleaner

(* What the metrics counted of an order, what is on its way to them and     *)
(* what still rests is at most the order; strictly less when its own cancel *)
(* took something off the book.                                             *)
Parts(o) == fills[o] + resting[o] + due[o] + IF filling = o THEN 1 ELSE 0
OwnCancel(o) ==
    \/ cancels[o] > 0 /\ o \notin swept
    \/ \E t \in {"quoter", "cleaner"} :
          pc[t] = "cancelRet" /\ cur[t] = o /\ resp[t] = "success"
CountInv ==
    \A o \in Orders :
        /\ Parts(o) <= FullSize
        /\ OwnCancel(o) => Parts(o) < FullSize
        /\ quoteOf[o] = NoQuote => fills[o] = 0
        /\ cancels[o] <= terminals[o]

LEMMA CountStep ==
    ASSUME TypeOK, LockInv, BookInv, CallInv, ReportInv, CountInv, [Next]_vars
    PROVE  CountInv'
<1>1. ASSUME NEW o \in Orders, ExchangeFill(o)
      PROVE  CountInv'
  BY <1>1 DEF TypeOK, Tasks, LockInv, BookInv, CallInv, ReportInv, CountInv,
     Parts, OwnCancel, Running, locals, reports, store, books, history,
     ExchangeFill
<1>2. ASSUME NEW o \in Orders, DeliverFill(o)
      PROVE  CountInv'
  BY <1>2 DEF TypeOK, Tasks, LockInv, BookInv, CallInv, ReportInv, CountInv,
     Parts, OwnCancel, Running, locals, reports, store, books, history,
     DeliverFill
<1>3. ASSUME FirstSnapshot
      PROVE  CountInv'
  BY <1>3 DEF TypeOK, Tasks, LockInv, BookInv, CallInv, ReportInv, CountInv,
     Parts, OwnCancel, Running, locals, reports, store, books, history,
     FirstSnapshot
<1>4. ASSUME HandleFill
      PROVE  CountInv'
  BY <1>4 DEF TypeOK, Tasks, LockInv, BookInv, CallInv, ReportInv, CountInv,
     Parts, OwnCancel, Running, locals, reports, store, books, history,
     HandleFill, Record, Plus1
<1>5. ASSUME ReconcileGet
      PROVE  CountInv'
  BY <1>5 DEF TypeOK, Tasks, LockInv, BookInv, CallInv, ReportInv, CountInv,
     Parts, OwnCancel, Running, locals, reports, store, books, history,
     ReconcileGet, Goto
<1>6. ASSUME ReconcileSync
      PROVE  CountInv'
  BY <1>6 DEF TypeOK, Tasks, LockInv, BookInv, CallInv, ReportInv, CountInv,
     Parts, OwnCancel, Running, locals, reports, store, books, history,
     ReconcileSync, Goto
<1>7. ASSUME NEW levels \in Targets, CallUpdate(levels)
      PROVE  CountInv'
  BY <1>7 DEF TypeOK, Tasks, LockInv, BookInv, CallInv, ReportInv, CountInv,
     Parts, OwnCancel, Running, locals, reports, store, books, history,
     CallUpdate, Goto
<1>8. ASSUME Diff
      PROVE  CountInv'
  BY <1>8 DEF TypeOK, Tasks, LockInv, BookInv, CallInv, ReportInv, CountInv,
     Parts, OwnCancel, Running, locals, reports, store, books, history, Diff,
     Goto
<1>9. ASSUME NEW t \in {"quoter", "cleaner"}, CancelSend(t)
      PROVE  CountInv'
  BY <1>9 DEF TypeOK, Tasks, LockInv, BookInv, CallInv, ReportInv, CountInv,
     Parts, OwnCancel, Running, locals, reports, store, books, history,
     CancelSend, Goto
<1>10. ASSUME NEW t \in {"quoter", "cleaner"}, CancelReturn(t)
       PROVE  CountInv'
  BY <1>10 DEF TypeOK, Tasks, LockInv, BookInv, CallInv, ReportInv,
     CountInv, Parts, OwnCancel, Running, locals, reports, store, books,
     history, CancelReturn, Goto, ReportCancelled, Record, Plus1
<1>11. ASSUME CancelsDone
       PROVE  CountInv'
  BY <1>11 DEF TypeOK, Tasks, LockInv, BookInv, CallInv, ReportInv,
     CountInv, Parts, OwnCancel, Running, locals, reports, store, books,
     history, CancelsDone, Goto
<1>12. ASSUME PlaceSend
       PROVE  CountInv'
  <2>1. PICK i \in toPlace : \/ PlaceRests(target[i]) \/ PlaceFills(target[i])
                           \/ PlaceRefused
    BY <1>12 DEF PlaceSend
  <2>2. /\ \A t \in {"quoter", "cleaner"} :
              pc[t] # "cancelRet" /\ pc'[t] # "cancelRet"
        /\ UNCHANGED <<cancels, fills, terminals, swept, filling>>
    BY <1>12 DEF PlaceSend, Goto, TypeOK, Tasks, LockInv, reports, store
  <2>3. target[i] # NoQuote
    BY <2>1, TargetLevel DEF TypeOK
  <2>4. \A o \in Orders : OwnCancel(o)' <=> OwnCancel(o)
    BY <2>2 DEF OwnCancel
  <2>5. ASSUME NEW f \in Fresh, quoteOf' = [quoteOf EXCEPT ![f] = target[i]],
               \A o \in Orders \ {f} : resting'[o] = resting[o]
                                      /\ due'[o] = due[o],
               resting'[f] + due'[f] = FullSize,
               resting'[f] \in Nat, due'[f] \in Nat
        PROVE  CountInv'
    <3>1. /\ fills[f] = 0 /\ filling # f /\ f \in Orders
          /\ cancels[f] = 0 /\ ~OwnCancel(f) /\ cancels[f] <= terminals[f]
      BY <2>2, <2>5 DEF Fresh, CountInv, BookInv, ReportInv, OwnCancel, TypeOK
    <3>2. ASSUME NEW o \in Orders, o # f
          PROVE  Parts(o)' = Parts(o) /\ quoteOf'[o] = quoteOf[o]
      BY <2>2, <2>5, <3>2 DEF Parts, Fresh, TypeOK
    <3>3. Parts(f)' = FullSize /\ quoteOf'[f] # NoQuote
      BY <2>2, <2>3, <2>5, <3>1 DEF Parts, Fresh, TypeOK
    <3>4. QED
      BY <2>2, <2>4, <3>1, <3>2, <3>3 DEF CountInv
  <2>6. CASE PlaceRests(target[i])
    <3>1. PICK f \in Fresh : /\ quoteOf' = [quoteOf EXCEPT ![f] = target[i]]
                             /\ resting' = [resting EXCEPT ![f] = FullSize]
                             /\ UNCHANGED due
      BY <2>6 DEF PlaceRests
    <3>2. f \in Orders /\ resting[f] = 0 /\ due[f] = 0
      BY <3>1 DEF Fresh, BookInv
    <3>3. /\ \A o \in Orders \ {f} : resting'[o] = resting[o] /\ due'[o] = due[o]
          /\ resting'[f] + due'[f] = FullSize
          /\ resting'[f] \in Nat /\ due'[f] \in Nat
      BY <3>1, <3>2 DEF TypeOK
    <3>4. QED
      BY <2>5, <3>1, <3>3
  <2>7. CASE PlaceFills(target[i])
    <3>1. PICK f \in Fresh : /\ quoteOf' = [quoteOf EXCEPT ![f] = target[i]]
                             /\ due' = [due EXCEPT ![f] = FullSize]
                             /\ UNCHANGED resting
      BY <2>7 DEF PlaceFills
    <3>2. f \in Orders /\ resting[f] = 0 /\ due[f] = 0
      BY <3>1 DEF Fresh, BookInv
    <3>3. /\ \A o \in Orders \ {f} : resting'[o] = resting[o] /\ due'[o] = due[o]
          /\ resting'[f] + due'[f] = FullSize
          /\ resting'[f] \in Nat /\ due'[f] \in Nat
      BY <3>1, <3>2 DEF TypeOK
    <3>4. QED
      BY <2>5, <3>1, <3>3
  <2>8. CASE PlaceRefused
    BY <2>2, <2>4, <2>8 DEF PlaceRefused, books, CountInv, Parts
  <2>9. QED
    BY <2>1, <2>6, <2>7, <2>8
<1>13. ASSUME PlaceReturn
       PROVE  CountInv'
  BY <1>13 DEF TypeOK, Tasks, LockInv, BookInv, CallInv, ReportInv,
     CountInv, Parts, OwnCancel, Running, locals, reports, store, books,
     history, PlaceReturn, Goto, Record, Plus1
<1>14. ASSUME UpdateDone
       PROVE  CountInv'
  BY <1>14 DEF TypeOK, Tasks, LockInv, BookInv, CallInv, ReportInv,
     CountInv, Parts, OwnCancel, Running, locals, reports, store, books,
     history, UpdateDone, Goto
<1>15. ASSUME NEW t \in {"quoter", "killer"}, CallCancelAll(t)
       PROVE  CountInv'
  BY <1>15 DEF TypeOK, Tasks, LockInv, BookInv, CallInv, ReportInv,
     CountInv, Parts, OwnCancel, Running, locals, reports, store, books,
     history, CallCancelAll, Goto
<1>16. ASSUME NEW t \in {"quoter", "killer"}, LockForCancelAll(t)
       PROVE  CountInv'
  BY <1>16 DEF TypeOK, Tasks, LockInv, BookInv, CallInv, ReportInv,
     CountInv, Parts, OwnCancel, Running, locals, reports, store, books,
     history, LockForCancelAll, Goto
<1>17. ASSUME CallSuppressed
       PROVE  CountInv'
  BY <1>17 DEF TypeOK, Tasks, LockInv, BookInv, CallInv, ReportInv,
     CountInv, Parts, OwnCancel, Running, locals, reports, store, books,
     history, CallSuppressed, Goto
<1>18. ASSUME NEW t \in {"quoter", "killer"}, ReadOpen(t)
       PROVE  CountInv'
  BY <1>18 DEF TypeOK, Tasks, LockInv, BookInv, CallInv, ReportInv,
     CountInv, Parts, OwnCancel, Running, locals, reports, store, books,
     history, ReadOpen, Goto
<1>19. ASSUME NEW t \in {"quoter", "killer"}, BulkCancel(t)
       PROVE  CountInv'
  BY <1>19 DEF TypeOK, Tasks, LockInv, BookInv, CallInv, ReportInv,
     CountInv, Parts, OwnCancel, Running, locals, reports, store, books,
     history, BulkCancel, Goto
<1>20. ASSUME NEW t \in {"quoter", "killer"}, ClearActive(t)
       PROVE  CountInv'
  BY <1>20 DEF TypeOK, Tasks, LockInv, BookInv, CallInv, ReportInv,
     CountInv, Parts, OwnCancel, Running, locals, reports, store, books,
     history, ClearActive, Goto, ReportCancelled, Record, Plus1
<1>21. ASSUME NEW stale \in SUBSET tracked, CleanStart(stale)
       PROVE  CountInv'
  BY <1>21 DEF TypeOK, Tasks, LockInv, BookInv, CallInv, ReportInv,
     CountInv, Parts, OwnCancel, Running, locals, reports, store, books,
     history, CleanStart, Goto
<1>22. ASSUME CleanDone
       PROVE  CountInv'
  BY <1>22 DEF TypeOK, Tasks, LockInv, BookInv, CallInv, ReportInv,
     CountInv, Parts, OwnCancel, Running, locals, reports, store, books,
     history, CleanDone, Goto
<1>23. ASSUME NEW t \in {"quoter", "cleaner"}, MetaFails(t)
       PROVE  CountInv'
  BY <1>23 DEF TypeOK, Tasks, LockInv, BookInv, CallInv, ReportInv,
     CountInv, Parts, OwnCancel, Running, locals, reports, store, books,
     history, MetaFails, Goto
<1>24. CASE UNCHANGED vars
  BY <1>24 DEF CountInv, Parts, OwnCancel, vars, locals, reports, store, books,
     history
<1>25. QED
  BY <1>1, <1>2, <1>3, <1>4, <1>5, <1>6, <1>7, <1>8, <1>9, <1>10, <1>11,
     <1>12, <1>13, <1>14, <1>15, <1>16, <1>17, <1>18, <1>19, <1>20, <1>21,
     <1>22, <1>23, <1>24
     DEF Next, Exchange, Starter, Canceller, CancelAll, Sweep, Quoter, Cleaner

----------------------------------------------------------------------------
LEMMA InitSafety == Init => SafetyInv
<1> SUFFICES ASSUME Init PROVE SafetyInv
  OBVIOUS
<1>1. TypeOK
  BY InitType
<1>2. ~Running /\ pc["starter"] = "get"
  BY DEF Init, Running, Tasks
<1>3. \A t \in {"quoter", "killer", "cleaner"} : pc[t] = "idle"
  BY DEF Init, Tasks
<1>4. LockInv
  BY <1>2, <1>3 DEF Init, LockInv
<1>5. BookInv
  BY DEF Init, BookInv
<1>6. CallInv
  BY <1>3 DEF Init, CallInv, Tasks
<1>7. SweepInv
  BY <1>2, <1>3 DEF SweepInv
<1>8. NoOrphan
  BY <1>2 DEF NoOrphan
<1>9. OneOrderPerLevel
  BY <1>3 DEF OneOrderPerLevel, Updating
<1>10. QED
  BY <1>1, <1>4, <1>5, <1>6, <1>7, <1>8, <1>9 DEF SafetyInv

LEMMA SafetyStep == SafetyInv /\ [Next]_vars => SafetyInv'
BY TypeStep, LockStep, BookStep, CallStep, SweepStep, OrphanStep, LevelStep
   DEF SafetyInv

LEMMA Safety == Spec => []SafetyInv
BY InitSafety, SafetyStep, PTL DEF Spec

LEMMA InitReport == Init => ReportInv /\ OneEnd /\ CountInv
<1> SUFFICES ASSUME Init PROVE ReportInv /\ OneEnd /\ CountInv
  OBVIOUS
<1>1. \A t \in {"quoter", "killer", "cleaner"} : pc[t] = "idle"
  BY DEF Init, Tasks
<1>2. \A o \in Orders : terminals[o] = 0 /\ cancels[o] = 0 /\ fills[o] = 0
  BY DEF Init
<1>3. tracked = {} /\ opens["starter"] = {}
  BY DEF Init, Tasks
<1>4. CountInv
  BY <1>1, <1>2 DEF CountInv, Parts, OwnCancel, Init
<1>5. QED
  BY <1>1, <1>2, <1>3, <1>4 DEF ReportInv, OneEnd

(* Every variable keeps its type, whatever the exchange answers.            *)
THEOREM TypeCorrect == Spec => []TypeOK
BY Safety, PTL DEF SafetyInv

(* The manager never forgets an order that no fill touched and no API call  *)
(* failed on: start-up reconciliation, the diff, the cancels, the cancel-all*)
(* and the stale clean-up each leave it on the active list or take it off   *)
(* the book, suppressed QuoteSets and their missing lock included.          *)
THEOREM NothingForgotten == Spec => []NoOrphan
BY Safety, PTL DEF SafetyInv

(* Every untouched order that an update does not cancel stands within the   *)
(* tolerance of a level of the QuoteSet, and each has a level of its own.   *)
THEOREM OwnLevels == Spec => []OneOrderPerLevel
BY Safety, PTL DEF SafetyInv

(* Without suppressed QuoteSets, the one path to _cancel_all_active that    *)
(* does not take the lock is closed, and the lock does what its name says.  *)
THEOREM LockExcludes == ~Suppresses => (Spec => []Exclusive)
<1> SUFFICES ASSUME ~Suppresses PROVE Spec => []Exclusive
  OBVIOUS
<1>1. SafetyInv => Exclusive
  <2> SUFFICES ASSUME SafetyInv, NEW t1 \in Tasks, NEW t2 \in Tasks,
                      Critical(t1), Critical(t2)
               PROVE  t1 = t2
    BY DEF Exclusive
  <2>1. ASSUME NEW t \in Tasks, Critical(t) PROVE lock = t
    BY <2>1 DEF SafetyInv, LockInv, Critical, Tasks, TypeOK, PcOf
  <2>2. QED
    BY <2>1
<1>2. QED
  BY <1>1, Safety, PTL

(* Without suppressed QuoteSets, no fill, cancel, clean-up and cancel-all   *)
(* ever record the end of one order twice, and the metrics never count an   *)
(* order its own cancel took off the book as filled for its whole size.     *)
THEOREM EndedOnce == ~Suppresses => (Spec => []EndsOnce)
<1> SUFFICES ASSUME ~Suppresses PROVE Spec => []EndsOnce
  OBVIOUS
<1>1. SafetyInv /\ ReportInv /\ OneEnd /\ CountInv /\ [Next]_vars
         => (ReportInv /\ OneEnd /\ CountInv)'
  BY ReportStep, EndsStep, CountStep DEF SafetyInv
<1>2. TypeOK /\ OneEnd /\ CountInv => EndsOnce
  <2> SUFFICES ASSUME TypeOK, OneEnd, CountInv, NEW o \in Orders
               PROVE  /\ terminals[o] <= 1 /\ cancels[o] <= terminals[o]
                      /\ cancels[o] > 0 /\ o \notin swept
                            => fills[o] < FullSize
    BY DEF EndsOnce
  <2>1. fills[o] <= Parts(o)
    BY DEF TypeOK, Parts
  <2>2. Parts(o) \in Nat /\ fills[o] \in Nat
    BY DEF TypeOK, Parts
  <2>3. QED
    BY <2>1, <2>2 DEF OneEnd, CountInv, OwnCancel
<1>3. QED
  BY <1>1, <1>2, InitReport, Safety, PTL DEF Spec, SafetyInv

(* An order that left the book does not stay on the active list unnoticed:  *)
(* its fill is coming, its cancel or a cancel-all is under way, or its fill *)
(* was one that the first snapshot swallowed.                               *)
THEOREM NoGhosts == Spec => []NoGhost
<1>1. Init => NoGhost /\ GhostInv
  <2> SUFFICES ASSUME Init PROVE NoGhost /\ GhostInv
    OBVIOUS
  <2>1. ~Running /\ pc["starter"] = "get" /\ pc["quoter"] = "idle"
    BY DEF Init, Running, Tasks
  <2>2. QED
    BY <2>1 DEF NoGhost, GhostInv
<1>2. SafetyInv /\ NoGhost /\ GhostInv /\ [Next]_vars => (NoGhost /\ GhostInv)'
  BY GhostStep DEF SafetyInv
<1>3. QED
  BY <1>1, <1>2, Safety, PTL DEF Spec
============================================================================
