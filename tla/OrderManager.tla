---------------------------- MODULE OrderManager ----------------------------
(***************************************************************************)
(* The order manager of the market-making bot (src/src/order_manager.py),  *)
(* the exchange it talks to through the client, and the fills that come    *)
(* back over the userFills WebSocket.                                      *)
(*                                                                         *)
(* The bot is one asyncio event loop: a task runs until it awaits.  Every  *)
(* await on the exchange is two steps here, the one in which the exchange  *)
(* acts on the request and the one in which the task resumes with the      *)
(* answer, so that the other tasks, the exchange and the fills run in      *)
(* between.  A task suspended on the asyncio.Lock is a task whose next     *)
(* action has "lock = Free" as a guard.                                    *)
(*                                                                         *)
(* A QuoteSet is a tuple of levels, each a side and a price; two levels    *)
(* may have one price or lie within price_tolerance of each other.         *)
(***************************************************************************)
EXTENDS Integers, Functions

CONSTANTS
    Orders,      \* the oids the exchange can give out
    Leftover,    \* orders an earlier process of the bot left on the book
    Quotes,      \* the quotes of a level: side and price, in price steps
    Tolerance,   \* price_tolerance, in price steps
    FullSize,    \* the size of an order, in the smallest fills
    MaxQuotes,   \* quotes of one QuoteSet: two sides of order_levels each
    Suppresses,  \* can the quote engine suppress a QuoteSet (max_spread)?
    NoOrder, NoQuote, Free

ASSUME OrderManagerAssumption ==
    /\ Leftover \subseteq Orders
    /\ Quotes \subseteq [side : {"bid", "ask"}, price : Nat]
    /\ Tolerance \in Nat
    /\ FullSize \in Nat \ {0}
    /\ MaxQuotes \in Nat
    /\ Suppresses \in BOOLEAN
    /\ NoOrder \notin Orders
    /\ NoQuote \notin Quotes
    /\ Free \notin {"starter", "quoter", "killer", "cleaner"}

VARIABLES
    tracked,     \* _active: the oids the manager believes are on the book
    lock,        \* _lock: the task that holds it, or Free
    pc,          \* where each task is suspended
    toCancel,    \* cancel_targets (quoter) and stale (cleaner), not yet done
    toPlace,     \* place_targets not yet sent: levels of the target
    target,      \* the levels of the QuoteSet update_quotes was called with
    cur,         \* the order of the API call in flight, per task
    resp,        \* the answer to that call
    opens,       \* the list get_open_orders returned, per task
    filling,     \* the order of the fill handle_fill was called with
    status,      \* the status column of the orders table
    terminals,   \* how often an order was recorded cancelled or filled
    cancels,     \* on_order_cancelled calls for an order, counted by metrics
    fills,       \* on_fill calls for an order, counted by metrics
    quoteOf,     \* exchange: the quote of an order that was ever accepted
    resting,     \* exchange: the size still on the book
    due,         \* fills the exchange made and the bot has not handled yet
    snapshotted, \* _snapshot_received of the inventory's WebSocket
    faulted,     \* history: orders some API call about which failed
    missed,      \* history: orders with a fill the manager never heard of
    swept        \* history: orders a cancel-all took off the active list

books == <<quoteOf, resting, due>>
store == <<status, terminals>>
reports == <<store, cancels, fills>>
locals == <<toCancel, toPlace, target, cur, resp, opens>>
history == <<faulted, missed, swept>>
vars == <<tracked, lock, pc, locals, filling, reports, books,
          snapshotted, history>>

Tasks == {"starter", "quoter", "killer", "cleaner"}
Running == pc["starter"] = "done"
OnBook == {o \in Orders : resting[o] > 0}
Targets == UNION {[1 .. n -> Quotes] : n \in 0 .. MaxQuotes}
Fresh == {o \in Orders : quoteOf[o] = NoQuote}

Labels == {"get", "sync", "done", "idle", "lock", "cancel", "cancelRet",
           "place", "placeRet", "allLock", "read", "bulk", "clear"}

PcOf(t) ==
    CASE t = "starter" -> {"get", "sync", "done"}
      [] t = "quoter"  -> {"idle", "lock", "cancel", "cancelRet", "place",
                           "placeRet", "allLock", "read", "bulk", "clear"}
      [] t = "killer"  -> {"idle", "allLock", "read", "bulk", "clear"}
      [] t = "cleaner" -> {"idle", "cancel", "cancelRet"}

TypeOK ==
    /\ tracked \subseteq Orders
    /\ lock \in Tasks \cup {Free}
    /\ pc \in [Tasks -> Labels]
    /\ \A t \in Tasks : pc[t] \in PcOf(t)
    /\ toCancel \in [Tasks -> SUBSET Orders]
    /\ target \in Targets
    /\ toPlace \subseteq DOMAIN target
    /\ cur \in [Tasks -> Orders \cup {NoOrder}]
    /\ resp \in [Tasks -> {"none", "success", "refused", "error",
                           "resting", "filled", "rejected"}]
    /\ opens \in [Tasks -> SUBSET Orders]
    /\ filling \in Orders \cup {NoOrder}
    /\ status \in [Orders -> {"none", "placed", "cancelled", "filled"}]
    /\ terminals \in [Orders -> Nat]
    /\ cancels \in [Orders -> Nat]
    /\ fills \in [Orders -> Nat]
    /\ quoteOf \in [Orders -> Quotes \cup {NoQuote}]
    /\ resting \in [Orders -> 0 .. FullSize]
    /\ due \in [Orders -> Nat]
    /\ snapshotted \in BOOLEAN
    /\ faulted \subseteq Orders
    /\ missed \subseteq Orders
    /\ swept \subseteq Orders

(* start_components reaches order_manager.start with the inventory's        *)
(* WebSocket already running; the rest of the tasks follow.                 *)
Init ==
    /\ tracked = {}
    /\ lock = Free
    /\ pc = [t \in Tasks |-> IF t = "starter" THEN "get" ELSE "idle"]
    /\ toCancel = [t \in Tasks |-> {}]
    /\ toPlace = {}
    /\ target = <<>>
    /\ cur = [t \in Tasks |-> NoOrder]
    /\ resp = [t \in Tasks |-> "none"]
    /\ opens = [t \in Tasks |-> {}]
    /\ filling = NoOrder
    /\ status = [o \in Orders |-> "none"]
    /\ terminals = [o \in Orders |-> 0]
    /\ cancels = [o \in Orders |-> 0]
    /\ fills = [o \in Orders |-> 0]
    /\ quoteOf \in [Orders -> Quotes \cup {NoQuote}]
    /\ \A o \in Orders : quoteOf[o] = NoQuote <=> o \notin Leftover
    /\ resting = [o \in Orders |-> IF o \in Leftover THEN FullSize ELSE 0]
    /\ due = [o \in Orders |-> 0]
    /\ snapshotted = FALSE
    /\ faulted = {}
    /\ missed = {}
    /\ swept = {}

(* Leaving "async with self._lock": the lock is free again, unless the task  *)
(* came through a suppressed update_quotes and never held it.               *)
NotReleased(t) == lock
Released(t) == IF lock = t THEN Free ELSE lock

Goto(t, label) == pc' = [pc EXCEPT ![t] = label]

Plus1(count, os) == [o \in Orders |-> IF o \in os THEN count[o] + 1
                                                 ELSE count[o]]

(* _record_status of an order's end: the last status wins.                  *)
Record(os, s) ==
    /\ status' = [o \in Orders |-> IF o \in os THEN s ELSE status[o]]
    /\ terminals' = Plus1(terminals, os)

(* A cancelled order is recorded and the metrics are called.                *)
ReportCancelled(os) ==
    /\ Record(os, "cancelled")
    /\ cancels' = Plus1(cancels, os)
    /\ UNCHANGED fills

----------------------------------------------------------------------------
(* The exchange and the fill stream.                                        *)

ExchangeFill(o) ==
    /\ resting[o] > 0
    /\ resting' = [resting EXCEPT ![o] = @ - 1]
    /\ due' = [due EXCEPT ![o] = @ + 1]
    /\ UNCHANGED <<tracked, lock, pc, locals, filling, reports, quoteOf,
                   snapshotted, history>>

(* The first snapshot of the stream is only marked as seen: its fills reach *)
(* no callback.                                                             *)
FirstSnapshot ==
    /\ ~snapshotted
    /\ snapshotted' = TRUE
    /\ missed' = missed \cup {o \in Orders : due[o] > 0}
    /\ due' = [o \in Orders |-> 0]
    /\ UNCHANGED <<tracked, lock, pc, locals, filling, reports, quoteOf,
                   resting, faulted, swept>>

DeliverFill(o) ==
    /\ snapshotted
    /\ filling = NoOrder
    /\ due[o] > 0
    /\ due' = [due EXCEPT ![o] = @ - 1]
    /\ filling' = o
    /\ UNCHANGED <<tracked, lock, pc, locals, reports, quoteOf, resting,
                   snapshotted, history>>

FillEntersAnyway == TRUE
FillMayEnter == lock = Free

(* handle_fill: the first fill of an order, partial or not, drops it and    *)
(* records it.  The metrics count every fill, those of an order that is not *)
(* on the list ("cancelled-then-filled race") included.                     *)
HandleFill ==
    /\ filling # NoOrder
    /\ FillMayEnter
    /\ IF filling \in tracked
       THEN /\ tracked' = tracked \ {filling}
            /\ Record({filling}, "filled")
       ELSE UNCHANGED <<tracked, store>>
    /\ fills' = Plus1(fills, {filling})
    /\ missed' = IF filling \notin tracked /\ ~Running
                 THEN missed \cup {filling} ELSE missed
    /\ filling' = NoOrder
    /\ UNCHANGED <<lock, pc, locals, cancels, books, snapshotted, faulted,
                   swept>>

----------------------------------------------------------------------------
(* reconcile, which only start() calls.                                     *)

ReconcileGet ==
    /\ pc["starter"] = "get"
    /\ \/ /\ opens' = [opens EXCEPT !["starter"] = OnBook]
          /\ Goto("starter", "sync")
          /\ UNCHANGED faulted
       \/ /\ faulted' = faulted \cup OnBook
          /\ Goto("starter", "done")
          /\ UNCHANGED opens
    /\ UNCHANGED <<tracked, lock, toCancel, toPlace, target, cur, resp, filling,
                   reports, books, snapshotted, missed, swept>>

AdoptsNothing(os) == tracked \cap os
Adopt(os) == os

ReconcileSync ==
    /\ pc["starter"] = "sync"
    /\ lock = Free
    /\ tracked' = Adopt(opens["starter"])
    /\ opens' = [opens EXCEPT !["starter"] = {}]
    /\ Goto("starter", "done")
    /\ UNCHANGED <<lock, toCancel, toPlace, target, cur, resp, filling, reports,
                   books, snapshotted, history>>

----------------------------------------------------------------------------
(* update_quotes: diff under the lock, cancel, then place.                  *)

CallUpdate(levels) ==
    /\ Running
    /\ pc["quoter"] = "idle"
    /\ target' = levels
    /\ Goto("quoter", "lock")
    /\ UNCHANGED <<tracked, lock, toCancel, toPlace, cur, resp, opens, filling,
                   reports, books, snapshotted, history>>

(* _diff_side: level after level takes an unused order of its side within   *)
(* the tolerance, so a level without one found them all taken by levels     *)
(* before it.  Which of several it takes depends on the order of the list,  *)
(* which the model leaves open.                                             *)
Near(q1, q2) == /\ q1.side = q2.side
                /\ q1.price - q2.price \in -Tolerance .. Tolerance

IsDiff(match) ==
    /\ \A i \in DOMAIN match : Near(quoteOf[match[i]], target[i])
    /\ \A i \in DOMAIN target \ DOMAIN match : \A o \in tracked :
          Near(quoteOf[o], target[i]) =>
              \E j \in DOMAIN match : j < i /\ match[j] = o

PlacesAll(match) == DOMAIN target
Unmatched(match) == DOMAIN target \ DOMAIN match

Diff ==
    /\ pc["quoter"] = "lock"
    /\ lock = Free
    /\ \E kept \in SUBSET DOMAIN target :
          \E match \in Injection(kept, tracked) :
              /\ IsDiff(match)
              /\ toCancel' = [toCancel EXCEPT
                                 !["quoter"] = tracked \ Range(match)]
              /\ toPlace' = Unmatched(match)
    /\ lock' = "quoter"
    /\ Goto("quoter", "cancel")
    /\ UNCHANGED <<tracked, target, cur, resp, opens, filling, reports, books,
                   snapshotted, history>>

(* The exchange's answer to a cancel: the order goes, the cancel is refused *)
(* because it was gone already or because it is not yet acknowledged and    *)
(* stays, or the call fails, whatever its attempts did.  A cancel whose     *)
(* answer is lost is sent again and refused.                                *)
CancelSend(t) ==
    /\ pc[t] = "cancel"
    /\ \E o \in toCancel[t] :
          /\ cur' = [cur EXCEPT ![t] = o]
          /\ toCancel' = [toCancel EXCEPT ![t] = @ \ {o}]
          /\ \/ /\ resting[o] > 0
                /\ \E r \in {"success", "refused"} :
                      resp' = [resp EXCEPT ![t] = r]
                /\ resting' = [resting EXCEPT ![o] = 0]
                /\ UNCHANGED faulted
             \/ /\ resp' = [resp EXCEPT ![t] = "refused"]
                /\ faulted' = IF resting[o] > 0 THEN faulted \cup {o}
                                               ELSE faulted
                /\ UNCHANGED resting
             \/ /\ resp' = [resp EXCEPT ![t] = "error"]
                /\ faulted' = faulted \cup {o}
                /\ resting' \in {resting, [resting EXCEPT ![o] = 0]}
    /\ Goto(t, "cancelRet")
    /\ UNCHANGED <<tracked, lock, toPlace, target, opens, filling, reports,
                   quoteOf, due, snapshotted, missed, swept>>

KeepsOnList(t) == tracked
Popped(t) == tracked \ {cur[t]}

(* _cancel_single and the pop after it, whatever the answer.  Only a        *)
(* "success" is recorded: the client turns a rejected cancel into the plain *)
(* answer False.                                                            *)
CancelReturn(t) ==
    /\ pc[t] = "cancelRet"
    /\ tracked' = Popped(t)
    /\ IF resp[t] = "success" THEN ReportCancelled({cur[t]})
                              ELSE UNCHANGED reports
    /\ cur' = [cur EXCEPT ![t] = NoOrder]
    /\ resp' = [resp EXCEPT ![t] = "none"]
    /\ Goto(t, "cancel")
    /\ UNCHANGED <<lock, toCancel, toPlace, target, opens, filling, books,
                   snapshotted, history>>

(* cancel_order and place_order read the asset's metadata first, fetched    *)
(* again every five minutes without the client's retries: an exception of   *)
(* that fetch ends the update or the clean-up where it stands.              *)
MetaFails(t) ==
    /\ \/ pc[t] = "cancel" /\ toCancel[t] # {}
       \/ pc[t] = "place" /\ toPlace # {}
    /\ toCancel' = [toCancel EXCEPT ![t] = {}]
    /\ IF t = "quoter" THEN toPlace' = {} /\ target' = <<>>
                       ELSE UNCHANGED <<toPlace, target>>
    /\ lock' = Released(t)
    /\ Goto(t, "idle")
    /\ UNCHANGED <<tracked, cur, resp, opens, filling, reports, books,
                   snapshotted, history>>

CancelsDone ==
    /\ pc["quoter"] = "cancel"
    /\ toCancel["quoter"] = {}
    /\ Goto("quoter", "place")
    /\ UNCHANGED <<tracked, lock, locals, filling, reports, books,
                   snapshotted, history>>

(* The exchange's answer to a post-only order: it rests, it fills at once,  *)
(* or it is refused.  An order accepted by an attempt whose answer was lost *)
(* is on the book although the call fails: the retry carries the same cloid *)
(* and is refused as a duplicate.                                           *)
PlaceRests(q) ==
    \E o \in Fresh, r \in {"resting", "error"} :
        /\ quoteOf' = [quoteOf EXCEPT ![o] = q]
        /\ resting' = [resting EXCEPT ![o] = FullSize]
        /\ cur' = [cur EXCEPT !["quoter"] = o]
        /\ resp' = [resp EXCEPT !["quoter"] = r]
        /\ faulted' = IF r = "error" THEN faulted \cup {o} ELSE faulted
        /\ UNCHANGED due

PlaceFills(q) ==
    \E o \in Fresh :
        /\ quoteOf' = [quoteOf EXCEPT ![o] = q]
        /\ due' = [due EXCEPT ![o] = FullSize]
        /\ cur' = [cur EXCEPT !["quoter"] = o]
        /\ resp' = [resp EXCEPT !["quoter"] = "filled"]
        /\ UNCHANGED <<resting, faulted>>

PlaceRefused ==
    /\ resp' = [resp EXCEPT !["quoter"] = "rejected"]
    /\ UNCHANGED <<books, cur, faulted>>

PlaceSend ==
    /\ pc["quoter"] = "place"
    /\ \E i \in toPlace :
          /\ toPlace' = toPlace \ {i}
          /\ PlaceRests(target[i]) \/ PlaceFills(target[i]) \/ PlaceRefused
    /\ Goto("quoter", "placeRet")
    /\ UNCHANGED <<tracked, lock, toCancel, target, opens, filling, reports,
                   snapshotted, missed, swept>>

AlwaysAccepted == TRUE
Accepted == resp["quoter"] = "resting"

(* _place_single and the insertion into _active.  An order that filled at   *)
(* once is recorded and never listed; its fills follow on the stream.       *)
PlaceReturn ==
    /\ pc["quoter"] = "placeRet"
    /\ LET o == cur["quoter"] IN
       \/ /\ Accepted
          /\ tracked' = tracked \cup {o}
          /\ status' = [status EXCEPT ![o] = "placed"]
          /\ UNCHANGED terminals
       \/ /\ resp["quoter"] = "filled"
          /\ Record({o}, "filled")
          /\ UNCHANGED tracked
       \/ /\ resp["quoter"] \in {"rejected", "error"}
          /\ UNCHANGED <<tracked, store>>
    /\ cur' = [cur EXCEPT !["quoter"] = NoOrder]
    /\ resp' = [resp EXCEPT !["quoter"] = "none"]
    /\ Goto("quoter", "place")
    /\ UNCHANGED <<lock, toCancel, toPlace, target, opens, filling, cancels,
                   fills, books, snapshotted, history>>

UpdateDone ==
    /\ pc["quoter"] = "place"
    /\ toPlace = {}
    /\ lock' = Released("quoter")
    /\ target' = <<>>
    /\ Goto("quoter", "idle")
    /\ UNCHANGED <<tracked, toCancel, toPlace, cur, resp, opens, filling,
                   reports, books, snapshotted, history>>

----------------------------------------------------------------------------
(* cancel_all (emergency close, shutdown, a paused quote loop) takes the    *)
(* lock; a suppressed update_quotes calls _cancel_all_active without it.    *)

CallCancelAll(t) ==
    /\ t \in {"quoter", "killer"}
    /\ Running
    /\ pc[t] = "idle"
    /\ Goto(t, "allLock")
    /\ UNCHANGED <<tracked, lock, locals, filling, reports, books,
                   snapshotted, history>>

EntersAnyway == TRUE
LockFree == lock = Free

LockForCancelAll(t) ==
    /\ pc[t] = "allLock"
    /\ LockFree
    /\ lock' = t
    /\ Goto(t, "read")
    /\ UNCHANGED <<tracked, locals, filling, reports, books,
                   snapshotted, history>>

CallSuppressed ==
    /\ Suppresses
    /\ Running
    /\ pc["quoter"] = "idle"
    /\ Goto("quoter", "read")
    /\ UNCHANGED <<tracked, lock, locals, filling, reports, books,
                   snapshotted, history>>

(* cancel_all_orders of the client, first call: get_open_orders.            *)
ReadOpen(t) ==
    /\ pc[t] = "read"
    /\ \/ /\ opens' = [opens EXCEPT ![t] = OnBook]
          /\ Goto(t, IF OnBook = {} THEN "clear" ELSE "bulk")
          /\ UNCHANGED faulted
       \/ /\ faulted' = faulted \cup OnBook
          /\ Goto(t, "clear")
          /\ UNCHANGED opens
    /\ UNCHANGED <<tracked, lock, toCancel, toPlace, target, cur, resp, filling,
                   reports, books, snapshotted, missed, swept>>

(* Second call: bulk_cancel of the orders read.  The exchange answers for   *)
(* each of them, and nobody looks at the refusals; a call that fails may    *)
(* have cancelled any of them too.                                          *)
BulkCancel(t) ==
    /\ pc[t] = "bulk"
    /\ \E gone \in SUBSET opens[t] :
          /\ resting' = [o \in Orders |-> IF o \in gone THEN 0 ELSE resting[o]]
          /\ faulted' = faulted \cup (opens[t] \ gone)
    /\ Goto(t, "clear")
    /\ UNCHANGED <<tracked, lock, locals, filling, reports, quoteOf, due,
                   snapshotted, missed, swept>>

KeepsList == tracked
Cleared == {}

ClearActive(t) ==
    /\ pc[t] = "clear"
    /\ ReportCancelled(tracked)
    /\ swept' = swept \cup tracked
    /\ tracked' = Cleared
    /\ opens' = [opens EXCEPT ![t] = {}]
    /\ lock' = Released(t)
    /\ Goto(t, "idle")
    /\ UNCHANGED <<toCancel, toPlace, target, cur, resp, filling, books,
                   snapshotted, faulted, missed>>

----------------------------------------------------------------------------
(* cancel_stale_orders, every cleanup interval: any part of the active list *)
(* can be older than max_order_age_seconds.                                 *)

CleanStart(stale) ==
    /\ Running
    /\ pc["cleaner"] = "idle"
    /\ lock = Free
    /\ stale # {}
    /\ lock' = "cleaner"
    /\ toCancel' = [toCancel EXCEPT !["cleaner"] = stale]
    /\ Goto("cleaner", "cancel")
    /\ UNCHANGED <<tracked, toPlace, target, cur, resp, opens, filling, reports,
                   books, snapshotted, history>>

CleanDone ==
    /\ pc["cleaner"] = "cancel"
    /\ toCancel["cleaner"] = {}
    /\ lock' = Released("cleaner")
    /\ Goto("cleaner", "idle")
    /\ UNCHANGED <<tracked, locals, filling, reports, books,
                   snapshotted, history>>

----------------------------------------------------------------------------

Exchange == \/ \E o \in Orders : ExchangeFill(o) \/ DeliverFill(o)
            \/ FirstSnapshot
Starter == ReconcileGet \/ ReconcileSync
Canceller == \E t \in {"quoter", "cleaner"} :
                CancelSend(t) \/ CancelReturn(t) \/ MetaFails(t)
Sweep(t) == ReadOpen(t) \/ BulkCancel(t) \/ ClearActive(t)
CancelAll == \E t \in {"quoter", "killer"} :
                CallCancelAll(t) \/ LockForCancelAll(t) \/ Sweep(t)
Quoter == \/ \E levels \in Targets : CallUpdate(levels)
          \/ CallSuppressed \/ Diff \/ CancelsDone
          \/ PlaceSend \/ PlaceReturn \/ UpdateDone
Cleaner == (\E stale \in SUBSET tracked : CleanStart(stale)) \/ CleanDone
QuoterRuns == \/ CancelSend("quoter") \/ CancelReturn("quoter") \/ CancelsDone
              \/ PlaceSend \/ PlaceReturn \/ UpdateDone \/ Sweep("quoter")
CleanerRuns == CancelSend("cleaner") \/ CancelReturn("cleaner") \/ CleanDone
CleanUpOf(o) == \E stale \in SUBSET tracked : o \in stale /\ CleanStart(stale)

Next == Exchange \/ HandleFill \/ Starter \/ Canceller \/ CancelAll \/ Quoter
        \/ Cleaner

Spec == Init /\ [][Next]_vars

(* API calls end (the client's retries are bounded), a task that can run is *)
(* run, and the FIFO queue of asyncio.Lock lets no waiter be overtaken for  *)
(* ever: strong fairness for the two waits the liveness properties rest on. *)
(* The metadata can be fetched again in the end.  The exchange, the fill    *)
(* stream and the quoter's decisions owe nothing.                           *)
Fairness ==
    /\ WF_vars(Starter)
    /\ WF_vars(QuoterRuns) /\ WF_vars(CleanerRuns) /\ WF_vars(Sweep("killer"))
    /\ SF_vars(LockForCancelAll("killer"))
    /\ \A o \in Orders : SF_vars(CleanUpOf(o))
    /\ <>[][~MetaFails("cleaner")]_vars

FairSpec == Spec /\ Fairness

----------------------------------------------------------------------------
(* Properties.                                                              *)

(* Which tasks are inside the code the lock is there to protect: the body   *)
(* of update_quotes and of cancel_stale_orders, and _cancel_all_active.     *)
Critical(t) == pc[t] \in {"cancel", "cancelRet", "place", "placeRet",
                          "read", "bulk", "clear"}

(* "_cancel_all_active: _lock must already be held" (order_manager.py:376): *)
(* no two tasks are inside the protected code at once.                      *)
Exclusive == \A t1, t2 \in Tasks : Critical(t1) /\ Critical(t2) => t1 = t2

(* An order untouched by fills, no API call about which failed.             *)
Clean(o) == resting[o] = FullSize /\ o \notin faulted

(* Once the manager runs, an order on the book is on the active list or is  *)
(* the order of a placement in flight.  Only a failed call or a partial     *)
(* fill can leave an order the bot forgets.                                 *)
NoOrphan ==
    Running => \A o \in Orders :
        Clean(o) => o \in tracked \/ (pc["quoter"] = "placeRet"
                                      /\ cur["quoter"] = o)

Updating == pc["quoter"] \in {"cancel", "cancelRet", "place", "placeRet"}
Staying == {o \in Orders : Clean(o)} \ toCancel["quoter"]
Served == DOMAIN target \ toPlace

(* While an update runs, every untouched order of the bot on the book is    *)
(* about to be cancelled or stands within the tolerance of a level of the   *)
(* QuoteSet that is its own: never more orders than levels, never two for   *)
(* one level, and none for a level still to be placed, whatever fills,      *)
(* sweeps and clean-ups did before.  Only an update adds orders.            *)
OneOrderPerLevel ==
    Updating => \E m \in Injection(Staying, Served) :
                    \A o \in Staying : Near(quoteOf[o], target[m[o]])

(* An order on the active list that has left the book is on its way off the *)
(* list: its fill is coming, its cancel is in flight, or a cancel-all has   *)
(* yet to clear the list.  Fills the first snapshot swallowed are the       *)
(* exception, and GhostDropped says what becomes of them.                   *)
NoGhost ==
    Running => \A o \in tracked : resting[o] = 0 =>
        \/ due[o] > 0 \/ filling = o \/ o \in missed
        \/ \E t \in Tasks : \/ pc[t] = "clear"
                           \/ (pc[t] = "cancelRet" /\ cur[t] = o)

(* The orders table gets at most one end of an order, and the metrics count *)
(* it cancelled at most once.  They may count an order both cancelled and   *)
(* filled: a part filled before the cancel, or a cancel-all cleared it with *)
(* its fill still waiting for the lock.  But an order that its own cancel   *)
(* took off the book is never counted filled for its whole size.            *)
EndsOnce ==
    \A o \in Orders :
        /\ terminals[o] <= 1
        /\ cancels[o] <= terminals[o]
        /\ cancels[o] > 0 /\ o \notin swept => fills[o] < FullSize

(* An order that has left the book leaves the active list, even when its    *)
(* fill never reached the manager: the stale clean-up takes it.             *)
GhostDropped ==
    \A o \in Orders : (o \in tracked /\ resting[o] = 0) ~> (o \notin tracked)

(* A cancel_all that was called comes to its end whatever quoting, cleaning *)
(* and fills do with the lock.                                              *)
CancelAllCompletes == pc["killer"] = "allLock" ~> pc["killer"] = "idle"
============================================================================
