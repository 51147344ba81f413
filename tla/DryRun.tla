------------------------------- MODULE DryRun -------------------------------
(***************************************************************************)
(* The bot in dry-run mode, where it is its own exchange: the quote loop   *)
(* (src/src/main.py) with the quote engine, the order manager's updates,   *)
(* sweeps and clean-ups, the client's simulated book and position          *)
(* (src/src/hl_client.py), and the engine that fills the orders the mid    *)
(* has touched (src/src/sim_fill.py).                                      *)
(*                                                                         *)
(* The tasks share one asyncio event loop.  A step ends where a task can   *)
(* be suspended: on the manager's lock, on the store's queue when it is    *)
(* full, on the metadata when it has to be read again.  The client's own   *)
(* lock is never held across an await.                                     *)
(*                                                                         *)
(* An oid is the quote its order stands on and a serial number among the   *)
(* orders of that quote anybody still knows.                               *)
(***************************************************************************)
EXTENDS QuoteEngine, FiniteSets

CONSTANTS
    Mids,      \* the mids of the market, in half price steps
    Vols,      \* the realized volatilities, 0 for none
    Tolerance, \* price_tolerance, in price steps
    NoOrder,
    Free       \* nobody holds the lock

ASSUME DryRunAssumption ==
    /\ Mids \subseteq Nat \ {0} /\ Vols \subseteq Nat /\ Tolerance \in Nat
    /\ Free \notin {"quoter", "cleaner"}

VARIABLES
    mid,         \* current_mid of the market data
    position,    \* position_size, and the inventory's cached position
    book,        \* open_orders: the simulated book
    tracked,     \* _active: what the order manager believes is on the book
    lock,        \* _lock of the order manager
    pc,          \* where each of its two users is suspended
    target,      \* the bids and asks update_quotes was called with
    toCancel,    \* orders each user has still to cancel
    toPlace,     \* quotes still to place, with their levels
    placing,     \* the order on the book and not yet on the active list
    candidates,  \* touched orders of this tick of the fill engine
    filling      \* the order of the fill being handled

market == <<mid, position>>
quoting == <<target, toPlace, placing>>
sim == <<candidates, filling>>
vars == <<market, book, tracked, lock, pc, quoting, toCancel, sim>>

Users == {"quoter", "cleaner"}
IsOrder(o) == /\ o.side \in {"bid", "ask"}
              /\ o.price \in Nat \ {0} /\ o.serial \in Nat \ {0}

TypeOK ==
    /\ mid \in Mids /\ position \in Int
    /\ \A o \in book \cup tracked \cup candidates : IsOrder(o)
    /\ lock \in Users \cup {Free}
    /\ pc["quoter"] \in {"idle", "lock", "update", "placed", "allLock", "report"}
    /\ pc["cleaner"] \in {"idle", "update"}
    /\ \A u \in Users : lock = u <=> pc[u] \in {"update", "placed", "report"}
    /\ \A u \in Users : \A o \in toCancel[u] : IsOrder(o)
    /\ IF pc["quoter"] = "placed" THEN IsOrder(placing) ELSE placing = NoOrder
    /\ filling = NoOrder \/ IsOrder(filling)

Init ==
    /\ mid \in Mids
    /\ position = 0
    /\ book = {} /\ tracked = {}
    /\ lock = Free
    /\ pc = [u \in Users |-> "idle"]
    /\ target = [bid |-> <<>>, ask |-> <<>>]
    /\ toCancel = [u \in Users |-> {}]
    /\ toPlace = {}
    /\ placing = NoOrder
    /\ candidates = {}
    /\ filling = NoOrder

Goto(u, label) == pc' = [pc EXCEPT ![u] = label]

(* The user goes on under the lock, or it is through and leaves.            *)
NeverLeaves(u, more, label) ==
    /\ lock' = u
    /\ Goto(u, IF more THEN label ELSE "idle")
GoOn(u, more, label) ==
    /\ lock' = IF more THEN u ELSE Free
    /\ Goto(u, IF more THEN label ELSE "idle")

Known == book \cup tracked \cup candidates \cup {filling, NoOrder}
         \cup UNION {toCancel[u] : u \in Users}

(* alloc_oid: the least serial number that is free.                         *)
IsNew(o) ==
    /\ o \notin Known
    /\ \A k \in 1 .. o.serial - 1 : [o EXCEPT !.serial = k] \in Known

----------------------------------------------------------------------------
(* The market.                                                              *)

MidMoves(m) ==
    /\ m # mid
    /\ mid' = m
    /\ UNCHANGED <<position, book, tracked, lock, pc, quoting, toCancel, sim>>

----------------------------------------------------------------------------
(* quote_loop and update_quotes.                                            *)

(* One cycle: the quotes are computed from the mid and the position of this *)
(* moment, and the update waits for the lock with them.                     *)
CallUpdate(vol) ==
    /\ pc["quoter"] = "idle"
    /\ ~Suppressed(vol)
    /\ target' = [bid |-> Bids(mid, position, vol), ask |-> Asks(mid, position, vol)]
    /\ Goto("quoter", "lock")
    /\ UNCHANGED <<market, book, tracked, lock, toPlace, placing, toCancel, sim>>

(* Too wide a spread: everything goes, and nobody waits for the lock.       *)
CallSuppressed(vol) ==
    /\ pc["quoter"] = "idle"
    /\ Suppressed(vol)
    /\ book' = {} /\ tracked' = {}
    /\ UNCHANGED <<market, lock, pc, quoting, toCancel, sim>>

(* _diff_side for one side: match[i] is the active order the target at     *)
(* level i keeps, one that stands within the tolerance of its price and     *)
(* that no earlier target keeps.                                            *)
Matches(orders, prices, match) ==
    \A i \in DOMAIN prices :
        LET free == {o \in orders : /\ o.price - prices[i] \in -Tolerance .. Tolerance
                                    /\ \A j \in DOMAIN prices : j < i => match[j] # o}
        IN  IF free = {} THEN match[i] = NoOrder ELSE match[i] \in free

KeptOf(match) == {match[i] : i \in DOMAIN match} \ {NoOrder}
Unmatched(side, match) ==
    {[side |-> side, level |-> i, price |-> target[side][i]] :
        i \in {j \in DOMAIN match : match[j] = NoOrder}}

ActiveOn(side) == {o \in tracked : o.side = side}

Diff ==
    /\ pc["quoter"] = "lock"
    /\ lock = Free
    /\ \E bids \in [DOMAIN target.bid -> ActiveOn("bid") \cup {NoOrder}],
          asks \in [DOMAIN target.ask -> ActiveOn("ask") \cup {NoOrder}] :
          /\ Matches(ActiveOn("bid"), target.bid, bids)
          /\ Matches(ActiveOn("ask"), target.ask, asks)
          /\ toCancel' = [toCancel EXCEPT !["quoter"] =
                             tracked \ (KeptOf(bids) \cup KeptOf(asks))]
          /\ toPlace' = Unmatched("bid", bids) \cup Unmatched("ask", asks)
    /\ target' = [bid |-> <<>>, ask |-> <<>>]
    /\ GoOn("quoter", toCancel'["quoter"] # {} \/ toPlace' # {}, "update")
    /\ UNCHANGED <<market, book, tracked, placing, sim>>

(* _cancel_single and the pop: an order the fill engine took first is no    *)
(* longer there, and that is no error.                                      *)
Cancel(u, o) ==
    /\ pc[u] = "update"
    /\ o \in toCancel[u]
    /\ book' = book \ {o}
    /\ tracked' = tracked \ {o}
    /\ toCancel' = [toCancel EXCEPT ![u] = @ \ {o}]
    /\ GoOn(u, toCancel'[u] # {} \/ (u = "quoter" /\ toPlace # {}), "update")
    /\ UNCHANGED <<market, quoting, sim>>

PlacesFirst == TRUE
CancelsFirst == toCancel["quoter"] = {}

(* place_targets has the bids first and each side by level.                 *)
Before(q, r) == \/ q.side = "bid" /\ r.side = "ask"
                \/ q.side = r.side /\ q.level < r.level

(* _dry_place_order: the order is on the book at once ...                   *)
Place ==
    /\ pc["quoter"] = "update"
    /\ CancelsFirst
    /\ \E q \in toPlace, k \in 1 .. Cardinality(Known) + 1 :
          LET o == [side |-> q.side, price |-> q.price, serial |-> k]
          IN  /\ \A r \in toPlace : ~Before(r, q)
              /\ IsNew(o)
              /\ placing' = o
              /\ book' = book \cup {o}
              /\ toPlace' = toPlace \ {q}
    /\ Goto("quoter", "placed")
    /\ UNCHANGED <<market, tracked, lock, target, toCancel, sim>>

(* ... and on the active list when its record is in the store's queue.      *)
Placed ==
    /\ pc["quoter"] = "placed"
    /\ tracked' = tracked \cup {placing}
    /\ placing' = NoOrder
    /\ GoOn("quoter", toCancel["quoter"] # {} \/ toPlace # {}, "update")
    /\ UNCHANGED <<market, book, target, toPlace, toCancel, sim>>

(* A paused or killed bot's cycle is a cancel_all, under the lock.          *)
CallCancelAll ==
    /\ pc["quoter"] = "idle"
    /\ Goto("quoter", "allLock")
    /\ UNCHANGED <<market, book, tracked, lock, quoting, toCancel, sim>>

KeepsBook == book
Swept == {}

CancelAll ==
    /\ pc["quoter"] = "allLock"
    /\ lock = Free
    /\ book' = Swept /\ tracked' = {}
    /\ GoOn("quoter", TRUE, "report")
    /\ UNCHANGED <<market, quoting, toCancel, sim>>

Reported ==
    /\ pc["quoter"] = "report"
    /\ GoOn("quoter", FALSE, "report")
    /\ UNCHANGED <<market, book, tracked, quoting, toCancel, sim>>

----------------------------------------------------------------------------
(* cancel_stale_orders                                                      *)

CleanStart(stale) ==
    /\ pc["cleaner"] = "idle"
    /\ lock = Free
    /\ stale # {}
    /\ toCancel' = [toCancel EXCEPT !["cleaner"] = stale]
    /\ GoOn("cleaner", TRUE, "update")
    /\ UNCHANGED <<market, book, tracked, quoting, sim>>

----------------------------------------------------------------------------
(* SimulatedFillEngine.tick                                                 *)

Touched(o) == \/ o.side = "bid" /\ 2 * o.price >= mid
              \/ o.side = "ask" /\ 2 * o.price <= mid

Tick ==
    /\ candidates = {} /\ filling = NoOrder
    /\ \E o \in book : Touched(o)
    /\ candidates' = {o \in book : Touched(o)}
    /\ UNCHANGED <<market, book, tracked, lock, pc, quoting, toCancel, filling>>

(* No luck, or the order is gone by now.                                    *)
Skip(o) ==
    /\ filling = NoOrder
    /\ o \in candidates
    /\ candidates' = candidates \ {o}
    /\ UNCHANGED <<market, book, tracked, lock, pc, quoting, toCancel, filling>>

Signed(o) == IF o.side = "bid" THEN Size ELSE -Size
(* simulate_fill takes the order off the book at its own price, and         *)
(* apply_fill books it before anything else can run.                        *)
SimulateFill(o) ==
    /\ filling = NoOrder
    /\ o \in candidates
    /\ o \in book
    /\ book' = book \ {o}
    /\ position' = position + Signed(o)
    /\ candidates' = candidates \ {o}
    /\ filling' = o
    /\ UNCHANGED <<mid, tracked, lock, pc, quoting, toCancel>>

FillEntersAnyway == TRUE
FillMayEnter == lock = Free

(* handle_fill of the order manager.                                        *)
HandleFill ==
    /\ filling # NoOrder
    /\ FillMayEnter
    /\ tracked' = tracked \ {filling}
    /\ filling' = NoOrder
    /\ UNCHANGED <<market, book, lock, pc, quoting, toCancel, candidates>>

----------------------------------------------------------------------------

Cycle == CallCancelAll \/ \E vol \in Vols : CallUpdate(vol) \/ CallSuppressed(vol)
QuoterRuns == \/ \E o \in toCancel["quoter"] : Cancel("quoter", o)
              \/ Place \/ Placed \/ Reported
QuoterLocks == Diff \/ CancelAll
CleanerRuns == \E o \in toCancel["cleaner"] : Cancel("cleaner", o)
Lucky == \E o \in candidates : SimulateFill(o)
SimRuns == Tick \/ Lucky \/ \E o \in candidates : Skip(o)

Next == \/ \E m \in Mids : MidMoves(m)
        \/ Cycle \/ QuoterLocks \/ QuoterRuns
        \/ (\E stale \in SUBSET tracked : CleanStart(stale)) \/ CleanerRuns
        \/ SimRuns \/ HandleFill

Spec == Init /\ [][Next]_vars

(* The quote loop comes round again, a task that can run is run, and the    *)
(* FIFO queue of asyncio.Lock lets no waiter be overtaken for ever.  The    *)
(* market and the fills owe nothing.                                        *)
FairSpec ==
    /\ Spec
    /\ WF_vars(Cycle) /\ WF_vars(QuoterRuns) /\ WF_vars(CleanerRuns)
    /\ SF_vars(QuoterLocks)

----------------------------------------------------------------------------
(* Properties.                                                              *)

(* The order manager's list is the book whenever the lock is free and no    *)
(* fill is on its way to it, also for an order filled before it was on the  *)
(* list, cancelled while it was being filled, or swept without the lock.    *)
BooksAgree == lock = Free /\ filling = NoOrder => tracked = book

(* How far the bot can stand on both sides of itself.  Without a tolerance, *)
(* or with one below a price step, not at all: every bid is below every     *)
(* ask.  A bid kept a little off its target can reach a new ask, and by     *)
(* less than the tolerance go above it.  Nothing but the order of cancels   *)
(* and placements keeps it to that, the simulated book accepts any order.   *)
OverlapBounded ==
    \A b, a \in book : b.side = "bid" /\ a.side = "ask" => b.price < a.price + Tolerance

(* How far ladders can overshoot max_position_size: one ladder that was on  *)
(* the book when the limit was checked, and the one placed after the check. *)
PositionBounded ==
    LET limit == MaxPosition + 2 * Levels * Size
    IN  -limit < position /\ position < limit

(* A bot that has reached its maximum stops buying: its bids leave the book *)
(* or the position comes back below the maximum.                            *)
StopsBuying ==
    (position >= MaxPosition) ~>
        (position < MaxPosition \/ \A o \in book : o.side = "ask")
=============================================================================
