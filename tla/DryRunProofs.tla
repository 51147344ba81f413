---------------------------- MODULE DryRunProofs ----------------------------
(***************************************************************************)
(* Proofs that the order manager's list is the simulated book and that the *)
(* book never crosses itself, for any configuration, any mids and any      *)
(* number of orders.                                                       *)
(***************************************************************************)
EXTENDS DryRun, QuoteEngineProofs, FiniteSetTheorems

Labels == {"idle", "lock", "update", "placed", "allLock", "report"}

(* Who is where, and whose the lock is.                                     *)
Locked ==
    /\ lock \in Users \cup {Free}
    /\ pc \in [Users -> Labels]
    /\ pc["cleaner"] \in {"idle", "update"}
    /\ \A u \in Users : lock = u <=> pc[u] \in {"update", "placed", "report"}

(* The order being placed is the only one on the book and not on the list,  *)
(* and the order being filled the only one on the list and not on the book. *)
Listed ==
    /\ NoOrder \notin book \cup tracked
    /\ book \subseteq tracked \cup {placing}
    /\ tracked \subseteq book \cup {filling}
    /\ filling \notin book
    /\ IF pc["quoter"] = "placed"
       THEN placing # NoOrder /\ placing \in book \cup {filling}
       ELSE placing = NoOrder

IInv == Locked /\ Listed

LEMMA InitIInv == Init => IInv
  BY DryRunAssumption DEF Init, IInv, Locked, Listed, Users, Labels

LEMMA BooksAgreeFromIInv == IInv => BooksAgree
<1> SUFFICES ASSUME IInv, lock = Free, filling = NoOrder
             PROVE  tracked = book
  BY DEF BooksAgree
<1>1. pc["quoter"] # "placed"
  BY DryRunAssumption DEF IInv, Locked, Users
<1>2. placing = NoOrder
  BY <1>1 DEF IInv, Listed
<1> QED
  BY <1>2 DEF IInv, Listed

(* A task that goes on keeps the lock, one that is through gives it back.   *)
LEMMA Going ==
    ASSUME Locked, NEW u \in Users, lock \in {u, Free}, NEW more \in BOOLEAN,
           NEW label \in {"update", "report"}, u = "cleaner" => label = "update",
           GoOn(u, more, label)
    PROVE  Locked' /\ pc'["quoter"] # "placed"
<1>1. pc["quoter"] # "placed" \/ u = "quoter"
  BY DryRunAssumption DEF Locked, Users
<1>2. pc' = [pc EXCEPT ![u] = IF more THEN label ELSE "idle"]
      /\ lock' = IF more THEN u ELSE Free
  BY DEF GoOn, Goto
<1> QED
  BY <1>1, <1>2, DryRunAssumption DEF Locked, Users, Labels

(* The steps that move orders neither on nor off the book or the list.      *)
LEMMA Still ==
    ASSUME Listed, UNCHANGED <<book, tracked, placing, filling>>,
           pc'["quoter"] = "placed" <=> pc["quoter"] = "placed"
    PROVE  Listed'
  BY DEF Listed

LEMMA StepIInv == IInv /\ [Next]_vars => IInv'
<1> SUFFICES ASSUME IInv, [Next]_vars
             PROVE  IInv'
  OBVIOUS
<1> USE DEF IInv
<1>1. ASSUME NEW m \in Mids, MidMoves(m)
      PROVE  IInv'
  BY <1>1 DEF MidMoves, Locked, Listed, quoting, sim
<1>2. ASSUME NEW vol \in Vols, CallUpdate(vol)
      PROVE  IInv'
  <2>1. pc' = [pc EXCEPT !["quoter"] = "lock"] /\ pc["quoter"] = "idle" /\ lock' = lock
    BY <1>2 DEF CallUpdate, Goto
  <2>2. Locked'
    BY <2>1 DEF Locked, Users, Labels
  <2>3. UNCHANGED <<book, tracked, placing, filling>>
    BY <1>2 DEF CallUpdate, sim
  <2>4. pc["quoter"] # "placed" /\ pc'["quoter"] # "placed"
    BY <2>1 DEF Locked, Users
  <2> QED
    BY <2>2, <2>3, <2>4, Still
<1>3. ASSUME NEW vol \in Vols, CallSuppressed(vol)
      PROVE  IInv'
  BY <1>3 DEF CallSuppressed, Locked, Listed, quoting, sim
<1>4. CASE Diff
  <2>1. PICK more \in BOOLEAN : GoOn("quoter", more, "update")
    BY <1>4 DEF Diff
  <2>2. lock = Free /\ pc["quoter"] = "lock" /\ UNCHANGED <<book, tracked, placing, filling>>
    BY <1>4 DEF Diff, sim
  <2>3. Locked' /\ pc'["quoter"] # "placed"
    BY <2>1, <2>2, Going DEF Users
  <2> QED
    BY <2>2, <2>3, Still
<1>5. ASSUME NEW u \in Users, NEW o \in toCancel[u], Cancel(u, o)
      PROVE  IInv'
  <2>1. PICK more \in BOOLEAN : GoOn(u, more, "update")
    BY <1>5 DEF Cancel
  <2>2. /\ pc[u] = "update" /\ book' = book \ {o} /\ tracked' = tracked \ {o}
        /\ UNCHANGED <<placing, filling>>
    BY <1>5 DEF Cancel, quoting, sim
  <2>3. lock = u
    BY <2>2 DEF Locked
  <2>4. Locked' /\ pc'["quoter"] # "placed"
    BY <2>1, <2>3, Going
  <2>5. pc["quoter"] # "placed"
    BY <2>2, <2>3 DEF Locked, Users
  <2>6. Listed'
    BY <2>2, <2>4, <2>5 DEF Listed
  <2> QED
    BY <2>4, <2>6
<1>6. CASE Place
  <2>1. PICK o : IsNew(o) /\ placing' = o /\ book' = book \cup {o}
    BY <1>6 DEF Place
  <2>2. /\ pc["quoter"] = "update" /\ pc' = [pc EXCEPT !["quoter"] = "placed"]
        /\ UNCHANGED <<tracked, lock, filling>>
    BY <1>6 DEF Place, Goto, sim
  <2>3. o # NoOrder /\ o # filling
    BY <2>1 DEF IsNew, Known
  <2>4. Locked' /\ pc'["quoter"] = "placed"
    BY <2>2 DEF Locked, Users, Labels
  <2>5. placing = NoOrder
    BY <2>2 DEF Listed
  <2>6. Listed'
    BY <2>1, <2>2, <2>3, <2>4, <2>5 DEF Listed
  <2> QED
    BY <2>4, <2>6
<1>7. CASE Placed
  <2>1. PICK more \in BOOLEAN : GoOn("quoter", more, "update")
    BY <1>7 DEF Placed
  <2>2. /\ pc["quoter"] = "placed" /\ tracked' = tracked \cup {placing}
        /\ placing' = NoOrder /\ UNCHANGED <<book, filling>>
    BY <1>7 DEF Placed, sim
  <2>3. lock = "quoter"
    BY <2>2 DEF Locked, Users
  <2>4. Locked' /\ pc'["quoter"] # "placed"
    BY <2>1, <2>3, Going DEF Users
  <2>5. Listed'
    BY <2>2, <2>4 DEF Listed
  <2> QED
    BY <2>4, <2>5
<1>8. CASE CallCancelAll
  <2>1. pc' = [pc EXCEPT !["quoter"] = "allLock"] /\ pc["quoter"] = "idle" /\ lock' = lock
    BY <1>8 DEF CallCancelAll, Goto
  <2>2. Locked'
    BY <2>1 DEF Locked, Users, Labels
  <2>3. UNCHANGED <<book, tracked, placing, filling>>
    BY <1>8 DEF CallCancelAll, quoting, sim
  <2>4. pc["quoter"] # "placed" /\ pc'["quoter"] # "placed"
    BY <2>1 DEF Locked, Users
  <2> QED
    BY <2>2, <2>3, <2>4, Still
<1>9. CASE CancelAll
  <2>1. /\ GoOn("quoter", TRUE, "report") /\ lock = Free /\ pc["quoter"] = "allLock"
        /\ book' = {} /\ tracked' = {} /\ UNCHANGED <<placing, filling>>
    BY <1>9 DEF CancelAll, Swept, quoting, sim
  <2>2. Locked' /\ pc'["quoter"] # "placed"
    BY <2>1, Going DEF Users
  <2>3. Listed'
    BY <2>1, <2>2 DEF Listed
  <2> QED
    BY <2>2, <2>3
<1>10. CASE Reported
  <2>1. /\ GoOn("quoter", FALSE, "report") /\ pc["quoter"] = "report"
        /\ UNCHANGED <<book, tracked, placing, filling>>
    BY <1>10 DEF Reported, quoting, sim
  <2>2. lock = "quoter"
    BY <2>1 DEF Locked, Users
  <2>3. Locked' /\ pc'["quoter"] # "placed"
    BY <2>1, <2>2, Going DEF Users
  <2> QED
    BY <2>1, <2>3, Still
<1>11. ASSUME NEW stale \in SUBSET tracked, CleanStart(stale)
       PROVE  IInv'
  <2>1. /\ GoOn("cleaner", TRUE, "update") /\ lock = Free
        /\ UNCHANGED <<book, tracked, placing, filling>>
    BY <1>11 DEF CleanStart, quoting, sim
  <2>2. Locked' /\ pc'["quoter"] # "placed"
    BY <2>1, Going DEF Users
  <2>3. pc["quoter"] # "placed"
    BY <2>1, DryRunAssumption DEF Locked, Users
  <2> QED
    BY <2>1, <2>2, <2>3, Still
<1>12. CASE Tick
  BY <1>12 DEF Tick, Locked, Listed, quoting
<1>13. ASSUME NEW o \in candidates, Skip(o)
       PROVE  IInv'
  BY <1>13 DEF Skip, Locked, Listed, quoting
<1>14. ASSUME NEW o \in candidates, SimulateFill(o)
       PROVE  IInv'
  <2>1. /\ filling = NoOrder /\ o \in book /\ book' = book \ {o} /\ filling' = o
        /\ UNCHANGED <<tracked, lock, pc, placing>>
    BY <1>14 DEF SimulateFill, quoting
  <2>2. Locked'
    BY <2>1 DEF Locked
  <2>3. Listed'
    BY <2>1 DEF Listed
  <2> QED
    BY <2>2, <2>3
<1>15. CASE HandleFill
  <2>1. /\ lock = Free /\ tracked' = tracked \ {filling} /\ filling' = NoOrder
        /\ UNCHANGED <<book, lock, pc, placing>>
    BY <1>15 DEF HandleFill, FillMayEnter, quoting
  <2>2. pc["quoter"] # "placed"
    BY <2>1, DryRunAssumption DEF Locked, Users
  <2>3. Locked'
    BY <2>1 DEF Locked
  <2>4. Listed'
    BY <2>1, <2>2 DEF Listed
  <2> QED
    BY <2>3, <2>4
<1>16. CASE UNCHANGED vars
  BY <1>16 DEF vars, quoting, sim, Locked, Listed
<1> QED
  BY <1>1, <1>2, <1>3, <1>4, <1>5, <1>6, <1>7, <1>8, <1>9, <1>10, <1>11,
     <1>12, <1>13, <1>14, <1>15, <1>16
     DEF Next, Cycle, QuoterRuns, QuoterLocks, CleanerRuns, Lucky, SimRuns, Users

(* In every execution the order manager's list is the simulated book when   *)
(* the lock is free and no fill is on its way: neither an order filled      *)
(* between its placement and its place on the list, nor a sweep that does   *)
(* not wait for the lock, leaves the two apart.                             *)
THEOREM DryRunBooksAgree == Spec => []BooksAgree
<1>1. Init => IInv
  BY InitIInv
<1>2. IInv /\ [Next]_vars => IInv'
  BY StepIInv
<1>3. IInv => BooksAgree
  BY BooksAgreeFromIInv
<1> QED
  BY <1>1, <1>2, <1>3, PTL DEF Spec

----------------------------------------------------------------------------
(* The two sides of the book.                                               *)

(* Of orders and quotes alike: no bid reaches an ask by the tolerance.      *)
Apart(X) ==
    /\ \A p \in X : p.price \in Int
    /\ \A p, q \in X : p.side = "bid" /\ q.side = "ask" => p.price < q.price + Tolerance

Typed ==
    /\ mid \in Mids /\ position \in Int
    /\ toCancel = [u \in Users |-> toCancel[u]]

(* The quotes an update waits with are below one another; once it has the   *)
(* lock, the orders it leaves on the book and the quotes it has still to    *)
(* place are apart.                                                         *)
Wanted ==
    /\ pc["quoter"] = "lock" =>
           /\ \A i \in DOMAIN target.bid : target.bid[i] \in Int
           /\ \A j \in DOMAIN target.ask : target.ask[j] \in Int
           /\ \A i \in DOMAIN target.bid : \A j \in DOMAIN target.ask :
                  target.bid[i] < target.ask[j]
    /\ pc["quoter"] \in {"update", "placed"} =>
           Apart((book \ toCancel["quoter"]) \cup toPlace)

UInv == IInv /\ Typed /\ Apart(book) /\ Wanted

LEMMA ApartSubset ==
    ASSUME NEW X, NEW Y \in SUBSET X, Apart(X)
    PROVE  Apart(Y)
  BY DEF Apart

LEMMA InitUInv == Init => UInv
<1> SUFFICES ASSUME Init
             PROVE  UInv
  OBVIOUS
<1>1. IInv
  BY InitIInv
<1>2. Typed
  BY DEF Init, Typed
<1>3. Apart(book)
  BY DEF Init, Apart
<1>4. Wanted
  BY DEF Init, Wanted, Users
<1> QED
  BY <1>1, <1>2, <1>3, <1>4 DEF UInv

LEMMA OverlapBoundedFromUInv == UInv => OverlapBounded
  BY DEF UInv, Apart, OverlapBounded

(* The quotes of a cycle have positive prices, one for each level at most.  *)
LEMMA QuotesShaped ==
    ASSUME Typed, NEW vol \in Vols
    PROVE  /\ DOMAIN Bids(mid, position, vol) \subseteq 1 .. Levels
           /\ \A i \in DOMAIN Bids(mid, position, vol) :
                  Bids(mid, position, vol)[i] \in Nat \ {0}
           /\ DOMAIN Asks(mid, position, vol) \subseteq 1 .. Levels
           /\ \A i \in DOMAIN Asks(mid, position, vol) :
                  Asks(mid, position, vol)[i] \in Nat \ {0}
<1>1. mid \in Nat \ {0} /\ vol \in Nat /\ position \in Int
  BY DryRunAssumption DEF Typed
<1>2. /\ DOMAIN Bids(mid, position, vol) = BidLevels(mid, position, vol)
      /\ DOMAIN Asks(mid, position, vol) = AskLevels(mid, position, vol)
      /\ BidLevels(mid, position, vol) \subseteq 1 .. Levels
      /\ AskLevels(mid, position, vol) \subseteq 1 .. Levels
  BY DEF Bids, Asks, BidLevels, AskLevels
<1>3. ASSUME NEW i \in BidLevels(mid, position, vol)
      PROVE  Bids(mid, position, vol)[i] \in Nat \ {0}
  <2>1. i - 1 \in 0 .. Levels - 1
    BY <1>2, <1>3, Parameters
  <2>2. BidPrice(BidRaw(mid, position, vol, i - 1)) \in Int
    BY <1>1, <2>1, RawBounds, BidRounding
  <2>3. BidPrice(BidRaw(mid, position, vol, i - 1)) > 0
    BY <1>3 DEF BidLevels
  <2> QED
    BY <1>3, <2>2, <2>3 DEF Bids
<1>4. ASSUME NEW i \in AskLevels(mid, position, vol)
      PROVE  Asks(mid, position, vol)[i] \in Nat \ {0}
  <2>1. i - 1 \in 0 .. Levels - 1
    BY <1>2, <1>4, Parameters
  <2>2. AskPrice(AskRaw(mid, position, vol, i - 1)) \in Int
    BY <1>1, <2>1, RawBounds, AskRounding
  <2>3. AskPrice(AskRaw(mid, position, vol, i - 1)) > 0
    BY <1>4 DEF AskLevels
  <2> QED
    BY <1>4, <2>2, <2>3 DEF Asks
<1> QED
  BY <1>2, <1>3, <1>4

(* Every bid of a cycle is below every ask of it.                           *)
LEMMA QuotesApart ==
    ASSUME Typed, NEW vol \in Vols,
           NEW i \in DOMAIN Bids(mid, position, vol),
           NEW j \in DOMAIN Asks(mid, position, vol)
    PROVE  Bids(mid, position, vol)[i] < Asks(mid, position, vol)[j]
<1>1. mid \in Nat \ {0} /\ vol \in Nat /\ position \in Int
  BY DryRunAssumption DEF Typed
<1>2. i \in BidLevels(mid, position, vol) /\ j \in AskLevels(mid, position, vol)
  BY DEF Bids, Asks
<1>3. i \in 1 .. Levels /\ j \in 1 .. Levels
  BY <1>2 DEF BidLevels, AskLevels
<1>4. i - 1 \in 0 .. Levels - 1 /\ j - 1 \in 0 .. Levels - 1
  BY <1>3, Parameters
<1>5. BidPrice(BidRaw(mid, position, vol, i - 1))
          < AskPrice(AskRaw(mid, position, vol, j - 1))
  BY <1>1, <1>4, Uncrossed
<1> QED
  BY <1>2, <1>5 DEF Bids, Asks

(* An order a target keeps stands within the tolerance of its price.        *)
LEMMA KeptPrice ==
    ASSUME NEW orders, NEW prices, NEW match \in [DOMAIN prices -> orders \cup {NoOrder}],
           Matches(orders, prices, match), NEW o \in KeptOf(match)
    PROVE  /\ o \in orders
           /\ \E i \in DOMAIN prices : o.price - prices[i] \in -Tolerance .. Tolerance
<1>1. PICK i \in DOMAIN match : o = match[i]
  BY DEF KeptOf
<1>2. o # NoOrder /\ i \in DOMAIN prices
  BY <1>1 DEF KeptOf
<1> DEFINE free == {x \in orders : /\ x.price - prices[i] \in -Tolerance .. Tolerance
                                   /\ \A j \in DOMAIN prices : j < i => match[j] # x}
<1>3. IF free = {} THEN match[i] = NoOrder ELSE match[i] \in free
  BY <1>2 DEF Matches
<1>4. o \in free
  BY <1>1, <1>2, <1>3
<1> QED
  BY <1>2, <1>4

(* What Diff leaves on the book and what it has to place stand apart: of    *)
(* two orders left, both were on the book before; a quote to place is at    *)
(* its target, and what the other side keeps within the tolerance of one.   *)
LEMMA DiffApart ==
    ASSUME UInv, Diff
    PROVE  Apart((book' \ toCancel'["quoter"]) \cup toPlace')
<1>1. /\ pc["quoter"] = "lock" /\ book' = book
      /\ \A i \in DOMAIN target.bid : target.bid[i] \in Int
      /\ \A j \in DOMAIN target.ask : target.ask[j] \in Int
      /\ \A i \in DOMAIN target.bid : \A j \in DOMAIN target.ask :
            target.bid[i] < target.ask[j]
      /\ Apart(book) /\ Tolerance \in Nat
  BY DryRunAssumption DEF UInv, Wanted, Diff
<1>2. book \subseteq tracked
  BY <1>1 DEF UInv, IInv, Listed
<1>3. PICK bids \in [DOMAIN target.bid -> ActiveOn("bid") \cup {NoOrder}],
           asks \in [DOMAIN target.ask -> ActiveOn("ask") \cup {NoOrder}] :
          /\ Matches(ActiveOn("bid"), target.bid, bids)
          /\ Matches(ActiveOn("ask"), target.ask, asks)
          /\ toCancel' = [toCancel EXCEPT !["quoter"] =
                             tracked \ (KeptOf(bids) \cup KeptOf(asks))]
          /\ toPlace' = Unmatched("bid", bids) \cup Unmatched("ask", asks)
  BY DEF Diff
<1> DEFINE X == (book' \ toCancel'["quoter"]) \cup toPlace'
<1>4. toCancel'["quoter"] = tracked \ (KeptOf(bids) \cup KeptOf(asks))
  <2>1. toCancel = [u \in Users |-> toCancel[u]] /\ "quoter" \in Users
    BY DEF UInv, Typed, Users
  <2> QED
    BY <1>3, <2>1
<1>5. X \subseteq (book \cap (KeptOf(bids) \cup KeptOf(asks)))
                   \cup Unmatched("bid", bids) \cup Unmatched("ask", asks)
  BY <1>1, <1>2, <1>3, <1>4
<1>6. ASSUME NEW p \in KeptOf(bids)
      PROVE  /\ p.side = "bid"
             /\ \E i \in DOMAIN target.bid :
                    p.price - target.bid[i] \in -Tolerance .. Tolerance
  BY <1>3, <1>6, KeptPrice DEF ActiveOn
<1>7. ASSUME NEW q \in KeptOf(asks)
      PROVE  /\ q.side = "ask"
             /\ \E j \in DOMAIN target.ask :
                    q.price - target.ask[j] \in -Tolerance .. Tolerance
  BY <1>3, <1>7, KeptPrice DEF ActiveOn
<1>8. ASSUME NEW p \in Unmatched("bid", bids)
      PROVE  p.side = "bid" /\ \E i \in DOMAIN target.bid : p.price = target.bid[i]
  BY DEF Unmatched
<1>9. ASSUME NEW q \in Unmatched("ask", asks)
      PROVE  q.side = "ask" /\ \E j \in DOMAIN target.ask : q.price = target.ask[j]
  BY DEF Unmatched
<1> HIDE DEF X
<1>10. ASSUME NEW p \in X
       PROVE  p.price \in Int
  <2>1. CASE p \in book
    BY <1>1, <2>1 DEF Apart
  <2>2. CASE p \in Unmatched("bid", bids)
    BY <1>1, <1>8, <2>2
  <2>3. CASE p \in Unmatched("ask", asks)
    BY <1>1, <1>9, <2>3
  <2> QED
    BY <1>5, <1>10, <2>1, <2>2, <2>3
<1>11. ASSUME NEW p \in X, NEW q \in X, p.side = "bid", q.side = "ask"
       PROVE  p.price < q.price + Tolerance
  <2>1. p.price \in Int /\ q.price \in Int
    BY <1>10
  <2>2. p \in book \cap KeptOf(bids) \/ p \in Unmatched("bid", bids)
    BY <1>5, <1>7, <1>9, <1>11
  <2>3. q \in book \cap KeptOf(asks) \/ q \in Unmatched("ask", asks)
    BY <1>5, <1>6, <1>8, <1>11
  <2>4. CASE p \in book /\ q \in book
    BY <1>1, <1>11, <2>4 DEF Apart
  <2>5. CASE p \in Unmatched("bid", bids)
    <3>1. PICK i \in DOMAIN target.bid : p.price = target.bid[i]
      BY <1>8, <2>5
    <3>2. PICK j \in DOMAIN target.ask :
              q.price - target.ask[j] \in -Tolerance .. Tolerance
      BY <1>1, <1>7, <1>9, <2>3
    <3>3. target.bid[i] < target.ask[j] /\ target.ask[j] \in Int
      BY <1>1
    <3> QED
      BY <1>1, <2>1, <3>1, <3>2, <3>3
  <2>6. CASE q \in Unmatched("ask", asks)
    <3>1. PICK j \in DOMAIN target.ask : q.price = target.ask[j]
      BY <1>9, <2>6
    <3>2. PICK i \in DOMAIN target.bid :
              p.price - target.bid[i] \in -Tolerance .. Tolerance
      BY <1>1, <1>6, <1>8, <2>2
    <3>3. target.bid[i] < target.ask[j] /\ target.bid[i] \in Int
      BY <1>1
    <3> QED
      BY <1>1, <2>1, <3>1, <3>2, <3>3
  <2> QED
    BY <2>2, <2>3, <2>4, <2>5, <2>6
<1>12. Apart(X)
  BY <1>10, <1>11 DEF Apart
<1> QED
  BY <1>12 DEF X

(* The steps that add nothing: no order, no quote, and no quoter that       *)
(* starts or goes on with an update it was not in.                          *)
LEMMA Thinner ==
    ASSUME UInv, mid' \in Mids, position' \in Int,
           toCancel' = [u \in Users |-> toCancel'[u]],
           book' \subseteq book,
           target' = target \/ pc'["quoter"] # "lock",
           pc'["quoter"] = "lock" => pc["quoter"] = "lock",
           pc'["quoter"] \in {"update", "placed"} =>
               /\ pc["quoter"] \in {"update", "placed"}
               /\ (book' \ toCancel'["quoter"]) \subseteq (book \ toCancel["quoter"])
               /\ toPlace' = toPlace
    PROVE  (Typed /\ Apart(book) /\ Wanted)'
<1>1. Typed'
  BY DEF Typed
<1>2. Apart(book')
  BY ApartSubset DEF UInv
<1>3. ASSUME pc'["quoter"] \in {"update", "placed"}
      PROVE  Apart((book' \ toCancel'["quoter"]) \cup toPlace')
  <2>1. Apart((book \ toCancel["quoter"]) \cup toPlace)
    BY <1>3 DEF UInv, Wanted
  <2>2. ((book' \ toCancel'["quoter"]) \cup toPlace')
            \subseteq ((book \ toCancel["quoter"]) \cup toPlace)
    BY <1>3
  <2> QED
    BY <2>1, <2>2, ApartSubset
<1>4. Wanted'
  BY <1>3 DEF UInv, Wanted
<1> QED
  BY <1>1, <1>2, <1>4 DEF Apart

(* The steps of the users that leave the lock or go on with it.             *)
LEMMA GoesOn ==
    ASSUME Locked, NEW u \in Users, NEW more, NEW label, GoOn(u, more, label)
    PROVE  /\ pc' = [pc EXCEPT ![u] = IF more THEN label ELSE "idle"]
           /\ u # "quoter" => pc'["quoter"] = pc["quoter"]
           /\ u = "quoter" => pc'["quoter"] = IF more THEN label ELSE "idle"
  BY DEF Locked, Users, GoOn, Goto

LEMMA StepUInv == UInv /\ [Next]_vars => UInv'
<1> SUFFICES ASSUME UInv, [Next]_vars
             PROVE  (Typed /\ Apart(book) /\ Wanted)'
  BY StepIInv DEF UInv
<1> USE DEF UInv
<1>t. /\ mid \in Mids /\ position \in Int /\ Locked
      /\ toCancel = [u \in Users |-> toCancel[u]]
  BY DEF Typed, IInv
<1>1. ASSUME NEW m \in Mids, MidMoves(m)
      PROVE  (Typed /\ Apart(book) /\ Wanted)'
  <2>1. /\ mid' = m
        /\ UNCHANGED <<position, book, pc, target, toPlace, toCancel>>
    BY <1>1 DEF MidMoves, quoting
  <2> QED
    BY <1>t, <2>1, Thinner
<1>2. ASSUME NEW vol \in Vols, CallUpdate(vol)
      PROVE  (Typed /\ Apart(book) /\ Wanted)'
  <2>1. /\ target' = [bid |-> Bids(mid, position, vol), ask |-> Asks(mid, position, vol)]
        /\ pc' = [pc EXCEPT !["quoter"] = "lock"]
        /\ UNCHANGED <<mid, position, book, toPlace, toCancel>>
    BY <1>2 DEF CallUpdate, Goto, market
  <2>2. /\ \A i \in DOMAIN target'.bid : target'.bid[i] \in Int
        /\ \A j \in DOMAIN target'.ask : target'.ask[j] \in Int
        /\ \A i \in DOMAIN target'.bid : \A j \in DOMAIN target'.ask :
              target'.bid[i] < target'.ask[j]
    BY <2>1, QuotesApart, QuotesShaped
  <2>3. pc'["quoter"] = "lock"
    BY <1>t, <2>1 DEF Locked, Users
  <2>4. Wanted'
    BY <2>2, <2>3 DEF Wanted
  <2>5. Apart(book)'
    BY <2>1 DEF Apart
  <2> QED
    BY <1>t, <2>1, <2>4, <2>5 DEF Typed
<1>3. ASSUME NEW vol \in Vols, CallSuppressed(vol)
      PROVE  (Typed /\ Apart(book) /\ Wanted)'
  <2>1. /\ book' = {} /\ pc["quoter"] = "idle"
        /\ UNCHANGED <<mid, position, pc, target, toPlace, toCancel>>
    BY <1>3 DEF CallSuppressed, market, quoting
  <2> QED
    BY <1>t, <2>1, Thinner
<1>4. CASE Diff
  <2>1. Apart((book' \ toCancel'["quoter"]) \cup toPlace')
    BY <1>4, DiffApart
  <2>2. UNCHANGED <<mid, position, book>>
    BY <1>4 DEF Diff, market
  <2>3. PICK S : toCancel' = [toCancel EXCEPT !["quoter"] = S]
    BY <1>4 DEF Diff
  <2>4. Typed'
    BY <1>t, <2>2, <2>3 DEF Typed
  <2>5. PICK more \in BOOLEAN : GoOn("quoter", more, "update")
    BY <1>4 DEF Diff
  <2>6. pc'["quoter"] # "lock"
    BY <1>t, <2>5, GoesOn DEF Users
  <2>7. Apart(book)'
    BY <2>2 DEF Apart
  <2>8. Wanted'
    BY <2>1, <2>6 DEF Wanted
  <2> QED
    BY <2>4, <2>7, <2>8
<1>5. ASSUME NEW u \in Users, NEW o \in toCancel[u], Cancel(u, o)
      PROVE  (Typed /\ Apart(book) /\ Wanted)'
  <2>1. PICK more \in BOOLEAN : GoOn(u, more, "update")
    BY <1>5 DEF Cancel
  <2>2. /\ pc[u] = "update" /\ book' = book \ {o}
        /\ toCancel' = [toCancel EXCEPT ![u] = @ \ {o}]
        /\ UNCHANGED <<mid, position, target, toPlace>>
    BY <1>5 DEF Cancel, quoting, market
  <2>3. toCancel' = [v \in Users |-> toCancel'[v]]
    BY <1>t, <2>2
  <2>4. (book' \ toCancel'["quoter"]) \subseteq (book \ toCancel["quoter"])
    BY <1>t, <2>2 DEF Users
  <2>5. /\ pc'["quoter"] = "lock" => pc["quoter"] = "lock"
        /\ pc'["quoter"] \in {"update", "placed"} => pc["quoter"] \in {"update", "placed"}
    BY <1>t, <2>1, <2>2, GoesOn DEF Users
  <2> QED
    BY <1>t, <2>2, <2>3, <2>4, <2>5, Thinner
<1>6. CASE Place
  <2>1. PICK q \in toPlace, k \in 1 .. Cardinality(Known) + 1 :
            /\ book' = book \cup {[side |-> q.side, price |-> q.price, serial |-> k]}
            /\ toPlace' = toPlace \ {q}
    BY <1>6 DEF Place
  <2>2. /\ pc["quoter"] = "update" /\ toCancel["quoter"] = {}
        /\ pc' = [pc EXCEPT !["quoter"] = "placed"]
        /\ UNCHANGED <<mid, position, target, toCancel>>
    BY <1>6 DEF Place, CancelsFirst, Goto, market
  <2> DEFINE o == [side |-> q.side, price |-> q.price, serial |-> k]
  <2>3. o.side = q.side /\ o.price = q.price
    OBVIOUS
  <2>4. Apart(book \cup toPlace)
    <3>1. Apart((book \ toCancel["quoter"]) \cup toPlace)
      BY <2>2 DEF Wanted
    <3>2. (book \ toCancel["quoter"]) \cup toPlace = book \cup toPlace
      BY <2>2
    <3> QED
      BY <3>1, <3>2
  <2>5. book' = book \cup {o}
    BY <2>1
  <2> HIDE DEF o
  <2>6. Apart(book' \cup toPlace')
    BY <2>1, <2>3, <2>4, <2>5 DEF Apart
  <2>7. Apart(book')
    BY <2>6, ApartSubset
  <2>8. Apart((book' \ toCancel'["quoter"]) \cup toPlace')
    BY <2>6, ApartSubset
  <2>9. pc'["quoter"] = "placed"
    BY <1>t, <2>2 DEF Locked, Users
  <2>10. Wanted'
    BY <2>8, <2>9 DEF Wanted
  <2>11. Typed'
    BY <1>t, <2>2 DEF Typed
  <2> QED
    BY <2>7, <2>10, <2>11 DEF Apart
<1>7. CASE Placed
  <2>1. PICK more \in BOOLEAN : GoOn("quoter", more, "update")
    BY <1>7 DEF Placed
  <2>2. /\ pc["quoter"] = "placed"
        /\ UNCHANGED <<mid, position, book, target, toPlace, toCancel>>
    BY <1>7 DEF Placed, market
  <2>3. pc'["quoter"] # "lock"
    BY <1>t, <2>1, GoesOn DEF Users
  <2> QED
    BY <1>t, <2>2, <2>3, Thinner
<1>8. CASE CallCancelAll
  <2>1. /\ pc' = [pc EXCEPT !["quoter"] = "allLock"]
        /\ UNCHANGED <<mid, position, book, target, toPlace, toCancel>>
    BY <1>8 DEF CallCancelAll, Goto, market, quoting
  <2>2. pc'["quoter"] = "allLock"
    BY <1>t, <2>1 DEF Locked, Users
  <2> QED
    BY <1>t, <2>1, <2>2, Thinner
<1>9. CASE CancelAll
  <2>1. /\ GoOn("quoter", TRUE, "report") /\ book' = {}
        /\ UNCHANGED <<mid, position, target, toPlace, toCancel>>
    BY <1>9 DEF CancelAll, Swept, market, quoting
  <2>2. pc'["quoter"] = "report"
    BY <1>t, <2>1, GoesOn DEF Users
  <2> QED
    BY <1>t, <2>1, <2>2, Thinner
<1>10. CASE Reported
  <2>1. /\ GoOn("quoter", FALSE, "report")
        /\ UNCHANGED <<mid, position, book, target, toPlace, toCancel>>
    BY <1>10 DEF Reported, market, quoting
  <2>2. pc'["quoter"] = "idle"
    BY <1>t, <2>1, GoesOn DEF Users
  <2> QED
    BY <1>t, <2>1, <2>2, Thinner
<1>11. ASSUME NEW stale \in SUBSET tracked, CleanStart(stale)
       PROVE  (Typed /\ Apart(book) /\ Wanted)'
  <2>1. /\ GoOn("cleaner", TRUE, "update")
        /\ toCancel' = [toCancel EXCEPT !["cleaner"] = stale]
        /\ UNCHANGED <<mid, position, book, target, toPlace>>
    BY <1>11 DEF CleanStart, market, quoting
  <2>2. pc'["quoter"] = pc["quoter"]
    BY <1>t, <2>1, GoesOn DEF Users
  <2>3. toCancel' = [v \in Users |-> toCancel'[v]] /\ toCancel'["quoter"] = toCancel["quoter"]
    BY <1>t, <2>1 DEF Users
  <2> QED
    BY <1>t, <2>1, <2>2, <2>3, Thinner
<1>12. CASE Tick
  <2>1. UNCHANGED <<mid, position, book, pc, target, toPlace, toCancel>>
    BY <1>12 DEF Tick, market, quoting
  <2> QED
    BY <1>t, <2>1, Thinner
<1>13. ASSUME NEW o \in candidates, Skip(o)
       PROVE  (Typed /\ Apart(book) /\ Wanted)'
  <2>1. UNCHANGED <<mid, position, book, pc, target, toPlace, toCancel>>
    BY <1>13 DEF Skip, market, quoting
  <2> QED
    BY <1>t, <2>1, Thinner
<1>14. ASSUME NEW o \in candidates, SimulateFill(o)
       PROVE  (Typed /\ Apart(book) /\ Wanted)'
  <2>1. /\ book' = book \ {o} /\ position' = position + Signed(o)
        /\ UNCHANGED <<mid, pc, target, toPlace, toCancel>>
    BY <1>14 DEF SimulateFill, quoting
  <2>2. Signed(o) \in Int
    <3>1. Size \in Int
      BY QuoteEngineAssumption DEF Size
    <3> QED
      BY <3>1 DEF Signed
  <2>3. position' \in Int
    BY <1>t, <2>1, <2>2
  <2> QED
    BY <1>t, <2>1, <2>3, Thinner
<1>15. CASE HandleFill
  <2>1. UNCHANGED <<mid, position, book, pc, target, toPlace, toCancel>>
    BY <1>15 DEF HandleFill, market, quoting
  <2> QED
    BY <1>t, <2>1, Thinner
<1>16. CASE UNCHANGED vars
  <2>1. UNCHANGED <<mid, position, book, pc, target, toPlace, toCancel>>
    BY <1>16 DEF vars, market, quoting
  <2> QED
    BY <1>t, <2>1, Thinner
<1> QED
  BY <1>1, <1>2, <1>3, <1>4, <1>5, <1>6, <1>7, <1>8, <1>9, <1>10, <1>11,
     <1>12, <1>13, <1>14, <1>15, <1>16
     DEF Next, Cycle, QuoterRuns, QuoterLocks, CleanerRuns, Lucky, SimRuns, Users

(* The bot stands on both sides of itself by less than the tolerance: the   *)
(* quotes of a cycle are below one another, an update under the lock        *)
(* cancels all that is not within the tolerance of one of them before it    *)
(* places the first, and while it runs nothing but a removal touches the    *)
(* book.                                                                    *)
THEOREM OverlapWithinTolerance == Spec => []OverlapBounded
<1>1. Init => UInv
  BY InitUInv
<1>2. UInv /\ [Next]_vars => UInv'
  BY StepUInv
<1>3. UInv => OverlapBounded
  BY OverlapBoundedFromUInv
<1> QED
  BY <1>1, <1>2, <1>3, PTL DEF Spec

----------------------------------------------------------------------------
(* The orders and quotes.                                                   *)

Sides == {"bid", "ask"}

(* Whatever stands for an order is one, and whatever is going to be one has *)
(* a side, a level and a positive price.                                    *)
Shaped ==
    /\ \A o \in book \cup tracked \cup candidates : IsOrder(o)
    /\ \A u \in Users : \A o \in toCancel[u] : IsOrder(o)
    /\ filling = NoOrder \/ IsOrder(filling)
    /\ placing = NoOrder \/ IsOrder(placing)
    /\ \A side \in Sides : /\ DOMAIN target[side] \subseteq 1 .. Levels
                           /\ \A i \in DOMAIN target[side] : target[side][i] \in Nat \ {0}
    /\ \A q \in toPlace : q.side \in Sides /\ q.price \in Nat \ {0}

(* Only finitely many orders are known, so that a serial number is a number. *)
Finite ==
    /\ IsFiniteSet(book) /\ IsFiniteSet(tracked) /\ IsFiniteSet(candidates)
    /\ \A u \in Users : IsFiniteSet(toCancel[u])

TInv == UInv /\ Shaped /\ Finite

LEMMA InitTInv == Init => TInv
<1> SUFFICES ASSUME Init
             PROVE  TInv
  OBVIOUS
<1>1. UInv
  BY InitUInv
<1>2. Shaped
  BY DEF Init, Shaped, Users, Sides
<1>3. Finite
  BY FS_EmptySet DEF Init, Finite, Users
<1> QED
  BY <1>1, <1>2, <1>3 DEF TInv

LEMMA TypeOKFromTInv == TInv => TypeOK
<1> SUFFICES ASSUME TInv
             PROVE  TypeOK
  OBVIOUS
<1>1. /\ pc["quoter"] \in Labels /\ pc["cleaner"] \in {"idle", "update"}
      /\ \A u \in Users : lock = u <=> pc[u] \in {"update", "placed", "report"}
  BY DEF TInv, UInv, IInv, Locked, Users
<1>2. IF pc["quoter"] = "placed" THEN IsOrder(placing) ELSE placing = NoOrder
  BY DEF TInv, UInv, IInv, Listed, Shaped
<1>3. lock \in Users \cup {Free}
  BY DEF TInv, UInv, IInv, Locked
<1> QED
  BY <1>1, <1>2, <1>3 DEF TInv, UInv, Typed, Shaped, TypeOK, Labels

(* The steps that bring no new order or quote.                              *)
LEMMA NothingNew ==
    ASSUME Shaped, Finite,
           book' \subseteq book, tracked' \subseteq tracked,
           candidates' \subseteq candidates \cup book,
           \A u \in Users : toCancel'[u] \subseteq toCancel[u] \cup tracked,
           filling' \in {filling, NoOrder} \cup candidates,
           placing' \in {placing, NoOrder},
           target' = target, toPlace' = toPlace
    PROVE  (Shaped /\ Finite)'
<1>1. Shaped'
  BY DEF Shaped
<1>2. IsFiniteSet(book') /\ IsFiniteSet(tracked')
  BY FS_Subset DEF Finite
<1>3. IsFiniteSet(candidates')
  BY FS_Union, FS_Subset DEF Finite
<1>4. \A u \in Users : IsFiniteSet(toCancel'[u])
  BY FS_Union, FS_Subset DEF Finite
<1> QED
  BY <1>1, <1>2, <1>3, <1>4 DEF Finite

LEMMA KnownFinite ==
    ASSUME Finite
    PROVE  Cardinality(Known) \in Nat
<1>1. IsFiniteSet({filling, NoOrder})
  <2>1. IsFiniteSet({filling})
    BY FS_Singleton
  <2>2. IsFiniteSet({filling} \cup {NoOrder})
    BY <2>1, FS_AddElement
  <2>3. {filling} \cup {NoOrder} = {filling, NoOrder}
    OBVIOUS
  <2> QED
    BY <2>2, <2>3
<1>2. IsFiniteSet(toCancel["quoter"] \cup toCancel["cleaner"])
  BY FS_Union DEF Finite, Users
<1>3. UNION {toCancel[u] : u \in Users} = toCancel["quoter"] \cup toCancel["cleaner"]
  BY DEF Users
<1>4. IsFiniteSet(book \cup tracked \cup candidates)
  BY FS_Union DEF Finite
<1>5. IsFiniteSet(book \cup tracked \cup candidates \cup {filling, NoOrder})
  BY <1>1, <1>4, FS_Union
<1>6. IsFiniteSet(Known)
  BY <1>2, <1>3, <1>5, FS_Union DEF Known
<1> QED
  BY <1>6, FS_CardinalityType

LEMMA StepTInv == TInv /\ [Next]_vars => TInv'
<1> SUFFICES ASSUME TInv, [Next]_vars
             PROVE  (Shaped /\ Finite)'
  BY StepUInv DEF TInv
<1>t. /\ Typed /\ Shaped /\ Finite /\ Listed /\ Locked
      /\ toCancel = [u \in Users |-> toCancel[u]]
      /\ placing = NoOrder \/ pc["quoter"] = "placed"
  BY DEF TInv, UInv, Typed, IInv, Listed
<1>1. ASSUME NEW m \in Mids, MidMoves(m)
      PROVE  (Shaped /\ Finite)'
  BY <1>t, <1>1, NothingNew DEF MidMoves, quoting, sim
<1>2. ASSUME NEW vol \in Vols, CallUpdate(vol)
      PROVE  (Shaped /\ Finite)'
  <2>1. /\ target' = [bid |-> Bids(mid, position, vol), ask |-> Asks(mid, position, vol)]
        /\ UNCHANGED <<book, tracked, candidates, filling, toPlace, placing, toCancel>>
    BY <1>2 DEF CallUpdate, sim
  <2>2. target'["bid"] = Bids(mid, position, vol) /\ target'["ask"] = Asks(mid, position, vol)
    BY <2>1
  <2>3. \A side \in Sides : /\ DOMAIN target'[side] \subseteq 1 .. Levels
                            /\ \A i \in DOMAIN target'[side] : target'[side][i] \in Nat \ {0}
    BY <1>t, <2>2, QuotesShaped DEF Sides
  <2>4. Shaped'
    BY <1>t, <2>1, <2>3 DEF Shaped
  <2> QED
    BY <1>t, <2>1, <2>4 DEF Finite
<1>3. ASSUME NEW vol \in Vols, CallSuppressed(vol)
      PROVE  (Shaped /\ Finite)'
  BY <1>t, <1>3, NothingNew DEF CallSuppressed, quoting, sim
<1>4. CASE Diff
  <2>1. PICK bids, asks :
          /\ bids \in [DOMAIN target.bid -> ActiveOn("bid") \cup {NoOrder}]
          /\ asks \in [DOMAIN target.ask -> ActiveOn("ask") \cup {NoOrder}]
          /\ toCancel' = [toCancel EXCEPT !["quoter"] =
                             tracked \ (KeptOf(bids) \cup KeptOf(asks))]
          /\ toPlace' = Unmatched("bid", bids) \cup Unmatched("ask", asks)
    BY <1>4 DEF Diff
  <2>2. /\ target' = [bid |-> <<>>, ask |-> <<>>]
        /\ UNCHANGED <<book, tracked, candidates, filling, placing>>
    BY <1>4 DEF Diff, sim
  <2>3. \A u \in Users : toCancel'[u] \subseteq toCancel[u] \cup tracked
    BY <1>t, <2>1 DEF Users
  <2>4. \A q \in toPlace' : q.side \in Sides /\ q.price \in Nat \ {0}
    <3>1. ASSUME NEW q \in Unmatched("bid", bids)
          PROVE  q.side \in Sides /\ q.price \in Nat \ {0}
      <4>1. PICK i \in DOMAIN bids : q = [side |-> "bid", level |-> i, price |-> target["bid"][i]]
        BY <3>1 DEF Unmatched
      <4> QED
        BY <1>t, <2>1, <4>1 DEF Shaped, Sides
    <3>2. ASSUME NEW q \in Unmatched("ask", asks)
          PROVE  q.side \in Sides /\ q.price \in Nat \ {0}
      <4>1. PICK i \in DOMAIN asks : q = [side |-> "ask", level |-> i, price |-> target["ask"][i]]
        BY <3>2 DEF Unmatched
      <4> QED
        BY <1>t, <2>1, <4>1 DEF Shaped, Sides
    <3> QED
      BY <2>1, <3>1, <3>2
  <2>5. \A side \in Sides : target'[side] = <<>>
    BY <2>2 DEF Sides
  <2>6. Shaped'
    BY <1>t, <2>2, <2>3, <2>4, <2>5 DEF Shaped
  <2>7. \A u \in Users : IsFiniteSet(toCancel'[u])
    BY <1>t, <2>3, FS_Union, FS_Subset DEF Finite
  <2> QED
    BY <1>t, <2>2, <2>6, <2>7 DEF Finite
<1>5. ASSUME NEW u \in Users, NEW o \in toCancel[u], Cancel(u, o)
      PROVE  (Shaped /\ Finite)'
  <2>1. /\ book' = book \ {o} /\ tracked' = tracked \ {o}
        /\ toCancel' = [toCancel EXCEPT ![u] = @ \ {o}]
        /\ UNCHANGED <<candidates, filling, target, toPlace, placing>>
    BY <1>5 DEF Cancel, quoting, sim
  <2>2. \A v \in Users : toCancel'[v] \subseteq toCancel[v] \cup tracked
    BY <1>t, <2>1
  <2> QED
    BY <1>t, <2>1, <2>2, NothingNew
<1>6. CASE Place
  <2>1. PICK q \in toPlace, k \in 1 .. Cardinality(Known) + 1 :
            /\ placing' = [side |-> q.side, price |-> q.price, serial |-> k]
            /\ book' = book \cup {[side |-> q.side, price |-> q.price, serial |-> k]}
            /\ toPlace' = toPlace \ {q}
    BY <1>6 DEF Place
  <2>2. UNCHANGED <<tracked, candidates, filling, target, toCancel>>
    BY <1>6 DEF Place, sim
  <2> DEFINE o == [side |-> q.side, price |-> q.price, serial |-> k]
  <2>3. IsOrder(o)
    <3>1. k \in Nat \ {0}
      BY <1>t, KnownFinite
    <3>2. q.side \in {"bid", "ask"} /\ q.price \in Nat \ {0}
      BY <1>t DEF Shaped, Sides
    <3> QED
      BY <3>1, <3>2 DEF IsOrder
  <2>4. placing' = o /\ book' = book \cup {o}
    BY <2>1
  <2> HIDE DEF o
  <2>5. Shaped'
    BY <1>t, <2>1, <2>2, <2>3, <2>4 DEF Shaped
  <2>6. IsFiniteSet(book')
    BY <1>t, <2>4, FS_AddElement DEF Finite
  <2> QED
    BY <1>t, <2>2, <2>5, <2>6 DEF Finite
<1>7. CASE Placed
  <2>1. /\ tracked' = tracked \cup {placing} /\ placing' = NoOrder
        /\ placing # NoOrder
        /\ UNCHANGED <<book, candidates, filling, target, toPlace, toCancel>>
    BY <1>t, <1>7 DEF Placed, sim, Listed
  <2>2. Shaped'
    BY <1>t, <2>1 DEF Shaped
  <2>3. IsFiniteSet(tracked')
    BY <1>t, <2>1, FS_AddElement DEF Finite
  <2> QED
    BY <1>t, <2>1, <2>2, <2>3 DEF Finite
<1>8. CASE CallCancelAll
  BY <1>t, <1>8, NothingNew DEF CallCancelAll, quoting, sim
<1>9. CASE CancelAll
  BY <1>t, <1>9, NothingNew DEF CancelAll, Swept, quoting, sim
<1>10. CASE Reported
  BY <1>t, <1>10, NothingNew DEF Reported, quoting, sim
<1>11. ASSUME NEW stale \in SUBSET tracked, CleanStart(stale)
       PROVE  (Shaped /\ Finite)'
  <2>1. /\ toCancel' = [toCancel EXCEPT !["cleaner"] = stale]
        /\ UNCHANGED <<book, tracked, candidates, filling, target, toPlace, placing>>
    BY <1>11 DEF CleanStart, quoting, sim
  <2>2. \A v \in Users : toCancel'[v] \subseteq toCancel[v] \cup tracked
    BY <1>t, <2>1
  <2> QED
    BY <1>t, <2>1, <2>2, NothingNew
<1>12. CASE Tick
  BY <1>t, <1>12, NothingNew DEF Tick, quoting
<1>13. ASSUME NEW o \in candidates, Skip(o)
       PROVE  (Shaped /\ Finite)'
  BY <1>t, <1>13, NothingNew DEF Skip, quoting
<1>14. ASSUME NEW o \in candidates, SimulateFill(o)
       PROVE  (Shaped /\ Finite)'
  BY <1>t, <1>14, NothingNew DEF SimulateFill, quoting
<1>15. CASE HandleFill
  BY <1>t, <1>15, NothingNew DEF HandleFill, quoting
<1>16. CASE UNCHANGED vars
  BY <1>t, <1>16, NothingNew DEF vars, quoting, sim
<1> QED
  BY <1>1, <1>2, <1>3, <1>4, <1>5, <1>6, <1>7, <1>8, <1>9, <1>10, <1>11,
     <1>12, <1>13, <1>14, <1>15, <1>16
     DEF Next, Cycle, QuoterRuns, QuoterLocks, CleanerRuns, Lucky, SimRuns, Users

(* In every execution whatever is on the book, on the list, about to be     *)
(* placed, cancelled or filled is an order with a side, a positive price    *)
(* and a serial number, and the lock is held by the task that is under it.  *)
THEOREM DryRunTypeOK == Spec => []TypeOK
<1>1. Init => TInv
  BY InitTInv
<1>2. TInv /\ [Next]_vars => TInv'
  BY StepTInv
<1>3. TInv => TypeOK
  BY TypeOKFromTInv
<1> QED
  BY <1>1, <1>2, <1>3, PTL DEF Spec

----------------------------------------------------------------------------
(* The position.                                                            *)

On(side, X) == {x \in X : x.side = side}

Held(side) == Cardinality(On(side, book))
Kept(side) == Cardinality(On(side, book \ toCancel["quoter"]))
Due(side) == Cardinality(On(side, toPlace))

(* How far the position is to the side, and what n orders would add to it.  *)
Toward(side) == IF side = "bid" THEN position ELSE -position
Weight(n) == n * Size

(* A ladder is on the book at most, and the position would stay in bounds   *)
(* if everything on the book and everything due were filled.  An update     *)
(* that waits with a ladder for a side had the position below the maximum   *)
(* when it was called.                                                      *)
Bounded(side) ==
    /\ IsFiniteSet(On(side, toPlace))
    /\ Held(side) <= Levels
    /\ Toward(side) + Weight(Held(side)) < MaxPosition + Weight(Levels) + Weight(Levels)
    /\ pc["quoter"] = "lock" /\ DOMAIN target[side] # {} =>
           Toward(side) + Weight(Held(side)) < MaxPosition + Weight(Levels)
    /\ pc["quoter"] \in {"update", "placed"} =>
           /\ Kept(side) + Due(side) <= Levels
           /\ Toward(side) + Weight(Held(side)) + Weight(Due(side))
                  < MaxPosition + Weight(Levels) + Weight(Levels)

PInv == TInv /\ \A side \in Sides : Bounded(side)

LEMMA SizeType == Size \in Nat
<1>1. OrderSize \in Nat /\ SizeStep \in Nat \ {0}
  BY QuoteEngineAssumption
<1>2. OrderSize % SizeStep \in Nat /\ OrderSize % SizeStep <= OrderSize
  <2>1. OrderSize \div SizeStep \in Nat
    BY <1>1
  <2>2. SizeStep * (OrderSize \div SizeStep) \in Nat
    BY <1>1, <2>1, MulNat
  <2> QED
    BY <1>1, <2>2
<1> QED
  BY <1>1, <1>2 DEF Size

LEMMA Weighing ==
    ASSUME NEW m \in Nat, NEW n \in Nat
    PROVE  /\ Weight(m) \in Nat
           /\ Weight(m + n) = Weight(m) + Weight(n)
           /\ m <= n => Weight(m) <= Weight(n)
           /\ Weight(0) = 0 /\ Weight(1) = Size
<1>1. Size \in Nat
  BY SizeType
<1>2. m * Size \in Nat
  BY <1>1, MulNat
<1>3. m <= n => m * Size <= n * Size
  BY <1>1, MulMonotone
<1>4. (m + n) * Size = m * Size + n * Size
  BY <1>1
<1> QED
  BY <1>1, <1>2, <1>3, <1>4 DEF Weight

(* The orders and the quotes of a side can be counted.                      *)
LEMMA Counts ==
    ASSUME PInv, NEW side \in Sides
    PROVE  /\ IsFiniteSet(On(side, book)) /\ IsFiniteSet(On(side, toPlace))
           /\ IsFiniteSet(On(side, book \ toCancel["quoter"]))
           /\ Held(side) \in Nat /\ Due(side) \in Nat /\ Kept(side) \in Nat
           /\ Toward(side) \in Int
<1>1. IsFiniteSet(On(side, book)) /\ IsFiniteSet(On(side, toPlace))
  <2>1. On(side, book) \subseteq book
    BY DEF On
  <2> QED
    BY <2>1, FS_Subset DEF PInv, TInv, Finite, Bounded
<1>2. IsFiniteSet(On(side, book \ toCancel["quoter"]))
  <2>1. On(side, book \ toCancel["quoter"]) \subseteq On(side, book)
    BY DEF On
  <2> QED
    BY <1>1, <2>1, FS_Subset
<1>3. Toward(side) \in Int
  BY DEF Toward, PInv, TInv, UInv, Typed
<1> QED
  BY <1>1, <1>2, <1>3, FS_CardinalityType DEF Held, Due, Kept

LEMMA PositionBoundedFromPInv == PInv => PositionBounded
<1> SUFFICES ASSUME PInv
             PROVE  PositionBounded
  OBVIOUS
<1>1. Levels \in Nat /\ MaxPosition \in Nat /\ position \in Int
  BY Parameters DEF PInv, TInv, UInv, Typed
<1>2. \A side \in Sides : Toward(side) < MaxPosition + Weight(Levels) + Weight(Levels)
  <2> TAKE side \in Sides
  <2>1. Held(side) \in Nat /\ Toward(side) \in Int
    BY Counts
  <2>2. Weight(Held(side)) \in Nat /\ Weight(Levels) \in Nat
    BY <1>1, <2>1, Weighing
  <2>3. Toward(side) + Weight(Held(side)) < MaxPosition + Weight(Levels) + Weight(Levels)
    BY DEF PInv, Bounded
  <2> QED
    BY <1>1, <2>1, <2>2, <2>3
<1>3. 2 * Levels * Size = Weight(Levels) + Weight(Levels)
  BY <1>1, SizeType DEF Weight
<1>4. Weight(Levels) \in Nat
  BY <1>1, Weighing
<1>5. /\ position < MaxPosition + Weight(Levels) + Weight(Levels)
      /\ -position < MaxPosition + Weight(Levels) + Weight(Levels)
  BY <1>2 DEF Toward, Sides
<1> QED
  BY <1>1, <1>3, <1>4, <1>5 DEF PositionBounded

LEMMA InitPInv == Init => PInv
<1> SUFFICES ASSUME Init
             PROVE  PInv
  OBVIOUS
<1>1. TInv
  BY InitTInv
<1>2. ASSUME NEW side \in Sides
      PROVE  Bounded(side)
  <2>1. /\ On(side, book) = {} /\ On(side, toPlace) = {}
        /\ pc["quoter"] = "idle" /\ position = 0
    BY DEF Init, On, Users
  <2>2. Held(side) = 0 /\ IsFiniteSet(On(side, toPlace))
    BY <2>1, FS_EmptySet DEF Held
  <2>3. Weight(Levels) \in Nat /\ Weight(0) = 0 /\ MaxPosition \in Nat \ {0} /\ Levels \in Nat
    BY Weighing, Parameters
  <2>4. Toward(side) < MaxPosition
    <3>1. \A m, n \in Int : m = 0 /\ 0 < n => m < n /\ -m < n
      OBVIOUS
    <3>2. position \in Int /\ MaxPosition \in Int /\ 0 < MaxPosition
      BY <2>1, <2>3
    <3>3. position < MaxPosition /\ -position < MaxPosition
      BY ONLY <2>1, <3>1, <3>2
    <3> QED
      BY <3>3 DEF Toward
  <2>5. Toward(side) \in Int
    BY <1>1 DEF Toward, TInv, UInv, Typed
  <2> QED
    BY <2>1, <2>2, <2>3, <2>4, <2>5 DEF Bounded
<1> QED
  BY <1>1, <1>2 DEF PInv

(* The steps that fill nothing and add nothing.                             *)
LEMMA Lighter ==
    ASSUME PInv, TInv', NEW side \in Sides,
           position' = position, book' \subseteq book, toPlace' = toPlace,
           target' = target \/ pc'["quoter"] # "lock",
           pc'["quoter"] = "lock" => pc["quoter"] = "lock",
           pc'["quoter"] \in {"update", "placed"} =>
               /\ pc["quoter"] \in {"update", "placed"}
               /\ (book' \ toCancel'["quoter"]) \subseteq (book \ toCancel["quoter"])
    PROVE  Bounded(side)'
<1>1. /\ IsFiniteSet(On(side, book)) /\ IsFiniteSet(On(side, book \ toCancel["quoter"]))
      /\ Held(side) \in Nat /\ Kept(side) \in Nat /\ Due(side) \in Nat
      /\ Toward(side) \in Int
  BY Counts
<1>2. Bounded(side) /\ Toward(side)' = Toward(side)
  BY DEF PInv, Toward
<1>3. Held(side)' \in Nat /\ Held(side)' <= Held(side)
  <2>1. On(side, book') \subseteq On(side, book)
    BY DEF On
  <2> QED
    BY <1>1, <2>1, FS_Subset, FS_CardinalityType DEF Held
<1>4. Weight(Held(side)') \in Nat /\ Weight(Held(side)') <= Weight(Held(side))
  BY <1>1, <1>3, Weighing
<1>5. /\ Weight(Held(side)) \in Nat /\ Weight(Due(side)) \in Nat
      /\ Weight(Levels) \in Nat /\ MaxPosition \in Nat /\ Levels \in Nat
  BY <1>1, Weighing, Parameters
<1>6. ASSUME pc'["quoter"] \in {"update", "placed"}
      PROVE  Due(side)' = Due(side) /\ Kept(side)' \in Nat /\ Kept(side)' <= Kept(side)
  <2>1. On(side, (book \ toCancel["quoter"])') \subseteq On(side, book \ toCancel["quoter"])
    BY <1>6 DEF On
  <2>2. Due(side)' = Due(side)
    BY <1>6 DEF Due
  <2> QED
    BY <1>1, <2>1, <2>2, FS_Subset, FS_CardinalityType DEF Kept
<1>7. Weight(Held(side))' = Weight(Held(side)') /\ Weight(Due(side))' = Weight(Due(side)')
      /\ Weight(Levels)' = Weight(Levels)
  BY DEF Weight, Size
<1>8. Held(side)' <= Levels
  BY <1>1, <1>2, <1>3, <1>5 DEF Bounded
<1>9. (Toward(side) + Weight(Held(side)))' < MaxPosition + Weight(Levels) + Weight(Levels)
  BY <1>1, <1>2, <1>4, <1>5, <1>7 DEF Bounded
<1>10. ASSUME pc'["quoter"] = "lock", DOMAIN target'[side] # {}
       PROVE  (Toward(side) + Weight(Held(side)))' < MaxPosition + Weight(Levels)
  <2>1. Toward(side) + Weight(Held(side)) < MaxPosition + Weight(Levels)
    BY <1>2, <1>10 DEF Bounded
  <2> QED
    BY <1>1, <1>2, <1>4, <1>5, <1>7, <2>1
<1>11. ASSUME pc'["quoter"] \in {"update", "placed"}
       PROVE  /\ (Kept(side) + Due(side))' <= Levels
              /\ (Toward(side) + Weight(Held(side)) + Weight(Due(side)))'
                     < MaxPosition + Weight(Levels) + Weight(Levels)
  <2>1. /\ Kept(side) + Due(side) <= Levels
        /\ Toward(side) + Weight(Held(side)) + Weight(Due(side))
               < MaxPosition + Weight(Levels) + Weight(Levels)
    BY <1>2, <1>11 DEF Bounded
  <2> QED
    BY <1>1, <1>2, <1>4, <1>5, <1>6, <1>7, <1>11, <2>1
<1>12. IsFiniteSet(On(side, toPlace))'
  BY <1>2 DEF Bounded
<1> QED
  BY <1>7, <1>8, <1>9, <1>10, <1>11, <1>12 DEF Bounded

(* A ladder is asked for only on a side that is below the maximum.          *)
LEMMA BoundedCall ==
    ASSUME PInv, TInv', NEW vol \in Vols, CallUpdate(vol), NEW side \in Sides
    PROVE  Bounded(side)'
<1>1. /\ target' = [bid |-> Bids(mid, position, vol), ask |-> Asks(mid, position, vol)]
      /\ pc' = [pc EXCEPT !["quoter"] = "lock"]
      /\ UNCHANGED <<position, book, toPlace>>
  BY DEF CallUpdate, Goto, market
<1>2. pc'["quoter"] = "lock"
  BY <1>1 DEF PInv, TInv, UInv, IInv, Locked, Users
<1>3. Held(side)' = Held(side) /\ Toward(side)' = Toward(side)
  BY <1>1 DEF Held, Toward
<1>4. Held(side) \in Nat /\ Toward(side) \in Int
  BY Counts
<1>5. Bounded(side)
  BY DEF PInv
<1>6. ASSUME DOMAIN target'[side] # {}
      PROVE  Toward(side) < MaxPosition
  <2>1. MaxPosition \in Nat /\ position \in Int
    BY Parameters DEF PInv, TInv, UInv, Typed
  <2>2. CASE side = "bid"
    <3>1. PICK l : l \in BidLevels(mid, position, vol)
      BY <1>1, <1>6, <2>2 DEF Bids
    <3> QED
      BY <2>2, <3>1 DEF BidLevels, CanBid, Toward
  <2>3. CASE side = "ask"
    <3>1. PICK l : l \in AskLevels(mid, position, vol)
      BY <1>1, <1>6, <2>3 DEF Asks
    <3>2. position > -MaxPosition
      BY <3>1 DEF AskLevels, CanAsk
    <3>3. -position < MaxPosition
      BY <2>1, <3>2
    <3> QED
      BY <2>3, <3>3 DEF Toward
  <2> QED
    BY <2>2, <2>3 DEF Sides
<1>7. /\ Levels \in Nat /\ MaxPosition \in Nat /\ Weight(Levels) \in Nat
      /\ Weight(Held(side)) <= Weight(Levels) /\ Weight(Held(side)) \in Nat
  BY <1>4, <1>5, Parameters, Weighing DEF Bounded
<1>8. DOMAIN target'[side] # {} =>
          Toward(side) + Weight(Held(side)) < MaxPosition + Weight(Levels)
  BY <1>4, <1>6, <1>7
<1>9. Weight(Held(side))' = Weight(Held(side)) /\ Weight(Levels)' = Weight(Levels)
  BY <1>3 DEF Weight, Size
<1>10. IsFiniteSet(On(side, toPlace))'
  BY <1>1, <1>5 DEF Bounded
<1> QED
  BY <1>2, <1>3, <1>5, <1>8, <1>9, <1>10 DEF Bounded

(* Each level of a target either keeps an order or has one placed.          *)
LEMMA KeptOrPlaced ==
    ASSUME NEW D \in SUBSET (1 .. Levels), NEW match, DOMAIN match = D,
           NEW Q, NEW quote,
           \A i \in D : match[i] = NoOrder => quote[i] \in Q,
           \A q \in Q : \E i \in D : match[i] = NoOrder /\ quote[i] = q
    PROVE  /\ IsFiniteSet(KeptOf(match)) /\ IsFiniteSet(Q)
           /\ Cardinality(KeptOf(match)) \in Nat /\ Cardinality(Q) \in Nat
           /\ Cardinality(KeptOf(match)) + Cardinality(Q) <= Levels
<1> DEFINE D0 == {i \in D : match[i] = NoOrder}
           D1 == D \ D0
<1>1. Levels \in Nat
  BY Parameters
<1>2. IsFiniteSet(1 .. Levels) /\ Cardinality(1 .. Levels) <= Levels
  BY <1>1, FS_Interval
<1>3. IsFiniteSet(D) /\ Cardinality(D) <= Cardinality(1 .. Levels)
  BY <1>2, FS_Subset
<1>4. IsFiniteSet(D0) /\ IsFiniteSet(D1)
  BY <1>3, FS_Subset
<1>5. Cardinality(D0) \in Nat /\ Cardinality(D1) \in Nat
      /\ Cardinality(D) \in Nat /\ Cardinality(1 .. Levels) \in Nat
  BY <1>2, <1>3, <1>4, FS_CardinalityType
<1>6. Cardinality(D0) + Cardinality(D1) = Cardinality(D)
  <2>1. Cardinality(D1) = Cardinality(D) - Cardinality(D \cap D0)
    BY <1>3, FS_Difference
  <2>2. D \cap D0 = D0
    OBVIOUS
  <2> HIDE DEF D0, D1
  <2>3. Cardinality(D1) = Cardinality(D) - Cardinality(D0)
    BY <2>1, <2>2
  <2> QED
    BY <1>5, <2>3
<1>7. IsFiniteSet(KeptOf(match)) /\ Cardinality(KeptOf(match)) <= Cardinality(D1)
  <2> DEFINE f == [i \in D1 |-> match[i]]
  <2>1. f \in Surjection(D1, KeptOf(match))
    <3>1. \A i \in D1 : f[i] \in KeptOf(match)
      BY DEF KeptOf
    <3>2. f \in [D1 -> KeptOf(match)]
      BY <3>1
    <3>3. \A o \in KeptOf(match) : \E i \in D1 : f[i] = o
      BY DEF KeptOf
    <3> QED
      BY <3>2, <3>3 DEF Surjection
  <2> QED
    BY <1>4, <2>1, FS_Surjection
<1>8. IsFiniteSet(Q) /\ Cardinality(Q) <= Cardinality(D0)
  <2> DEFINE f == [i \in D0 |-> quote[i]]
  <2>1. f \in Surjection(D0, Q)
    <3>1. f \in [D0 -> Q]
      OBVIOUS
    <3>2. \A q \in Q : \E i \in D0 : f[i] = q
      OBVIOUS
    <3> QED
      BY <3>1, <3>2 DEF Surjection
  <2> QED
    BY <1>4, <2>1, FS_Surjection
<1>9. Cardinality(KeptOf(match)) \in Nat /\ Cardinality(Q) \in Nat
  BY <1>7, <1>8, FS_CardinalityType
<1> QED
  BY <1>1, <1>2, <1>3, <1>5, <1>6, <1>7, <1>8, <1>9

LEMMA BoundedDiff ==
    ASSUME PInv, TInv', Diff, NEW side \in Sides
    PROVE  Bounded(side)'
<1>1. /\ pc["quoter"] = "lock" /\ UNCHANGED <<position, book>>
      /\ book \subseteq tracked
      /\ toCancel = [u \in Users |-> toCancel[u]]
      /\ DOMAIN target[side] \in SUBSET (1 .. Levels)
      /\ Bounded(side)
  BY DEF Diff, market, PInv, TInv, UInv, Typed, IInv, Listed, Shaped
<1>2. PICK bids \in [DOMAIN target.bid -> ActiveOn("bid") \cup {NoOrder}],
           asks \in [DOMAIN target.ask -> ActiveOn("ask") \cup {NoOrder}] :
          /\ Matches(ActiveOn("bid"), target.bid, bids)
          /\ Matches(ActiveOn("ask"), target.ask, asks)
          /\ toCancel' = [toCancel EXCEPT !["quoter"] =
                             tracked \ (KeptOf(bids) \cup KeptOf(asks))]
          /\ toPlace' = Unmatched("bid", bids) \cup Unmatched("ask", asks)
  BY DEF Diff
<1> DEFINE match == IF side = "bid" THEN bids ELSE asks
           D == DOMAIN target[side]
           quote == [i \in D |-> [side |-> side, level |-> i, price |-> target[side][i]]]
           Q == {quote[i] : i \in {j \in D : match[j] = NoOrder}}
<1>3. DOMAIN match = D
  BY DEF Sides
<1>4. On(side, (book \ toCancel["quoter"])') \subseteq KeptOf(match)
  <2>1. (book \ toCancel["quoter"])' \subseteq KeptOf(bids) \cup KeptOf(asks)
    BY <1>1, <1>2 DEF Users
  <2>2. ASSUME NEW o \in KeptOf(bids) PROVE o.side = "bid"
    BY <1>2, <2>2, KeptPrice DEF ActiveOn
  <2>3. ASSUME NEW o \in KeptOf(asks) PROVE o.side = "ask"
    BY <1>2, <2>3, KeptPrice DEF ActiveOn
  <2> QED
    BY <2>1, <2>2, <2>3 DEF On, Sides
<1>5. On(side, toPlace') = Q
  <2>1. ASSUME NEW q \in Unmatched("bid", bids) PROVE q.side = "bid"
    BY <2>1 DEF Unmatched
  <2>2. ASSUME NEW q \in Unmatched("ask", asks) PROVE q.side = "ask"
    BY <2>2 DEF Unmatched
  <2>3. On(side, toPlace') = Unmatched(side, match)
    BY <1>2, <2>1, <2>2 DEF On, Sides
  <2>4. Unmatched(side, match) = Q
    BY <1>3 DEF Unmatched
  <2> QED
    BY <2>3, <2>4
<1> HIDE DEF match, D, quote, Q
<1>6. /\ IsFiniteSet(KeptOf(match)) /\ IsFiniteSet(Q)
      /\ Cardinality(KeptOf(match)) \in Nat /\ Cardinality(Q) \in Nat
      /\ Cardinality(KeptOf(match)) + Cardinality(Q) <= Levels
  <2>1. D \in SUBSET (1 .. Levels)
    BY <1>1 DEF D
  <2>2. /\ \A i \in D : match[i] = NoOrder => quote[i] \in Q
        /\ \A q \in Q : \E i \in D : match[i] = NoOrder /\ quote[i] = q
    BY DEF Q
  <2> QED
    BY <1>3, <2>1, <2>2, KeptOrPlaced
<1>7. /\ Due(side)' = Cardinality(Q) /\ Kept(side)' \in Nat
      /\ Kept(side)' <= Cardinality(KeptOf(match))
  BY <1>4, <1>5, <1>6, FS_Subset, FS_CardinalityType DEF Due, Kept
<1>8. /\ Held(side) \in Nat /\ Toward(side) \in Int
      /\ Held(side)' = Held(side) /\ Toward(side)' = Toward(side)
  BY <1>1, Counts DEF Held, Toward
<1>9. /\ Levels \in Nat /\ MaxPosition \in Nat
      /\ Weight(Levels) \in Nat /\ Weight(Held(side)) \in Nat
      /\ Weight(Cardinality(Q)) \in Nat /\ Weight(0) = 0
      /\ Weight(Cardinality(Q)) <= Weight(Levels)
  <2>1. Levels \in Nat /\ MaxPosition \in Nat
    BY Parameters
  <2>2. Cardinality(Q) <= Levels
    BY <1>6, <2>1
  <2> QED
    BY <1>6, <1>8, <2>1, <2>2, Weighing
<1>10. Toward(side) + Weight(Held(side)) + Weight(Cardinality(Q))
           < MaxPosition + Weight(Levels) + Weight(Levels)
  <2>1. CASE D = {}
    <3>1. Cardinality(Q) = 0
      BY <2>1, FS_EmptySet DEF Q
    <3> QED
      BY <1>1, <1>8, <1>9, <3>1 DEF Bounded
  <2>2. CASE D # {}
    <3>1. Toward(side) + Weight(Held(side)) < MaxPosition + Weight(Levels)
      BY <1>1, <2>2 DEF Bounded, D
    <3> QED
      BY <1>8, <1>9, <3>1
  <2> QED
    BY <2>1, <2>2
<1>11. pc'["quoter"] # "lock"
  <2>1. PICK more \in BOOLEAN : GoOn("quoter", more, "update")
    BY DEF Diff
  <2> QED
    BY <2>1, GoesOn DEF Users, PInv, TInv, UInv, IInv
<1>12. /\ Weight(Held(side))' = Weight(Held(side)) /\ Weight(Levels)' = Weight(Levels)
       /\ Weight(Due(side))' = Weight(Cardinality(Q))
  BY <1>7, <1>8 DEF Weight, Size
<1>13. Bounded(side)'
  <2>1. (Kept(side) + Due(side))' <= Levels
    BY <1>6, <1>7, <1>9
  <2>2. Held(side)' <= Levels
    BY <1>1, <1>8 DEF Bounded
  <2>3. (Toward(side) + Weight(Held(side)))' < MaxPosition + Weight(Levels) + Weight(Levels)
    BY <1>1, <1>8, <1>12 DEF Bounded
  <2>4. (Toward(side) + Weight(Held(side)) + Weight(Due(side)))'
            < MaxPosition + Weight(Levels) + Weight(Levels)
    BY <1>8, <1>10, <1>12
  <2>5. IsFiniteSet(On(side, toPlace))'
    BY <1>5, <1>6
  <2> QED
    BY <1>11, <1>12, <2>1, <2>2, <2>3, <2>4, <2>5 DEF Bounded
<1> QED
  BY <1>13

LEMMA OneLess ==
    ASSUME NEW S, IsFiniteSet(S), NEW x \in S, NEW T, T = S \ {x}
    PROVE  /\ IsFiniteSet(T) /\ Cardinality(T) \in Nat
           /\ Cardinality(T) = Cardinality(S) - 1
           /\ Cardinality(S) = Cardinality(T) + 1
<1>1. IsFiniteSet(T) /\ Cardinality(T) = Cardinality(S) - 1
  BY FS_RemoveElement
<1>2. Cardinality(T) \in Nat /\ Cardinality(S) \in Nat
  BY <1>1, FS_CardinalityType
<1> QED
  BY <1>1, <1>2

(* A placement turns a quote that was due into an order on the book.        *)
LEMMA BoundedPlace ==
    ASSUME PInv, TInv', Place, NEW side \in Sides
    PROVE  Bounded(side)'
<1>1. PICK q \in toPlace, k \in 1 .. Cardinality(Known) + 1 :
          /\ book' = book \cup {[side |-> q.side, price |-> q.price, serial |-> k]}
          /\ toPlace' = toPlace \ {q}
  BY DEF Place
<1>2. /\ pc["quoter"] = "update" /\ toCancel["quoter"] = {}
      /\ pc' = [pc EXCEPT !["quoter"] = "placed"]
      /\ UNCHANGED <<position, toCancel>>
  BY DEF Place, CancelsFirst, Goto, market
<1> DEFINE o == [side |-> q.side, price |-> q.price, serial |-> k]
<1>3. o.side = q.side /\ book' = book \cup {o}
  BY <1>1
<1> HIDE DEF o
<1>4. /\ IsFiniteSet(On(side, book)) /\ IsFiniteSet(On(side, toPlace))
      /\ Held(side) \in Nat /\ Due(side) \in Nat /\ Kept(side) \in Nat
      /\ Toward(side) \in Int
  BY Counts
<1>5. Bounded(side) /\ Toward(side)' = Toward(side)
  BY <1>2 DEF PInv, Toward
<1>6. Kept(side) = Held(side) /\ Kept(side)' = Held(side)'
  BY <1>2 DEF Kept, Held
<1>7. IsFiniteSet(On(side, toPlace')) /\ Due(side)' \in Nat /\ Held(side)' \in Nat
      /\ Held(side)' + Due(side)' <= Held(side) + Due(side)
  <2>1. CASE q.side = side
    <3>1. On(side, book') = On(side, book) \cup {o}
      BY <1>3, <2>1 DEF On
    <3>2. On(side, toPlace') = On(side, toPlace) \ {q} /\ q \in On(side, toPlace)
      BY <1>1, <2>1 DEF On
    <3>3. Held(side)' \in Nat /\ Held(side)' <= Held(side) + 1
      <4>1. /\ IsFiniteSet(On(side, book) \cup {o})
            /\ Cardinality(On(side, book) \cup {o})
                   \in {Cardinality(On(side, book)), Cardinality(On(side, book)) + 1}
        BY <1>4, FS_AddElement
      <4>2. Held(side)' \in Nat /\ Held(side)' \in {Held(side), Held(side) + 1}
        BY <3>1, <4>1, FS_CardinalityType DEF Held
      <4> QED
        BY <1>4, <4>2
    <3>4. /\ IsFiniteSet(On(side, toPlace')) /\ Due(side)' \in Nat
          /\ Due(side)' = Due(side) - 1
      <4>1. /\ IsFiniteSet(On(side, toPlace'))
            /\ Cardinality(On(side, toPlace')) \in Nat
            /\ Cardinality(On(side, toPlace')) = Cardinality(On(side, toPlace)) - 1
        BY <1>4, <3>2, OneLess
      <4> QED
        BY <4>1 DEF Due
    <3> QED
      BY <1>4, <3>3, <3>4
  <2>2. CASE q.side # side
    <3>1. On(side, book') = On(side, book)
      BY <1>3, <2>2 DEF On
    <3>2. On(side, toPlace') = On(side, toPlace)
      BY <1>1, <2>2 DEF On
    <3> QED
      BY <1>4, <3>1, <3>2 DEF Held, Due
  <2> QED
    BY <2>1, <2>2
<1>8. /\ Held(side) + Due(side) <= Levels
      /\ Toward(side) + Weight(Held(side)) + Weight(Due(side))
             < MaxPosition + Weight(Levels) + Weight(Levels)
  BY <1>2, <1>5, <1>6 DEF Bounded
<1>9. /\ Levels \in Nat /\ MaxPosition \in Nat /\ Weight(Levels) \in Nat
      /\ Weight(Held(side)' + Due(side)') = Weight(Held(side)') + Weight(Due(side)')
      /\ Weight(Held(side) + Due(side)) = Weight(Held(side)) + Weight(Due(side))
      /\ Weight(Held(side)') \in Nat /\ Weight(Due(side)') \in Nat
      /\ Weight(Held(side)) \in Nat /\ Weight(Due(side)) \in Nat
      /\ Weight(Held(side)' + Due(side)') <= Weight(Held(side) + Due(side))
  <2>1. Levels \in Nat /\ MaxPosition \in Nat /\ Weight(Levels) \in Nat
    BY Parameters, Weighing
  <2>2. /\ Held(side) + Due(side) \in Nat
        /\ Weight(Held(side)) \in Nat /\ Weight(Due(side)) \in Nat
    <3>1. \A m \in Nat : Weight(m) \in Nat
      BY Weighing
    <3> QED
      BY <1>4, <3>1
  <2>5. Weight(Held(side) + Due(side)) = Weight(Held(side)) + Weight(Due(side))
    <3>1. \A m, n \in Nat : Weight(m + n) = Weight(m) + Weight(n)
      BY Weighing
    <3> QED
      BY <1>4, <3>1
  <2>3. /\ Held(side)' + Due(side)' \in Nat
        /\ Weight(Held(side)') \in Nat /\ Weight(Due(side)') \in Nat
    <3>1. \A m \in Nat : Weight(m) \in Nat
      BY Weighing
    <3> QED
      BY <1>7, <3>1
  <2>6. Weight(Held(side)' + Due(side)') = Weight(Held(side)') + Weight(Due(side)')
    <3>1. \A m, n \in Nat : Weight(m + n) = Weight(m) + Weight(n)
      BY Weighing
    <3> QED
      BY <1>7, <3>1
  <2>4. Weight(Held(side)' + Due(side)') <= Weight(Held(side) + Due(side))
    BY <1>7, <2>2, <2>3, Weighing
  <2> QED
    BY <2>1, <2>2, <2>3, <2>4, <2>5, <2>6
<1>10. /\ Weight(Held(side))' = Weight(Held(side)') /\ Weight(Due(side))' = Weight(Due(side)')
       /\ Weight(Levels)' = Weight(Levels)
  BY DEF Weight, Size
<1>11. pc'["quoter"] = "placed"
  BY <1>2 DEF PInv, TInv, UInv, IInv, Locked, Users
<1>12. Held(side)' <= Levels /\ Kept(side)' + Due(side)' <= Levels
  BY <1>4, <1>6, <1>7, <1>8, <1>9
<1>13. (Toward(side) + Weight(Held(side)) + Weight(Due(side)))'
           < MaxPosition + Weight(Levels) + Weight(Levels)
  BY <1>4, <1>5, <1>8, <1>9, <1>10
<1>14. (Toward(side) + Weight(Held(side)))' < MaxPosition + Weight(Levels) + Weight(Levels)
  BY <1>4, <1>5, <1>8, <1>9, <1>10
<1> QED
  BY <1>7, <1>10, <1>11, <1>12, <1>13, <1>14 DEF Bounded

(* A fill takes an order off the book and moves the position by its size.   *)
LEMMA BoundedFill ==
    ASSUME PInv, TInv', NEW o \in candidates, SimulateFill(o), NEW side \in Sides
    PROVE  Bounded(side)'
<1>1. /\ o \in book /\ book' = book \ {o} /\ position' = position + Signed(o)
      /\ UNCHANGED <<pc, target, toPlace, toCancel>>
  BY DEF SimulateFill, quoting
<1>2. /\ IsFiniteSet(On(side, book)) /\ IsFiniteSet(On(side, book \ toCancel["quoter"]))
      /\ Held(side) \in Nat /\ Due(side) \in Nat /\ Kept(side) \in Nat
      /\ Toward(side) \in Int
  BY Counts
<1>3. Bounded(side) /\ Due(side)' = Due(side)
  BY <1>1 DEF PInv, Due
<1>4. Size \in Nat /\ position \in Int
  BY SizeType DEF PInv, TInv, UInv, Typed
<1>5. Kept(side)' \in Nat /\ Kept(side)' <= Kept(side)
  <2>1. On(side, (book \ toCancel["quoter"])') \subseteq On(side, book \ toCancel["quoter"])
    BY <1>1 DEF On
  <2> QED
    BY <1>2, <2>1, FS_Subset, FS_CardinalityType DEF Kept
<1>6. /\ Held(side)' \in Nat /\ Held(side)' <= Held(side)
      /\ Weight(Held(side)') \in Nat /\ Toward(side)' \in Int
      /\ Toward(side)' + Weight(Held(side)') <= Toward(side) + Weight(Held(side))
  <2>1. CASE o.side = side
    <3>1. On(side, book') = On(side, book) \ {o} /\ o \in On(side, book)
      BY <1>1, <2>1 DEF On
    <3>2. Held(side)' \in Nat /\ Held(side) = Held(side)' + 1
      BY <1>2, <3>1, OneLess DEF Held
    <3>3. Toward(side)' = Toward(side) + Size
      BY <1>1, <1>4, <2>1 DEF Toward, Signed, Sides
    <3>4. Weight(Held(side)') \in Nat /\ Weight(Held(side)) = Weight(Held(side)') + Size
      BY <3>2, Weighing
    <3> QED
      BY <1>2, <1>4, <3>2, <3>3, <3>4
  <2>2. CASE o.side # side
    <3>1. On(side, book') = On(side, book)
      BY <1>1, <2>2 DEF On
    <3>2. Held(side)' = Held(side)
      BY <3>1 DEF Held
    <3>3. o.side \in Sides
      BY <1>1 DEF PInv, TInv, Shaped, IsOrder, Sides
    <3>4. Toward(side)' = Toward(side) - Size
      BY <1>1, <1>4, <2>2, <3>3 DEF Toward, Signed, Sides
    <3>5. Weight(Held(side)) \in Nat
      BY <1>2, Weighing
    <3> QED
      BY <1>2, <1>4, <3>2, <3>4, <3>5
  <2> QED
    BY <2>1, <2>2
<1>7. /\ Levels \in Nat /\ MaxPosition \in Nat /\ Weight(Levels) \in Nat
      /\ Weight(Held(side)) \in Nat /\ Weight(Due(side)) \in Nat
  BY <1>2, Parameters, Weighing
<1>8. /\ Weight(Held(side))' = Weight(Held(side)') /\ Weight(Due(side))' = Weight(Due(side))
      /\ Weight(Levels)' = Weight(Levels)
  BY <1>3 DEF Weight, Size
<1>9. IsFiniteSet(On(side, toPlace')) /\ Held(side)' <= Levels
  BY <1>1, <1>2, <1>3, <1>6, <1>7 DEF Bounded
<1>10. (Toward(side) + Weight(Held(side)))' < MaxPosition + Weight(Levels) + Weight(Levels)
  BY <1>2, <1>3, <1>6, <1>7, <1>8 DEF Bounded
<1>11. ASSUME pc'["quoter"] = "lock", DOMAIN target'[side] # {}
       PROVE  (Toward(side) + Weight(Held(side)))' < MaxPosition + Weight(Levels)
  <2>1. Toward(side) + Weight(Held(side)) < MaxPosition + Weight(Levels)
    BY <1>1, <1>3, <1>11 DEF Bounded
  <2> QED
    BY <1>2, <1>6, <1>7, <1>8, <2>1
<1>12. ASSUME pc'["quoter"] \in {"update", "placed"}
       PROVE  /\ (Kept(side) + Due(side))' <= Levels
              /\ (Toward(side) + Weight(Held(side)) + Weight(Due(side)))'
                     < MaxPosition + Weight(Levels) + Weight(Levels)
  <2>1. /\ Kept(side) + Due(side) <= Levels
        /\ Toward(side) + Weight(Held(side)) + Weight(Due(side))
               < MaxPosition + Weight(Levels) + Weight(Levels)
    BY <1>1, <1>3, <1>12 DEF Bounded
  <2> QED
    BY <1>2, <1>3, <1>5, <1>6, <1>7, <1>8, <2>1
<1> QED
  BY <1>8, <1>9, <1>10, <1>11, <1>12 DEF Bounded

LEMMA StepPInv == PInv /\ [Next]_vars => PInv'
<1> SUFFICES ASSUME PInv, [Next]_vars, NEW side \in Sides
             PROVE  Bounded(side)'
  BY StepTInv DEF PInv
<1>t. /\ TInv' /\ Locked /\ pc["quoter"] \in Labels
      /\ toCancel = [u \in Users |-> toCancel[u]]
  BY StepTInv DEF PInv, TInv, UInv, Typed, IInv, Locked, Users
<1>1. ASSUME NEW m \in Mids, MidMoves(m)
      PROVE  Bounded(side)'
  <2>1. UNCHANGED <<position, book, pc, target, toPlace, toCancel>>
    BY <1>1 DEF MidMoves, quoting
  <2> QED
    BY <1>t, <2>1, Lighter
<1>2. ASSUME NEW vol \in Vols, CallUpdate(vol)
      PROVE  Bounded(side)'
  BY <1>t, <1>2, BoundedCall
<1>3. ASSUME NEW vol \in Vols, CallSuppressed(vol)
      PROVE  Bounded(side)'
  <2>1. /\ book' = {} /\ pc["quoter"] = "idle"
        /\ UNCHANGED <<position, pc, target, toPlace, toCancel>>
    BY <1>3 DEF CallSuppressed, market, quoting
  <2> QED
    BY <1>t, <2>1, Lighter
<1>4. CASE Diff
  BY <1>t, <1>4, BoundedDiff
<1>5. ASSUME NEW u \in Users, NEW o \in toCancel[u], Cancel(u, o)
      PROVE  Bounded(side)'
  <2>1. PICK more \in BOOLEAN : GoOn(u, more, "update")
    BY <1>5 DEF Cancel
  <2>2. /\ pc[u] = "update" /\ book' = book \ {o}
        /\ toCancel' = [toCancel EXCEPT ![u] = @ \ {o}]
        /\ UNCHANGED <<position, target, toPlace>>
    BY <1>5 DEF Cancel, quoting, market
  <2>3. (book' \ toCancel'["quoter"]) \subseteq (book \ toCancel["quoter"])
    BY <1>t, <2>2 DEF Users
  <2>4. /\ pc'["quoter"] = "lock" => pc["quoter"] = "lock"
        /\ pc'["quoter"] \in {"update", "placed"} => pc["quoter"] \in {"update", "placed"}
    BY <1>t, <2>1, <2>2, GoesOn DEF Users
  <2> QED
    BY <1>t, <2>2, <2>3, <2>4, Lighter
<1>6. CASE Place
  BY <1>t, <1>6, BoundedPlace
<1>7. CASE Placed
  <2>1. PICK more \in BOOLEAN : GoOn("quoter", more, "update")
    BY <1>7 DEF Placed
  <2>2. /\ pc["quoter"] = "placed"
        /\ UNCHANGED <<position, book, target, toPlace, toCancel>>
    BY <1>7 DEF Placed, market
  <2>3. pc'["quoter"] # "lock"
    BY <1>t, <2>1, GoesOn DEF Users
  <2> QED
    BY <1>t, <2>2, <2>3, Lighter
<1>8. CASE CallCancelAll
  <2>1. /\ pc' = [pc EXCEPT !["quoter"] = "allLock"]
        /\ UNCHANGED <<position, book, target, toPlace, toCancel>>
    BY <1>8 DEF CallCancelAll, Goto, market, quoting
  <2>2. pc'["quoter"] = "allLock"
    BY <1>t, <2>1 DEF Locked, Users
  <2> QED
    BY <1>t, <2>1, <2>2, Lighter
<1>9. CASE CancelAll
  <2>1. /\ GoOn("quoter", TRUE, "report") /\ book' = {}
        /\ UNCHANGED <<position, target, toPlace, toCancel>>
    BY <1>9 DEF CancelAll, Swept, market, quoting
  <2>2. pc'["quoter"] = "report"
    BY <1>t, <2>1, GoesOn DEF Users
  <2> QED
    BY <1>t, <2>1, <2>2, Lighter
<1>10. CASE Reported
  <2>1. /\ GoOn("quoter", FALSE, "report")
        /\ UNCHANGED <<position, book, target, toPlace, toCancel>>
    BY <1>10 DEF Reported, market, quoting
  <2>2. pc'["quoter"] = "idle"
    BY <1>t, <2>1, GoesOn DEF Users
  <2> QED
    BY <1>t, <2>1, <2>2, Lighter
<1>11. ASSUME NEW stale \in SUBSET tracked, CleanStart(stale)
       PROVE  Bounded(side)'
  <2>1. /\ GoOn("cleaner", TRUE, "update")
        /\ toCancel' = [toCancel EXCEPT !["cleaner"] = stale]
        /\ UNCHANGED <<position, book, target, toPlace>>
    BY <1>11 DEF CleanStart, market, quoting
  <2>2. pc'["quoter"] = pc["quoter"]
    BY <1>t, <2>1, GoesOn DEF Users
  <2>3. toCancel'["quoter"] = toCancel["quoter"]
    BY <1>t, <2>1 DEF Users
  <2> QED
    BY <1>t, <2>1, <2>2, <2>3, Lighter
<1>12. CASE Tick
  <2>1. UNCHANGED <<position, book, pc, target, toPlace, toCancel>>
    BY <1>12 DEF Tick, market, quoting
  <2> QED
    BY <1>t, <2>1, Lighter
<1>13. ASSUME NEW o \in candidates, Skip(o)
       PROVE  Bounded(side)'
  <2>1. UNCHANGED <<position, book, pc, target, toPlace, toCancel>>
    BY <1>13 DEF Skip, market, quoting
  <2> QED
    BY <1>t, <2>1, Lighter
<1>14. ASSUME NEW o \in candidates, SimulateFill(o)
       PROVE  Bounded(side)'
  BY <1>t, <1>14, BoundedFill
<1>15. CASE HandleFill
  <2>1. UNCHANGED <<position, book, pc, target, toPlace, toCancel>>
    BY <1>15 DEF HandleFill, market, quoting
  <2> QED
    BY <1>t, <2>1, Lighter
<1>16. CASE UNCHANGED vars
  <2>1. UNCHANGED <<position, book, pc, target, toPlace, toCancel>>
    BY <1>16 DEF vars, market, quoting
  <2> QED
    BY <1>t, <2>1, Lighter
<1> QED
  BY <1>1, <1>2, <1>3, <1>4, <1>5, <1>6, <1>7, <1>8, <1>9, <1>10, <1>11,
     <1>12, <1>13, <1>14, <1>15, <1>16
     DEF Next, Cycle, QuoterRuns, QuoterLocks, CleanerRuns, Lucky, SimRuns, Users

(* In every execution the position stays within two ladders of the maximum: *)
(* the limit is checked when a cycle computes its quotes, and what the      *)
(* book held then and what is placed after it are one ladder each, whatever *)
(* is filled while the update waits for the lock.                           *)
THEOREM WithinTwoLadders == Spec => []PositionBounded
<1>1. Init => PInv
  BY InitPInv
<1>2. PInv /\ [Next]_vars => PInv'
  BY StepPInv
<1>3. PInv => PositionBounded
  BY PositionBoundedFromPInv
<1> QED
  BY <1>1, <1>2, <1>3, PTL DEF Spec
=============================================================================
