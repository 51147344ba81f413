------------------------------ MODULE Inventory ------------------------------
(***************************************************************************)
(* The inventory manager (src/src/inventory.py): the position and the FIFO *)
(* lots it keeps from the fills of the userFills WebSocket, and the        *)
(* reconciliation with the exchange that start and a 30 s loop run.        *)
(*                                                                         *)
(* The WebSocket task and the reconcile task share the lots under a lock   *)
(* that neither keeps across an await on the network, so that a fill and a *)
(* repair are one action each.  get_position is awaited before the lock is *)
(* taken: the answer is used in a later step than the one it is true of.   *)
(*                                                                         *)
(* The exchange is taken to give every fill a tid of its own.  The code    *)
(* reads a fill without one as tid 0 and applies it whenever it comes      *)
(* (apply_fill, inventory.py:251): such a fill counts again with every     *)
(* snapshot of a reconnect, and the model has none.                        *)
(***************************************************************************)
EXTENDS Integers, Sequences, FiniteSets

CONSTANTS
    Fills,      \* the fills the exchange can make, by their tid
    Trades,     \* what a fill can be: [side, size, price]
    Prices,     \* the prices of trades and of the exchange's average entry
    Bases,      \* positions an earlier process of the bot may have left
    MaxDrops    \* bound: how often the WebSocket session ends

ASSUME InventoryAssumption ==
    /\ Prices \subseteq Nat
    /\ Trades \subseteq [side: {"long", "short"}, size: Nat \ {0},
                         price: Prices]
    /\ Bases \subseteq Int
    /\ MaxDrops \in Nat

VARIABLES
    lots,         \* _lots, oldest first
    realized,     \* _realized_pnl
    position,     \* _cached_position
    seen,         \* _seen_tids
    pc,           \* the reconcile task, which starts inside start()
    api,          \* the answer of get_position it holds
    session,      \* is the WebSocket subscribed?
    snapshotted,  \* _snapshot_received
    inbox,        \* messages on their way to the bot
    handling,     \* fills of the message being handled, not yet applied
    made,         \* exchange: the fills it made
    truePos,      \* exchange: the position
    drops         \* bound on session ends

books == <<lots, realized, position>>
stream == <<session, snapshotted, inbox, handling, drops>>
exchange == <<made, truePos>>
vars == <<books, seen, pc, api, stream, exchange>>

Lot == [side: {"long", "short"}, price: Prices, size: Nat \ {0}]
Sign(side) == IF side = "long" THEN 1 ELSE -1
Abs(n) == IF n < 0 THEN -n ELSE n

TypeOK ==
    /\ lots \in Seq(Lot)
    /\ realized \in Int
    /\ position \in Int
    /\ seen \subseteq Fills
    /\ pc \in {"boot", "bootGot", "sleep", "got"}
    /\ api \in [size: Int, price: Prices \cup {0}]
    /\ session \in {"off", "down", "up"}
    /\ snapshotted \in BOOLEAN
    /\ inbox \in Seq([snap: BOOLEAN, fills: SUBSET Fills])
    /\ handling \subseteq Fills
    /\ DOMAIN made \subseteq Fills /\ \A f \in DOMAIN made : made[f] \in Trades
    /\ truePos \in Int
    /\ drops \in 0 .. MaxDrops

Init ==
    /\ lots = <<>>
    /\ realized = 0
    /\ position = 0
    /\ seen = {}
    /\ pc = "boot"
    /\ api = [size |-> 0, price |-> 0]
    /\ session = "off"
    /\ snapshotted = FALSE
    /\ inbox = <<>>
    /\ handling = {}
    /\ made = <<>>
    /\ truePos \in Bases
    /\ drops = 0

----------------------------------------------------------------------------
(* _update_lots_and_pnl: the lots after a trade, and the profit it made.    *)
MatchesAll(lot, n) == n
Matched(lot, n) == IF lot.size < n THEN lot.size ELSE n

Profit(lot, t, n) == Sign(lot.side) * (t.price - lot.price) * n

Reduced(ls, n) ==
    IF ls[1].size = n THEN Tail(ls)
                      ELSE <<[ls[1] EXCEPT !.size = @ - n]>> \o Tail(ls)

(* One turn of its loop: the fill opens a lot with what remains of it, or   *)
(* it closes the oldest lot as far as it goes.                              *)
Turn(s, t) ==
    IF s.remaining = 0 THEN s
    ELSE IF s.lots = <<>> \/ s.lots[1].side = t.side
    THEN [s EXCEPT !.lots = Append(@, [t EXCEPT !.size = s.remaining]),
                   !.remaining = 0]
    ELSE LET lot == s.lots[1]
             m == Matched(lot, s.remaining)
         IN  [lots |-> Reduced(s.lots, m), remaining |-> s.remaining - m,
              profit |-> s.profit + Profit(lot, t, m)]

(* Each turn but the last uses up a lot.                                    *)
Absorbed(ls, t) ==
    LET after[i \in 0 .. Len(ls) + 1] ==
            IF i = 0 THEN [lots |-> ls, remaining |-> t.size, profit |-> 0]
            ELSE Turn(after[i - 1], t)
    IN  after[Len(ls) + 1]

(* _refresh_cached_position                                                 *)
SizeOf(ls) ==
    LET upTo[i \in 0 .. Len(ls)] ==
            IF i = 0 THEN 0 ELSE upTo[i - 1] + ls[i].size
    IN upTo[Len(ls)]

PositionOf(ls) == IF ls = <<>> THEN 0 ELSE Sign(ls[1].side) * SizeOf(ls)

----------------------------------------------------------------------------
(* The exchange.                                                            *)

ExchangeFill(f, t) ==
    /\ f \notin DOMAIN made
    /\ made' = [g \in DOMAIN made \cup {f} |-> IF g = f THEN t ELSE made[g]]
    /\ truePos' = truePos + Sign(t.side) * t.size
    /\ inbox' = IF session = "up"
                THEN Append(inbox, [snap |-> FALSE, fills |-> {f}]) ELSE inbox
    /\ UNCHANGED <<books, seen, pc, api, session, snapshotted, handling,
                   drops>>

(* A new subscription is answered with a snapshot of the fills so far.      *)
Connect ==
    /\ session = "down"
    /\ handling = {}
    /\ session' = "up"
    /\ inbox' = <<[snap |-> TRUE, fills |-> DOMAIN made]>>
    /\ UNCHANGED <<books, seen, pc, api, snapshotted, handling, exchange,
                   drops>>

(* Silence, a close or an error ends the session; what it had not delivered *)
(* is lost.                                                                 *)
Drop ==
    /\ session = "up"
    /\ drops < MaxDrops
    /\ drops' = drops + 1
    /\ session' = "down"
    /\ inbox' = <<>>
    /\ UNCHANGED <<books, seen, pc, api, snapshotted, handling, exchange>>

----------------------------------------------------------------------------
(* _handle_message: the first snapshot is marked as seen and not applied;   *)
(* the fills of any other message are applied one by one.                   *)

Receive ==
    /\ handling = {}
    /\ inbox # <<>>
    /\ LET msg == Head(inbox) IN
       IF msg.snap /\ ~snapshotted
       THEN /\ seen' = seen \cup msg.fills
            /\ snapshotted' = TRUE
            /\ UNCHANGED handling
       ELSE /\ handling' = msg.fills
            /\ UNCHANGED <<seen, snapshotted>>
    /\ inbox' = Tail(inbox)
    /\ UNCHANGED <<books, pc, api, session, exchange, drops>>

AlwaysNew(f) == TRUE
IsNew(f) == f \notin seen

ApplyFill(f) ==
    /\ f \in handling
    /\ handling' = handling \ {f}
    /\ seen' = seen \cup {f}
    /\ IF IsNew(f)
       THEN LET after == Absorbed(lots, made[f]) IN
            /\ lots' = after.lots
            /\ realized' = realized + after.profit
            /\ position' = PositionOf(lots')
       ELSE UNCHANGED books
    /\ UNCHANGED <<pc, api, session, snapshotted, inbox, exchange, drops>>

----------------------------------------------------------------------------
(* reconcile: get_position, and then, under the lock, the comparison.       *)

ReadPosition ==
    /\ pc \in {"boot", "sleep"}
    /\ \E p \in Prices :
          api' = [size |-> truePos, price |-> IF truePos = 0 THEN 0 ELSE p]
    /\ pc' = IF pc = "boot" THEN "bootGot" ELSE "got"
    /\ UNCHANGED <<books, seen, stream, exchange>>

(* get_position failed: start goes on without a baseline.                   *)
BootFails ==
    /\ pc = "boot"
    /\ pc' = "sleep"
    /\ session' = "down"
    /\ UNCHANGED <<books, seen, api, snapshotted, inbox, handling, exchange,
                   drops>>

NeverDiffers == FALSE
Differs == api.size # position

OneLot ==
    IF api.size = 0 THEN <<>>
    ELSE <<[side |-> IF api.size > 0 THEN "long" ELSE "short",
            price |-> api.price, size |-> Abs(api.size)]>>

Compare ==
    /\ pc \in {"bootGot", "got"}
    /\ IF Differs
       THEN /\ lots' = OneLot
            /\ position' = PositionOf(lots')
            /\ UNCHANGED realized
       ELSE UNCHANGED books
    /\ pc' = "sleep"
    /\ session' = IF pc = "bootGot" THEN "down" ELSE session
    /\ api' = [size |-> 0, price |-> 0]
    /\ UNCHANGED <<seen, snapshotted, inbox, handling, exchange, drops>>

----------------------------------------------------------------------------

Exchange == (\E f \in Fills, t \in Trades : ExchangeFill(f, t)) \/ Drop
Socket == Connect \/ Receive \/ \E f \in Fills : ApplyFill(f)

Next == Exchange \/ Socket \/ ReadPosition \/ BootFails \/ Compare

Spec == Init /\ [][Next]_vars

(* The reconcile timer fires and get_position succeeds in the end, the      *)
(* WebSocket reconnects and delivers.  The exchange owes no fill.           *)
FairSpec == /\ Spec
            /\ WF_vars(Socket)
            /\ WF_vars(ReadPosition) /\ WF_vars(Compare)

----------------------------------------------------------------------------
(* Properties.                                                              *)

(* The lots, as the queue of units of the abstract ledger.                  *)
UnitsOf(ls) ==
    LET upTo[i \in 0 .. Len(ls)] ==
            IF i = 0 THEN <<>>
            ELSE upTo[i - 1] \o [k \in 1 .. ls[i].size |-> ls[i].price]
    IN upTo[Len(ls)]

Abstract == INSTANCE Ledger WITH
    side <- IF lots = <<>> THEN "flat" ELSE lots[1].side,
    units <- UnitsOf(lots),
    pnl <- realized,
    settled <- seen

(* Partial matches, flips of the position, reconnect snapshots and repairs  *)
(* included, the lots are the FIFO ledger: a fill moves them once, and      *)
(* closes the oldest unit first.                                            *)
IsLedger == Abstract!Spec

(* The cached position never falls behind the lots, and the lots are all on *)
(* one side (_Lot's docstring).                                             *)
LotsMatchPosition ==
    /\ position = PositionOf(lots)
    /\ \A i \in DOMAIN lots : lots[i].side = lots[1].side /\ lots[i].size > 0

(* Whatever was missed, repeated or raced, the reconciliation brings the    *)
(* position back to the exchange's.                                         *)
Converges == <>[](position = truePos)
=============================================================================
