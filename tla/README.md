# A TLA+ model of the Hyperliquid market-making bot

The repository holds a market maker for one symbol on Hyperliquid: one asyncio
process that keeps post-only quotes on both sides of the book, follows its
fills over a WebSocket, kills itself when a risk limit is passed, and takes
commands over Telegram. This directory models the parts of it whose
correctness depends on the order in which things happen. Paths of the source
are given as `order_manager.py` for `src/src/order_manager.py`, and so on.

Contents: 1 the system, 2 what is hard about it, 3 the modules and the code,
4 the runs, 5 bounds, 6 fairness, 7 proofs, 8 disagreements between the code
and what it says of itself, 9 what is left out, 10 plan.

## 1. The system

Everything runs in one event loop. A task runs until it awaits something, so
the only places where two tasks can interleave are awaits: calls to the
exchange (each in a worker thread, with retries), the database, sleeps, locks
and queues.

| component | state | operations | talks to |
|---|---|---|---|
| Order manager `order_manager.py` | `_active` (oid to order), `_lock` | `reconcile`, `update_quotes`, `cancel_all`, `handle_fill`, `cancel_stale_orders` and its loop, `stop` | exchange client, store, metrics (callbacks) |
| Exchange client, live `hl_client.py` | token bucket | `place_order`, `cancel_order`, `cancel_all_orders`, `modify_order`, queries; `_call_with_retry` | Hyperliquid REST |
| Exchange client, dry run `hl_client.py` | simulated orders, position, fills | the same interface, answered locally; used by the fill simulator | |
| Inventory manager `inventory.py` | `_lots`, `_realized_pnl`, `_cached_position`, `_seen_tids`, `_snapshot_received` | `apply_fill`, `reconcile` and its 30 s loop, the userFills WebSocket task | exchange client, store; raw-fill callback to the order manager |
| Risk manager `risk.py` | `_is_killed`, `_is_paused`, `_pause_reason`, drawdown and error counters | `check_all` every second, `trigger_kill`, `emergency_close`, pause and resume, `stop` | order manager, client, inventory, feed, notifier |
| Bot `main.py` | `_shutdown_event`, the task list | `start_components`, `quote_loop`, `_shutdown_watcher`, `shutdown` | all |
| Notifier `notifier.py` | kill confirmation, rate bucket | poll loop, `/pause`, `/resume`, `/kill`, alerts | risk manager, Telegram |
| State store `state.py` | `_queue`, `_writer_task`, `_closed` | `record_*`, writer loop, `flush`, `close` | SQLite |
| Market data `market_data.py` | book, mid history, callback queue, session | connect loop, session, callback loop | exchange WebSocket; callbacks |
| Metrics `metrics.py` | today's counters, pending fills | `on_fill`, adverse-selection check, daily rollover | store, notifier |
| Quote engine `quote_engine.py` | none | mid, skew, volatility to a `QuoteSet` | |
| Fill simulator `sim_fill.py` | none of its own | fills dry-run orders the trades would have hit | dry-run client |
| Config, logger, `scripts/pilot_summary.py` | none | start-up values, formatting, an offline report | |

How they meet:

- *the order manager's lock*: the quote loop, emergency close, shutdown and the
  stale clean-up want it; a fill wants it too;
- *the exchange's book*, which two of those tasks change, and which changes by
  itself (fills);
- *callbacks*: inventory tells the order manager of each new fill; the order
  manager tells the metrics of the end of each order; risk tells `main` of a
  kill;
- *flags*: `is_killed`, `is_paused` and the shutdown event, set by one task and
  polled by others;
- *the store's queue*, into which every component puts records and behind which
  it may have to wait.

What makes each one correct:

- order manager: what the bot believes to be on the book is what is on the
  book, up to calls and fills under way; no level of a QuoteSet has two orders; an
  order's end is recorded once; a cancel-all comes to its end;
- inventory: no fill counts twice, FIFO, at the right profit; the position
  follows the exchange's whatever the stream loses or repeats;
- lifecycle: after a kill and after a shutdown nothing of the bot rests on the
  book, the position is closed once, and the bot does end;
- exchange client: the attempts keep the rate whoever calls, a placement that is
  tried again is made once, what is reported done is done, a call ends;
- market data: the feed keeps trying, an exchange out of reach gets the bot
  killed, the bot hears of a lost session, and after `stop` no callback runs;
- store: nothing that was accepted is lost, nobody waits for ever, close ends;
- metrics: a fill counts on one day, and every fill is measured in the end;
- quote engine: no bid of a cycle reaches an ask of it, the ladder only makes;
- dry run: the simulated book is what the manager believes, the bot's bids and
  asks overlap by less than the price tolerance, the position stays near its
  maximum.

## 2. What is hard

`PROJECT.json` lists each hazard with its line. The main groups:

- *state read before an await and used after it*: the quote loop reads
  `is_killed` and then waits for the lock (`main.py:396`); `reconcile` reads the
  position before it takes its lock (`inventory.py:359`); a diff is computed and
  then acted on, call by call (`order_manager.py:246`);
- *calls that fail, or succeed without saying so*: a placement whose answer is
  lost is retried and refused as a duplicate; `cancel_all` clears its list
  although its call failed (`order_manager.py:385`);
- *cancellation*: shutdown cancels tasks wherever they are suspended, inside an
  emergency close or waiting for the lock included;
- *lost and repeated messages*: the first snapshot is discarded, later ones
  repeat fills, a dropped session loses them;
- *requests nobody waits for any more*: a call whose answer was lost or whose
  caller was cancelled leaves a thread behind that may still reach the exchange;
- *limits*: the token bucket shared by all calls, the callback queue that drops
  events when it is full, the mark that asks the callback task to end included;
- *values that were checked and then used*: the position is read before the
  update waits for the lock, and the ladder it allows comes on top of the one
  that was filled meanwhile (`main.py:413`); the day's summary is made before the
  task waits for the store, and the counters are reset after (`metrics.py:335`);
- *waiting*: for the lock, for a place in the store's queue, for a writer or a
  callback to end.

## 3. The modules and the code

`PROJECT.json` maps each definition to its lines. Here is how to read each
module next to the source.

### OrderManager (with MCOrderManager, OrderManagerProofs)

Four tasks: `starter` (reconcile at start), `quoter` (the quote loop inside
`update_quotes`, a suppressed `QuoteSet` or a paused loop's `cancel_all`),
`killer` (a `cancel_all` from emergency close or shutdown) and `cleaner`
(`cancel_stale_orders`); besides them the fill callback and the exchange. `pc`
says at which await a task is suspended. Each API call is two steps: in
`CancelSend`, `PlaceSend`, `ReadOpen` and `BulkCancel` the exchange acts and fixes
the answer, in `CancelReturn`, `PlaceReturn` and `ClearActive` the task goes on
with it. `tracked` is `_active`; `resting` and `quoteOf` are the exchange's book;
`due` are fills made and not yet handled; `status` and `terminals` are what the
store was told of an order's end, `cancels` and `fills` how often the metrics heard
that it was cancelled or hit. The metrics hear of every fill, those of an order that
is not on the list included (`order_manager.py:415`).

A QuoteSet is a tuple of levels, each a side and a price; two levels may have
one price or lie within `price_tolerance` of each other (`Near`). `IsDiff` says
which orders `_diff_side` keeps: each level in turn takes the first order within
the tolerance that no earlier level took. Which is first depends on the order of
`_active`, which the model leaves open, so it is any.

The client's answers are those of `hl_client.py`: a cancel that the exchange
rejects comes back as plain `False`, be it that the order is gone or that it is
not yet acknowledged and goes on to rest (`order_manager.py:15-18`), a cancel
whose answer was lost is retried and then not found, a placement whose first answer was lost is refused on the
retry because the cloid is taken, while the order rests.

A cancel and a placement first need the metadata of the symbol, which is fetched
again every five minutes and without retries. When that fetch fails, its
exception ends the update or this round of the clean-up where it stands
(`MetaFails`), with the lock given back.

Abstractions:

- the lock goes to any waiter, which includes every order asyncio's FIFO lock
  can produce; the safety results do not need the order and the liveness ones
  get what they need of it from strong fairness (section 6);
- a write to the store and a callback do not suspend the task. They only do
  when the store's queue of 1000 is full, which is StateStore's subject;
- one `killer` at a time; two killers are in Lifecycle;
- a request whose call has failed acts during the call or never. One that reaches
  the exchange later is in ApiClient (`LateRequest`); here it could only touch an
  order of `faulted`, which `NoOrphan` and `OneOrderPerLevel` except anyway;
- which orders are stale is any non-empty subset of the list;
- `stop()` is not an action here: shutdown is in Lifecycle.

`faulted`, `missed` and `swept` are history variables: orders some call about which
failed, orders with a fill that the manager was never told of, and orders that a
cancel-all took off the list. They occur in properties only.

### Inventory, Ledger (with MCInventory, InventoryProofs)

`Inventory` models `_lots`, the profit, the cached position and the
deduplication, fed by the WebSocket task (`Connect`, `Receive`, `ApplyFill`,
`Drop`) and by the reconcile task (`ReadPosition`, `Compare`). A fill and a
repair each happen under the lock without an await, so each is one action; the
await of `get_position` is the gap between `ReadPosition` and `Compare`. A message
with several fills is applied fill by fill, in any order, since the callbacks in
between may await.

`Absorbed` is `_update_lots_and_pnl`, and `Turn` one turn of its `while` loop: a
fill on the lots' own side opens a lot with what remains of it, one on the other
side closes the oldest lot as far as it goes. The loop is the function `after` on
the numbers of its turns; each turn but the last uses up a lot, so it is over after
one turn more than there are lots.

`Ledger` is the abstract specification: a queue of single units, each with its
price. A fill of size n is n units, each closing the oldest unit of the other
side or joining the queue. `Inventory` implements it under the mapping
`Abstract`: its lots spread out into units. `Ledger!Skip` allows what the first
snapshot does (fills that never count), `Ledger!Rebase` what a repair does.

Not modelled: fees (subtracted from the profit fill by fill) and the average
entry price. The tolerance of 1e-9 in comparisons is equality of whole units.
The average price the exchange reports is any price. Fills with the id 0, which
`apply_fill` does not deduplicate (`inventory.py:251`), do not occur: the exchange
numbers its trades.

`InventoryRepair` adds one history variable: whether `start` took the exchange's
position over, and whether the bot was in step with the exchange when the answer
`reconcile` holds was read. Only its `RepairsOnlyGaps` needs that.

### Lifecycle (with MCLifecycle, LifecycleProofs)

From the end of `start_components` on: the quote loop, the shutdown watcher,
`main`'s shutdown sequence, the check task of the risk manager and the operator
whose command a notifier task handles. Here the order of the lock does matter,
so it is modelled as asyncio has it: `line` holds the holder and the waiters,
`ahead[t]` those that came before `t`, and a task goes on when nobody is ahead of
it. The actions of the quote loop up to its first await (`QuoterTick`) read the
flags and join the line in one step, because the code does not await in between.
When `main` cancels a task (`EndSweep` for the loop and the watcher, `StopRisk`
for the check task) it leaves the line, whether it held the lock or waited.

An update ends when its orders are placed or when an exception of the client
ends it earlier; `QuoterDone` is both, so it may leave quotes unplaced. A placement
may be accepted, refused or fail; one that failed may reach the exchange late,
after any sweep, so it sets `failed`, and the properties about an empty book are
about runs without a failed call.

`request` is the notifier's `_kill_pending`: `/kill` sets it (`KillCommand`), its
time runs out (`RequestExpires`), and `/kill CONFIRM` uses it up (`Confirm`). The
notifier sends its reply before it calls `trigger_kill`; that await is the label
`confirmed`, between whose ends the bot may be killed by somebody else
(`KilledAlready`) or begin to shut down. `stop` of the notifier ends the polling
and lets the command being handled end, which is the guard `CommandHandled`.

The order manager is reduced to its calls under the lock; the stale clean-up
and the fill callback, which hold the lock for a bounded time and place
nothing, are left out. `open` says whether there is a position, as both the
exchange and the inventory see it. The kill switches' arithmetic is a kill that
can happen at any check.

One consequence the properties do not speak of: the closing order of an
emergency close is a Gtc limit order. It can rest (`SendClose`), nobody looks at
it again, and it can be on the book when the process has ended. The properties
about an empty book are therefore about quotes.

Another: `/pause` answers "Paused — quotes cancelled." (`notifier.py:343`) when
only the flag is set. `PauseClears` says what is true of it: the quotes go, some
time later.

### StateStore (with MetricsProofs)

Records go through the calls (`Record`), which wait when the queue is full; the
writer takes one (`Get`), which wakes one waiting call, and writes it (`Write`),
successfully or not: an error of the database is logged and the writer goes on
(`AfterWrite`). A woken call finds the queue as it is when it runs
(`PutAgain`) and may have to wait again, because a new call took the place.
`Close`, `PutStop` and `CloseConnection` are the steps of `close` between its
awaits. asyncio wakes the oldest waiter, the model any.

Two facts about the event loop are guards: the database's answer (`Write`) and
the first step of `close` come after the calls that were woken before have run,
since those are already in the loop's ready queue. Calls are cancelled only
before `close`, because the shutdown awaits the cancelled tasks first.

The module is checked through `Metrics`, whose steps with the records it adds are
the calls of one more task.

### Metrics (with MCMetrics, MetricsProofs)

EXTENDS `StateStore`: the metrics task is one of the store's callers, and the only
place where it is suspended is the store's queue. `pc` says where: in the daily
summary's `record_event` (`rollover`) or in `record_pnl_snapshot` (`put`); with a
place in the queue both go through in one step. `OnFill` comes when the fill's
record is in the queue, as `apply_fill`
puts it there before it calls anybody; it counts the fill and, with a mid,
appends it to `_pending_adverse`. `Ages` moves the boundary `aged` of the fills
that are older than the window. `Rollover` makes the summary, and `Reported` is
what follows `record_event`: the reset of the counters, whatever was counted in
between.

`Forget` is a bound: the one record that stands for all summaries (and the one
for all snapshots) is new again once the store is done with it, so that the days
go on without end. `late`, `seen` and `booked` are history.

Abstractions: the figures of a summary (percentiles, averages, profit) are data;
latencies and the adverse history are cleared with the counters; cancels are
counted like fills.

### QuoteEngine (with QuoteEngineProofs)

`compute_quotes` as operators of mid, position and volatility, with the client's
rounding. Decimal is exact here, so the arithmetic is the code's: prices are
integers in units of the smallest price step, the mid, the middle of two prices, an
integer of half steps, raw prices integers in `Denominator`-ths of a step, the skew factor a fraction, the volatility a multiple of
its target. `Quantum` is `round_price`'s rule: five significant figures, but never
coarser than a whole price.

### DryRun (with MCDryRun, DryRunProofs)

In dry-run mode the bot is its own exchange, which closes the loop:
the quote loop computes quotes (`QuoteEngine`) from the mid and the position, the
order manager diffs, cancels and places them on the client's simulated book, the
fill engine takes off the book what the mid has touched and moves the position.
One step ends where a task can be suspended: on the manager's lock, or on the
store's queue, when it is full, between the placement and the entry in `_active`
(`Place`, `Placed`) and between a sweep and its report (`CancelAll`, `Reported`).
The simulated calls themselves never await.

`SimulateFill` takes the order off the book and `apply_fill` books it at once;
`HandleFill`, the manager's half, waits for the lock. `Tick` fixes the candidates,
and a candidate that was cancelled meanwhile is skipped. `CallUpdate` computes the
quotes and joins the waiters; `Diff` acts on them when the lock is free.

`_diff_side` is modelled level by level (`Matches`): each takes a free order of its
side within `Tolerance`, and two levels that round to one price need two orders. An oid is the quote and a serial number that nobody
who still knows the order uses, which keeps the state space finite without
bounding the number of orders.

Abstractions: fees, average prices, the list of past fills; the position is
shared by the client and the inventory, which apply a fill in one step; the
emergency close's order, whose `reduce_only` the simulated client ignores; which
orders are stale is any set, and whether a fill is lucky is free.

### MarketData (with MCMarketData, MarketDataProofs)

`conn` is where the task of `_connect_loop` is: connecting, in a session, closing
the socket (`async with` leaves it so on every path), sleeping, or ended. `clock`
is the time it has been there, and a tick never passes the end of a time-out, so
`Due` is a set of actions that must come first. `age` is the time since
`_last_message_at`, which the risk manager compares with its limit (`Tick` sets
`killed`), and `quiet` is the truth it stands for: the time since the exchange
sent anything. `untold` is history: when a session ends and its event finds a place in
the queue, it counts the disconnects that come before and with that event, until
the bot has heard of it.

`queue` is `_cb_queue` with its `put_nowait` (`Put`): an event that finds no place
is dropped, the `disconnect` event and the mark of `stop` included. `cb` is the
callback that runs, for as long as it likes. `stop` is modelled await by await
(`CallStop`, `AskCallbacks`, `StopReturns`), with the time-out after which it
cancels the callback task.

Abstractions: an event is a book or a disconnect, as trades and books take the
same way; the contents of messages are left out, and a message that cannot be
parsed is one that puts nothing into the queue. The risk manager's check, once
a second, is seen as prompt, as a tick is longer than a second.

### ApiClient (with MCApiClient, ApiClientProofs)

A call passes the stages `waiting` (in `TokenBucket.acquire`, or asleep between
two attempts) and `out` (in the SDK, in a thread) to its outcome. `Acquire` is one
pass of the loop in `acquire`: it runs without an await, takes its tokens or
goes to sleep for the time it computed, and looks again when it wakes, while
others may have taken what it waited for. The four ways back (`Answered`,
`NetworkFails`, `RateLimited`, `UnknownError`) are the branches of
`_call_with_retry`, in which `HLOrderRejectedError` is not tried again and the
exchange's `Retry-After` lengthens the delay.

A request whose answer was lost, or whose caller was cancelled while the thread
went on, is put into `late` (`InDoubt`) or never arrived; a late request reaches
the exchange at any later time (`LateRequest`), next to the attempt that followed
it. The exchange makes one order per client order id, cancels an order that
rests, and executes a reduce-only order if there is something to reduce. It is
external to the repository and modelled from what the client relies on.

Abstractions:

- the calls are placements, cancels and the order of an emergency close. The bulk
  cancel is one request for several cancels. Queries and `modify_order` go
  through the same loop; the former change nothing, the latter nobody calls;
- the unit of tokens is what the bucket gains in one tick, so the bucket holds
  whole units; the code's are fractions of seconds;
- the metadata a call needs first is there or not (`Begin`). Where it is not, the
  code fetches it past the bucket and without a retry (`hl_client.py:545`), again
  with every call as long as that fails; `meter` does not count those requests;
- a cancel can be called again and again (`Begin`), as the order manager does as
  long as it believes in an order; placements and closes run once each;
- a cancel or a placement can be refused for any reason (`Answered`);
- the thread's call ends in the end. The code puts no time-out around
  `asyncio.to_thread`, so this is a property of the SDK's HTTP client, not of the
  bot: where it fails, `CallsEnd` fails with it.

## 4. The runs

| run | configuration | distinct states | what it shows |
|---|---|---|---|
| `order_manager` | 2 orders (1 left over), 1 quote, size 2, no suppression, fair | 425 k | the lock keeps critical sections apart, ends are recorded once, ghosts are cleaned up, `cancel_all` ends |
| `order_manager_books` | 2 orders (1 left over), 3 quotes with a tolerance of 1, 2 levels, size 2, suppression | 6.68 M | no orphan, one order for a level, no unexplained ghost |
| `dry_run` | 2 mids, 2 volatilities, 2 levels, tolerance 1, maximum 2, size 2, fair | 281 k | the list is the book, an overlap below the tolerance, the position bounded, buying stops |
| `lifecycle` | 1 quote, suppression, fair | 198 k | quiet after a kill, closed once, clean shutdown, a kill ends the bot, a confirmed one happens, a pause clears |
| `inventory` | 3 fills of 3 kinds, a starting position of 1, 1 drop, fair | 822 k | refines `Ledger`, cached position = lots, converges |
| `state_store` | 2 fills, the summary, the snapshot, queue of 2, fair | 280 k | the store under the metrics task: nothing lost, nobody forgotten, close ends, a fill is in one day, every fill is measured |
| `market_data` | queue of 2, silence 2 ticks, kill after 4, fair | 57 k | quiet after `stop`, which ends; the feed keeps trying, an outage kills, the bot is told |
| `api_client` | 1 placement, 1 repeated cancel, 1 close, 1 retry, fair | 436 k | the attempts keep the rate, retries do no harm, calls end |
| `order_manager_lock`, `lifecycle_kill`, `inventory_repair`, `market_data_silence` | | | the disagreements of section 8: TLC finds each violated |

Safety of the order manager:

- `Exclusive`: no two tasks inside the code the lock protects. It holds without
  suppressed QuoteSets, and fails with them (section 8).
- `NoOrphan`: an order on the book that no failed call and no fill touched is on
  the active list, or is the placement in flight. The exceptions are exact: a
  failed cancel drops the order from the list while it rests, and the first
  partial fill drops it while the rest of it rests.
- `OneOrderPerLevel`: while an update runs, each untouched order on the book is
  about to be cancelled or is within the tolerance of a level that it has for
  itself, and a level still to be placed has none. Two levels on one price do
  get two orders, as `_diff_side` goes level by level; three they do not get.
- `NoGhost`: an order on the list that has left the book is on its way off:
  `GhostDropped` is the liveness that goes with it.
- `EndsOnce`: the orders table gets one end of an order at most, and the metrics
  count it cancelled at most once. They can count an order both cancelled and
  filled, and the property says when: a part of it was filled before its cancel, or
  a cancel-all cleared the list while its fill waited for the lock. An order
  that its own cancel took off the book is never counted as filled whole.

Inventory: `IsLedger` (the refinement), `LotsMatchPosition`, `Converges`. That each
fill counts in the end is not what the refinement says, as `Ledger!Skip` can
always happen: it is `Converges`, for the position.
Lifecycle: `QuietAfterKill`, `ClosedOnce`, `ShutdownLeavesNoQuotes`,
`KillEndsBot`, `PauseClears`, and `ConfirmedKills`: a kill that the operator
confirmed happens, even when the bot begins to shut down while the reply is
being sent. StateStore: `NothingLost`, `WaitingServed`, `CloseEnds`. Every module
has one `TypeOK`; for Lifecycle, MarketData and ApiClient it is proved and not run.

Metrics: `CountedOnce` says exactly which fills are in no day (those that came
while a summary waited), and that none is in two; `FillsMeasured` that neither a
rollover nor a full queue leaves a fill in the list.

DryRun: `BooksAgree` relates the two lists through every way an order can end in
the middle of another task's work. `OverlapBounded` says how far a bid can stand
above an ask: by less than the tolerance. A bid is kept when its price is within the
tolerance of its level's, inclusive, so a new ask can be placed at its price or
below it. With a tolerance of one price step, which is 0.0001 for a symbol below
10, and a spread as tight, TLC finds a bid and an ask at one price; with the
tolerance below the price step the property says that the bot never crosses
itself. It rests on the order of cancels and placements alone, as the simulated
book takes anything. `PositionBounded`
is the honest bound of a limit that is checked before the lock: the maximum, one
ladder that stood on the book when it was checked and one placed after, less one
unit. It is exact: with a maximum and a size of 1, TLC finds the position
at that bound less one. `StopsBuying` says that at the maximum the bids go.

MarketData: `StoppedMeansQuiet` and `StopEnds` hold with a callback that hangs
and a queue with no place for the mark. `OutageKills` says that attempts to
reconnect do not pass for messages; `KeepsTrying` that no end of a session ends
the task; `DisconnectTold` that, if no callback hangs for good, the bot hears of
each end that found a place in the queue, in its turn and not by the event of
another one, unless `stop` comes first. An end that meets a full queue is told to
nobody (`market_data.py:333`).

ApiClient: `Throttled` measures the requests with a leaky bucket of its own and
compares it with the capacity, which says that no stretch of time sees more
attempts than a full bucket and what it gains meanwhile; it leaves out the
metadata, which takes no token. `AtMostOnce` and `CloseNeverFlips` are the two
reasons why a retry does no harm: the client order id and reduce-only.
`OkIsDone`: what is reported as success has happened and stays so; a refusal
tells nothing, since an order that is not acknowledged yet is refused its cancel and
goes on to rest. `NotEarly`: no attempt before the time the exchange asked this call
to wait for. `CallsEnd`: a call ends, unless calls that come again and again
keep being served. The exception is needed: the bucket has no queue, and with
repeated cancels TLC finds a call that is overtaken for ever without it.

Each property of a passing run is known to be able to fail: `PROJECT.json`
pairs it with a mutated definition (a dropped guard, a lock not released, a
status not read) under which TLC finds it violated.

## 5. Bounds

- Orders: 2, one of them left by an earlier process. Two is the number needed
  for a replacement (the old order and the new), for two orders on one level and
  for a stale order beside a fresh one. Oids are never reused, so the last of them
  ends the placing of orders: `Fresh` empty leaves only refusals, and every
  other action goes on.
- Size 2: a partial fill and a full one are different steps.
- Quotes: 1, or 3 bids at neighbouring prices with a tolerance of one step, of
  which the middle one is near both others and these are not near each other. Two
  levels can then have one price, be near, or be apart, and an order left by
  the start can serve either of two levels. `VIEW` leaves out the counters of the
  reports, which guide no step.
- Lifecycle: 1 quote. A second one adds no order of events, and
  `ShutdownLeavesNoQuotes` and `QuietAfterKill` are proved for any number.
  `closes` needs no bound, as each killer runs once.
- Inventory: three fills out of: open two units, close one, sell three (which
  closes and flips); from a position of one. `MaxDrops` = 1 gives a second
  session with its repeating snapshot. Reconciliations are not bounded: `realized`
  changes only with a fill, so the state space is finite.
- StateStore and Metrics: four records and a queue of two: one being written,
  two queued, one that waits, is woken and is overtaken by a record that is new
  again. At most one summary and one snapshot are under way at a time, which is
  what the code has too, as one task makes them.
- DryRun: mids of 17 and 20 half steps, so that ladders made at one are touched at
  the other, and the two lie on the two sides of 10 price steps, where the price
  quantum changes from 1 to 10. Two levels, of which the spacing makes two prices,
  and the rounding sometimes one. A spread of 1 in `Bps` = 100 is far below a price
  step, as a tight spread is for a symbol with a coarse step, which is what lets
  a kept bid meet a new ask. `OrderSize` 3 rounds to 2 with a step of 2; a maximum of
  2 is one order. The volatility 0 leaves the spread and 3 suppresses it. The
  position needs no bound, `PositionBounded` is its bound.
- MarketData: a tick is 2.5 s: silence is found out after 5 s, a kill comes
  after 10 s, as in the code; the back-off doubles from 2.5 to 10 s instead of from
  1 to 60 s. With both, the limit of the kill is passed after several failed
  attempts to connect. A queue of 2 holds a book and a disconnect, or is full.
  `Horizon` = 8: ages beyond twice the limit are not told apart.
- ApiClient: a bucket of one request and a half, so that a second request has to
  wait and three callers compete. One retry is enough for a lost answer and its
  repetition, and one request in doubt at a time (`MaxLate`) for both to be under
  way; the theorems hold for any number of either. A delay of 1 and a
  `Retry-After` of 2 tell the longer from the shorter.

Symmetry is used for safety runs only.

## 6. Fairness

Weak fairness of a task's steps stands for two facts of the code: API calls end
(the client retries a bounded number of times, with bounded back-off, which is
what `CallsEnd` of ApiClient says) and the event loop runs a task that is ready.

- *OrderManager*: weak fairness of each task's steps; the clean-up's fetch of the
  metadata is assumed to fail only finitely often (once fetched it is good for
  five minutes), without which `GhostDropped` is not to be expected. Strong fairness twice: for the killer's
  turn at the lock, as asyncio's lock is FIFO and a waiter is overtaken by nobody
  that came later; and for the clean-up of an order that stays on the list, as
  its loop comes back every interval and the order's age only grows.
- *Lifecycle*: the FIFO line is explicit, so weak fairness is enough, but for
  `StopRest`: `notifier.stop` first ends the polling, so the commands that can
  still come before it are finitely many. The kill that follows a confirmed
  command happens because sending the reply ends.
- *Inventory*: the reconnection and a successful `get_position` are assumed to
  come in the end; without either `Converges` is not to be expected.
- *StateStore*: the writer and `close` go on; the database answers, with or
  without an error.
- *Metrics*: the task's interval ends, its calls go on when they are woken, the
  writer and the closer run, and fills grow older. Fills and midnight owe nothing.
- *DryRun*: the quote loop comes round, a task that can run is run, and the lock's
  waiters get their turn (strong fairness: the queue is FIFO). That the stale
  clean-up or a fill gets the lock is not needed. The market and the luck of the
  fills owe nothing.
- *MarketData*: time passes, time-outs fire and a task that can run is run. A
  callback need not end, and the exchange need not accept or send anything.
  `DisconnectTold` alone supposes that callbacks return (`CallbacksReturn`).
- *ApiClient*: time passes, sleepers wake, and the SDK's call in the thread ends.

The market, the operator, the kill switches, the exchange's fills and callers
of the store and of the client owe nothing: every liveness property holds
whether or not they act.

## 7. Proofs

The proofs hold for any set of orders, quotes and records, any order size, any
number of quotes per set and any queue capacity, from the named assumptions of
each module (`OrderManagerAssumption`, `LifecycleAssumption`,
`InventoryAssumption`, `StateStoreAssumption`, `MetricsAssumption`,
`MarketDataAssumption`, `ApiClientAssumption`, `QuoteEngineAssumption`,
`DryRunAssumption`), which say no
more than that the constants have their kind, that null values are not members,
and that what must fit fits (a request into the bucket, the limit below
`Horizon`). QuoteEngine's also has two limits that `config.py` validates: a spread
below 100 basis points, of which only 15 spreads < 2 whole is used, and a skew factor
of at most one. In MarketData and ApiClient they hold for all time-outs, capacities,
delays and numbers of retries, and any number of requests in doubt.

**OrderManagerProofs.** `NoOrphan` and `OneOrderPerLevel` are not inductive.
`SafetyInv` adds

- `LockInv`: which program points imply that the task holds the lock (but for the
  suppressed path), and that nothing happens before `start` has reconciled;
- `BookInv`: what rests, what is due and what is being handled never exceed an
  order's size, so that an order with any fill is no longer whole;
- `CallInv`: the order of a call in flight agrees with its answer; in particular
  a cancel whose answer is under way has taken its order off the book, unless it
  failed;
- `SweepInv`: what a cancel-all knows of the book between its calls: after the
  read, everything that rests was read; after the bulk cancel, everything that
  rests had a failed call. It is here that the quoter's lock matters: no order
  can appear in between.

`OneOrderPerLevel` is inductive with these: `Diff` gives each order it keeps the level that
`_diff_side` matched it with, a cancel, a fill and a clean-up only take orders
out of the matching, and a placement adds its level to it.

Each part has a lemma of its own (`LockStep`, `BookStep`, ...), one step per
action. Theorems: `TypeCorrect`, `NothingForgotten` (NoOrphan),
`OwnLevels` (OneOrderPerLevel). For deployments without suppressed QuoteSets
also `LockExcludes` (Exclusive) and `EndedOnce` (EndsOnce). The latter needs
`ReportInv`, which says that an order has no end recorded while it is tracked or
being placed, and `CountInv`: what of an order rests, is due, is being handled and
was counted is never more than its size, and less once its own cancel took the
rest off the book. `NoGhosts` (NoGhost) needs `GhostInv`: an order that fills while it
is being placed, or while the start is reading the book, has a fill to come.

**LifecycleProofs.** The argument is about the line: an update that runs or
waits when a kill joins is *ahead* of it (`KillInv`), so when the kill's turn
comes no update is left; none can begin since the flag was set before. What
was read then covers every quote. `ShutdownInv` says the same of the shutdown's
sweep, whose last step takes the quote loop away. Theorems: `TypeCorrect`,
`KillSilencesQuoting` (QuietAfterKill), `ShutdownClears`
(ShutdownLeavesNoQuotes). `OneClose` (ClosedOnce) has an invariant of its own,
`CloseInv`: one killer at most is on its way to the closing order, and when one is
out none is.

**InventoryProofs.** The loops of the code are functions on `0 .. n`, with one
entry for each turn. What is proved of them rests on induction over the numbers of
the turns, stated for a set of numbers (`Induction`, `Turns`, from the
well-foundedness of the naturals), and on a lemma that a loop whose turns are given
exists (`Loop`); `SizeLoop`, `AbsorbedLoop`, `UnitsLoop` and `TradedLoop` say of each
recursive function of the two modules that it is the value of such a loop.

The invariant `Inv` is the type invariant, `LotsMatchPosition`, and two facts about
messages: the fills on their way to the books are fills the exchange made
(`Delivered`), and an answer of `get_position` has a price unless the position is flat
(`Answered`), without which a repair could make a lot that is none. A fill keeps the
lots on one side because a turn does (`TurnType`): it appends to lots of its own
side, or it takes away from the front. Theorems: `InventoryTypeOK` and
`PositionIsLots` (LotsMatchPosition).

`LotsAreLedger` (IsLedger) is the refinement of `Ledger`. The two compute a fill in
different ways: the code matches whole lots in up to as many turns as there are
lots, the ledger moves one unit at a time. `TradeIsUnits` shows that they agree.
With every turn, the lots spread out into units are the ledger after as many units
as the fill has lost (`TurnIsUnits`): a turn that opens a lot is that many units
appended (`OpensUnits`), a turn that closes the oldest lot that many taken from the
front, each with the lot's gain, and the side turns flat with the last
(`ClosesUnits`). That the loop is over in time is `TurnEnds`. Underneath are the
units of a list of lots: a new lot's come last (`UnitsAppend`), the oldest lot's
first (`UnitsFirst`). `LedgerNext` then maps each action: a new fill to `Settle`, a
repair to `Rebase`, a message to `Skip`, everything else to a stutter.

`FillMovesPosition` is an action property: a fill that is applied moves the cached
position by its signed size, neither more nor less. The sum that no turn changes is
the position of the lots plus what is left of the fill (`TurnMoves`); the loop ends
with nothing left (`AbsorbedEnds`), so all of it has gone to the lots
(`AbsorbedMoves`). The size of a list of lots is the number of its units
(`SizeIsUnits`), so that appending a lot or taking from the oldest is counted by the
lemmas the refinement already needs.

**MarketDataProofs.** `StopInv` ties the steps of `stop` to the two tasks it ends:
from its second step on the main task has ended, so nothing puts an event any
more. Theorems: `TypeCorrect` (with the bound of the queue) and
`StopSilencesCallbacks` (StoppedMeansQuiet).

**ApiClientProofs.** `MeterInv`: what the meter holds is what the bucket lacks,
with the tokens it gained since it was last looked at counted; the two can only
move together, and `Throttled` follows. `IdInv`: an order was made of a placement
only if its id is known. `BanInv`: a call sleeps at least as long as it was told to
keep away. Theorems: `TypeCorrect`, `RateKept` (Throttled), `PlacedOnce`
(AtMostOnce), `ClosesNeverFlip` (CloseNeverFlips), `DoneIsDone` (OkIsDone) and the action property `RetryAfterKept` (NotEarly).

**MetricsProofs.** First the store alone. `NothingLost` needs that no call is still
waiting when the flush ends. `QueueInv`: the queue holds exactly records in state
"queued", each once, and the stop mark only after the flush. `WakeInv`: if a call
waits, the queue is not empty or another call was woken, so something will wake it.
`FlushInv`: from the end of the flush on nothing is under way. Theorems:
`TypeCorrect` (with the bound of the queue) and `CloseLosesNothing`.

Then the store with the metrics task, whose records come back: a report that was
written is ready to be recorded again on another day. The store's invariant
survives that step as well (`MInv`), because a record that was written is in no
queue. Theorems: `MetricsTypeCorrect` (MetricsTypeOK) and `MetricsCloseLosesNothing`
(NothingLost, of the specification that the run checks).

For the counters: while a summary waits, they hold its fills and the late ones
(`IInv`); a fill comes once, so what was booked is never counted again. Theorem:
`FillsCountedOnce` (CountedOnce).

**QuoteEngineProofs.** For every configuration within the limits, with no state:
`Uncrossed` (every bid of a cycle is below every ask) and `MakerSide` (with a skew
factor of at most a half no quote reaches across the mid). The argument: the
skew moves both prices by at most a spread, and `15 * Spread < 2 * Bps` keeps the
bid's factor positive (`Offsets`); between the two factors lies a whole spread
(`Factors`); the levels only widen it (`RawBounds`), and the rounding goes
outward whatever the two quanta are (`BidRounding`, `AskRounding`). That `Quantum` picks
a quantum at all rests on the well-foundedness of the naturals (`Least`).

**DryRunProofs.** `BooksAgree` follows from `Listed`: the book is within the list and
the order being placed, the list within the book and the order being filled; and
from `Locked`, which says that nothing is being placed when the lock is free.
`OverlapBounded` needs more (`UInv`): the quotes an update waits with are uncrossed,
which is `Uncrossed`, and once it has the lock the orders it leaves on the book
and the quotes it has still to place overlap by less than the tolerance together
(`Wanted`). That holds because an order is kept only within the tolerance of a
target of its side (`KeptPrice`), and because every order that is not kept is
cancelled before the first placement: a kept bid and a kept ask were on the book
together, and a kept bid and a new ask are each near a ladder that is uncrossed.
Theorems: `DryRunBooksAgree` and `OverlapWithinTolerance`.

`DryRunTypeOK` needs `TInv`: whatever stands for an order is one and a target has a
positive price (`Shaped`), and the orders are finitely many (`Finite`), so that the
smallest free serial number of a new order is a number.

`WithinTwoLadders` (PositionBounded) is proved for each side by itself, with what
the position would be if all of that side were filled. `PInv` says: a side of the
book is a ladder at most; the position with the side's book stays within the bound;
an update that waits for the lock with a ladder for the side found the position
below the maximum when it was called, so that with the book it is within one ladder
of it; and once it has the lock, what it keeps and what is due are a ladder
together, within the bound with the book. A fill moves an order from the book
into the position and leaves the sum as it is, a fill of the other side makes it
smaller, a cancel too. That is why the lock may change hands in between.

Only model-checked: liveness (`~>` and `<>[]`), under the fairness of section 6. It
is beyond this prover, which has no rules for `ENABLED`. Every safety property and
the refinement that the passing runs check are also theorems.

## 8. Where the code and its documentation disagree

Each has a run in which TLC finds the documented claim violated.

1. `order_manager_lock`: `_cancel_all_active` says its caller holds the lock
   (`order_manager.py:376`); `update_quotes` calls it at 221 without.
2. `lifecycle_kill`: a kill cancels everything and closes the position
   (`risk.py:3-5`). The watcher acts on the flag, and the shutdown it starts may
   cancel the check task in the middle of its emergency close. `signalled` keeps
   out of the run a shutdown that a signal asked for: it is the kill that undoes
   itself.
3. `inventory_repair`: the reconcile loop closes the gap of missed messages
   (`inventory.py:3-5`). With an answer that a fill has overtaken it opens one, in
   a bot that started well and had missed nothing; the next reconciliation closes it again, so `Converges` still holds.
4. `market_data_silence`: a silence of `connection_timeout_s` leads to a kill
   (`risk.py:86`). The feed ends a silent session after a shorter time, and each
   new session counts as a sign of life before any message came
   (`market_data.py:366`): an exchange that accepts connections and sends nothing
   is never noticed. `OutageKills` holds all the same, for an exchange that
   accepts none.

More were met without a run of their own:

- An order the API no longer knows is to be recorded as cancelled
  (`order_manager.py:299-311`), but the client swallows the exception that path
  waits for (`hl_client.py:680-683`) and the record stays at "placed".
- "reconcile picks it up on the next cycle" (`order_manager.py:382-383`), of orders a
  failed cancel-all left. `reconcile` has no cycle; only `start()` calls it.
- An order whose cancel failed because it was not yet acknowledged is to leave the
  list "on the next cycle" (`order_manager.py:17-18`). It leaves it at once (246),
  while it rests, and so no later cycle cancels it. `NoOrphan` excepts such orders
  and those of a failed cancel-all.
- A manual `/pause` is ended by a calm market as well as by `/resume`, as the check
  of the volatility halt does not look at the reason (`risk.py:307`).
- The kill switch on API errors counts what the quote loop passes to
  `record_api_error` (`main.py:429`). The order manager catches the client's
  errors of placements and cancels itself, so those are never counted.
- A dry run numbers its fills from 1 in every process, and the store replaces
  records with the same id (`state.py:213`): a second run overwrites the first
  one's fills in the same database.
- With the shipped settings of the testnet (maximum 0.02, size 0.005, three
  levels, a hard stop at 1.2 times the maximum) ladders that fill in the
  ordinary way can pass the hard stop: the bound of `PositionBounded` is above it.
- A summary misses the fills that come while it waits for the store (`late`).
- The metrics count a fill of an order that was reported cancelled
  (`order_manager.py:403-415`), in full when a cancel-all cleared the list before
  the fill was handled.
- The fetch of the metadata takes no token of the bucket (`hl_client.py:545`).
- A disconnect that meets a full callback queue is told to nobody
  (`market_data.py:333`).
- The alerts of a pause and of a lost connection share one rate limit
  (`notifier.py`), so either can silence the other.

## 9. Not modelled

Configuration, logging and the pilot summary have no behaviour over time: values
read once, formatting, an offline report. Start-up before `start_components`
returns, but for reconcile and the inventory's first connection, is sequential and
left out. Of the risk manager the arithmetic of the kill switches (profit, daily
baseline, hard stop, error window) is a kill that can happen at any check. Of
the notifier the rate limit of alerts and the texts are left out. Of the
store the read queries and the schema are left out; of the client, queries,
`modify_order` (which nothing in the bot calls) and the contents of the metadata
cache; of the dry-run client fees, average prices and the reduce-only order. In
dry-run mode the inventory still listens to the account's real fills, which is
outside of DryRun.

## 10. Plan

Done: `OrderManager`; `Ledger` and `Inventory`; `Lifecycle` with the notifier's kill
confirmation; `StateStore`; `MarketData`; `ApiClient`; `QuoteEngine`; `DryRun`;
`Metrics` on top of `StateStore`. Proofs for all of them, the refinement of `Ledger`
included.

Next, in this order:

1. `Risk`: the baselines of the profit switches across a rollover and the sliding
   window of API errors, with the notifier's rate limit of alerts.
2. Composition: Lifecycle's reduced order manager shown to be implemented by
   `OrderManager`, and OrderManager's calls by `ApiClient`.
