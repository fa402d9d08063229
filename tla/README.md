# Formal model of the Aether exchange

TLA+ modules, TLC runs and TLAPS proofs for the exchange in this repository:
a matching engine (Rust), the files it recovers from, and the services around
it. Every definition is a translation of the source lines that
`PROJECT.json` ("map") names for it; this file says what the parts are, what is
modelled, what the runs and proofs show, and what is missing.

## 1. The system

| Component | State it keeps | Operations | Correct when |
|---|---|---|---|
| **Order book** `engine/crates/core/src/{book,stop,types}.rs` | price levels (FIFO queues), `order_index`, stop registry, OCO links | `match_order`, `cancel_order`, `register_oco`; inside: pre-checks, matching loop, self-trade prevention (STP), iceberg refresh, stop cascade | never crossed, index exact, nothing traded twice or lost, time priority, every command terminates |
| **Engine state** `engine/crates/server/src/{state,wire}.rs` | the books, `open_orders`, `halted_symbols`, the two files | place, cancel, cancel_all, halt, resume, snapshot, ping; replay at start | a restart rebuilds what was there; every live order can be cancelled; replies and log agree with the book |
| **Command WAL** `core/src/wal.rs`, **event log** `server/src/event_log.rs` | length-prefixed records, `sequence`, a `BufWriter` | append, open/replay with tail truncation | what was acknowledged is readable after every crash; numbering without gaps |
| **Book snapshots** `core/src/wal.rs` (`Snapshot`) | a file | save, load | nobody calls them: the server always replays the whole WAL |
| **Engine TCP server** `server/src/{server,main}.rs` | connections, a broadcast channel | read request, lock, handle, unlock, reply, lock again, broadcast | each subscriber sees the events in sequence, or knows of a gap |
| **Wire protocol** `proto/src` | none | frames and JSON types | data conversion |
| **Event bridge** `services/settlement/src/{bridge,main}.rs` | one TCP connection | copy broadcast events into `engine_events`, reconnect | no event is lost or duplicated |
| **Settlement worker** `services/settlement/src/settlement.rs` | `orders`, `balances`, `ledger_entries`, `trades`, `worker_state` | one transaction per event: accepted, fill, cancel | value is conserved, locks match open orders, each event once |
| **API order flow** `services/api/src/{handlers,repositories}/orders.rs` | orders, balances | lock funds, insert, send to the engine, unlock on error, status update, cancel | no lock without an order, no order without a lock, status never goes back |
| **Engine client** `services/api/src/engine_client.rs` | write half, pending requests, reader tasks of the current and of earlier connections | send, time out, reconnect, dispatch replies | a reply reaches its own request, every call returns |
| **Authentication** `services/api/src/auth`, `handlers/{auth,totp}.rs` | users, refresh tokens, login attempts, TOTP secrets | signup, login, refresh (rotation), enrolment of the second factor | a refresh token works once, failures are limited, an enabled factor was proved |
| **API keys, HMAC** `handlers/api_keys.rs`, `extractors/` | keys, replay marks in Redis | create, revoke, verify | a revoked key and a repeated request do not authenticate |
| **Rate limiter** `rate_limit.rs` | sliding windows in Redis | check | at most the limit per window |
| **WebSocket hub** `ws`, `handlers/ws.rs` | broadcast channels, replay buffer, subscriptions, forwarder tasks, heartbeat | publish, subscribe, snapshot or replay, unsubscribe, ping | a client knows of every gap and ends with the current book; a silent client is closed |
| **Accounts, faucet, PnL** `{handlers,repositories}/account.rs` | balances, ledger | faucet, queries, FIFO PnL | faucet limit; PnL equals its definition |
| **Admin** `{handlers,repositories}/admin.rs` | market status, order rows, audit log | halt, resume, cancel-all, freeze, engine view | a halt holds, a cancel-all reaches every order, each request ends |
| **Proof of reserves** `{handlers,repositories}/proof.rs` | snapshots of liabilities with a Merkle root | snapshot, proof entries, summary | every entry verifies, totals are the sums of the entries |
| **Market data** `services/market-data/src` | feed, event channel, last tickers, own quotes | Binance feed, kline upserts, market-maker refresh | one current set of quotes per symbol |
| **API plumbing**, **web frontend** | configuration, UI state | | |

Interactions. The API and the market maker send requests over TCP to the engine
server; one mutex serialises all requests. A request appends its command to the
WAL, changes the book, appends events to the event log, answers, and then the
events are broadcast to all connections. The bridge writes them to Postgres,
the settlement worker turns them into balances; the API publishes them to
WebSocket clients. The API locks balances *before* it asks the engine, and
settlement consumes the locks, so the same rows are written by both.

What is hard: the matching loop changes the structure it iterates over and may
call itself through a stop cascade; STP, OCO and icebergs interact; recovery
re-executes commands through code that is not quite the code that ran first;
the process may die between any two file writes; requests time out while the
engine executes them; events are broadcast after the lock was released; slow or
reconnecting subscribers lose events; API and settlement race on one row. The
complete list with lines is `PROJECT.json` ("hazards").

## 2. Modules

| Module | Models | Uses |
|---|---|---|
| `OrderBook` | one symbol's book: `book.rs`, `stop.rs`, `types.rs`, `validate_wire_order` | |
| `Engine` | `EngineState` around the book, both files as sequences of records, crash and replay | extends `OrderBook` |
| `EngineProofs` | theorems about the book, the server around it and the files under it | extends `Engine`, `Wal`, `Sums` |
| `Wal` | the files piece by piece: flush failures, cut records, recovery | instantiates `DurableLog` |
| `DurableLog` | abstract specification: the readable log only grows and contains what was acknowledged | |
| `Settlement` | an order's way through API, engine connections, bridge and worker, over the tables | |
| `SettlementProofs` | theorems about `Settlement` | extends it, `Sums` |
| `Sessions` | signup, login, refresh tokens, second factor, freezing | |
| `SessionsProofs` | theorems about `Sessions` | extends it |
| `Gateway` | rate limiter and signed requests, API keys | |
| `GatewayProofs` | limits, replay protection and revocation, proved | extends `Gateway`, `Sums` |
| `MarketStream` | engine events, hub, one WebSocket connection | |
| `MarketStreamProofs` | theorems about `MarketStream` | extends it, `Sums` |
| `EngineLink` | engine client and engine server as connections, requests, answers | |
| `Admin` | admin handlers and order handlers over the link, engine and tables | extends `EngineLink` |
| `MarketMaker` | the market-data worker and its quotes in the engine | |
| `MarketMakerProofs` | theorems about `MarketMaker` | extends it |
| `Portfolio` | faucet, history, profit and loss, proof of reserves | |
| `ApiProofs` | theorems about `Admin` with its link and about the ledger of `Portfolio` | extends both, `Sums` |
| `Sums` | induction over naturals and finite sets, and sums over finite sets, as lemmas | |
| `MCOrderBook`, `MCBook`, `MCEngine`, `MCSettlement` | the orders callers may submit, for TLC | extend their module |
| `MCSessions`, `MCGateway`, `MCMarketStream`, `MCAdmin`, `MCMarketMaker`, `MCPortfolio` | workloads and small sets, for TLC | extend their module |

The service modules have a constant `Workloads` (`Activities` in `Portfolio`): each behaviour draws one set of
operations, clients and faults and keeps to it. What shares no state is explored
side by side instead of multiplied; which operations go together is said in the
MC module.

### OrderBook

`match_order` is synchronous in the code. The model cuts it at its loop
iterations: `PlaceRejected`, `PlaceStop`, `PlaceActive` (the call and its early
returns), `FillMaker` and `FillPart` (one iteration with a trade),
`StpCancelTaker`, `StpCancelMaker`, `StpCutMaker`, `StpCutTaker`, `StpCutBoth`
(one iteration with a self match, by mode and by which side is smaller),
`FinalizeRested`, `FinalizeEnded` (`finalize_taker` with the OCO cancel that
follows it), `DrainStops` (one bucket of `drain_triggered`), `NextInQueue` and
`CommandDone` (the work queue with the cascade cap). No command starts while
another one runs; the finer steps let the invariants be checked, and proved, in
the middle of a command too.

`book` is the record of the code's four maps: `level[side][price]` (bids, asks),
`index`, `stops[side][price]`, `oco`. A Decimal is a natural number: the book
only compares, adds and subtracts quantities, and `rust_decimal` does so
exactly. An order id is the number of its submission. `acct`, `ended` and
`dropped` are history variables: they are written, never read, by the actions.

Assumption on inputs: a `display_qty` is positive. `validate_wire_order` asks
this only of the order type `iceberg`; for other types it does not look at the
field, but the table `orders` does (`0001_init.sql:92`).

### Engine

Adds `open_orders`, the WAL, the event log, `halted_symbols` and the process's
life. `cmd` is the request that holds the mutex. `PlaceOrder` appends and starts
matching, `Match` runs the steps of `OrderBook`, `PlaceReject`/`PlaceAccept` are
the two ends of `place_order`, `LogEvent` appends one event, `Respond` releases
the mutex. `CancelAll`, `CancelAllNext`, `CancelAllEnd` is the loop over the
user's orders. `Crash` may strike in any state, also between two events of one
command and during recovery; it forgets everything but `wal` and `log`.
`Start`, `ReplayPlace`, `ReplayApply`, `ReplayCancel`, `ReplayEnd` are
`replay_books`. One symbol is modelled: the books of different symbols share
only `open_orders`, whose entries name their symbol. Appends do not fail in this
module (the `?` of `state.rs:128`, `:322`, `:331`); that they may is the subject
of `Wal`. `done` is a history variable: book, open orders and whether the command
was *starved* after each record, a fill-or-kill order rejected after self-trade
prevention had changed the book.

### Wal and DurableLog

A file is a sequence of pieces: records, and what is left of a record that a
crash cut, in its length prefix or in its payload. `CountFirst` is the
difference between the two writers: `Wal::append` increments `sequence` before
it writes, `EventLog::append_next` after it. A failed flush leaves the record in
the `BufWriter`, from where the next successful append writes it; a crash
forgets the buffer and may cut the file at any byte. `replay` sees a cut payload
and truncates it; it takes a cut length prefix for the end of the file
(`wal.rs:146`) and leaves it there, and what is appended behind it is lost at the
next start. `hidden` has the appends acknowledged in such a file.

### Settlement

Each SQL statement outside a transaction and each transaction is one action, so
every interleaving the database allows is a behaviour. A place request goes
through `PlaceOrder` (idempotency check), `TryLockBalance`, `InsertPending`,
`Send` and then `Acked`, or `Rejected`/`GiveUp` and `UnlockBalance`; `pc` says
where it is. `CancelOrder`, `CancelAnswered`, `CancelGivesUp` are
`cancel_order`. A connection of the engine server reads a request
(`EngineReject`, `EngineAccept` with `EngineFill` and `EngineAnswer`,
`EngineCancel`), answers it, and broadcasts its events later (`Broadcast`);
there is the API's connection and one of a client that bypasses the API, as the
market maker does (`PlaceDirect`). `ConnectionBreaks` is the API's connection,
with the requests and events that may be lost with it; after it the model keeps
one queue for the old and the new connection. `PersistEvent`, `Disconnect` and
`Reconnect` are the bridge; `ProcessNext` and `ProcessFails` are one transaction
of the worker, committed or rolled back. In the second case the process ends,
and the bridge with it, until the supervisor has restarted both.

The engine is what its callers see of it: price priority, no queue inside a
level, no self-trade prevention (the assumption is that nobody is on both
sides). Orders have a price: limit, IOC and post-only. Market and stop orders,
which lock other amounts or nothing, are not in the module. A price may be
negative: `place_order` asks only that there is one. Such a buy order moves funds
from locked to available (`orders.rs:236`) before the table refuses its row, and
nothing moves them back (`leaked`). A reply is taken by its handler before, or in
the order in which, the handler runs again: the channel in between has no state
of its own. Amounts are integers in units of 1/`Scale`, in which fees of basis
points are exact. In the code a fee is an exact Decimal, but the columns are
NUMERIC(38,18) and no lot or tick size is enforced: amounts with more than 18
decimals are rounded, separately in balances and ledger. The statements about
sums hold up to that rounding.

### Sessions

Every handler is split at its awaits (database calls, the mutex of the attempt
counters), so two handlers interleave there; `DbFails` ends one at any of them.
Login is `LoginBegin` (limits), `LoginFindUser`, `LoginFails` or
`LoginSucceeds`, `Mint`; signup is `SignupBegin`, `CreateUser`, `Mint`; a refresh
is `RefreshFind`, then `RefreshReuse`, `RefreshExpired` or `RefreshLoadUser` and
`RefreshRotate`, `Mint`. `SetupTotp`, `VerifyTotp`, `DisableTotp` begin the
handlers of the second factor. Whether a password or a code is right is a choice; a
secret is a number. `killed`, `raced` and `proved` are history variables:
`raced` has the users whose enrolment handlers, and the session families whose
refreshes, have overlapped.

### Gateway

A request reads the clock on arrival; `CheckRateLimit` is the Lua script (remove
what left the window, count, add or refuse, set the expiry), on a key that
carries the window's number for the tiers in `Bucketed`. A signed request goes
on through `CheckSkew`, `FindApiKey`, `DecryptSecret` and `CheckReplay` (`SET NX` with a
time to live). Time passes between any two of them. A signature is a key, a time
stamp and the way its hex digits are written (`Spellings`): `decode_hex` reads
either case, and the replay mark is keyed by the first twelve characters of the
header as it came. When Redis does not answer, the limiter lets everything pass
and the replay check refuses everything (`RateLimitFailsOpen`, `CheckReplay`). A
deployment configured without Redis is not modelled.

### MarketStream

`EngineEvent` is the reader task, which drops an event when the channel to the hub
is full; `Dispatch` is one turn of `Hub::run`. A broadcast channel is the
sequence of all it published with a position per receiver; a receiver more than
`Capacity` behind has lagged. A subscribe message is worked off channel by
channel (`SubForbidden`, `SubAlready`, `SubReplay`, `SubAskSnapshot`,
`SubSnapshot`, `SubSend`, `SubJoin`, `SubDone`), the events go on meanwhile: the
replay buffer and the engine's book are read in one step and queued in a later
one. `Open`, `HeartbeatPing`, `HeartbeatPingFails`, `HeartbeatTimeout`, `Pong`,
`Flush` are the other branches of the connection's `select!`. A frame is its kind and sequence number: a book
delta carries the whole published book, so the newest one is the state.

### EngineLink and Admin

A connection has unread requests, unread answers and a reader task;
`WriteFrame`, `Reconnect`, `ConnectFails`, `Timeout` are `EngineClient::send`,
`ReadResponse`, `ReaderEnds`, `ReaderClears` the reader task, `Serve`,
`GoesDeaf` (the handler returns on an error) and `ServerSeesEof` the server's
side. A request's id comes from the client's `X-Request-Id` if it has one
(`middleware.rs:74`), so two requests may have the same (`IdOf`, the workload
`reuse`); the later `pending.insert` then takes the place of the earlier. `Admin`
adds what the engine does with a request (`Handle`, `HandleFails`) and the
handlers: `Control` (halt and resume: engine, then `UpdateMarketStatus`, then
`Audit`), `CancelAllInMarket` and `FreezeUser` (one engine call per user listed),
`EngineState` (one snapshot per market under one request id), `PlaceOrder` behind
the gate of the market's status, `CancelAllOrders`. A placement the API gave up on
keeps its row `pending`. `DirectOrder` is the market maker, which goes around the
API and its gate, and `SettleRow` the row settlement inserts for its order. The
engine may die and comes back without halts but with its orders. Matching is left
out: an order is open until it is cancelled.

### MarketMaker

`Connect`, `Disconnect` (with the backoff) and `Message` are the stream,
`RecordTicker`, `UpsertKline`, `KlineFails`, `RefreshBegin`, `NextSymbol`,
`RefreshEnd` the loop, `Send`, `Execute`, `Acked`, `Rejected`, `CallFails` an
engine call. `Tick` may happen at any moment, in the middle of a pass and while
events are queued: a pass makes up to 21 calls per symbol, each with its own
timeout, and a ticker is stamped when it is taken from the channel. An error of a
call or of the database ends the process (`Exit`) and
the supervisor starts another; a request that was sent stays on its way
(`OrphanArrives`). The engine refuses a quote that crosses or a
halted market's; users trade against quotes. Halts reach the engine (`Halt`) and
the table of markets (`MarketStatus`) in separate steps.

### Portfolio

`Faucet` takes the ledger id and locks the row, `FaucetCommits` or `FaucetFails`
ends its transaction; `SettleFill` books the six ledger entries of a
fill. `GetHistory` reads a page by cursor, `PnlReads` makes the three reads of
`get_pnl` one at a time and `ComputePnl` folds the trades into FIFO lots.
`ReadLiabilities`, `LatestSnapshot`, `InsertSnapshot` are
`ensure_current_snapshot`. A hash is the term it is taken of, so equal hashes
are equal trees; `Levels` is the code's loop over tree levels, as a recursive function.

## 3. Runs

| Run | Expect | Question |
|---|---|---|
| `book` | pass | Do fills, icebergs, IOC, FOK, post-only, market orders, all STP modes, stops with cascades beyond the cap, an OCO pair and cancels keep the book consistent? |
| `serve` | pass | How far does the server recover book and open orders after up to two crashes at any point, and does it always serve again? |
| `walfile` | pass | How far is the file a durable log when writes fail and crashes cut it at any byte? |
| `flow` | pass | Do ledger, balances, rows and locks stay consistent when API, engine, bridge and worker interleave and one thing fails? |
| `sessions` | pass | What do rotation, attempt limits and second factor keep when handlers overlap? |
| `gateway` | pass | How far do limits, replay protection and revocation reach when requests are held up and Redis fails? |
| `stream` | pass | Is a client told of every gap, does it get the current book, is a silent one closed? |
| `admin` | pass | Where do halts hold, which answers reach their requests, which orders does cancel-all reach, over a link that breaks and with ids that clients choose? |
| `maker` | pass | Are the market maker's quotes ever doubled, or from tickers that were too old, through feed and engine failures, slow calls and restarts? |
| `portfolio` | pass | Are history, PnL and proofs right when the tables change under them? |
| `fok`, `refund` | violation | statements of the repository that the code does not meet |

What the passing runs check:

Some invariants are conjunctions of named parts, checked together: `BookSound` is
`IndexExact`, `OnePlace`, `OneFate` and `PostOnlyNeverTakes`; `EngineSound` is
`EngineTypeOK` and `LogSound`; `Recovered` is `BookRecovered` and
`OpenRecovered`; `EventsApply` is `FilledMatchesTrades` and `NoPoisonEvent`;
`SessionsInv` is `SessionsTypeOK`, `FrozenNeverMints` and
`EnabledSecretIsProved`; `LimitsHold` is `GatewayTypeOK`, `BucketsAdmitTwice` and
`SlidingAdmitsLimit`; `StreamInv` is `StreamTypeOK` and `PrivateNeedsToken`.
`AnswersOwnRequest`, `OneQuoteSet` and `HistoryRuns` include the type invariant of
their module. A mutated form is kept in the modules for each part, not only
for the one `PROJECT.json` names.

- `NotCrossed`: best bid < best ask in every state, inside commands too.
- `IndexExact`: `order_index` has exactly the resting orders, at their levels.
- `OnePlace`: an order is in one of level, stop registry, work queue, drained
  list or matching loop, once.
- `Conservation`: wherever an order is kept, remaining + traded + decremented =
  quantity, and nothing with zero remaining stays in the book.
- `PostOnlyNeverTakes`, `FifoKept` (orders of a level swap places only when an
  iceberg's whole peak traded), `OneFate` (between commands every order is
  exactly one of live, cancelled with an event, used up, or dropped by the cap).
- `StopsSettled`: after a command no registered stop is triggered by its last
  trade. `OcoPartnerCancelled`: an order that leaves by trading takes a partner
  that rests or waits as a stop with it in the same step. A partner in the
  cascade's queue and legs that STP ends are not covered (`MCOrderBook_oco.cfg`);
  an order linked with itself, which the type allows and no caller produces, has
  no partner.
- `CommandTerminates`: every command ends (liveness).
- `OpenCoversLive`: every live order is in `open_orders`, with at least its
  remaining quantity. `BookRecovered`, `OpenRecovered`: after replaying n
  records the state is what it was after n commands; the open orders unless one
  of the commands was a fill-or-kill order starved by STP, the book unless a
  cancel has followed such an order (the code differs there,
  `MCEngine_recovery.cfg`). `LogSound`: the event log
  never reports more than was traded, and no fill after a cancel.
  `TerminalAckIsFinal`: an order acknowledged as filled or canceled is out of
  the book. `ServesAgain`: the server is idle again and again (liveness).
- `Durable` (refinement): what a reader gets only grows, and it holds every append
  acknowledged while no torn length prefix was in the file. `NumberedByOne`: the
  records a reader gets are numbered 1, 2, 3, ...; this is about `WalEntry.seq` of
  the command WAL, not about the event numbers of PRD 12.5.
- `LedgerAddsUp` (PRD 9.3 INV-1), `ValueConserved` (an asset's total is what
  there was minus the fees of the trades), `FilledMatchesTrades` (INV-5): in
  every state, also when requests time out, connections break, events are lost
  or come out of order.
- `NoPoisonEvent`, `CalmLocksCoverLive`: as long as nothing has failed, all orders
  come through the API and no buy order with a negative price has passed the lock
  (`Calm`), settlement can apply every event, and INV-2 holds while it lags
  behind. Each condition is needed. A failure: `MCSettlement_locks.cfg`. With a
  second connection a broadcast may overtake that of the order it fills, and a
  client that bypasses the API may not have the funds. A negative price takes from
  the lock of other orders: `MCSettlement_negative.cfg`.
- `EverythingSettles`: no handler waits for ever (without help from the
  timeout), and in a calm behaviour every logged event is settled (liveness).
- `RotationKeepsOneToken`: a session family has at most one working token, and
  none after a reuse, unless two refreshes of the family overlapped.
  `LockoutOvershoot`: limits are checked before and counted after the password,
  so handlers in flight overshoot them, by their number at most.
  `FrozenNeverMints`: no token for a login or refresh that began after the
  freeze. `EnabledSecretIsProved`: an enabled factor has the secret whose code
  was shown, unless two of the user's enrolment handlers overlapped.
- `BucketsAdmitTwice`, `SlidingAdmitsLimit`: twice the limit around the edge of
  two buckets and never more; the plain sliding set exceeds the limit by
  requests in flight only. Both count the requests that reach Redis in time: one
  that is held up for longer than the window and the grace of the key's expiry
  finds the set forgotten (`rate_limit.rs:53`) and is let through. `ReplayNeedsDelay`: a
  signature header passes twice only if the second request was held up longer
  between clock check and mark than the first; the same signature in other hex
  case is another header (`MCGateway_spelling.cfg`). `RevokedKeyRefused`: a request
  that arrives after the revocation is refused; one that has its row already is not.
- `NoSilentGap`: a forwarder delivers every frame of its channel in order, or says
  `GAP_TOO_LARGE`; what the reader task drops before the hub leaves no such frame.
  `QuietClientCurrent`: once all is drained and a delta was published after the
  client joined, some frame is the newest book, and the last frame is if the client
  has not subscribed again since, through replays, snapshots overtaken while they
  were awaited, lag and forwarders left over from an earlier subscription.
  `PrivateNeedsToken`. `SilentClientClosed`: a client that
  does not answer pings is disconnected (liveness).
- `HaltHolds`: an acknowledged halt holds at both gates, however halts and resumes
  overlap. The engine accepts no order, the market maker's included, until it
  executes a later resume or dies; `place_order` lets none through until a later
  resume writes the market's row. `AnswersOwnRequest`: a call under an id of its
  own gets the answer to its request, and nothing runs twice. `CancelAllReaches`: a
  successful cancel-all under an id of its own has removed every order that was in
  the engine and had its row when it began. `JobsEnd`: every request is answered
  (liveness).
- `QuotesNotStale`: after a pass, the quotes a living process placed are in symbols
  that pass looked at, from tickers no older than `stale_after` at that look. How
  old a quote gets is not bounded: it depends on how long the engine takes.
  `OneQuoteSet`: after a pass there is one set of quotes per symbol, nothing from
  earlier passes or processes, not counting orders whose request outlived its process.
- `HistoryRuns`: pages give every entry that was there, once, newest first, and an
  asset's entries form a running account. `PnlIsFifo`: the lots equal a closed
  definition of FIFO (quantity, cost and gain over the trades), and gains add up.
  `ProofsHold`: a snapshot commits to balances that were there together, each
  entry verifies, with another amount it does not, totals are sums.

What the violations show:

- `fok`: `can_fully_fill` counts the taker's own orders; STP removes them, the
  order trades a part and is then reported as `fok_unfilled`.
- `refund`: the API marks a cancelled order's row before settlement has the
  event, and settlement skips rows so marked: the lock stays.

Further configurations are kept to be run by hand; TLC finds the statement
violated in each:

- `MCOrderBook_oco.cfg` (`OcoLegsTogether`): a leg that STP cancels leaves its
  partner live.
- `MCEngine_recovery.cfg` (`ReplayIdentical`, PRD.md:1273 "Replaying WAL produces
  identical book state"): a rejected FOK order may have changed the book;
  `place_order` skips `apply_open_order_updates` then, the replay does not. A later
  cancel of the entry left behind is executed live and skipped in the replay,
  with its OCO partner. `Recovered` says how far the claim does hold.
- `MCEngine_lostevents.cfg` (`EveryFillLogged`): events not logged at a crash are
  never logged, although the replay repeats their command.
- `MCWal_torn.cfg` (`AckedReadable`): a cut length prefix (`wal.rs:146`) passes
  for the end of the file; what is appended behind it is unreadable at the next
  start.
- `MCSettlement_locks.cfg` (`LocksCoverLive`): the API releases the lock of an
  order it timed out on, the engine accepts the order; its fills then take other
  funds or cannot be settled.
- `MCSettlement_negative.cfg` (`UnfailingLocksCover`): a buy order with a negative
  price lowers the lock of the user's other orders although nothing fails.
- `MCGateway_spelling.cfg` (`SignatureNeedsDelay`): a repeated signature with other
  hex case passes the replay check without any delay.
- `MCMarketStream_overtaken.cfg` (`LastFrameCurrent`): a snapshot that was awaited
  while the forwarder of an earlier subscription queued newer deltas is the last
  frame.
- `MCAdmin_view.cfg` (`ViewShowsOwnBook`): the engine view reuses one request id,
  so a late snapshot is shown as the book of the next market.
- `MCAdmin_reuse.cfg` (`CallGetsOwnAnswer`): of two calls under an id that clients
  chose, the later gets the answer to the earlier.
- `MCAdmin_restart.cfg` (`EngineRefusesOrders`): an engine that restarts in a
  halted market accepts the market maker's orders.

Three more such statements are defined without a configuration; put in place of
the invariants of a run they are violated as well: `ReuseRevokesFamily` (`Sessions`, PRD 7.1:
two overlapping refreshes leave a second token that works),
`OnlyLateClientsDropped` (`MarketStream`, PRD 11.1: tokio's `interval` ticks at
once, so neither the heartbeat interval nor the pong deadline passes before its first
tick), `StopsQuoting` (`MarketMaker`, PRD 16.2: a refused quote ends the process and
leaves the other quotes until a ticker arrives at the next one).

Further differences between documents and code, and behaviour worth knowing, met
while modelling:

- Engine. `stop_depth` counts triggered orders, not the links of a chain, and the
  stops beyond the cap vanish without an event; stops are checked once per
  matching run, with the price of its last trade (PRD 14.5: "After every trade,
  check stops"); a cancel in a stop bucket reorders it (`stop.rs:53`,
  `swap_remove`); `depth_levels` publishes hidden iceberg quantity; an order that
  STP decremented and trades used up is acknowledged as `filled`; after a failed
  append the event log gives one number to two events (`event_log.rs:39`); a
  lagging receiver loses events and its stream goes on behind the gap
  (`server.rs:147`); for the bridge this loses what a reconnect loses.
- Orders. A second request with the same `client_order_id` that passes the
  idempotency check keeps its lock when the unique key refuses its row; a buyer's
  lock beyond the price it paid is never released (`settlement.rs:265`); a market
  buy sends its quote amount as the base quantity (`orders.rs:145`);
  `place_order` does not look at a user's frozen status (PRD 7.6); the admin's
  `mark_orders_canceled` has the effect shown by the run `refund`.
- Halts. A restart resumes a halted market in the engine; the status in the
  database then still refuses new orders of the API, but one that had passed that
  gate before the halt can be accepted. When a halt and a resume overlap, engine
  and database may end up with different ones of them.
- Sessions. Login answers with an MFA token but no route redeems it; the login
  lock lasts 15 minutes from the first failure, not from the last; concurrent refreshes fork a family;
  concurrent enrolment handlers can enable a secret nobody proved.
- Gateway. Axum's `nest` strips the prefix "/api/v1" that `classify_request`
  compares with; the permissions of an API key are not read by a handler; on
  Redis errors the limiter lets pass and the replay check refuses.
- Stream. `replay_diffs` compares the client's sequence number with the length of the
  buffer and returns the whole buffer; private channels carry the events of
  all users; the queue to the socket is unbounded.
- Market maker. The reconnect backoff is never reset.
- Accounts. The faucet bounds an amount, not the number of calls (PRD 7.2: "up to
  10×"). PnL shows the quantity of leftover lots when the balance is 0, which
  happens because a buyer's fee is taken in the base asset; it ignores fees. The
  buyer pays the taker rate and the seller the maker rate, whoever took. A
  proof request that was overtaken can leave an older snapshot as the latest row
  until the next request.

### Bounds

Named constants: `MaxOrders`, `Inputs` (which order may be the i-th
submission), `MaxStopChainDepth` (16 in the code, 2 in the runs, so that the cap
is reached), `MaxCommands`, `MaxCrashes`, `MaxMarket`, `MaxAppends`,
`MaxFailures`. Four orders on three prices are enough for two makers at a level,
a level behind it, and a taker that sweeps, self-matches or rests; a fifth lets
a cascade run beyond the cap after an OCO pair, a stop and a maker exist. In
`serve` four commands and two crashes let a crash hit a replay, then another
command. In `walfile` five appends, two failures and three crashes allow a
record to wait in the buffer through an append, a cut and another restart, and
appends behind a torn prefix to be lost and followed by others.
In `flow` three requests drawn from five orders (one of them direct, one with a
negative price) allow two fills of one order, or a fill and a cancel
racing on one row, and `MaxFailures` = 1 puts one timeout, broken connection or
reconnect at every point; the funds cover one of two requests with the same
`client_order_id`, so that both results of `TryLockBalance` occur. With two
failures and two requests the safety properties hold as well (a larger instance,
not kept as a run).

`sessions`: one user, one address and two requests in flight, three tokens, two
secrets, two failures to the limit: enough for an overlap of any two
handlers, a reuse after a rotation, an expired window. `gateway`: a limit of 1 in windows of 2 ticks at the times
0 to 4, with a grace of one tick, so that two buckets meet and a key expires; one signature, written in two ways, used
by two requests at a time, whose clock window is shorter than the run (the signed
workload ends at time 3). `stream`: channels of one and two
frames, three events, three client messages: lag, a full pipe, a replay and a
second subscription with the first forwarder alive. `admin`: two tasks, three
requests, two connections, one break or one death: two requests outstanding while
the old reader still runs, a halt and a resume that overlap followed by an order,
a second request under the id of the first. `maker`: two symbols (interchangeable), two mids whose quotes cross,
one level, two feed events, two processes, time up to 3 with a staleness limit and
a refresh interval of 1, so that a ticker can get stale inside a pass (5.3 million states). `portfolio`: three customers and the
market maker, three trades, two deposits, pages of one entry, two proof requests, trees
of up to six leaves with odd levels.

`CHECK_DEADLOCK FALSE` is used for `Wal`, `Settlement`, `MarketStream`, `Admin`,
`MarketMaker` and `Portfolio`: after the last allowed append, crash, request or
instant nothing is left to do.

### Fairness

`FairSpec` has `WF(Step)`: `match_order` is a synchronous call, once entered it
continues. `EngineSpec` has `WF(Handle \/ Recover)`: a handler holds the mutex
and awaits nothing until it answers, and the supervisor (Fly, systemd, compose
`restart`) starts a dead process. Nothing obliges callers to send requests, and
crashes are bounded by `MaxCrashes`, so `ServesAgain` speaks of runs with
finitely many crashes. `Spec` of `Settlement` has weak fairness for the API's
handlers together, the engine, the bridge and the worker: each is a task of its
own that the runtime keeps scheduling, and the bridge loop reconnects for ever.
Giving up and breaking are not fair. `MarketStream` has `WF(Work)`, because the
engine answers a snapshot request or it times out, and `SF(Beat)`: tokio's
`select!` chooses at random among ready branches, so a due heartbeat is taken
although messages keep coming. `AdminSpec` has `WF(Work)`: tasks and the server
run, a call's timeout elapses, the engine is started again. `Sessions`,
`Gateway`, `MarketMaker` and `Portfolio` have no liveness property and no
fairness.

## 4. Proofs

Everything here holds for every value of the constants under the named
assumptions of the modules, which TLC evaluates in the runs. Three of them are
more than types: `ConstantsAssumption` says that the inputs are validated orders;
`MarksOutliveWindow` (`Gateway`) that twice the allowed clock skew is at most a
replay mark's time to live, as the code's constants are (`hmac.rs:27`, `:29`);
`MakerAssumption` that the first reconnect delay is no longer than the longest
(`binance.rs:12`). `SettlementAssumption` contains that nobody is on both sides.
Assumptions on `None` and `Null` say that the value is none of those it stands
beside; that the sets of orders, users, requests, traders and symbols are finite
(and requests not empty) is needed where they are counted. TLC checked the larger
inductive invariants on the instances of the runs before they were proved.

Sums and recursion. The library's induction theorems take a predicate, which
the provers do not instantiate. `Sums` proves induction for a *set* instead,
from the well-foundedness of `<` (`LeastNat`, `NatInduct`, `SetInduct`), and with
it that `SumFunctionOnSet` exists, that any element may be taken out of it, and
that it is monotone. The proofs about settlement, limits, streams, open orders and
ledger rest on these lemmas.

### Order book

- `TypeCorrect`: `Spec => []TypeOK`. One lemma per helper on books
  (`RemoveId`, `SwapRemove`, `CancelInternal`, `MaybeCancelOco`, ...), then one
  step per action.
- `NeverCrossed`: `Spec => []NotCrossed`. `NotCrossed` alone is inductive only
  together with `TypeOK`. Every action but `FinalizeRested` leaves the set of
  occupied prices the same or smaller (lemmas on `PopFrontMaker`,
  `CancelInternal`, ... say so), and `FinalizeRested` is enabled only when no
  occupied opposite price satisfies the taker, which is what a crossed book
  would need.
- `BookAlwaysSound`: `Spec => []BookSound`, and `QuantityConserved`:
  `Spec => []Conservation`. Neither is inductive: that the index is exact after
  a cancel needs that an id is in one queue once, that an order meets one fate
  needs the accounts, and these need the index. The joint invariant is
  `BookInv`. It looks at the book through its *stock*: for each place (level,
  stop bucket, work queue, drained list, matching loop) the set of orders kept
  there. `Sound` says of a stock that the places are disjoint, that each order's
  account adds up and that an order is in the stock, used up, ended or dropped;
  `Good` ties the index to the queues; `Control` says what holds in each phase
  of `match_order`. Queue lemmas (`RemoveIdSet` and others) turn each operation
  on sequences into one on sets; after that an action is one or two moves of
  the stock (an order arrives, shrinks, ends, is used up, is dropped, changes
  place), and each move is one lemma.
- `StopsAlwaysSettled`: `Spec => []StopsSettled`. The invariant `StopsInv` is
  about the middle of a command: its newest fill is at the price the drain will
  use, or nothing waits behind it any more.
- `PriorityKept`: `Spec => FifoKept`, an action property. The other proofs look
  at a queue as a set; this one says of every operation on a queue that the
  result `KeepsOrder` of what was there. The exception is `FillPart` on an
  iceberg, which goes to the back of its level with its whole peak traded. An id
  is in a queue once (`BookInv`), so positions are comparable.
- `PartnersCancelled`: `Spec => OcoPartnerCancelled`. Where an order can leave by
  trading, `maybe_cancel_oco` follows in the same step; with `BookInv` the link
  leads to the place the partner is in, and `cancel_internal` empties it.

### Server

- `ServerBookSound`, `ServerConserves`, `ServerNeverCrossed`: the same three
  properties of `EngineSpec`. A request that matches takes steps of `OrderBook`,
  so the lemmas above apply; new are `cancel_all`, the crash, which resets the
  book, and the replay, which runs commands from the file. `FilesOK` says what
  the replay needs: the WAL holds only commands whose orders were validated
  when they came.
- `AcksAreFinal`: `EngineSpec => []TerminalAckIsFinal`. The status of an
  acknowledgement is computed from the command's events after the book has
  changed. `AckInv` says that while `match_order` runs, an order of this command
  that is in the book has been announced by an event that rules out a terminal
  status.
- `ServerPriorityKept`: `FifoKept` of `EngineSpec`; what is not a matching step
  is a cancel, or empties the book.
- `LiveOrdersReachable`: `EngineSpec => []OpenCoversLive`, for any inputs. While a
  command runs `open_orders` lags behind the book, so `CoverInv` speaks of the
  entries as they will be once `apply_open_order_updates` has applied the events
  so far: they cover every order that is not ended, dropped or used up, except
  the one still in the matching loop. The lemmas on `ApplyUpdates` say what one
  more event does. A rejected order skips the update, and then the entries as
  they are cover all other orders.
- `ServerTypeCorrect`: `EngineSpec => []EngineTypeOK`, the typing part of
  `EngineSound`, from `ServerInv`: how far `done`, the history of states, is
  behind the WAL in each mode.

### Files and settlement

- `ImplementsDurableLog`: `WalSpec => Durable`, for crashes at any byte. The
  invariant `WalInv` says that there is one cut at most, that a cut payload is only
  there while the process is down, and that everything acknowledged and not
  `hidden` behind a torn prefix is readable; `MCWal_torn.cfg` shows that the
  exception is needed.
- `RecordsNumbered`: `CountFirst` implies `WalSpec => []NumberedByOne`; the numbering
  of file and buffer together is part of `WalInv`. The event log does not count
  first, and its numbers repeat.
- `TablesTyped`: `Spec => []SettlementTypeOK`, which contains INV-3 (no balance
  is negative). Inductive together with `RowKept`: the row a status update
  addresses exists, because it is inserted before the engine is asked.
- `LedgerExplainsBalances`: `Spec => []LedgerAddsUp`, INV-1. `EntryExplains`
  says that an entry of x and a movement that adds up to x go together;
  `FillExplained` puts the four of a fill together, `LockExplained` covers all
  locking and unlocking, with or without an entry.
- `ValueIsConserved`: `Spec => []ValueConserved`. `EntriesConserved` adds the
  entries of an asset and the fees of the settled trades; with INV-1 this is a
  statement about balances.
- `EventsAreApplied`: `Spec => []EventsApply`, and `LocksCoverBook`:
  `Spec => []CalmLocksCoverLive`. `FlowInv` holds whatever fails: an order is
  asked for once and accepted once, the engine fills no more than its quantity, a
  row's `filled` is the sum of its settled trades (INV-5). `Priced`: an order that has
  a row or that the engine accepted has a positive price, by the checks of table and
  engine. `CalmInv` is about behaviours that are calm so far: events go through bridge and table in
  the order of the log (`InOrder`), handler, request, answer and row agree
  (`Agree`), and the locked balance covers what every order still holds
  (`LocksCoverHeld`), which is what settling the next event takes.

### Services

- `SessionsSafe`, `RotationSafe`, `LockoutSafe`: the three invariants of
  `Sessions`, from one invariant `SessionsSound` with a part for each.
  `LateOK`: a handler that began after its user was frozen is not past the
  check of the status. `TotpOK`: a user whose enrolment handlers did not overlap has
  one at most, and what it has read is still in the row (of users in `raced` nothing
  is claimed). `RotationOK`:
  the same for the refreshes of a session family, with the token that the
  handler holds. `LockoutOK`: failures counted plus handlers that may still
  count one stay within limit and requests; it counts finite sets.
- `ReplaySafe`, `RevokedSafe`: from `GatewayInv`. Every accepted request was in
  its clock window, and its mark lives at least `ReplayTtl` from when it was set;
  a second one with the same header comes after the mark is gone, hence
  later than its own clock check allows without a longer delay. The signature in
  another spelling has a mark of its own and is not covered.
- `LimitsSafe`: `Spec => []LimitsHold`, from `LimitInv`. What a client got through
  is at most what the set in Redis still holds (`Held`), and that is at most the
  limit. A bucket forgets nothing before its last request in time
  (`BucketOK`). A sliding set forgets when a later stamp overtakes (`SlideOK`):
  then the stretch is over, and only requests already on their way can be added.
  The first attempt at this proof showed that the statement has to be about
  requests in time, and that the model's key had to expire as the code's does.
- `AnswersMatch`, `HaltsHold`, `CancelAllIsComplete`: from `AdminInv`. No message
  is in the link twice and none that was executed is on its way (`FlightOK`), what a
  job has not written nobody has seen (`UnsentOK`), and under an id that came once
  nothing is on its way but what its job waits for (`AwaitedOK`), except snapshots,
  which the engine view gives up on. Then an answer is that of its request. An id
  that several requests came with is left out of these parts, not of the model.
  `HaltOK`: a halt that the engine executed and no resume or restart undid is in
  force there, one that was written and not written over is in the market's row,
  and a handler that has got to the audit log has seen to both. `ReachOK`: the orders a
  cancel-all saw are of users it has still to reach, or gone.
- `StreamSafe`, `GapsAreAnnounced`, `QuietClientsAreCurrent`: from `StreamSound`.
  Numbers only grow from engine to hub (`HubOK`). `PlaceOK` ties a forwarder's
  position to the last frame it queued: that frame is the one before the
  position, or it is a lag frame with more to come. `OwnFramesOK`: snapshots and
  replays come before the frames of the latest forwarder, until the client
  subscribes once more.
- `HistoryIsAccount`: `Spec => []HistoryRuns` of `Portfolio`, from
  `PortfolioInv`. A deposit has its id before it commits, so ids are not in the
  order of commits; but its row is locked until then (`DepositsOK`), so within a row they are,
  and every entry continues the account (`AccountGrows`; six times for a fill).
  `PageIsSorted`: the number of newer entries is a bijection onto the positions,
  so a page is well defined. `PagerOK`: what was there when the client began is
  behind it or below the cursor.
- `MakerOneQuoteSet`, `MakerNotStale`: from `MakerInv`. The calls of a pass are a
  cancel followed by quotes of one ticker (`CallsShape`). `Pending(s)` is the
  span in which the cancel of symbol s has been decided and not executed;
  outside of it the orders in s are of the last pass (`LastPass`), and all of them,
  with the ones to be placed, are priced from one ticker (`OneTicker`), so that
  side and level determine the order. `Fresh` follows a quote through the pass: its
  symbol is still to come, its cancel is pending, or this pass has looked at the
  symbol and found the quote's ticker fresh. It does not mention the present time, so
  time may pass at any moment.

### Only model-checked

- Liveness (`CommandTerminates`, `ServesAgain`, `EverythingSettles`,
  `SilentClientClosed`, `JobsEnd`): needs fairness and ENABLED.
- `Recovered`, and `LogSound` in `EngineSound`, which depends on it: after a FOK order
  that STP starves live code and replay may differ (`MCEngine_recovery.cfg`). That two
  runs of the same commands agree up to there is not a statement about one state that
  the proofs above could build on. The run `serve` has such an order among its inputs.
- `PnlIsFifo` and `ProofsHold`: what folds over lots and over the levels of a tree
  compute for every input. `PnlIsFifo` compares two folds with products of
  variables; `ProofsHold` needs that equal roots come from equal lists.

## 5. Not modelled, and the plan

Not modelled: book snapshots (no caller); routing, configuration, telemetry and
read-only queries of the API; the web frontend; in `Settlement` market and stop
orders, whose locks follow other rules, and the rounding of amounts beyond 18
decimals; in `Engine` appends that fail inside a request; events the engine server
drops when a connection is 1024 behind; in `EngineLink` the time a call waits for lock,
connect and write, which its timeout does not cover; JSON, frame layout and hashing;
requests whose signature does not verify; an API without Redis.

Plan. What is left, in this order:

1. `ProofsHold`: that an entry's siblings lead to the root is an induction over
   levels, for which `NatInduct` of `Sums` is enough; that equal roots are equal lists
   needs one over trees.
2. `Recovered` up to the first starved order, as the agreement of a command with
   its replay, step by step.
3. Market and stop orders in `Settlement`.
