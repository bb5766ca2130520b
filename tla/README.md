# A verification project for the trading desk

The repository is a trading desk made of services that talk over HTTP: a control
plane (FastAPI, one process), a risk gateway, an execution router with its broker
adapter, an MT5 bridge, a predictor, a Rust simulation engine, a market data plane,
with PostgreSQL underneath; and mission control, a web application in TypeScript whose
terminal page feeds its charts from the exchanges directly and drives the services
through server routes of its own. This directory holds TLA+ modules for two parts of
it: what decides whether, how often and on whose word an order is sent, and the
concurrent machinery of mission control, sockets, workers, timers, schedulers and the
writes it sends to the other services. Beside the modules stand the TLC configurations
that check them on small instances and TLAPS proofs of what matters most for every
instance.

Line numbers below are those of the checked-in sources; `cp` stands for
`apps/control_plane/main.py`, `rg` for `apps/risk_gateway/main.py`, `er` for
`apps/execution_router/main.py`, `mb` for `apps/mt5_bridge/main.py`, and the paths of
mission control are relative to `ui/mission-control/`.

## 1. The system

### 1.1 The services: components, their state, their operations

| Component | State it keeps | Operations | Where |
|---|---|---|---|
| Risk gateway | `STATE`: daily notional used, exposure per instrument, in memory only | pre-trade check, MT5 order check, startup | `rg` |
| Kill switch | one JSON document in `system_config`: active, reason, error count, bad fills, drawdown | count an API error, a bad fill, a loss; activate; reset; assert | `cp` 2405-2425, 7732-7781, 10757-10797 |
| System mode | `CURRENT_SYSTEM_MODE`, written through to `system_config` | set mode, watchdog | `cp` 10875 |
| Trade intents | `PENDING_INTENTS` in memory; tables `intents`, `orders` | submit, approve, execute | `cp` 16638-16960 |
| Live execution policy | `config/live_execution_policy.json`, connector health | resolve a live request | `cp` 6978-7089 |
| Go-live hardening | audit rows it writes and counts, approvals | evaluate | `cp` 6685-6884 |
| MT5 dual approval | table `mt5_live_approvals` | submit order, second approve, execute | `cp` 12706-12858, 13806-13853, 14005-14255 |
| MT5 bridge | tables `mt5_accounts`, `mt5_order_events` | upsert account, filter order | `mb` |
| Execution router, orders | table `orders`, positions | place order, place routed order | `er` 3393-3524, 3692-3716 |
| Execution router, live loop | `ACTIVE_EXECUTION_ORDERS`, its tasks, table `execution_optimizer_active_orders` | query, keep, amend, cancel, replace, finalise | `er` 1031-1243 |
| Broker adapter | none of its own; the exchange's orders | order, status, cancel, amend | `apps/broker_adapter/main.py` |
| Predictor, trainer | buffer of samples, a loop that learns from it, a saved model | train, learn a batch, restart | `apps/predictor_v8/trainer.py` |
| Strategy drift | health row and cooldown per strategy and regime | suspend, auto-resume | `cp` 8226 ff. |
| Audit trail | hash chain in `audit_events` | append | `cp` 10497 |
| Chat confirmations | one-time tokens with an expiry | prepare, confirm | `cp` 8019 ff. |
| HFT ring (Rust) | bounded lock-free queue, relaxed counters | enqueue, worker loop, health | `rust-execution-engine/src/hft.rs` |
| Route choice, AI v6, venue stability | learning state, persisted per venue | score, reinforce | `er` |
| Predictor scoring, AI orchestrator, embeddings, market data plane | models, memories, caches | score, answer | `apps/` |

### 1.2 Mission control: components, their state, their operations

| Component | State it keeps | Operations | Where |
|---|---|---|---|
| Market data bus, sockets | primary and auxiliary socket of each stream, reconnect timers, pings, failure count, cooldown | connect, disconnect, the handlers and timers of a socket | `lib/marketDataBus.ts` |
| Market data bus, refresh | the abort controller and its key, side timer, failure cooldown, the snapshot shown | `refreshNow`, cut at its two awaits | `lib/marketDataBus.ts` 1178-1420 |
| Market data bus, trade rings | one ring per venue, the animation frame that drains them | write a trade, drain, change market | `lib/marketDataBus.ts` |
| Local order book | levels, last sequence, buffered deltas, sync status | snapshot, delta, reset | `lib/orderflowRuntimeEngine.ts` |
| Golden frame path | the sequence guard's queue, the render gate's held frames, two timers; once in a worker, once on the bus | queue a frame, poll, gate, reset, fall back | `lib/goldenFrameSequenceGuard.ts`, `public/workers/goldenFrameWorker.js`, `lib/marketDataBus.ts` |
| Render scheduler | the jobs that wait, one flush loop; the chart's dirty marks and generation | enqueue, flush, clear | `lib/renderScheduler.ts`, `app/terminal/InstitutionalChart.tsx` |
| Indicators | promises by request number, a worker, the newest effect | compute, answer, fall back, terminate | `lib/indicators/workerAdapter.ts`, `app/terminal/page.tsx` |
| Shadow scheduler | interval, in-flight mark, the page's busy mark | start, stop, tick, trigger, manual run | `lib/selfLearningScheduler.ts`, `app/terminal/page.tsx` |
| Self-learning V5 | a state per scope in the control plane's table, another in a local file, the page's copy | load, run a cycle, promote | `lib/metaHarnessSafe.ts`, `app/api/strategies/self-learning-v5/` |
| Control plane calls | counts of outcomes over the process | `cpFetch`: try, retry, next address | `lib/controlPlane.ts` |
| Auto-tuning write-back | a file of answers by idempotency key | submit, look up, forward, record | `app/api/strategies/auto-tuning/route.ts`, `lib/autoTuningIdempotency.ts` |
| Rollback guard | one JSON file: active session, history | start, observe, poll, close | `lib/autoTuningRollbackGuard.ts` |
| Predictor training | the page's queue of samples | queue, flush, receive, put back | `app/terminal/page.tsx` 16650-16780, `app/api/predictor/train/route.ts` |
| Tickets and automatic execution | refs of the terminal page | slice, send, hedge, settle | `app/terminal/page.tsx` 8408-9745 |
| Price fusion, telemetry, drawing, other pages and proxies | averages, pixels, forms | | `lib/`, `app/` |

### 1.3 How they interact

Every Python service is a single asyncio process and its database calls block, so
code between two `await`s is atomic with respect to the same process; everything
interesting happens across an `await`. The control plane awaits the gateway (charge),
the memory service (shrink or stop), the router (fill) and the bridge (book), and
rereads little of what it looked at before. The router's live loop is a background
task: it outlives the request that started it, and a request outlives the client that
timed out on it. A restart of a service forgets what it keeps in memory (the gateway's
counters, `PENDING_INTENTS`, the router's loops) and keeps what is in PostgreSQL.

The browser side is one thread of callbacks as well: socket handlers, timers, animation
frames, answers of two workers and effects of React. A callback that was detached, a
timer that was cleared and a promise whose effect is gone are the ones that matter. The
server routes of mission control run concurrently and share files that each of them
reads and rewrites whole, without a lock.

### 1.4 What is hard about it, and what makes it correct

* Gateway: two endpoints charge one pair of counters, nothing gives a charge back.
  Correct: one process accepts no more than the limit. The word "daily" is another
  matter (section 5).
* Kill switch: many paths rewrite one document. Correct: trading is not enabled with a
  tripped counter.
* Intents: checks before an `await`, effects after it; ids that callers reuse; retries
  after a timeout that the router does not recognise as retries; restarts in between.
  Correct: the router is never asked for more than the gateway accepted, whatever waits
  for approval was accepted, executed means there is an order, one paper intent has one
  row, no live order leaves with the switch on or in another mode, and the pipeline
  drains once the switch is on.
* MT5: a live order needs two people; an approval is read before and written after a
  long execution; the account's mode belongs to another service.
* Live loop: fills race the cancel, answers get lost after the exchange acted on them,
  the process dies. Correct: one working order per decision, no overfill but by what
  the code overlooks or asks for twice, a final status that says the truth, and an end.
* Frame path: frames come out of order, repeated, behind gaps; a market change travels
  to the worker behind frames of the old market; two timers fire once and are armed in
  different functions; the worker may fail. Correct: frames leave in order, none of a
  left market survives, and whatever was queued leaves.
* Sockets and refresh: one timer at a time that every change of configuration cancels,
  requests that are overtaken and answer late. Correct: a configured stream is never
  given up where it is served, comes back, and what is shown settles on the configuration.
* Local book: deltas are lost, late, buffered; the unnumbered refresh writes into it.
  Correct: a live book is the venue's book, and a desynced one comes back.
* Chart and indicators: a job is replaced while another is drawn, a chart is removed
  with a frame due and the next one is empty, answers come in any order. Correct: no
  older job takes the mark of a newer version away, nothing waits without a flush, no
  older series replaces a newer one.
* Shadow scheduler and promotion: runs outlive a stop; a mark that is set is seen from the
  next rendering on; cycles and promotions overwrite one stored state, in two stores;
  strategies of one cycle may share an id. Correct: one cycle at a time but for that
  window, nothing goes live but by a promotion on record, and the entries agree with it.
* Writes to the services: retries, lost answers, torn and full files, steps that throw,
  requests that overlap. Correct: a write is performed once per address, a key applied
  once unless its answer was lost, no sample forgotten, no elapsed session left active.

`PROJECT.json` lists each of these hazards at its line with the properties that would
catch it going wrong.

## 2. Modules

```
RiskGateway --+-- RiskGatewayDay            the gateway against the calendar
              +-- IntentPipeline --+
KillSwitch ---+--------------------+        both EXTENDed by what composes them
              +-- Mt5DualApproval
ExecutionOptimizerLoop                      router, adapter and exchange

SequenceGuard --+-- SequenceGuardSpec ....> OrderedRelease     (implements)
                +-- FrameGate               guard, gate, worker, bus
MarketBusStreams   SnapshotRefresh   LocalOrderBook
TradeRings ...............................> LossyQueues        (implements)
RenderScheduler    IndicatorCompute
ShadowScheduler    ShadowPromotion
ControlPlaneFetch ---- AutoTuning           every write-back is such a call
RollbackGuard      PredictorTraining
```

`RiskGateway` and `KillSwitch` are the abstract specifications `RiskSpec` and
`KillSpec`: `IntentPipeline` and `Mt5DualApproval` compose them, every action of theirs
that touches their variables does so through their operators; both are proved to be
implemented by each, and checked in the run of the pipeline. `OrderedRelease` says what a sequencing buffer promises and
`LossyQueues` what the trade buffers promise; `SequenceGuardSpec` and `TradeRings`
implement them under the refinement mappings written there (`OrderedSpec`,
`QueuesSpec`). Each `MC*.tla` fixes the constants of one run or of several; the
`*Proofs.tla` modules hold the theorems.

### 2.1 RiskGateway, RiskGatewayDay

`dailyUsed` and `exposure` are the two entries of `STATE`. `PreTradeCheck` and
`Mt5OrderCheck` are the two endpoints with all their rules; the reasons against an
order are a set, empty when it is accepted, as the code's list is. The MT5 endpoint
passes a confidence of 1.0 and the regime `UNKNOWN` to the conditional rules, so
`Mt5Reasons` does. `Charge` happens in the same step, because no `await` separates
the check from it. `RiskRestart` sets both counters to zero. `RiskGatewayDay` adds two
history variables, what was accepted since midnight and how often the process
restarted, and `Midnight`, which does nothing to the service.

Abstracted: notionals are whole units, confidences whole percents. Rounding to cents
and float comparison are left out.

### 2.2 KillSwitch

`ks` is the document. Its three counting paths, direct activation (the endpoint, the
watchdog, the vote proxy with its own reason) and reset are one action each: none
awaits between its read and its save. Startup saves back what it read, so a restart is
a stutter. Which call site counts an error is left to the modules that compose it.

### 2.3 IntentPipeline

A handler `h` is a request of the control plane; its program counter names the `await`
it stands at (`risk`, `decided`, `memory`, `routing`). `calls` are the posts to the
router, which live on when the handler is gone. `pending` is `PENDING_INTENTS`,
`intents` the status column of the table, `ordersTable` the rows of `orders` with
whether they name their intent.

`Submit` takes the mode of its moment. `GatewayCheck` is the gateway's endpoint;
`GatewayUnavailable` covers a charge that was booked and whose answer never arrived.
`RejectByRisk`, `QueueForApproval` and `ExecuteSubmitted` are the three ways on.
`Approve` leaves the intent in `PENDING_INTENTS` while it executes, as the code does;
`RecordOrder` removes it at the end, and with it whatever a resubmission put there
meanwhile. After the memory lookup a live order is allowed by a second look at mode
and switch (`LiveAllowed`), a paper order is not looked at again. `FillPaper` and
`FillLive` are the router's two endpoints: the control plane records the paper order,
the router the live one. `OrderInsertRaises` is the foreign key. `RouterTimeout` ends
the handler and leaves the post alone.

Abstracted: the order id of a paper order is derived from its intent id, so
`AlreadyRecorded` asks for a row of the same intent. `DispatchSizes` stands for the
memory's cap and the connector's multiplier, both at most one. The other reasons of
the live policy (connector health, credentials, account) and the memory's verdict are
free choices that may always stop an order. `Activate` also stands for errors counted
by endpoints outside this module. When two approvals overlap, the loser's `del` fails
after its order was recorded; the caller sees an error and no state differs, so it is
`RecordOrder` as well.

### 2.4 Mt5DualApproval

As before a handler stands at one of its awaits (`account`, `risk`, `route`, `bridge`,
`accepted`, `sync`). `accountMode` is the bridge's table, `approvals` the table of
stored orders, `events` what the bridge booked, stamped with the mode the account has
at that moment. `repeats` counts the hardening's own audit rows, which is how the code
counts them: every evaluation raises the count the next one sees, `WindowPasses` is
the lookback interval moving on. `HardeningBlocks` is the part of
`_evaluate_go_live_hardening` that depends on modelled state.

Abstracted: exposure, chart rules, predictor and memory gate may end a request at any
point (`GiveUp`, `BlockLiveOrder`) and never let one pass that the rest would stop.
One signal (symbol and side) per account. Every event gets a ticket of its own; two
orders of one millisecond share a broker ticket in the code (`mb` 338).

### 2.5 ExecutionOptimizerLoop

`orders[0]` is the order the loop was started with, `orders[k]` the replacement posted
in cycle `k`. The loop is cut at its calls to the adapter. `decide_order_lifecycle`
scores the market; here any of its actions may come back. `LifecycleError` and
`RouterRestart` may strike at any call, before or after the exchange acted on it
(`CallTakesEffect`). `StatusesOf` is what the adapter makes of the exchange's status:
on Bybit an order that ended partly filled may be taken for an open one
(`apps/broker_adapter/main.py` 356), and a loop then goes on with it. A cancel that was
acknowledged and cannot be read back counts as cancelled (563), a replacement that
cannot be read back is `unknown` (537), which the loop takes for not open
(`ReplaceUnread`). `row` is the decision's row in
`execution_optimizer_active_orders`.

The caller names a notional and may name a quantity beside it. The adapter prefers the
quantity (`apps/broker_adapter/main.py` 496-506), and the live context of a replacement
still holds it (`er` 748, 806-807) while only the notional is scaled down (1210-1211):
with `quantity` set every order is of that size, the replacements included, and `asked`,
the notional the loop computes with, may be another amount. `booked`, `overlooked` and
`repeated` are history: everything the exchange filled, what it filled between the last
query of a replaced order and the acknowledgement of its cancel, and what the loop had
seen filled when a replacement asked for it again.

External, and assumed: the exchange fills and ends open orders when it likes, and an
order whose cancel it acknowledged takes no more fills. A rejected order counts as
cancelled. Left out: lot rounding, prices,
the loop of a second decision, and a second loop with the same decision id.

### 2.6 SequenceGuard, SequenceGuardSpec, OrderedRelease, FrameGate

`SequenceGuard` has the data operations of `GoldenFrameSequenceGuard` (and of its twin
in the worker) as operators on a record: `Enqueue` drops what is late, replaces a
frame of the same number and evicts the oldest when the queue is full, `Poll` releases
the head, waits a grace window at a gap and then skips one number. The queue is a set
of frames with distinct numbers; its head is the least. `SequenceGuardSpec` is one such
object under any caller.

`FrameGate` is the whole path: `inbox` and `outbox` are the channels to and from the
worker, `gate` the gate in use, the worker's or, after `WorkerError`, the bus's own.
`Configure` is `connect()` with its reset message; `DepthMessage` and `TradeDrain`
queue frames, `GateTimer` and `SequenceTimer` are the two timers, `Tick` the clock.
A frame is its feed, its number, whether its trades and its depth agree, and its age.
Timers may fire late, never early.

`latestFrames` are the feeds `chartFrameFeed.ts` has a frame of. `PublishNow` is a publish
that looks at the active feed in the same step. A refresh whose snapshot lacks something
looks at it, awaits the fallback routes (`falling`), and then publishes under the feed it
was for (`lib/marketDataBus.ts` 1331): `RefreshFallsBack` and `FallbackPublishes`. `late`
is history: the feeds that came back this way when they were no longer active. Which
bars a feed shows is not in the model; no property says it.

### 2.7 MarketBusStreams, SnapshotRefresh, TradeRings, LocalOrderBook

`MarketBusStreams` is one kind of stream. A socket is in `sockets` while its handlers
are attached (`safeCloseSocket` detaches them); `primary` and `aux` are what the bus
holds, `auxTimer` and `lostTimers` the timers its map knows and those it forgot,
`primaryPing` and `auxPing` the handles it keeps, `pinging` the sockets an interval
really pings. `overlap` is history: a venue got a socket while its timer was pending.
`served` is the page's host: on the public ones (`isGtixPublicHost`, 174) the URL builders
give an empty string, and `ConnectSocket` then makes neither socket nor timer; the page
lives on the periodic refresh there.

`SnapshotRefresh` is `refreshNow()`: `fetches` holds the requests under way, which one
the bus's controller belongs to and whether it was aborted. The configuration is looked
at after the first await (`SnapshotAnswer`) and not after the second
(`FallbackAnswer`), as in the code.

`TradeRings` keeps the two growing indices of each ring and the rings of markets that
were left, into which late messages still write; a drain takes the venues by priority
until its pull limit or its time is used up. `LossyQueues` is what remains of it for a
reader: queues that forget their oldest.

`LocalOrderBook` has two venues with a fixed history of updates each, what their
sockets delivered or lost, the book kept per venue, and the engine: book, last
sequence, buffered deltas and status. The history is the reference: `BookAt` folds it.
Deltas without a number, which the engine applies unchecked (`lib/orderflowRuntimeEngine.ts`
199, 209), are not in the model: the properties speak of venues that number every delta.

### 2.8 RenderScheduler, IndicatorCompute, ShadowScheduler, ShadowPromotion

`RenderScheduler`: a layer has the version that was enqueued last, the one the chart
shows, and its dirty mark. `elapsed` is the time spent in the flush under way; a flush
runs jobs by rank until the stage's or the frame's budget is used up (`RunJob`), may end
early, and a callback may throw. `Outcomes` are what a job may leave: it draws and clears
its mark; it clears the mark and leaves the old version (an update too small to see, one
handed to the animation, data the series refuses); the candles also draw the whole data
and leave the mark (`app/terminal/InstitutionalChart.tsx` 6008, 6036, 6052), or end empty.
`refused` is history: the version whose job cleared the mark undrawn. `RemoveChart` is
the clean-up of the chart's effect, `CreateChart` the effect: the new chart is empty, and
no layer is marked for it, because the effects of the layers do not depend on what made
it new. `blank` is history: the layers with no job since the last removal.

`IndicatorCompute`: an effect of the page asks the adapter, which posts to the worker
and keeps a promise; errors of the worker lead to the computation on the thread; its
failure ends it and with it the promises it held. `asked` and `shown` are the page's.

`ShadowScheduler`: `runs` are the open awaits of the runner, those that a `stop()`
forgot among them. Whether one is a cycle depends on the busy mark as the last rendering
reads it (`rendered`): the runner and the button are closures of that rendering
(`app/terminal/page.tsx` 18603, 18753), so the mark that was set (`busy`) excludes a
second cycle from the next `Render` on, and not before. `raced` is history: a cycle began
in that window and cycles have run ever since.

`ShadowPromotion`: `db` and `file` are the two stores by scope, `page` the scope and
the state on the page, `cycle` the cycle requests under way, which may overlap for the
reason above, and `promotion` that of a promotion. `CycleResult` is
`runMetaHarnessSafeCycle`, `Ready` the readiness both languages compute, `Promoted` the
promotion. Which strategies a replay finds best is free (`Rankings`). Their ids are made
of the rounded score and the absorption threshold (`lib/metaHarnessSafe.ts` 719), so
entries of one cycle may share one: `Ready` looks at the first of them, `CycleResult` and
`Promoted` make all of them live. The page always asks with `allowLiveDeployment: false`
(`app/terminal/page.tsx` 18614), so no cycle finds an entry eligible to go live by itself.
The model knows ids, not the parameters behind them.

### 2.9 ControlPlaneFetch, AutoTuning, RollbackGuard, PredictorTraining

`ControlPlaneFetch`: a call carries its method, the attempts its policy allows (a
snapshot of the regime at its start), address and attempt. An attempt that fails may
have been performed before (`done`) unless its failure shows it never arrived.
`performed` is history. The other side is external.

`AutoTuning` EXTENDs it: the route between its awaits (`lookup`, `known`, `upstream`,
`save`, `storing`), the file of records, emptied by opening it, and the page with its
key. The file keeps the newest `MaxRecords` answers (`Newest`; 300 in
`lib/autoTuningIdempotency.ts` 29), and others may be in it when the page opens
(`Earlier`). `RouteThrows` is a step the route does not catch: `cpFetch` that gave up,
the audit or the file of records that cannot be written, a file that was opened and not
written. `doubtful` is the history of applied keys whose answer or record was lost,
`serial` whether requests have followed one another.

`RollbackGuard`: a request reads the file, opens it for writing (which empties it) and
writes what it computed from what it read; `Poller` is the page's poll.

`PredictorTraining`: a flush takes a batch off the page's buffer; the predictor may
train it and answer, answer with an error, or lose the answer; `GoesBack` is what the
page makes of it. `ReceiveUnread` is a body of status 200 that cannot be read
(`app/terminal/page.tsx` 16724): the batch counts as trained. The trainer has a limit, a
loop that an exception ends, and restarts.

## 3. Runs

| Run | Question | Instance |
|---|---|---|
| `guards` | Does any mix of checks, restarts and midnights break the limit on a day without a restart; does any order of events leave trading on with a tripped counter; is any write performed or applied twice, any training sample forgotten; is what is live on record after a promotion that asks for an observation? | 12 orders, one or more for every reason, 3 instruments, 2 restarts a day, limit 9 with orders of 1, 2 and 3, so it is approached in many ways and hit exactly; the shipped thresholds of 5 errors and 30 bps with values below, at and above; 2 calls, 2 addresses, 2 attempts, 3 kinds of failure; 2 keys, 2 write-backs and a file that keeps one answer; 3 samples in batches of 2, a predictor that keeps 3; 1 scope, 2 strategies, 3 cycles of which 2 an hour apart are required, 2 promotions |
| `risk_gateway_daily` | Is the daily limit daily? No: see 5.1 | the gateway of `guards` |
| `intent_pipeline` | Size, backing, guards, and implementation of both components | 1 intent id, reused with a paper and a larger live payload; 2 handlers, 2 submissions, 1 post |
| `intent_retries` | Is there one row per paper intent, a row behind "executed", and does the pipeline drain? | fair; 2 posts, 2 handlers, so that two approvals overlap or a timeout is retried |
| `intent_foreign_key` | Is every row the control plane inserts valid? No: see 5.2 | as `intent_pipeline` |
| `mt5_dual_approval` | What does dual approval guarantee? | 2 operators, 2 handlers, 3 approvals against a backlog of 2, so the limit is reached and passed over |
| `mt5_single_approval` | Can a live order be booked on one word? Yes: see 5.3 | 1 approval, 2 tickets |
| `mt5_approval_twice` | Can one approval make two orders? Yes: see 5.4 | the same, anti-loop as shipped |
| `optimizer_loop` | Safety and end of the live loop | fair; sizes up to 4 units, with and without a quantity, 3 cycles, dust 1, Bybit, which can do all BingX can and amend |
| `frame_path` | Do frames leave, in order and only of this market? Which feeds may be shown that are not active? Does a rollback session end? | fair; 2 timeframes of one market and 1 feed of another, 3 frames, 2 switches, queue of 2; 2 refreshes that fall back among at most 1 frame; the guard under frames numbered up to 3 with 2 payloads; 2 rollback sessions and 2 requests beside the poll |
| `market_bus` | Do streams come back, does what is shown settle, is a live book the venue's, are the rings lossy queues? | fair; a host that serves sockets or not, 2 public venues and a broker, 4 troubles, 3 configurations; 3 refreshes at a time, 4 configurations; rings of 2 slots, 5 trades, 2 markets; 6 updates on 2 levels |
| `terminal_page` | Do layers and indicators stay with the newest, does one cycle run at a time, do the entries that are live agree with the pointer? | 3 layers and a budget of 3, 4 versions, 3 charts one after the other; 5 effects; 4 open awaits; 2 scopes, 2 ids, rankings of 2 entries that may tie, 2 cycles, 1 promotion |

**Sums.** `guards`, `frame_path`, `market_bus` and `terminal_page` each hold several
parts that share no variable. Their next-state relation moves one part while the others
are in their initial states, so a behaviour is a behaviour of one part, or of several
in turn, and the state space is the sum of theirs and not the product. A
property of one part says the same there as it would alone. Fairness is that of the
parts; what a part is fair about is disabled in its initial state, but for the poll of
the rollback guard and the refresh of the book, whose fairness therefore asks that the
others are where they began. `FallbackBound` lets a refresh fall back only while at most one
frame is queued; no fair step is cut by it. `ExpectedBound` cuts the guard's counter, which evictions
and skipped gaps can move past the numbers of the frames.

**Bounds.** `MaxSubmits` bounds submissions and write-backs, `Posts` the orders sent,
`ErrorBound` the counters of the switch, `MaxRestarts` a day's restarts, `Approvals`
and `Tickets` what the MT5 path creates, `MaxCycles` is the code's own bound. One intent
id is enough because handlers of different ids share only the gateway and the switch,
whose properties are proved without bounds. Two handlers, two flushes, two calls are
enough for every race above, each of which is between two requests. With four units a
replacement comes in several sizes, leaves more than dust and is replaced again; three
cycles let a replacement itself be replaced before the loop's timeout. A file of one
record is full at once, so the second answer pushes the first out. The anti-loop
bites at the first repetition in `mt5_dual_approval`, so that it and the window that
lifts it are both in play. `MaxFrames`, `MaxSwitches`, `MaxTrouble`, `MaxConfigures`,
`MaxStreamConnects`, `MaxFallbacks`, `MaxTrades`, `MaxMarkets`, `MaxJobs`, `MaxCharts`, `MaxEffects`,
`MaxRuns`, `MaxPromotions`, `MaxTime`, `MaxCalls`, `MaxPosts`, `MaxNumber` bound
what the page, the venues and the user do: the queue of 2 overflows on the third
frame, four troubles pass the cooldown's threshold of three, rings of two slots are
lapped, four jobs replace one another in three layers across three charts. Two flushes of
two samples overflow a trainer that keeps three. Rankings of two entries hold a tie, a
tie with a rejected entry, and two ids; one entry and three cycles let the live strategy
leave the ranking and return (`guards`). What is proved (section 6) holds
without any of these.

`CHECK_DEADLOCK FALSE` is said of runs whose parts may stop: the loop ends, and the
page's inputs are bounded. Symmetry is used over handlers, posts, operators, approvals,
tickets, scopes and strategies, which the modules only compare for equality, and never
in a run with liveness.

**Fairness.**

* `IntentPipeline!FairSpec` is weakly fair in each handler: every await of a handler is
  an HTTP call with a client timeout of ten or twelve seconds (`cp` 16783), so a handler
  always has a next step and takes it. Nothing is assumed of operators, the router, or
  restarts.
* `ExecutionOptimizerLoop!FairSpec` is weakly fair in the loop's own step: it awaits
  only sleeps and calls with timeouts of 20 or 25 seconds. Nothing is assumed of the
  exchange.
* `GateFairness`: the browser delivers messages between the page and its worker and runs
  timers that are due, and time passes. Frames need not come.
* `StreamsFairness`: timers fire, a cooldown ends, an error is followed by its close, and
  a socket that does not fail opens. Sockets may fail as often as `MaxTrouble` allows.
* `RefreshFairness`: every request is answered or fails, timers fire.
* `BookFairness`: what a socket has delivered arrives; the refresh of `refreshNow`,
  which is on a timer, goes on. `DrainFrame`: an animation frame that was asked for comes.
* `PollFairness`: the server finishes requests it has begun, and the open page polls
  once a minute.

## 4. Properties and what the checks show

Orders:

* `DayWithoutRestartWithinLimit`: without a restart the gateway errs on the safe side,
  since a counter that midnight does not reset is at least the day's sum. That a process
  never accepts more than the limit (`BudgetRespected`) is part of the proof of it and
  not checked on its own.
* `OffMeansBelowThresholds`: a switch that is off has no tripped counter.
* `DispatchWithinAcceptance`: what is posted to the router for an id is at most the
  largest notional the gateway accepted under it. It survives a resubmission that
  replaces the waiting payload during an approval of the older one.
* `ApprovalIsBacked`: every waiting intent was accepted at its size and has its row, so
  an approval never meets the foreign key that stops a fresh submission.
* `LiveDispatchGuarded`: the second look at mode and switch is what makes it true; the
  mutant that trusts the first look fails.
* `RiskSpec`, `KillSpec`: the pipeline implements its two components.
* `ExecutedHasOrderRow`, `OneRowPerPaperIntent`: `ON CONFLICT DO NOTHING` under
  overlapping approvals and retries. The second fill at the router is not prevented,
  only its row.
* `KillSwitchDrains`: once the switch is on and stays on, no execution is under way.
* `LiveTargetHasTwoApprovers`, `ExecutedApprovalHasEvent`: what dual approval does
  guarantee under every interleaving.
* `FullBacklogStays`: at its limit the backlog blocks the approvals it consists of,
  because executing one evaluates the same limit while that one still counts. With
  nothing in flight it is full for good, and only a change of policy or of the table by
  hand opens it.
* `BadFillsWithinPolicy`: the bridge caps the slippage it reports by the spread the
  order tolerates, and the gateway refuses orders that tolerate more than 10 bps, so
  with the shipped numbers an MT5 fill can never trip the 30 bps threshold.
* `OneWorkingOrder`, `FinalStatusTruthful`, `LoopEnds`: the live loop, under lost
  answers, fills that race a cancel, and a router that dies. The row of a decision whose
  router died stays active; no property speaks of that row.
* `OverfillAccounted`: the loop buys too much in two ways and no other. It overlooks what
  the exchange filled between the last query and the cancel, and it repeats what it did
  see filled when the caller named a quantity, which a replacement sends unchanged (5.12).

Frames and streams:

* `OrderedSpec`: the sequence guard implements `OrderedRelease`. What it drops is what
  came late, what a newer frame of the same number replaced, or the lowest.
* `NoLostWakeup`, `EventuallyIdle`: held and queued frames always have the timer that
  will let them go, and go, in spite of gaps and of a worker that fails.
* `GateHoldsThisMarket`: behind the last reset, and everywhere once it was seen, there
  are only frames of the market on display.
* `StaleFeedsByRefreshOnly`: a feed that is not active is shown only when a refresh,
  which had checked it while it was active, publishes after its fallback (5.16). No late
  frame of the worker does that.
* `NeverGivenUp`, `StreamRecovers`: a configured stream has a socket or a timer that
  will make one, and in the end opens, on a host that serves sockets. On a public host
  the URL is empty, and the bus goes offline with neither; the models take that branch.
* `OrphansOnlyByOverlap`: sockets nobody knows come from one thing only, a primary
  reconnect that opens the auxiliary sockets while an auxiliary timer is pending. That
  it happens is what the code does.
* `ShownSettles`: what is shown becomes that of the configuration and stays so.
* `QueuesSpec`: the rings implement queues that lose their oldest.
* `LiveBookIsVenueBook`, `Resynced`: every gap is noticed, and a desynced book is
  brought back by the refresh, since it asks nobody itself.

The page:

* `CleanShowsNewest`: a layer's mark is cleared by the job of its newest version only,
  which drew it or itself let it be. The blank layers of a chart that came after their
  last job are the exception the property names (5.13).
* `WaitingHasFlush`: whatever waits has a flush scheduled.
* `ShownIsNewest`: series of the newest effect, in whatever order answers come. It says
  nothing of an effect whose promise a failing worker dropped (5.10).
* `OneCycleAtATime`: two cycles overlap only when the second began between the setting
  of the busy mark and the rendering that shows it (5.14); otherwise the mark excludes
  them, and once no cycle runs it is down. The scheduler's own in-flight mark guarantees
  neither.
* `LiveIsLastPromoted`, `RegistryAgrees`: in every copy of the state, stored in either
  place, held by the page or under way. They speak of ids: the entries that are live are
  exactly those of the live id, and several may share it (5.15).

Writes to the services:

* `WriteOncePerAddress`: a failed attempt may have been performed, and only a read is
  repeated at the same address.
* `AppliedOncePerKey`: while requests follow one another, a key is applied again only
  after an answer or a record was lost: an attempt that failed after it was performed, an
  audit or a file that could not be written, a file that could not be read, a record too
  old or pushed out by newer ones. Overlapping requests both apply (5.6).
* `NoSampleForgotten`: a sample is on its way, learned, lost inside the predictor, or was
  in a batch whose answer the page could not read (5.8).
* `WindowEnds`: a stale observation may write a closed session back, and the next poll
  ends it again.

Every property has a mutant in `PROJECT.json`: a "for the mutants" operator beside the
definition it would replace, a bug one could plausibly write there.

## 5. Where the code and its documents disagree, and what it does that may surprise

The first four are runs that expect a violation. The others were met while modelling,
the models contain them, and no document of the repository says otherwise
unless a line is quoted.

1. `risk_gateway_daily`. `config/risk_policy.json:9` names a daily limit; the counter
   is a module global (`rg` 17) that a restart clears and midnight does not.
2. `intent_foreign_key`. A submission that executes at once inserts its paper order
   (`cp` 16815) before its intent has a row, which `shared/db.py:140` forbids. The order
   has been filled by then; the caller gets an error and a retry fills again.
3. `mt5_single_approval`. The account's mode is read (`cp` 12717) several awaits before
   the bridge stamps it (`mb` 330). An account that turns live in between takes a live
   order on one operator's word, where `cp` 12856 asks for two.
4. `mt5_approval_twice`. Two second approvals overlap: both read `pending` (`cp` 13818)
   and both execute, although 13819 answers "Approval already resolved". The run uses
   the anti-loop as shipped, which does not prevent it.
5. `lib/controlPlane.ts:576`. The `break` after a failure that must not be repeated
   leaves only the loop over attempts, so a POST is sent again to a second address. The
   deployment configures one. The counts that choose the retry policy never decay: one
   call that failed everywhere, and the process is never "stable" again.
6. Auto-tuning. The key is not bound to the body: a dry run whose answer is lost keeps
   its key, the apply that follows replays the dry run's recorded success, and the page
   opens a rollback session although nothing was applied. Refusals are recorded like
   successes and repeated until they age. Opening the file empties it, so a read at that
   moment sees no records; overlapping requests of one key both forward. The file keeps
   300 answers (`lib/autoTuningIdempotency.ts:29`), and an audit or a file that cannot
   be written ends the route after the weights were applied and before that is recorded.
7. Rollback guard. An observation that read the file before a close writes the session
   back, or overwrites one started meanwhile; a later poll expires it.
8. Training. An error of the predictor arrives at the page as status 200 without its
   degraded flag, after the samples were taken; lost answers train a batch twice; any
   exception ends the trainer's loop until a restart. A body that does not parse after
   status 200 counts as trained (`page.tsx:16724`), and the batch of a degraded answer is gone.
9. `lib/marketDataBus.ts:1280`. A refresh that awaited its fallback gives the bars and
   trades of the market it was for to the engine of the next one, where the comment at
   703 has the engine start from zero on every change ("repart de zéro").
10. `lib/indicators/workerAdapter.ts:121`. A worker that fails drops the promises that
    wait for it; the effect they belong to gets no series until the next change.
11. `app/terminal/page.tsx:18773`. A change of scope carries the cycles of the scope
    before it into the first stored state of the new one.
12. `er` 806. A quantity the caller put into the live context is sent again with every
    replacement: 1209 rescales the notional only, and the adapter prefers the quantity
    (`broker_adapter` 496). What was filled before is then bought again.
13. `app/terminal/InstitutionalChart.tsx:5189`. A chart that is created again
    is empty, and the effects that fill its layers do not run for it. A layer stays
    empty, and unmarked, until its data change.
14. `page.tsx:18603`. A cycle reads the busy mark of the rendering it was created in. A
    second trigger before the next rendering starts a second cycle, and the first of the
    two to end takes the mark from the other.
15. `lib/metaHarnessSafe.ts:719`. A strategy's id is its rounded score and one parameter.
    Variants that tie share it: one promotion makes all of them live, and a later cycle
    leaves a rejected one live when it has the live id.
16. `lib/marketDataBus.ts:1331`. A refresh publishes under the feed it was started for,
    without a second look at the feed that is active after its fallback.

## 6. Proofs

Checked by `tlapm`, for all values of the constants under the assumptions the modules
name, all of which TLC evaluates in the runs.

* `RiskGatewayProofs`: type correctness, `BudgetRespected`, `DayWithoutRestartWithinLimit`,
  and that exposure is backed by charged budget. `RiskInv` is the conjunction of types,
  budget and backing: exposure cannot be bounded by `dailyUsed` in one step without
  knowing that both move by the same notional. The day adds that, without a restart,
  the day's sum is at most the counter.
* `KillSwitchProofs`: `OffMeansBelowThresholds`, and that the first cause stays until a
  reset, from `KillInv`.
* `IntentPipelineProofs`: type correctness, `DispatchWithinAcceptance`,
  `ApprovalIsBacked`, `LiveDispatchGuarded`, `ExecutedHasOrderRow`,
  `OneRowPerPaperIntent`, and that every step is a step of `RiskSpec` and of `KillSpec`
  or leaves their variables alone. `PipelineInv` adds `RequestBacked`, what handlers
  carry while they wait: until the gateway answers, the caller's order; once granted, a
  payload of a size the gateway accepted for that intent; at `routing`, the post it
  sent. Without it the conclusion about `calls` and `pending` does not follow from the
  state before. `TablesAgree` is the invariant of the two tables: which rows may exist
  for an intent whose handler stands where. `PipelineKeepsComponentPromises` carries the
  component invariants over through the implementation, without proving them again.
  `SwitchOnlyDrains`: while the switch is on, no request newly passes its check and only
  paper orders of requests that had passed it still leave, one each.
* `ExecutionOptimizerLoopProofs`: type correctness, `OneWorkingOrder`,
  `OverfillAccounted`, `FinalStatusTruthful`, and that a finalised decision does
  not move again, for every notional, dust and number of cycles. `LoopInv` adds three
  parts: no order is filled beyond its size (`OrdersSound`); while the loop runs its
  order is the only one that may be open, none is between the cancel and the
  replacement, and the ids of later cycles are free (`LoopTracksOrder`); the loop's idea
  of what remains is never below the exchange's, and what was booked plus what is left
  stays within the request but for what was overlooked or repeated (`LoopCountsFills`). None of the
  properties is inductive without them. `LoopAlwaysAdvances` is the variant of the loop:
  `Rank`, the cycle and the phase within it, grows with each of its steps and is bounded
  by `4 * MaxCycles + 4`; the exchange does not change it.
* `Mt5DualApprovalProofs`: all four properties of its run and that the backlog never
  passes its limit, for any users, handlers, approvals and policy. The invariant says
  what each handler knows at its await (who asked, who approved, what the account was)
  and ties every event to the handler or approval it was booked for; the backlog needs
  cardinalities of sets of approvals. `Mt5ImplementsRisk` and `Mt5ImplementsKill`: the
  desk is the second composition of the gateway and the switch, and its steps are theirs
  or leave them alone. The first needs `OrdersAreSubmitted`, that the order read back
  from an approval is one that was submitted; `Mt5KeepsComponentPromises` carries the
  components' invariants over. `Mt5SwitchHolds`: while the switch is on nothing newly
  passes it and no approval is stored. `Mt5ApprovalsAreKept`: what the second operator
  signs is what the first submitted.
* `SequenceGuardProofs`: `GuardInv` (the queue is well formed and above what was
  released, what was released is below what is expected), from it that the queue is
  bounded and frames leave in order, and `GuardImplementsBuffer`, the refinement
  `GuardSpec => OrderedSpec`: every operation maps to accepting, releasing, resetting or
  a stutter. An eviction takes at most the lowest live frame (`EvictionTakesLowest`).
  Of the gate around it, `NoLostWakeup` and `GateHoldsThisMarket`, from `GateInv`: what
  waits has its timer (`Awake`, which every way through poll, flush and queueing must
  re-establish, because each timer fires once), the frames behind the last reset on its
  way are of the active market (`LastFramesOwn`), and so is all the gate holds when no
  reset is on its way (`GateOwn`). Either half of the last two alone is lost when the
  worker takes its next message. `ClearedFeedsStayCleared`: while the worker lives
  an inactive feed is shown only from a refresh that had checked it while active. Of the rollback guard, `EndedWindowsStayEnded` and
  `EndedForGood`, from `RollbackInv`: a session whose window is over returns to the file
  only through a request that had read it before or was to start it, each of these once,
  and when there is none it is gone for good. The set of these requests (`Carriers`) is
  what never grows.
* `MarketBusProofs`, four parts.
  - The refresh: one request is live at most and refreshing never stops, from
    `RefreshInv`. `RefreshOnlySettles`: while the configuration stays no refresh of
    another one begins, and one that overwrites the bars is over with that.
  - The sockets: `NeverGivenUp` where sockets are served, that the one attached primary socket is the one the bus
    holds, and that an open one keeps its ping, from `StreamsInv`, which knows of every
    attached socket its role and venue, and of every timer whether the map still knows
    it. `OrphansOnlyByOverlap` adds `KnownInv`: until a primary reconnect meets a pending
    auxiliary timer, every socket is the one its venue's entry names, no timer is lost,
    and a venue that waits for its timer has no socket.
  - The trade rings: `RingsAreQueues`, the refinement `RingsSpec => QueuesSpec`, with
    `Held`, what lies between the indices of the present market's rings, for the queues.
    `RingsInv` says of every ring that its indices are at most `Capacity` apart and that
    what lies between them was written; fewer than `Capacity` apart, two indices have two
    slots (`SlotsDiffer`), so a write never reaches what is held but for the oldest.
  - The order book: `LiveBookIsVenueBook`, from `BookInv`. What is buffered while only
    the venue of the last numbered snapshot was heard is made of updates of that venue in
    increasing order (`Own`), and the number of a loaded book is one it has sent.
    Replaying such deltas onto a snapshot leaves each level as of the last number or as
    of the snapshot (`Replayed`), which is the venue's book again once the number is the
    snapshot's. `SnapshotsWearDown`: a snapshot without a number makes the engine live or
    uses up a delta of its buffer, because the first delta behind it is never a gap.
  - The sums and folds of the library are recursive: `SumExists` and `FoldExists` show
    that the recursion has a solution, `FoldRuns` reads a fold as the run of values it
    goes through, and `RunsAgree` compares two. Where these would use induction they take
    the least counterexample (`LeastNumber`).
* `TerminalPageProofs`: `CleanShowsNewest` and the flush loop from `SchedulerInv` (the
  waiting job is the newest, "running" means a flush is due or under way, and a version
  a job let be is not newer than the newest);
  `ShownIsNewest` from `IndicatorInv` (every promise has its request or its answer);
  `OneCycleAtATime` from `ShadowInv` (without a race the busy mark is set exactly
  while a cycle is open, and a race is over when no cycle is);
  `LiveIsLastPromoted` and `RegistryAgrees` from `CopiesInv`, which says of every copy,
  in both stores, on the page and in all requests, what the properties say and its
  shape, with rankings in which any entries may tie; `NoSampleForgotten` from
  `TrainingInv`, whose `TrainedIsThere` says that a batch whose answer will not bring it
  back has reached the predictor; `WriteOncePerAddress` from `FetchInv` (a write under way
  was performed by no address still ahead); `AppliedOncePerKey` from `TuningInv`, which
  says where the answer of an applied key is: in the file, in the text about to be
  written, in the answer under way, or nowhere, and then the key is doubtful.

The rings need a finite set of venues and numbers for their bounds (`RingAssumption`,
`RingBoundsAssumption`), the book a finite set of venues, none of them the name of no
venue, and sizes that are numbers (`BookAssumption`): the bus knows a fixed list of
venues, and `applyRows` clamps every size at zero.

Model-checked only: the seven liveness properties, which this prover does not do. What a
theorem does say of each, for all constants, is that nothing leads away from the end it
asks for; that the steps towards it are taken is fairness, and TLC's:

| property | proved |
|---|---|
| `KillSwitchDrains` | `SwitchOnlyDrains`: the requests past the check only get fewer |
| `LoopEnds` | `LoopAlwaysAdvances`: a bounded rank grows with every step |
| `EventuallyIdle` | `HeldFramesHaveTimers`: what waits has the timer that moves it |
| `WindowEnds` | `EndedWindowsStayEnded`: what can bring a session back only gets less |
| `StreamRecovers` | `StreamNeverGivenUp`: a socket is there or a timer that opens one |
| `ShownSettles` | `RefreshOnlySettles`: refreshes of what was left only get fewer |
| `Resynced` | `SnapshotsWearDown`: each snapshot shortens what waits |

## 7. Not modelled, and why

* Route choice, AI v6, venue stability, predictor scoring, simulation engine, price
  fusion and telemetry are floating point; their answers are free choices. Signing, REST
  dialects and drawing are I/O and pixels. Sessions, credentials, accounts, connectors,
  incidents and webhooks are tables with endpoints. Positions and realised results are
  arithmetic on fills.
* Audit chain: reading the last hash and inserting the next row are two statements
  (`cp` 10497); two services that append at once fork it.
* Strategy drift: one health row and cooldown per regime, one suspension per strategy
  (`cp` 8226); a healthy regime may resume what another suspended.
* Chat confirmations: a token is used up before its action runs (`cp` 8019); an action
  that fails cannot be confirmed again.
* A second routed order with one `decision_id` overwrites the entry and the task of a
  loop that runs (`er` 974), and a loop does not look at the kill switch (`er` 1060).
* The exposure that hardening compares with its limits comes from tables other handlers
  update between its awaits (`cp` 6807).
* HFT ring: pushed first and counted after, with relaxed counters; health may see more
  processed than received for a moment (`hft.rs` 105).
* Tickets and automatic execution (`page.tsx` 8408-9745, 14686; `lib/executionEngineV7.ts`).
  The time of the last automatic execution is noted after the awaited send, so two can
  overlap; `sendOrder` reports success whatever was filled, and a hedge that failed
  only sets an error text; a slice that throws fails the ticket although earlier slices
  were executed; a reslice does not cancel its parent; the MT5 path answers without a
  fill ratio, and "partially_filled" is taken for final.
* Local terminal incidents (`app/api/health/local-terminal/route.ts`): a failed opening
  of the same signature is not retried, a healthy capture of another chart closes the
  ticket of the failing one, and overlapping writes of the file can lose history.
* Interface preferences and shadow mode: the last writer wins.

## 8. Plan

Done: the order path (`RiskGateway`, `KillSwitch`, `IntentPipeline`, `Mt5DualApproval`,
`ExecutionOptimizerLoop`), mission control's streams and frames (`SequenceGuard`,
`FrameGate`, `MarketBusStreams`, `SnapshotRefresh`, `TradeRings`, `LocalOrderBook`), its
page (`RenderScheduler`, `IndicatorCompute`, `ShadowScheduler`, `ShadowPromotion`) and
its writes (`ControlPlaneFetch`, `AutoTuning`, `RollbackGuard`, `PredictorTraining`),
with the proofs of section 6.

Next, in this order: `AuditChain` with two writers, against an abstract chain;
`StrategyDrift`; `TicketExecution`, slices and hedges of the page composed with the
router; several live loops with one decision id, composed with `KillSwitch`;
`ChatConfirmation`; `HftRing` from an abstract bounded queue.
