# TLA+ models of MYCELIUM / freqtrade

This directory holds TLA+ modules about the trading engine under `src/`, the
TLC configurations that check them on small instances, and theorems about them
that TLAPS checks for every instance. Source lines are given as `file:line`
relative to `src/freqtrade/` unless they start otherwise.

## 1. The system and its components

MYCELIUM is a fork of freqtrade. One process runs `worker.py`, which calls
`FreqtradeBot.process()` over and over; the bot keeps orders and trades in an
SQL database and mirrors in them what the exchange does. The same strategies run
in a backtest over candles that `download-data` stores. Around it the fork adds
an "engine core" (capital, risk, actions), "exploit" modules that propose
actions, what controls them (governor, router, regime, health), and a demo
server.

| Component | State it keeps | Operations | Talks to | Module |
|---|---|---|---|---|
| Order and trade handling (`freqtradebot.py`) | nothing that survives a call; between two exchange calls a reply, an order in hand, a loop's rest | `startup`, the six parts of `process`, `execute_entry`, `execute_trade_exit`, `handle_cancel_*`, `handle_replace_order`, `update_trade_state`, recovery | exchange by blocking calls, rows by commits | `OrderLifecycle` |
| Rows (`persistence/trade_model.py`) | `Order`: status, filled; `Trade`: amount, is_open, fee_open_currency, stop_loss | `update_orders`, `update_trade`, `recalc_trade_from_orders`, `close`, `delete`, `adjust_stop_loss` | database | `OrderLifecycle`, `StoplossOnExchange`, `Backtest` |
| Stoploss on exchange (`freqtradebot.py:1344-1513`) | one more order per trade | create, trail, cancel, recreate, give up before an exit | exchange, rows | `StoplossOnExchange` |
| Wallets (`wallets.py`) | cached balances, one hour; recomputed ones in a backtest | `update`, what is free, stakes and their limits | exchange, trades | `StakeAllocation`, `Backtest` |
| Live candles (`exchange.py`, `exchange_ws.py`, `dataprovider.py`) | the cache of candles, the feed | refresh by REST or feed, one call per refresh | exchange | `LiveSignals` |
| Strategy, locks (`strategy/interface.py`, `persistence/pairlock*.py`) | the last candle analyzed, locks with an end | analyze, read a signal, lock at an exit, cooldown | candles, trades | `LiveSignals` |
| Pairlists (`plugins/pairlist*`) | the whitelist, a cache per handler | generate, filter, verify, extend | tickers, candles, trades, a remote list | `PairSelection` |
| Protections (`plugins/protection*`) | locks in the database | lock a pair or all pairs after a close | closed trades | `Protections`, `PairSelection` |
| Backtesting (`optimize/backtesting.py`) | class lists of trades, a simulated wallet | `backtest_loop` per candle and pair | the same rows without a database | `Backtest` |
| Candle download (`data/history/`, `exchange.py`, `binance*.py`) | one file per pair | download, extend, prepend, erase | exchange, archives | `CandleStore`, `CandleArchive` |
| Trade download (same files, `kraken.py`) | one file per pair, rows in memory | download, refresh, go on by id | exchange, archives | `TradeHistory` |
| Exploit control (`exploits/`) | pools, peaks, streaks, health, positions | route a result, check an action, activate modules, judge health | the loop that uses them | `ExploitControl` |
| Demo server, engine core (`ui/`, `core/state.py`) | engine state, simulated positions | reset, configure, tick, flow step, one thread each | engine state | `CapitalLedger` |
| Exchange connector (`exchange/exchange.py`) | markets, caches | orders, cancels, candles, trades, retries | ccxt | as far as the modules above call it |
| Worker (`worker.py`) | RUNNING, STOPPED | `_worker`, `_process_running` | bot | repeated `process` and restart in `OrderLifecycle` |
| Risk (`core/risk.py`), API (`src/api/app.py`), configuration, commands, hyperopt, reports, DSPy, dashboard | - | - | - | not modelled (section 13) |

**How they interact.** Everything about real orders happens in one thread: the
bot calls the exchange, waits, writes rows, commits. Concurrency comes from the
exchange, which fills and cancels orders between any two calls, from candles
that close while they are fetched, from the websocket feed in its own thread,
from the user who may cancel orders on the exchange, from replies that time out
although the request was carried out, and from the process dying between an
exchange call and the commit, between two commits, or while a file is
written. Pages of a download are fetched concurrently. The demo server is
concurrent by itself: Flask serves every request in a thread of its own, all on
one `engine_state`. The exploits' controllers know nothing of each other; the
loop of `EXPLOIT_ENHANCEMENTS.md` brings them together.

**What is hard.** A reply is old when it is used (`freqtradebot.py:1819`, the
cancel of an order that was fetched as open); one update is two commits
(`trade_model.py:336` and `freqtradebot.py:2243`); a handler called from a loop
changes the trades and orders the loop goes on with; the newest candle of every
reply is unfinished and every layer drops it in its own way
(`exchange.py:2553`, `2768`); a balance is up to an hour old
(`wallets.py:212`); the simulated wallet is recomputed at some points only
(`wallets.py:109`); two drawdowns are measured from two peaks
(`regime_detector.py:282`). `PROJECT.json` lists each of these under "hazards"
with its line.

## 2. How the project is laid out

Each module takes its bounds as CONSTANTS with named assumptions and has one
action per operation. Modules do not share variables: each is about the state
that one part of the code owns, with the parts it calls as choices. `*.cfg` are
the runs of section 10; `*Proofs.tla` and `SumLemmas.tla` the theorems of
section 12. Operators
marked "Mutant" in a comment are plausible bugs of the operator that follows
them; with one in its place the run named in `PROJECT.json` reports the property
violated, which shows that the property depends on that code.

Of the plan, stoploss on exchange, stakes and wallet, locks, exploit control,
backtesting, candles, trades and a refinement are done. What remains is listed
in section 13.

## 3. `OrderLifecycle`: state

One spot pair; long trades, so entries buy and exits sell.

| Variable | Code |
|---|---|
| `exSide exAmt exFill exStat` | the orders as the exchange holds them (ids in order of creation, "none" = not created) |
| `bal` | base coins in the account, free and used: what a fresh `wallets.update()` reports |
| `owner dStat dFill` | order rows: `ft_trade_id`, `status` (with `ft_is_open` = "open"), `filled`; `owner = NoTrade`: no row |
| `trd amount fee` | trade rows: none, open, closed or deleted; `Trade.amount`; `fee_open_currency is not None` |
| `pc phase todo clr` | program counter; part of `process()`; the rest of the running loop over orders; the rest of a loop inside it (`cancel_open_orders_of_trade`, `handle_insufficient_funds`) |
| `cur resp job` | order in hand, the reply fetched about it, and who asked to cancel it: `startup`, `timeout`, `drop` (adjusted price None), `replace`, `clear` |
| `plan ret` | the order that will be placed next and why; where to go on when the order in hand is booked |
| `crashes lost` | counters that bound crashes and lost replies |

A crash keeps the first three rows and the row variables and resets the control
variables, which is what a process death does: every write the model makes is
followed by a commit before the code's next exchange call, except the two
commits of one update, which are two steps of the model (`UpdateOrder`, then
`BookOrder`).

## 4. `OrderLifecycle`: actions

One step is what the bot does between two exchange calls, or between two
commits. The exchange (`ExchangeFill`, `ExchangeCancel`) may act between any two.

- **Startup** (`freqtradebot.py:203-225, 371-416`): `Start`, `SyncOrder`,
  `SyncForgotten` (InvalidOrderException: the age test at line 405 is always
  true, so the order is handled as cancelled), `SyncUnreachable`, `SyncDone`.
  `handle_insufficient_funds` (459-483) does the same for the open orders of
  one trade; the loop it is called from goes on afterwards with what it had left.
- **Fees** of open trades (445-457): `AssignFees`, `NoFeesAssigned`.
- **manage_open_orders** (1515-1546, 1606-1663): `ManageOrder` fetches, updates
  the row and either keeps the order, cancels it (timeout or cancelled by the
  user), replaces or drops it, or books its fill; `ManageUnreachable`,
  `ManageDone`.
- **Cancelling** (1548-1951; `exchange.py:1734-1804`): `CancelKept` (what is
  left could not be traded), `CancelKnown` (it was done when fetched),
  `CancelAcked`, `CancelPending` (still open in the reply: entries bail out,
  exits go on), `CancelForgotten` (made-up reply), `CancelRaised`
  (TemporaryError). `EntryCancelled` and `ExitCancelled` are the rest of
  `handle_cancel_enter` and `handle_cancel_exit`; `AfterCancel` is what the
  callers do with the result; `ReplaceOrderFailed` may delete the trade.
- **Placing** (842-1044, 1756-1786, 1953-2112): `SafeExit`,
  `HandleSimilarOpenOrder`, `ClearOrder`, `ClearUnreachable`, `CreateOrder`,
  `CreateReplyLost`, `CreateRejected`, `CreateUnpaid`, then `RecordNothing`,
  `RecordEntry`, `RecordExit`.
- **Booking** (2235-2309; `trade_model.py:885-954, 1211-1287`): `BookOrder`.
- **Exits** (1228-1342, 485-576): `ExitTrade`, recovery with `RecoverOrder` and
  `RecoverDone`, `ExitSignal`, `ExitsDone`.
- **Adjusting and entering** (582-808): `AdjustPosition`, `EnterPosition`, and
  the steps that do neither.
- **Worker** (`worker.py:87-216`): `Resume` and `GoTo` order the parts of
  `process()`, `Abandon` is a TemporaryError that ends it early, `Crash` a
  process death.

Nondeterministic choices stand for what the model does not compute: prices and
signals (whether an order is kept, cancelled or replaced; whether to exit or
adjust and by how much), fees (whether one is detected), and the user's
callbacks.

## 5. `StoplossOnExchange`

One trade whose first entry is booked, its stop on the exchange, its exits and
additional entries (`freqtradebot.py:371-416, 485-576, 1046-1068, 1228-1513,
1953-2112, 2195-2309`). `kind amt fill stat lvl bal` are the exchange's orders
and coins, `row known fresh past` the rows, `stopLoss saved` the trade's stop in
memory and as committed: a stop's row is appended and committed only with the
next commit (`fresh`), so a crash loses it, and a restart trails from `saved`.
`blocks` says whether stops tie up the coins (`stoploss_blocks_assets`); it is
chosen once, so both kinds of exchange are covered. Every loop over open stops
and orders is a step per order, with the replies, the InvalidOrderException and
the other failures of each call as actions of their own (`FetchStop*`,
`CancelStop*`, `Create*`, `Refind*`). Ids of finished orders are used again, so
that a small `MaxIds` bounds orders at a time and not the length of the run.

Seen while modelling: when an additional entry filled and the cancel of the old
stop fails (2253), the stop stays for the smaller amount, because
`handle_stoploss_on_exchange` is content with any open stop (1405).
`AlwaysStopped` accepts that only after a failed call.

## 6. `StakeAllocation`

How the stake currency is shared (`wallets.py:50-438`, `freqtradebot.py:582-840`
as far as stakes go). `wallet` is the free balance as last read, `trade` and
`profit` what is booked; `free coins order` are the exchange's truth. `Propose`
computes a stake from the books, `Create` spends it; fills, ends of orders,
deposits and withdrawals come between any two steps. A coin costs one unit, a
full exit brings one unit less, the same or `Gain` more. `disturbed` is history:
money left unseen (withdrawal, lost reply) since the balance was read; no
computation can be right then, and the properties do not ask for it.

Seen while modelling: the order of an additional entry is in no trade's stake
until it fills, so with `available_capital` configured its money can be planned
a second time (6 units committed with a capital of 4); `WithinAllowance`
exempts entries made meanwhile. What a partial exit of an open trade loses is in
no total either.

## 7. `LiveSignals`, `Protections`, `PairSelection`

From candles to entries for one pair: the cache of candles and its refresh
(`exchange.py:2620-2860`), the feed (`exchange_ws.py`), the analysis and the
signal read (`strategy/interface.py:1190-1330`), exits with their lock
(`freqtradebot.py:2235-2291`), the cooldown (`plugins/`), entries. Time is a
candle number; a candle in the cache is "final", "partial" (fetched while it
was in progress), or "filled" (made up for one without trades). The market may
list the newest candle late; a pair may leave and join the whitelist; each call
may fail; the process may die between the close of a trade and its lock. A
protection that makes a new lock commits it and then ends the process
(`ProtectDies`, see the disagreements in section 10): what the lock protects
from is checked after the restart.

`PairSelection` goes from pairlists to entries over several pairs, and EXTENDS
`Protections`, the four handlers of `plugins/protections` with their manager and
the locks. `Refresh` is `refresh_pairlist` (`pairlistmanager.py:137`): a generator
(static, or by volume), filters of each kind that keeps state (age, shuffle,
spread by cached tickers, a remote list in its three modes, full slots), the
blacklist, and `_refresh_active_whitelist` (`freqtradebot.py:303`), which appends the
pairs of open trades. Each cache is a variable: `tickers volume remote checked
failed shuffled`. A filter's
list comprehension is `Subsequence` (module `Subsequences`), a recursive function,
since the provers know nothing of `SelectSeq`. The rest of an iteration follows: entries without a fill are
cancelled, trades close, lock and are judged, entries are taken from the list.
Times are candles and a step happens at any moment within one, so of a cache or
a trade that is exactly as old as its period either is possible (`MayHit`, `Edges`).

Seen while modelling: `ShuffleFilter` caches the list it returns
(`ShuffleFilter.py:96-100`), and later filters, the blacklist and the pairs of open
trades are worked into that very list, so a pair rejected once stays out, and the
pair of a closed trade stays in, until the candle is over (`lingering`); a pair that
only a trade brought into the list, blacklisted ones too, may be entered again when
its unfilled entry was deleted in the same iteration (`traded`); `AgeFilter` never
looks again at a pair that passed, so `max_days_listed` does not hold later
(`AgeFilter.py:142`); a remote blacklist is reduced to active markets and to
`number_assets` before it is applied (`RemotePairList.py:260-262`). `WhitelistChosen`
allows exactly these.

## 8. `CandleStore`, `CandleArchive`, `TradeHistory`

`CandleStore` downloads one pair's candles: arguments and the start they lead to,
the quick parallel download, the daily archives of Binance, pages fetched in any
order while candles close, the newest row dropped
(`history_utils.py:170-420`, `exchange.py:2440-2620`, `binance*.py`), and the file
overwritten in place, which a crash truncates. Time is free: any number of candles
may close between two steps, so the pages of one download may be of quite
different times. `firstReply` and `lastReply` (history) are the candle that was in
progress when the first and the latest page arrived, `overtaken` the unfinished
candles in the file that were in progress or to come at the first page of their
download and at least two candles old at its last. `CandleArchive` is the promise: a
download joins a stretch to what is held without a gap, but for candles that closed
between its first and its last answer; the newest candle may be given up, and
everything is given up only at once. `CandleStore` implements it
with `settled <- Settled`, the closed candles of the file other than its newest, and
`asked <- firstReply`; the run checks `Archive!Spec` as a property, step by step.

`TradeHistory` downloads one pair's public trades, as `download-data` or as the
bot's refresh: days of the archive, requested at once and taken in order up to
the first that is missing; paging by id on Binance and Kraken, whose last row is
dropped and comes again; joining with stored rows; interruption, failure, crash.
Paging by time is unreachable: the two exchanges with a history of trades page
by id.

Seen while modelling candles: a `--prepend` whose last page ends exactly at the
stored data still drops its last row (`exchange.py:2553`), and the candle in
front of the old data is missing for ever; `CandleArchive!Download` allows that one
candle. The pages of a download are fetched at once and only the newest of all
candles received is dropped as incomplete (`exchange.py:2553`, `2577-2605`). If a page
arrives while its last candle is in progress, and another page after that candle was
followed by two more, the unfinished one stays in the midst of the file and is never
fetched again, or a candle behind it that no page had asked for is missing.
`OnlyNewestUnfinished` and `KeepsArchive` say that this happens to such candles only.
Trades: a start after the last stored trade leaves a gap (`Late`); a download
that goes back five seconds before the first stored trade, and is interrupted or
has a stop date before that trade, leaves a hole that the next one fills
(`CutBehind`); `NoGaps` exempts both. The first refresh after a restart does not
remove duplicates (`TradesTyped` says that a file from `download-data` has none). The archive gives a whole first day, so
older rows are appended behind newer ones and the file is not sorted.

## 9. `Backtest`, `ExploitControl`, `CapitalLedger`

**`Backtest`** is the loop of `optimize/backtesting.py` over two pairs: the
generator of times and pairs with detail candles, then per pair the numbered parts
of `backtest_loop` (manage, enter, fill, adjust, exit, process), a second call for
the same candle after a close, and `handle_left_open`. An order that fills
goes through `TryClose` (`_try_close_open_order`): the books and, unless the whole
position was sold, `AfterFill`, the call of `ft_stoploss_adjust` with `after_fill`, by
which a `custom_stoploss` that has this argument may move the stop in either direction
(`trade_model.py:864`). Trades live in the
lists `open`, `pp` and the count kept by hand; `free` is the simulated wallet as
of its last update, `flow` (history) what all fills brought less what they
cost. Candles, signals and callbacks are chosen freely; the fee is zero. Money is in
whole units: what is sold takes its share of the stake with it, rounded down, and so
is the average rate. Lists are filtered and the queue of pairs is built with
`Subsequence` (section 7).

Seen while modelling: an open additional order counts nowhere in the simulated
wallet (`wallets.py:109`), so its money can be spent twice and the free balance
turns negative when both fill; with detail candles trades are opened on
later details of the last main candle, and re-entered in the detail candle of an
exit, where comments exclude it (1484, 1651-1660, 1678).

**`ExploitControl`** joins the controllers as the documented loop does
(`EXPLOIT_ENHANCEMENTS.md`): `Cycle` asks the regime controller and the
activation coordinator what may run, has the exploits propose, lets the governor
check and size each proposal against the positions at the start of the cycle
and the other proposals, and opens them; `Close` routes a result to the pools,
updates both drawdowns, the streaks and the exploit's health; `ResetRisk` and
`ResetExploit` are the two resets. `Cycle`, `Evaluated` and `Opened` are
external: that loop is documentation, not code. Money is in whole units,
rates and sizes in percent.

Seen while modelling: a loss beyond a cap counts as overflow and is not deducted,
so pools overstate the money (`router.py:346`); `is_disabled` is not cleared by
a later clean check while the multiplier returns to 1.0
(`strategy_health.py:404-407`); line 309 of it assigns 0.5 where the other checks
lower; `convexity_seeding` is never activated in a neutral market of low
volatility although a comment wants a small allocation; a RED state without open
positions never recovers by itself.

**`CapitalLedger`** is a module of its own: the demo server's capital is
simulated and never meets real orders.

| Variable | Code |
|---|---|
| `engines` | every `ExecutionEngineState` created so far, with `available_capital`, `deployed_capital`, `pnl_realized` and the capital it was created with; the last one is `DemoServer.engine_state`, the others may still be in use by a thread |
| `initial demo scen auto autoOn` | `initial_capital`; sizes in `demo_positions`; length of `DemoExploit.simulated_positions`; sizes in `AutomatedExploit.simulated_positions`; `automated_mode` |
| `step kind snap todo acts stake ref` | of each thread: its place in the handler, its request, `exec_state.available_capital`, actions to check, approved actions left, position in hand, the engine state a method was called on |
| `served mixed` | bound on requests; history variable, something else than scenario steps was asked for |

Flask serves each request in a thread. CPython (3.11 or later is required) hands
over where functions are entered and left, so every call is a place where the
other thread may run, and the assignments between two calls are one step. In
particular a method called on `self.engine_state.capital` has looked up the
object before the other thread runs: `CallAllocate` and `CallRelease` fix `ref`,
`OpenPosition`, `OpenRejected` and `ReleasePosition` use it. Scenario steps
(`demo_server.py:764-941`) and ticks (978-1135) share their actions and differ by
`kind`; the rest is `Reset`, `ConfigCapital`, `ReplaceEngine`, `ResetScenario`,
`ResetAutomated`, `ResetMode`, `StartAutomated`, `StartCleared`, `StopAutomated`
(246-265, 308-321, 352-382). A money unit is 1/`Den` of the currency, so that a
fraction stored as a position's size, which the code does
(`automated_exploit.py:368`), is a number of units as well.

Seen while modelling: an automated open is tracked by the server
(`demo_server.py:1065`) and again by the callback (`automated_exploit.py:363`)
with the fraction as its size, so the second close releases what was never
deployed and deployed capital turns negative, with one thread; a close between
the two appends of an open leaves a position in the exploit's list that the
server does not have (`demo_server.py:856, 913`). `NoOverdraw` is not true of all
constants: losses larger than what is available make stakes negative. It is proved
where ticks close without a loss, and model-checked with a small one.

## 10. The runs

All twelve pass; every action and every disjunct of every `Next` fires in one of
them. Times are for two workers with coverage on.

| Run | States | Properties | The question |
|---|---|---|---|
| `lifecycle_live` | 28 thousand | `LiveOrdersTracked`, `BooksAgree`, `NoZombie`, `DeleteOnlyEmpty`, `FillsAreBooked`, `IterationsEnd` | In one process without replacing and crashes: is every live order watched, every fill booked once and in the end, and only what is empty removed? |
| `lifecycle_crash` | 2.6 million | `KnowledgeIsPast`, `KnowledgeGrows` | With replacing, adjusting, a crash anywhere and a lost reply: do rows say only what was true, and never go back? |
| `lifecycle_forgetful` | 2.4 million | `NeverOverstated`, `OnePerPair` | An exchange that denies orders it holds: are coins ever invented? Two trades: does the pair have one at a time? |
| `stoploss` | 1.8 million | `LevelsBounded`, `AmountAgrees`, `ClosedLeavesNothing`, `StopNeverLowered`, `CloseIsBooked`, `AlwaysStopped` | Additional entries, partial exits, and one crash, lost reply or failing call anywhere: does the stop only walk up, through restarts too, is the amount the position once all is told, does a stop outlive its trade, does the trade close on a fill counted twice, is the position protected again and again? |
| `stakes` | 2.6 million | `Affordable`, `WithinAllowance` | Balances read once an hour, fills nobody booked: does an entry ask for money that is not there, or exceed what the bot may use? |
| `signals` | 2.7 million | `NoFabricated`, `ClosedSignals`, `NoReentryOnOldSignal`, `CooldownHolds` | Late, missed and failing candles: is one made up? Is an entry made on an unfinished candle, or on one from before the exit? |
| `backtest` | 2.2 million | `FlowsAreBooked`, `EndsFlat`, `StopRatchets` | Do lists, slots, stakes, profits and wallet agree with what was traded, does a stop move away from profit only where a fill lets the strategy set it anew, and does the run end with nothing? |
| `candles` | 2.0 million | `OnlyNewestUnfinished`, `KeepsArchive` | Pages that arrive in any order, any time apart: which candles may stay unfinished or be missing, and is the file an archive? |
| `selection` | 0.8 million | `WhitelistChosen`, `ProtectionsHold` | Cached lists, tickers and verdicts of different ages, crashes, protections one or two at a time: does the whitelist hold what its filters say, and every open trade; is no entry made while a lock that was asked for should last? |
| `trades` | 0.4 million | `TradesTyped`, `NoGaps`, `Complete`, `DownloadEnds` | Do archive, pages and file join without a hole, is all that was asked for there, does paging end? |
| `exploits` | 28 thousand | `Accounts`, `StacksLimited`, `RegretIsRed`, `CriticalIsZero` | Is every unit accounted for, do proposals of one cycle keep the limits together, do the two drawdown alarms agree, does a critical streak stop an exploit? |
| `ledger` | 1.1 million | `Conservation`, `DeployedIsPositions`, `NoOverdraw` | Two threads, preempted at every call: is money created, or spent twice? |

Where a module's `TypeOK` is not in the list it is a conjunct of one of the
invariants named, or proved (section 12).

**Disagreements between code and comments.** They were found as counterexamples
of properties that are now weaker or exempt the case, or by reading, so that no
run of this directory shows them; the lines are given for whoever changes that code.

- The cancel of a replaced first entry still shows it open; `handle_cancel_enter`
  bails out "as this order will then be handled in the next iteration"
  (`freqtradebot.py:1832-1834`), but its False makes `handle_replace_order` (1682)
  delete the trade, and the order goes on filling for nobody. This is why
  `lifecycle_live` runs without replacing.
- An entry is cancelled empty while the bot is down: `update_trade_state` answers
  True so that `handle_cancel_order` deals with it (2231-2232);
  `startup_update_open_orders` (396) drops the answer and the empty trade stays
  open. This is why `NoZombie` is checked without crashes.
- A crash between the two commits of an update; recovery resets the amount to the
  first entry's, and a partial exit of the same size closes the trade, although
  "only coming out to 0 can force a close" (`trade_model.py:933`).
- An exit fills while it is cleared for a new one; the trade closes and the new
  exit is placed all the same (`freqtradebot.py:2075-2090`; compare 1280).
- A protection that makes a new lock ends the process: `handle_protections`
  (`freqtradebot.py:2311-2330`) logs `until` and `lock_reason` of a `PairLock`, which
  has `lock_end_time` and `reason` (`persistence/pairlock.py:28-30`), and nothing
  above catches an `AttributeError`. The lock is committed by then, so it holds
  after a restart, but the stop of all pairs is not asked for when one pair was
  locked. `tests/freqtradebot/test_freqtradebot.py:492-497` still expects both
  messages.
- `recalc_trade_from_orders` writes the realized profit only `if close_profit:`
  (`trade_model.py:1261`). When the gains and losses of a trade's partial exits
  cancel out exactly, the profit of the exits before stays in the row, and the
  simulated wallet (`wallets.py:109`) counts it until the trade has another exit.
  `FlowsAreBooked` exempts exactly this (`Kept`); TLC reaches it with orders of two
  coins (`Coins = {2}`, `Start = 900`, one pair).
- A trade is closed as "fulfilled and found no open orders for it"
  (`trade_model.py:951-953`) while the row of an exit whose fetch failed is open.

**Bounds, and why they are enough.**

- Lifecycle: `MaxOrders = 3` is an entry, an exit or a second entry, and the order
  that replaces one of them; every action fires with three. `MaxTrades = 2` where a
  second trade of the pair matters, else 1: orders of other trades only meet
  through the balance, for which `OtherCoins` stands. `OrderAmt` 2 or 3 with
  `MinAmt = 2` gives unfilled, partly filled and filled orders on both sides of the
  minimum stake. One crash and one lost reply: a second one meets the states the
  first leaves. `Amounts` contains every sum of `MaxOrders` orders.
- Stoploss: three orders at a time are a stop, an exit or an entry, and a lost one;
  two levels make "lower" and "higher" differ; one thing goes wrong (`MaxFaults`),
  as in the lifecycle.
- Selection: two pairs, one of them blacklisted, and one slot; a part of each kind
  alone with or without shuffling, two protections at a time; a day of two candles
  and periods of one, so that each cache is hit, runs out and is asked at its edge.
- Stakes: two pairs, three entries, a stake that is a multiple of neither the
  funds nor the ratio, minimum below and maximum above it, so that raising to
  the minimum, the cut to what is free and the maximum all decide in some state.
- Signals: five candles, a page of three, at most one late step, one
  candle without trades, a cooldown of one; two sides are interchangeable
  (SYMMETRY), as are the pairs in `stakes` and `exploits`.
- Backtest: two candles of two details, two prices, one slot for two pairs, one
  adjustment. Every part of the loop fires, a second
  trade follows a first in one run. The distance `custom_stoploss` may ask for
  (`Customs`) is twice the strategy's, so a fill can move a stop back.
- Candles and trades: seven candles or instants with pages of two and days of two,
  so that several pages, an archive and a rest appear in one download, and two
  downloads meet the same file.
- Exploits: a ruled and a convexity exploit, three open positions, three closed
  trades; limits of one and two so that each can be reached and exceeded.
- Ledger: two threads are enough for every pair of steps of two requests to meet;
  four requests for an open, a close and an open that meets a close.

Deadlock is checked except where a bound ends every behaviour: `ledger`
(requests), `backtest` (the run ends), `stakes` (entries), `signals`, `trades`,
`selection` (time) and `exploits` (closed trades).

## 11. Fairness

- `OrderLifecycle.FairSpec`: `WF_vars(Bot)`: the worker calls `process()` for ever
  and catches what it raises (`worker.py:201-216`). Strong fairness of
  `SyncOrder(o)`, `ManageOrder(o)`, `CancelAcked`: a request that is made again in
  every iteration succeeds at some time. None of the exchange: an order may stay
  open for ever; the liveness properties speak of orders that are done.
- `StoplossOnExchange.FairSpec`: `WF_vars(Bot)` for the same reason; failing calls
  are bounded by `MaxFaults`.
- `TradeHistory.FairSpec`: `WF_tradeVars(Steps)`: a download that can take a step takes
  one; the market need not trade and no call need fail.

## 12. What is proved

| Module | Theorem | Property | For every |
|---|---|---|---|
| `OrderLifecycleProofs` | `TypeCorrect`, `Invariant` | - | order, trade, amount, configuration, crash, lost reply |
| | `RowsNeverOverstate` | rows' half of `NeverOverstated` | also for a forgetful exchange |
| | `RowsAreTrue`, `RowsOnlyGrow` (with `ExactInvariant`) | `KnowledgeIsPast`, `KnowledgeGrows` | exchange that does not deny its orders |
| | `OneTradePerPair` (with `OneTradeInPlay`) | `OnePerPair` | configuration |
| | `ClaimsAreBought` | `NeverOverstated` | configuration |
| | `OnlyEmptyDeleted` | `DeleteOnlyEmpty` | exchange that knows its orders, no replacements; any crash |
| | `NoTradeForgotten` | `NoZombie` | no crash, no adjustments, no replacement answered "canceled" |
| | `LiveOrdersSeen`, `BooksBalance` | `LiveOrdersTracked`, `BooksAgree` | number of orders, trades and amounts in one undisturbed process (`Plain`) |
| `StoplossProofs` | `Spec_LevelsBounded`, `Spec_StopNeverLowered` | `LevelsBounded`, `StopNeverLowered` | number of orders, levels, faults, crashes |
| | `AmountIsPosition`, `ClosedIsSold` | `AmountAgrees`, `CloseIsBooked` | also amount |
| | `NoStopLeftBehind` | `ClosedLeavesNothing` | the same; it speaks of runs in which no call failed |
| `EntryProofs` | `LocksLast`, `NoReentry`, `Cooldowns` | `NoReentryOnOldSignal`, `CooldownHolds` | horizon, page, patience, age, cooldown |
| | `NoneFabricated`, `SignalsClosed` | `NoFabricated`, `ClosedSignals` | the same |
| | `EntriesAffordable`, `AllowanceKept` | `Affordable`, `WithinAllowance` | finite set of pairs, amounts, ratios, limits, callbacks |
| `DownloadProofs` | `UnfinishedIsNewest`, `FileIsArchive` | `OnlyNewestUnfinished`, `KeepsArchive` | horizon, page, day, dates, untraded candles, crash; any time between two steps |
| | `TradesAreTyped`, `StoredWithoutGaps`, `DownloadsAreComplete` | `TradesTyped`, `NoGaps`, `Complete` | market, page of at least two, day, dates, delay, venue, failure, crash |
| `EngineProofs` | `RegretStopsAll`, `CriticalStops` | `RegretIsRed`, `CriticalIsZero` | capital, share, cap, threshold |
| | `AccountsHold`, `StacksStayLimited` | `Accounts`, `StacksLimited` | also limits and number of proposals |
| | `LedgerTyped`, `CapitalConserved` | `Conservation` | number of threads, requests, amounts |
| | `PositionsDeployed` | `DeployedIsPositions` | finite number of threads, requests, amounts |
| | `NeverOverdrawn` | `NoOverdraw` | number of threads, requests, amounts; no ticks, or none with a loss (`Lossless`) |
| `SelectionProofs` | `WhitelistStaysChosen` | `WhitelistChosen` | finite set of pairs, blacklist, periods, ages, sizes, handlers, restarts |
| | `ProtectionsKept` | `ProtectionsHold` | the same, lookback, durations, limits, closes |
| `BacktestProofs` | `FlowsBooked`, `FlatAtTheEnd` (with `BooksInvariant`) | `FlowsAreBooked`, `EndsFlat` | finite set of pairs, prices, amounts, slots, adjustments, candles and details |
| | `StopsOnlyRatchet` | `StopRatchets` | the same, distances of `custom_stoploss` |

Each from the named ASSUMEs of its module, which say that constants have their
types, that the pairs are finite and, in `ExploitControl`, how two
thresholds compare. The larger inductive invariants (`IInv` of the stoploss books,
`SInv`, `CacheInv`, `CInv`, `SelectInv`, `ProtectInv`, `TInv`) were checked by TLC before they were proved, with the
constants of their runs and, where noted below, with others.

- **Lifecycle.** `TypeOK` is not inductive: the amount of a replacement,
  `exAmt - fill`, is natural only since no reply reports more than was ordered.
  `IInv` adds what the exchange guarantees (`ExchangeOK`), that rows and the reply
  in hand lag behind it (`RowsLag`, `ReplyLags`), and that rows, loops and the
  order in hand are about orders that exist (`RowsExist`). `StepInv` has one step
  per action. `KInv` adds that final rows and final replies are exact; with it
  `StepExact` shows that whatever happens between the fetch, the cancel and the
  commit, no fill escapes a row that is final.
- **One trade in play.** `OnePerPair` is not inductive: `replace_order_failed` and
  `handle_similar_open_order` reopen or delete a trade, and an exit filled in full
  closes it. `OneInvolved` counts as in play a trade that is open, planned for, or
  that owns an order under management; a step involves no other trade, or all
  were closed (`StepInvolves`).
- **Sums.** Amounts are sums over the orders of a trade. The community module
  defines them by a recursive fold, and the library's induction theorems cannot
  be used; `SumLemmas` does induction by a minimal counterexample (`WFMin` on sets
  of numbers and of sizes) and shows that the fold is a function with the usual
  laws: a union, an element more or less, one summand changed, a bound on each. It
  also counts (the sizes of the fibres of a map add up to the set) and shows when
  the library's `Max` and `Min` are what they are called.
  `BoughtIsSum`, `NetIsSum` and `LockedCovers` connect the model's sums with it.
  `ClaimsAreBought` follows from a step lemma (`StepSteady`): an amount grows only
  to the net of the done rows, and that is at most what was bought.
- **Deletions.** `Trade.delete` runs when a trade has no filled entry row. That
  its exits are then empty too needs that exits exist only for trades with a
  filled entry (`EntriesFirst`), which a crash between any two commits keeps.
  Replacements are left out since `replace_order_failed` does delete a trade with
  an open order.
- **Nothing forgotten.** `NoZombie` looks ahead: an entry cancelled without fill
  drops its trade only a step later. `Backed` says for each trade what is pending
  while it holds nothing, `ExitHeld` and `Prepared` what handlers have checked.
- **Books.** With one entry and exits for all there is, the exchange's balance is
  what its last order bought or has left to sell (`Sequenced`), so a new order
  finds every other final (`NewOrderAlone`). `Balanced` and `Booked` relate the
  balance and the amount to the sums over the trade's orders and done rows, with
  the order that is being recorded or booked counted apart. `Plain` leaves out
  what breaks these properties in the model as in the code, as TLC shows: a
  crash or an adjustment breaks both, other coins in the account both (an exit
  sells them), "canceled" as the answer to a new order `BooksAgree`, a lost
  reply or a replacement `LiveOrdersTracked`. In the configurations that are left
  (`BooksAgree` with replacements, lost replies or an exchange that denies its
  orders, `LiveOrdersTracked` with the latter) TLC finds them true with three
  orders and two trades; the proof there is open.
- **Stoploss.** `LevelsBounded` (the committed level is at most the one in memory,
  stops stand at or below the latter, committed ones at or below the former) is
  inductive together with the types of what it speaks of. Steps are of four
  shapes: a new order, the next `process()`, a crash, and all others, which leave
  levels alone (`Quiet`). Two-state `NotLower` follows in the same lemmas.
- **Signals.** `Locks` relates each side's lock to its last exit: a locked exit has
  a lock that lasts to the candle after it, one that is cooled down a lock of both
  sides over the cooldown. It is inductive with `ExitInHand`: between an exit and
  its cooldown the job in hand is about that exit. Four steps touch it: the exit,
  its lock, and the protection, whether it finds a lock that lasts or makes one
  and ends the process. An entry compares the lock's
  end with the analyzed candle, so an old candle cannot pass.
- **Signals, candles.** `NoFabricated` needs that the cache has no hole, holds closed
  candles only and reaches as far as its refresh time says (`Solid`), and that while
  a reply is on its way the cache is empty or late by less than one call brings
  (`Downloading`): then what a reply leaves out was not traded. Without a feed
  every candle in it is genuine, and the newest had a traded one behind it that was
  dropped (`FromReplies`), from which `ClosedSignals` follows.
- **Candle files.** What a download brings is a set of candles `N`, what is stored a
  set `D`, and `W` the traded candles that were not overtaken. `Fits` says when they may
  be joined: no candle of `W` is missing between two of `N`, none between `D` and newer
  ones, at most one between older ones and `D` (the dropped row of a `--prepend`).
  `Joined` shows which gaps the file then has. That what is fetched always fits is the
  invariant `CInv`: a quick download is a stretch that misses no candle up to the
  end of the file, archives and pages are closed downwards from where the download
  began (`ClosedFrom`), and a row fetched unfinished is the newest or overtaken. A page
  lists all of its stretch that had closed when it arrived (`PageOK`), so a candle that
  two pages disagree about had not closed at the first of them and had at the other: the
  newest such is the row that is dropped, and one that is two candles older than a later
  page was overtaken. How long the pages take is not bounded. `CInv` was
  checked with horizons 5 and 6, pages of one to three, and with and without crashes.
- **Trades.** `NoGaps` and `Complete` speak of the one step that joins, so the
  invariant `TInv` says at each earlier step how what was fetched lies to what is
  stored. Three parts carry it. What was fetched is one stretch, since the archive
  brings whole days (`ReadTo`) and a page goes on at the cursor. It touches what is
  stored, or comes from before it (`Nears`): going on from an id begins
  at the last stored trade, and a start by time lies before that one unless the user
  asked for later trades (`Begun`). And what the download looks for (`Sought`) is
  fetched or lies behind the cursor. Whole days are needed where trades
  have the same time: if the archive ends at the moment of the first stored trade,
  it has that trade too. That a page holds at least two trades is needed at the
  end: a page of the cursor alone means that there is no newer trade
  (`LimitAssumption`; `Page` of one would end every download at once). TLC
  checked `TInv` with three sets of constants. With others than those of the run it
  refuted an earlier form of `CutBehind`, which exempted interruptions only: a
  stop date before the stored trades leaves the same hole.
- **Exploits.** The detector's peak is never above the controller's (it is raised
  at the same calls or fewer), so a fall below a share of the lower peak is one of
  the higher. A result moves one pool or the overflow by what it moves the
  total, so the pools and the overflow sum to all results (`AccountsHold`). A
  critical streak is judged in the step that reaches it, and every
  later step either keeps or resets it. Limits: a proposal is checked against the
  open positions and all proposals of its kind in the cycle, so one that
  passes leaves room for all that pass, and opening any of them keeps the limit.
- **Ledger.** `LedgerInv` adds that a thread in the middle of an action has that action
  at the head of its list (`Busy`) and that the engine state it calls exists.
  `DInv` says, while one engine state is used by scenario steps alone (`~mixed`), that only threads
  in the middle of such a step hold money (`OnlyFlows`) and that what is
  deployed is the sum of the open positions and of all hands (`Deployed`): a call
  moves a stake from one to the other, whatever other threads do between.
  `NeverOverdrawn` needs that no engine state, no thread and no list ever holds
  less than nothing (`NInv`): then every amount required is natural, and
  `allocate` compares it with what is available when it is called, however old
  the capital is that the risk check saw. With losses the premise is lost: a fall
  below zero makes the next snapshot negative, and a share of it is a
  negative position.
- **Whitelists.** What is known of a market is as old as the cache it comes from,
  and `WhitelistChosen` allows what a cache's period allows. It is not inductive:
  a list alone does not say what it was checked against. `SelectInv` adds this
  for each cache: pairs that passed the age filter are old enough (`Aged`, kept
  since pairs only grow older), the markets of the generator's and the remote list were
  active when it was made (`Dated`), and a shuffled list has the pairs of the list
  it is kept for or pairs that linger in it, because the handlers after it
  work on the cached list itself (`Mixed`). `RefreshStep` then follows one list
  through generator, filters, blacklist and extension. Filters are list
  comprehensions: `Subsequence` is a recursive function, shown by induction on its
  positions to exist and to keep order and distinctness (`SubsequenceTakes` in
  `SumLemmas`).
- **Protections.** `ProtectInv` says that every recorded close whose handlers have
  run left the locks they called for (`Stopped`) and that closes are recorded in
  order (`ClosesOK`). A lock is only ever replaced by a longer one, so it is enough
  that the handlers do their work once, at the close: that the stops and the
  drawdown they find are those of `Behind`, which counts on the trades that are
  surely in the window. For the drawdown, the
  losses of any stretch of closes in `Behind` are at most the one the code computes
  from the running maximum over all trades it found (`DrawdownSeen`). An entry then compares its candle with the end of each lock.

- **Backtest.** What a trade holds is a recursion over its order list (`Books`, as
  `recalc_trade_from_orders` is a loop over it), and steps cancel, replace and fill
  orders of that list. `Rests` says of every trade that amount, stake and realized
  profit fit a list of filled orders, its base, and that at most one open order
  stands behind it. Three facts about `Books` carry every step: cancelling goes
  back to the base, an open order adds nothing, and one that fills makes the base
  longer by one, so that the books move by that payment and by nothing else.
  `BInv` adds that the class lists are a bijection between open trades and the pairs
  that hold one (`Listed`), that `flow` is the profit and what the open trades are
  worth (`Worth`, a sum over the list), and where the loop stands (`Control`).
  `FlatAtTheEnd` needs from the latter that what `handle_left_open` has not
  closed yet is still in its list. The stop is moved by `AdjustStop`, which only walks
  towards profit unless the trade is new or holds nothing (`StepsOn`), and after a fill by
  `AfterFill`, which either does the same or leaves the stop no further behind the price of
  that fill than the distance asked for (`AfterFillIs`). The recalculation after it can
  only bring the stop closer, so what a fill does as a whole is one of the two
  (`FillWalks`, `GoesWalks`).

Only model-checked: liveness (`FillsAreBooked`, `IterationsEnd`, `AlwaysStopped`,
`DownloadEnds`; fairness is out of this prover's reach) and `NoOverdraw` with ticks that
lose, which is false for losses larger than the capital and holds with the
constants of its run.

## 13. What is not modelled

- **Orders:** futures, margin and short trades (but in `Backtest` and the sides of
  `LiveSignals`), dry run (a simulation of the exchange),
  `cancel_open_orders_on_exit`; prices, profits and fees taken from the amount; the
  98% rule for amounts above the wallet. `RecoverOrder` reads each order when its
  turn comes; the code reads all in one call, so the model allows more. `expired`
  stands for `rejected` too. The first loop of `update_trades_without_assigned_fees`
  (`freqtradebot.py:427-444`), which books the last exit of a closed trade once more for
  the sake of its fee.
- **Stoploss:** stops moved by `custom_stoploss` after a fill (which may lower
  them), orders that come back closed when created, cancels that stay pending, and the
  reply that `cancel_stoploss_order_with_result` makes up, "canceled" without a filled
  amount, when the exchange no longer knows the stop it cancelled
  (`exchange.py:1821-1825`): `CancelStop` books what was filled. So does
  `ManageTimeout`, for exits and additional entries; the made-up reply for those, and the
  conditions under which `handle_cancel_enter` and `handle_cancel_exit` book a reply, are
  in `OrderLifecycle` (`CancelForgotten`).
- **Backtest:** liquidation, funding, fees, position stacking, locks of protections,
  dynamic pairlists, `trailing_only_offset_is_reached`, reports.
- **Signals, protections:** protections of one side, unlocking, `unlock_at`, informative
  pairs, the analysis of more than one pair. An exit cut off by a crash before it
  locked its pair locks nothing: `NoReentryOnOldSignal` is about exits that did.
  With a feed, a jump of time is not tested (`exchange.py:2681`), so `NoFabricated`
  is about exchanges without one.
- **Pairlists:** filters that differ from the spread filter only in the number they
  look at (price, volatility, performance, precision), generators by market
  capitalisation or percent change, producers, other orders of the filters, the
  lists of a backtest.
- **Candles, trades:** funding rates and mark prices, other file formats,
  migrations, the conversion of trades to candles, several timeframes that share
  one cached file.
- **Exploit control:** the router's cooldown and suggestions (off by default), caps on
  other pools, `RouterEnhancements` (nothing applies its advice), indicators
  (choices among their classes), performance weighting.
- **Ledger:** cooldowns, unrealised profit, `open_trades` (no request fills it),
  symbols and parameters other than sizes, charts, the DSPy record. `src/api/app.py`
  repeats the handlers as coroutines that run one at a time: the ledger with one
  thread.
- **Worker:** without a remote control in this fork only an `OperationalException`
  sets STOPPED and nothing starts the bot again; throttling has no state.
- **Risk manager:** nothing in the server calls it; `scripts/scale_validation.py` does,
  one action after the other.
- **Configuration, commands, the exchanges' classes beyond what is named, indicators
  and signal exploits, hyperopt, reports, the DSPy advisor, the knowledge graph and
  the dashboard** compute values or text and keep no state that orders depend on.
