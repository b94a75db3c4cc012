# A TLA+ model of trader-ai (Tradebot)

These modules model the parts of the repository that hold money or state: the
live broker, the paper-trading loop with its risk rules, the live feed, the
backtester, and the dashboard: its settings and files, its sweeps, its research
requests (backtests, groups, screens, reviews) and the tuner. Every definition is
translated from the Python source; `PROJECT.json` ("map") gives the lines of
each. TLC checks small instances, and TLAPS proves the main safety properties of
all eight specifications, and two refinements, for all values of their constants.

## 1. The system

| component | state it keeps | operations | what makes it correct |
|---|---|---|---|
| Live broker (`execution/kite.py`, `order_state.py`, `retry.py`) | DuckDB table `order_records`, one row per client order id | `place_bracket_order`, `poll_and_advance`, `flatten_all` | a record's state tells the truth about the exchange; nothing at the exchange is forgotten; one entry per id |
| Reconciler (`execution/reconciler.py`) | none | a report when a live run starts | names records and positions that do not match |
| Loop and paper broker (`orchestrator/loop.py`, `execution/paper.py`, `orchestrator/scheduler.py`) | positions, realized profit, `RiskState` | one pass per bar | exits are honoured; bookkeeping agrees with trades |
| Risk manager and kill switch (`risk/manager.py`, `dashboard/services/kill_switch.py`) | kill file | `pre_check`, `size`, `post_check` | bounded loss, bounded size, entries only when allowed |
| Analyst (`analyst/`) | none | `analyze`, awaited between check and order | may only shrink or veto |
| Live feed (`data/live_feed.py`) | partial and completed bars, a queue | websocket callbacks, `connect`, `disconnect`, `stream_bars` | bars are those of the ticks, delivered in order |
| Backtester (`backtest/engine.py`, `costs.py`, `metrics.py`) | position, pending signal, trades, equity | one pass per bar | trades are those the signals amount to; the curve agrees with them |
| Sweeps (`dashboard/services/sweep_runner.py`, endpoints in `dashboard/routes/api.py`) | rows `backtest_sweeps` and `backtest_runs`, a task | create, run, status, cancel | the row tells what was run; every task ends |
| Dashboard settings (`dashboard/state.py`, `services/{config_io,env_writer,llm_settings,kite_auth,universe_io,strategy_state}.py`) | settings, singletons, `.env`, the process environment, YAML files, one `write_lock` | reload, rewrite, engage the kill switch | the settings in memory are those a start would read; no change is lost; nobody waits for ever |
| Instrument cache (`dashboard/services/instruments.py`) | a DuckDB table and the time of its refresh | refresh, search | the rows are not older than the refresh it names |
| Tuner (`tuner/`, `dashboard/services/tuner_service.py`) | runs, recommendations, active configuration | review, apply, reject | only what was applied is in force, with arguments its strategy has |
| Run tuner (`dashboard/services/run_tuner.py`) | rows of reviews | review a run or a sweep | what it stores is inside the schema's bounds |
| Screener (`screener/`, `screener_service.py`) | runs and picks | run | picks are those of the formula |
| Backtest groups, composites (`backtest_runner.py`, `composite.py`) | rows of runs and groups | run, run a group, run a combination | the members of a group saw the same bars; a composite follows its children |
| Historical data (`data/{historical,store,kite_client}.py`) | DuckDB `candles` | fetch, fill gaps, upsert | a run uses the bars fetched for it, none twice |
| Strategies, indicators, journal, reports, walk-forward, pages, deployment | little or none | pure computation, rendering, configuration | |

How they interact. The live command builds feed, strategy, loop, risk manager,
analyst and broker in one process. The loop is one coroutine: on each bar it
polls the Kite broker or applies the paper broker's exits, asks the strategy,
runs `pre_check`, *awaits the analyst*, sizes, runs `post_check` and places the
order. Three things reach into it from outside: the exchange, the kill file, and
the dashboard, which edits the same state file (`OrdersService.mark`) when no
live process holds it. The live feed adds a ticker thread. The dashboard is one
event loop with worker threads over one DuckDB connection, on which `execute` and
`fetchone` are two calls, so that a row may be fetched by another than the one who
asked for it; most handlers that write take `AppState.write_lock`, the sweep task and
the pages do not.

What is hard to test, and where: interleavings with the exchange between any two
API calls; a crash between an API call and the write that records it; a retry of
a request that had been accepted; state read before an await and used after it;
cancellation while a worker thread runs; two users of one connection; boundary
arithmetic in sizing, windows, buckets and drawdowns. `PROJECT.json` ("hazards")
lists each at its line with the properties that cover it, or why none does.

## 2. Modules

| module | models | checked by |
|---|---|---|
| `KiteExchange` | the exchange: orders, GTTs, positions, faults (external, from how `kite.py` uses it) | through `KiteBroker` |
| `KiteBroker` | the live broker, the processes that use it, the reconciler's report, the dashboard's mark | `KiteFaults`, `KiteNoOrphans`, `KiteLiveness`, one refutation |
| `OrderLifecycle` | abstract: what the broker promises of a signal | as a property of `KiteBroker` |
| `KiteBrokerProofs` | theorems about it, and that it implements `OrderLifecycle` | TLAPS |
| `PaperTrading` | loop, scheduler, paper broker, risk manager, kill switch, the analyst's verdict | `PaperTrading`, one refutation |
| `PaperTradingProofs` | theorems about it | TLAPS |
| `BarStream` | abstract: what a feed promises its consumer | as a property of `LiveFeed` |
| `LiveFeed` | ticker thread, event loop, consumer | `LiveFeed` |
| `LiveFeedProofs` | theorems about it, and that it implements `BarStream` | TLAPS |
| `SweepRunner` | the sweep task, its threads, the endpoints, crashes | `SweepRunner` |
| `SweepProofs` | theorems about it | TLAPS |
| `BacktestEngine` | the bar walk and the costs | through `Backtest` |
| `BacktestMetrics` | the metrics computed by scans, per-bar and per-month curves | through `Backtest` |
| `Backtest` | engine and metrics together, against whole-walk definitions | `Backtest` |
| `BacktestProofs` | theorems about the engine and the metrics | TLAPS |
| `DashboardSettings` | the write endpoints: `write_lock`, files, settings in memory, instruments cache, kite-login, crashes | `DashboardSettings` |
| `SettingsProofs` | theorems about it | TLAPS |
| `Tuning` | the strategy tuner, its three tables and its endpoints | `Tuning` |
| `TuningProofs` | theorems about it | TLAPS |
| `Candles` | Kite's historical answers, gap detection and patching, the candle store | through `Research` |
| `Screener` | formulas, indicator values, evaluation | through `Research` |
| `Composite` | the vote of a composite strategy | through `Research` |
| `Advice` | what the run tuner makes of a model's answer | through `Research` |
| `Research` | backtests, groups, combinations, screens and reviews at once | `Research` |
| `ResearchProofs` | theorems about it | TLAPS |
| `MC*` | values for the constants | |

Operators commented `Mutant:` are deliberate faults (a dropped guard, a swapped
order, a missing reset). No specification uses them: each stands in for the
definition after it when one wants to see that a property notices the fault.

### KiteBroker and KiteExchange

`store` is the table of records; `orders`, `gtts`, `pos` are the account; `pc`
is where the one running process is, the other variables its locals. Every
Kite call and every upsert is one action, so between any two of them the
exchange may move (fill all or part, reject, cancel, trigger), a call may fail
or be applied with its reply lost, the day may end, or the process may die.
`with_retry` is the counter `tries`. The correspondence:

- `place_bracket_order`: `PlaceStart` (lookup by client order id), `PlaceOk`,
  `PlaceFails`, `PlaceRejected`, `PlacePersist`;
- `poll_and_advance`: `PollStart`, `PollOrders`, `PollGtts` (the two snapshots),
  then one `Advance*` per listed record, and `GttOk`, `GttFails`, `GttRejected`,
  `GttPersist` for `_place_oco_gtt`;
- `flatten_all`: `FlattenList`, `FlattenDelete`, `FlattenMark` per record,
  `FlattenPositions`, `SquareOff*` per position, then `FlattenConfirmed`,
  `FlattenResidual` up to the poll budget, `FlattenFinal`; `FlattenRaises`
  wherever `positions()` raises out of the function.

Left out: prices and profits; the in-memory mode without a store; the order in
which `list_open` returns rows (any order is taken).

`OrderLifecycle` is the bracket as the trader sees it: a record with a state, and a
market in which an entry is sent, fills, and only then an exit may be sent.
`ImplementsOrderLifecycle` is refinement: the states are those of `store`, and
what the market has seen of an id are the orders that carry its tag
(`EntriesSent`, `EntriesFilled`, `ExitsSent`). Duplicates of an order are
stutters.

### PaperTrading

`pc` is where the loop stands in a bar: waiting for one, about to ask the
strategy, awaiting the analyst. `ProcessBar` is everything up to the mark,
`PreCheck*` the risk check, `AnalystVetoes`, `SizeRejects` and `Fill` the rest
of `_process_signal`. `Kill` and `Revive` may come anywhere. A strategy may say
any valid signal on any bar, which covers every shipped one; the analyst may
answer any multiplier of 0..1 (in `Steps`). Money is in 1/`Basis` of a price
unit, so slippage is exact. The expiry-day rule is left out: nothing sets
`instrument_type` or `is_expiry_day` in the loop's `RiskState`.

### LiveFeed and BarStream

The ticker thread's callbacks, the event loop's queue of scheduled calls and the
asyncio queue are separate, so a bar travels `completed`, `calls`, `queue`,
`delivered`. Sessions are lost and come back, subscriptions are refused, and the
loop may stop with or without `disconnect`. `ImplementsBarStream` is refinement:
`INSTANCE BarStream WITH closed <- completed`.

### SweepRunner

A sweep has a row, results, a task and a worker thread; `conn` is the row the next
`fetchone` on the shared connection gets. Create, each await of the task, each worker
step and the two halves of each read are actions. A heatmap request reads as its
second query what `_load_config` reads at the start of a task, in the same columns, so
a task may begin on the configuration of another sweep: `config` is the one it has. Cancellation reaches a task only where it is suspended;
worker threads are not cancelled. Backtest results are left out. Ctrl-C lets
the server cancel its tasks, which is what `CancelTask` does; a SIGTERM or kill
is `Crash`.

### BacktestEngine, BacktestMetrics, Backtest

One step is one bar: a pending signal is filled at the open (reversing an open
position), exits are looked for inside the bar, stop first, the equity is
appended, the strategy is asked. `Backtest` states what the outcome should be
without a loop: the trades as a set computed from the signals and the bars
(`TradeOf`), drawdowns and runs as maxima over pairs of bars, the bars held as a
union of intervals. A metric is a fold whose step is an operator of its own
(`Deepest`, `Falls`, `Streak`, `BelowPeak`, `HeldFor`); a percentage is kept as its
fraction. `Capital` is any amount, and `Months` any nondecreasing numbering of the
bars' months.

### DashboardSettings

`disk` is the files, reduced to the entries the endpoints change; `environ` is the
environment of the process, whose secrets outrank those of `.env` (`Given`): it names
none when the dashboard is started by hand, and what `.env` said when the container
was made under `docker compose`. `settings` and `singleton` are what `AppState` holds in
memory; `queue` is `write_lock`, whose
head holds it. A handler arrives (`Arrive`, which captures the settings its
service is made with), waits, and then goes through the steps of its service:
`SaveBackup`, `SaveReplace` for `config_io`; `ReadFile`, `Truncate`, `WriteFile`
for the writers that edit in place; `Fetch`, `DeleteRows`, `InsertRows`, `Stamp`
for the instruments; `ToggleExecute` and `ToggleFetch` for the toggle's read over the
shared connection, between which `OtherStatement` may take its row (`conn`, `crossed`);
`KillSet`; `Reload`. The endpoints that call a language model
under the lock are one request, `ask`, told only by the time it takes. `Login*` is
the kite-login command, which writes `.env` without the lock. `want` and `torn`
are history: the files had no change been lost, and the ones a crash truncated.

### Tuning

The three tables are `active`, `runs` and `recs`. A review is `Take`, `Ask`,
`Answer`, then `Store` row by row; an apply is `Resolve` (the lock, and the query for
the recommendation), `CheckApply` (its fetch, and the query for the active
configuration), `Upsert` (its fetch, the merge, the write), `SetStatus`; a reject is
`Resolve`, `CheckReject`, `SetStatus`. `Page` is a query of another thread between an
execute and its fetch: `GET /tuner/{run_id}` leaves a recommendation, any other page
nothing the handler can use. The handler works on `row`, the recommendation it was given,
and sets the status of `id`, the one it was asked for. What the model proposes is any of
`Plans`, which `Sanitised` and `Sound` treat as `sanitise_plan` and the validators do.
`cut`, `mistaken` and `unseen` are history: what a crash left between the two writes of
an apply, what was resolved in place of another or on its row, and what was merged
without sight of the configuration in force.

### Candles, Screener, Composite, Advice, Research

The first four are the pure parts, as operators; `Research` is the requests that
use them, one action per statement that reads or writes shared state. Single and
group backtests run on worker threads without `write_lock`, so they fetch and
store candles while a screen or another backtest does. A bar still running has a
candle that is not final, which a later answer replaces; `now` moves on while
requests work. The parameters of a strategy are part of its name; the engine's
result is left out of the row (it is in `BacktestEngine`); a combined run's row
tells one ballot and the signal made of it. What a review keeps of an answer keeps
its place in it, so that what is dropped leaves a gap. `bars` of a row are the ones the engine
walked, `answered` those its own fetch brought, and `crossed` says that another
request stored candles between this one's upsert and its read.

## 3. Runs

| run | instance | shows |
|---|---|---|
| `kite_faults` | one signal for two shares, all six fault kinds, two per behaviour, one retry | `GttOnlyAfterFill`, `StateBacked`, `LifecycleSteps`, `ImplementsOrderLifecycle` |
| `kite_no_orphans` | a long and a short signal on two symbols, two days, no process or API fault | `TrackedOwn`, `NoOrphanEntry`, `NoOrphanGtt`, `EnteredProtected`, `FlattenDisarms` |
| `kite_liveness` | one signal, one crash, lost reply or API error, fairness | `EntryResolved`, `ExitBooked` |
| `kite_duplicate_entry` | one signal, at most one fault | refutes `OneEntryPerId` |
| `paper_trading` | 4 prices, 2 days of 4 minutes, 3 bars, 3 configurations, one kill | `LossBounded`, `ExitsHonoured`, `EntriesInHours`, `SizedWithinRules`, `OneFillAfterKill` |
| `paper_daily_cap` | one configuration, 4 bars | refutes `DailyIsToday` |
| `live_feed` | 2 symbols, 2 prices, 3 ticks over 3 buckets, one drop, one refusal | `BarsAggregateTicks`, `ImplementsBarStream`, `EveryBarDelivered` |
| `sweep_runner` | 2 sweeps, of 2 cells and of 1, 1 client that polls, cancels or shows a heatmap, 1 crash, fairness | `CountsTellResults`, `StatusTellsResults`, `SettledStays`, `SweepEnds` |
| `backtest` | 4 bars of 5 shapes, 2 levels, any signals | `TradesInSequence`, `TradesAreFirstTouch`, `EquityTellsTrades`, `MetricsMeanTheirNames` |
| `dashboard_settings` | 2 clients, 3 requests of 12, a new or an installed checkout, started by hand or in a container, one crash or kite-login, fairness | `SettingsTellFiles`, `UpdatesKept`, `WholeConfigs`, `StampTellsRows`, `KillServed` |
| `tuning` | 2 clients, 2 reviews of 8 possible plans, 2 symbols, 1 page between an execute and its fetch, 1 crash | `OnlyAppliedInForce`, `ParamsAccepted`, `DisabledStays` |
| `research` | 2 clients, 2 requests of 9, 3 bars of which an answer may lack one, 1 crash | `GroupsComparable`, `RunsUseFetchedBars`, `PicksMeetFormula`, `AdviceInBounds`, `CompositeFollowsChildren` |

Why the bounds are enough. Records of different ids meet in the walk over the
open ones and in the positions a flatten reads, so two ids on two symbols show
what several do (two ids that net on one symbol are covered by the proofs, which
do not care, and by no run); two shares are the least that fill in part; three orders are
an entry, its exit and a square-off, or an entry and its duplicates; one retry
distinguishes "first attempt" from "repeated"; two faults let one hit the
recovery from another. Three bars are one to enter, one to lose, one to be
refused or to enter again, over a day boundary. The prices include every
order of stop, entry, target and close. Three ticks over three buckets of two
minutes give a bar of two ticks, a gap and a switch between symbols. A sweep of
two cells has a failing symbol or cell beside a good one, and a second sweep with another
number of cells shows when the wrong one is run. Four bars
hold a signal, its fill, a reversal and an exit; the five bar shapes stay
between the levels, touch one, touch both, or open beyond either; two months of two
bars have a month end to start from. Three requests are two that meet at the lock
and one that was captured by settings the others changed; one disturbance is the
crash or the kite-login that falls between a truncation and a write, and two that
meet would only excuse more. The 12 requests leave out a new API
key, which is written as the deletion of one is, and the release of the kill switch,
which waits and finishes as its engagement does. Two reviews let a recommendation be applied after
another has changed the symbol it was made for; one page is one crossed read, of the
recommendation or of the configuration, and what two would do is that of each. Two requests of `Research` are the
two that meet; three bars leave a gap, two answers that differ, and a bar that was
running when it was fetched first.

Named bounds: `MaxFaults`, `Retries`, `PollBudget`, `OrderIds`, `GttIds`,
`MaxBars`, `MaxKills`, `MaxTicks`, `MaxDrops`, `MaxRefusals`, `LastMinute`,
`MaxCrashes`, `NumBars`, `MaxRequests`, `MaxDisturbances`, `MaxReviews`, `MaxPages`, and
`Times`, the bars of `Research`. (`MaxItems` is the code's own
`MAX_RECOMMENDATIONS`.) `research` uses symmetry of its clients; it has no liveness
property. An exchange that has handed out all its ids accepts no more orders: a
call that would submit one is rejected or fails, and a GTT does not trigger.

Fairness. `KiteBroker`: a started process takes its next step (the code is
synchronous and its waits are bounded), the live command is started again and
again (`restart: unless-stopped` in `deploy/docker-compose.yml`, for the live
profile once `--dry-run` is removed, and every morning by hand otherwise), and
polls on bars within the session; the exchange is owed nothing. `LiveFeed`: the
event loop runs scheduled calls, the consumer keeps asking; ticks and sessions
are owed nothing. `SweepRunner`: the event loop resumes tasks that can go on and
worker threads end, a request for bars by its timeout; clients are owed nothing.
`DashboardSettings`: a
handler that holds the lock takes its next step, since its work is on a worker
thread and every outside call has a timeout; a kite-login that has its token
writes it; clients and crashes are owed nothing. Only the runs with a liveness property
use fairness.

Where a module's type invariant is proved (section 4), no run repeats it.

`NoOrphanEntry`, `NoOrphanGtt`, `EnteredProtected` and `FlattenDisarms` are stated
for runs without crashes and lost replies, because with those the code does leave
orphans (section 5). The proofs allow more faults than the run (section 4).

## 4. Proofs

TLAPS proves the theorems below from the named `ASSUME`s of each module only (types
of the constants, `NoId`/`None`/`NoPosition` outside their sets, slippage below
100%), for every value of the constants. Almost none of the invariants is
inductive alone; what each needs is said with it. In each module `IInv` is the
inductive invariant; there is one lemma per action, or per group of actions that do
alike, and frame lemmas for the parts of `IInv` an action leaves alone. The
strengthenings were checked by TLC on the instances of section 3 before they were
proved.

- `KiteBrokerProofs`: `TypeCorrect`, `RecordsTrackTheirOwn`,
  `GttsFollowFills`, `StatesAreBacked`, `RecordsFollowLifecycle`, for any set of
  signals and any mixture of faults. A poll acts on snapshots taken several steps
  ago. `IInv` adds what keeps them honest: final order statuses stay final, so what
  a snapshot says of one is still true (`WalkFresh`); records still to be walked are
  as they were listed, since one process holds the file; and what the process knows
  of the record in hand (`InHand`).

  Four more have a hypothesis on `Faults`: `EntriesAreTracked` without crashes,
  lost replies and marks by hand; `GttsAreTracked` without API errors as well (a GTT
  whose deletion failed stays active beside its cancelled record);
  `EntriesAreProtected` without crashes and vanishing GTTs, whatever replies are
  lost. Each allows every other fault, where `kite_no_orphans` has new days only. The
  second needs to know that a deleted GTT is still not active when its record is
  marked (`Deleted`), the third that an accepted one still is when its record is
  written (`Placed`). `FlattenIsDisarmed` has the hypothesis of the second and rests
  on it: the ENTERED records are those the flatten has yet to walk and the one in its
  hand (`Disarming`), so when it goes on to the positions there is no such record
  and no GTT is active.

  `BrokerImplementsLifecycle` has no hypothesis. `StoreMoves` and `MarketMoves` say
  that no step both writes a record and moves the orders; of the market's moves
  `GttOnlyAfterFill` says that an exit comes after a fill, and of the writes
  `InHand`, `WalkFresh` and `TrackedOwn` say that they are behind what the market has
  seen. What `IInv` lacks is that a GTT that triggered has sent its exit
  (`ExitsBehindTriggers`).
- `PaperTradingProofs`: `TypeCorrect`, `LossIsBounded`, `ExitsAreHonoured`,
  `SizesStayWithinRules`, `KillStopsEntries`, `EntriesAreInHours`. `IInv` has a
  case for a flat book and one for a held position, whose planned loss is tied
  to its bracket and to the cap. The nonlinear arithmetic (flooring,
  monotonicity of products, remainders of the clock) is in lemmas of its own.
- `LiveFeedProofs`: `TypeCorrect`, `BarsAggregateAllTicks`,
  `FeedImplementsBarStream`. `Aggregated` says of each symbol that its closed bars
  and its partial one are made of the ticks of their buckets (`MadeOf`), with
  lemmas on buckets (a minute is in one, and buckets do not go back) and on what one
  more tick does to the high and the low of its own bucket and to no other. `Piped`
  says where each completed bar is: delivered, queued, in a scheduled call, or, once
  the loop has stopped, nowhere. With it every step is one of `BarStream` or a
  stutter.
- `SweepProofs`: `TypeCorrect`, `CountsTellTheResults`, `StatusTellsTheResults`,
  `SettledRowsStay`. `Stage` says for each place of the task what its tally, its
  row, its results and its thread have to do with one another: in the loop the cells
  before `next` are accounted for and the ones after it were not run; after it, a
  thread nobody waits for may add one more result, and only to a row that has not
  settled. The cells are those of the configuration the task has, which `Stage` does not
  ask to be its own.
- `BacktestProofs`: `TypeCorrect`, `TradesFollowOneAnother`,
  `TradesAreOfTheSignals`, `BooksAgree`, `MetricsAreWhatTheySay`, for frames of any
  length. Types and sequence are inductive
  together. For `TradesAreOfTheSignals` the state is matched with the whole walk
  (`Matched`): the
  pending signal is that of the bar just walked, the list of trades has one trade for
  each order that is left, and the one order that is not, if any, opened the position.
  `Shape` restates the life of an order without least elements, from which
  `WalkLeft`, `WalkReversed` and `WalkHeld` tell what a bar makes of it: a trade made
  stays the trade of its order whatever bars follow. `BooksAgree` needs what a sum
  over a finite set of trades is: the function it is read from is there
  (`SumIsThere`), any place may be taken out of it first (`SumsTake`), and so it grows
  by one trade at a time (`SumAdds`).

  `MetricsAreWhatTheySay` is about folds, which are recursive functions over
  sequences. `FoldIsThere` gives the sequence of the accumulators of a fold, one per
  place, each made of the one before by the step; `UpTo` is induction over places,
  as a statement about sets. With these, each scan has an invariant at each place: the
  peak is the greatest value so far (`RunningPeak`), the fall the deepest so far and
  its share among those of the underwater curve (`DeepestFall`, `UnderwaterCurve`),
  the current stretch reaches back as far as it can and the longest is that of some
  stretch (`CountingFinds`, from which the longest drawdown and both runs follow,
  `LongestIsLength`). The bars held are a union that grows by one trade, sharing a
  bar with the one before only on a reversal (`BarsHeld`); the monthly gains telescope
  (`GainsAddUp`).

  Two things were wrong until the proof asked for them. The model gave a peak that
  is not above zero a share of the fall, where `drawdown_series` and `max_drawdown`
  give 0. And the monthly gains were said to add up whenever no month starts with
  nothing, which leaves out the first month's base, the capital, when that is 0.
- `SettingsProofs`: `SettingsFollowFiles`, `NoUpdateIsLost`, `SavesAreWhole`,
  `StampIsNoNewer`, for any clients and requests, any number of crashes and
  logins, and any environment a start may find. `IInv` says that only the handler whose turn it is has begun (`Locked`),
  that the text it or a kite-login is about to write is the file as it should be with
  the change it was asked for (`Pending`, `LoginPending`), that a file is that or has
  just been emptied by its writer (`Kept`), and that whoever changed a file the
  settings come from is about to reload them (`Loaded`). A toggle whose row was taken
  writes what it was given, and `crossed` says so.
- `TuningProofs`: `TypeCorrect`, `OnlyAppliedIsInForce`, `ParamsAreAccepted`,
  `DisabledStaysSo`, for any symbols, strategies and proposals. `IInv` adds what a
  handler at work knows: that it holds the lock alone, that what the connection answers
  with and what it was given are recommendations there are, and that one it is about to
  reject on its own row is still pending; every other is in `mistaken` by the time
  anything is in force because of it.
  `Sanitised` of a sound recommendation has parameters its strategy takes, which is
  a lemma, and switching drops the ones of the strategy before.
- `ResearchProofs`: `GroupsAreComparable`, `RunsAreOnFetchedBars`,
  `PicksAreOfTheFormula`, `CompositesFollowTheirChildren`, `AdviceIsInBounds`, for any
  requests, symbols, bars and clients. Handlers have
  their ids to themselves (`Base`); a backtest keeps what Kite answered, then what was
  stored of it, then bars that include it, or has been crossed (`Fetched`); a group's
  rows and members still to run make up its request (`Grouped`); a screen has the
  picks of its formula but for those its handler has yet to write (`Picked`). The
  last two rest on what is done to one ballot (`OnBarFollows`: the winners are all
  the voters, and the average, the least or the greatest of their levels lies between
  two of them) and to one answer (`SanitisedIsInBounds`), for any ballots
  `BallotsAssumption` and any schemas `SchemasAssumption` allows: signals are ones
  `core/signal.py` accepts, and the bounds of a parameter are in order and whole where
  it is, as all of `STRATEGY_SCHEMAS` are.

Only model-checked: the liveness properties (`EntryResolved`, `ExitBooked`,
`EveryBarDelivered`, `SweepEnds`, `KillServed`), since fairness and ENABLED are beyond
this prover. Every other property of a passing run is stated by a theorem.

The types of `DashboardSettings` and `Research` are parts of their `IInv` and are
stated by no theorem of their own.

## 5. Where the code and its text part

Refuted by a run, with the sentence quoted in `PROJECT.json` ("findings"): one
entry per client order id across restarts; a daily cap that is daily.

Met while modelling, without a run of their own:

- Live broker. A GTT that triggers between `flatten_all`'s listing and its
  deletion leaves an exit order working beside the square-off, and both may fill. A
  `positions()` call that fails while the flatten is confirmed counts as "nothing
  left", so it reports success with positions open. A lost reply to `place_order`
  duplicates the entry as a crash does. After a crash between the GTT and its record, the next poll places a
  second GTT. A FAILED record may hold an open position whose GTT was refused.
  A FAILED or CANCELLED id is placed again on replay. `flatten_all` leaves
  PENDING_ENTRY orders working. An entry that lapses with its day stays
  PENDING_ENTRY, and a vanished GTT is logged on every poll and left. The
  reconciler reports no stray position when there is no open record.
  `poll_and_advance` survives only Kite's own exceptions. The live command stops
  at once when the kill switch is on. `live --live-feed kite` reads
  `to_dataframe()` of a feed it never connected, so it has no bars, which the
  repository's README says is not wired yet.
- Paper loop. The scheduler's gate skips a bar's exits with the bar. Stops fill
  at the stop even when the bar opened beyond it. The option premium multiplies
  by the lot although quantities are already in units. An analyst timeout is an
  APPROVE of reduced size, an unreadable answer a VETO.
- Feed. `is_connected` stays false after an automatic reconnect and may be true
  after a session that closed while `connect` returned; nothing in the program
  asks it. `disconnect` does not flush the partial bars its docstring
  mentions. A refused subscription is only logged.
- Sweeps. A row stays queued or running for ever after a crash, an unexpected
  exception of the loader, a misread configuration or a cancellation before the
  first step. The cancel endpoint answers "cancelling" when there is no task. A
  cancelled worker still inserts its result. `AppState` says all writes go
  through `write_lock`; the sweep task's do not, so a status request that executes
  its query may fetch the row of the task's. A heatmap of another sweep that executes
  between the two halves of a task's `_load_config` gives the task the other's
  configuration: it then runs the other's cells under its own id, and the counts of the
  row are those of the other's total. When another thread has fetched the row, the task
  ends and the row stays queued.
- Backtests. The "mark-to-market" curve is the realized profit; the position
  open at the end is neither closed nor valued; the percentage of the maximum
  drawdown is that of the largest absolute one, and may be smaller than the deepest
  of the underwater curve, and is 0 for a curve that was never above zero, however
  deep it falls. A bar with a reversal counts twice in exposure, which
  `exposure_pct` says does not happen, and the open position's bars not at all.
  `monthly_returns` compound to the total unless a month ends with nothing.
  `split_walk_forward_windows` never ends with a step of zero, and drops a last
  window that ends one bar after the data's last timestamp; only tests call it.
- Settings. The kill toggle reads `kill_switch_file` before it waits for the lock,
  so it may touch the path of the configuration before. The instruments and
  run-tuner singletons keep the token and key they were made with, although an error
  text says to refresh the token and retry. A crash while the model settings
  are saved leaves an empty `config.yaml`, which loads as defaults; one while the
  universe is saved leaves a file every edit refuses. Seeding a missing universe
  drops the example symbols an addition would have kept. The token exchange
  uses the request token up before it notices that `.env` is missing. kite-login
  beside the dashboard can lose either's change of `.env`. A kill switch request
  waits for language models and for Kite. A variable in the environment, blank ones
  included, hides the one in `.env`: under `deploy/docker-compose.yml` (lines 14-16,
  `env_file`) every reload and every `docker compose restart` keeps the keys and the token
  the container was made with, although the comment at 23-24 expects rewriting `.env`
  to matter and `docs/deployment.md` (159-162) says to edit it "and restart". The toggle of a strategy reads its row in two calls on the shared connection,
  so a page that comes between may give it another row to invert.
- Tuner. `strategy_symbol_config` is read by the tuner only: an applied change,
  `disable` included, never reaches trading. A modification merges into the
  parameters of whatever strategy is active by now, and applying an old `keep`
  reverts a later switch. Applying an unregistered current strategy is a KeyError,
  and it stays pending. After a crash between the two writes of an apply the
  configuration is in force and its recommendation can still be rejected.
  `GET /tuner/{run_id}` selects what `get_recommendation` does, on the same connection
  and without the lock: coming between the two halves of that read it makes an apply put
  another recommendation in force, open or for another symbol, while the one asked for is
  marked applied, and a reject mark one that was applied or rejected before. Any page
  between the two halves of `ActiveConfigStore.get` makes the merge start from nothing,
  so that a `keep` enables a disabled symbol, or the request fail.
- Run tuner. The list is cut before bad items are dropped; a NaN becomes the upper
  bound. `strategy_schemas.py:63-67` says that the bounds match the validations of the
  constructors, but `ema_crossover`, `macd_trend` and `rsi_mean_revert` also compare two
  of their parameters, so that advice inside all bounds may be refused when it is run.
- Backtest groups and composites. The comment of the endpoint promises "a single 400"
  rather than "a half-run group", but a member whose constructor raises leaves the
  members before it, without a group. `majority` is the same as `any`, as one
  vote against vetoes both.
- Historical data. An interval of "day" counts 375 minutes, so every two daily bars
  have a gap between them, and so has every night; a patch that brings the
  gap's two ends only is counted as filled. Stored bars of the range that the newest
  answer lacks are run on as they are. Unlocked requests can store an older
  answer, with the candle of a running bar, over a newer one.
- Screener. The prompt says that an unlisted indicator makes it fall back; it is
  accepted, no symbol passes, and the status is "ok". Symbols with any candle are
  never fetched again. `eligible_count` counts the symbols with candles, whatever
  its comment says of the minimum.

## 6. Not modelled

The text side of the analyst, screener and tuner (prompts, parsing, providers);
floating-point ratios of the metrics; indicator arithmetic and the strategies
built on it (the models allow any signal instead; the screener's has one
indicator of each kind of outcome); symbol search and scoring; rendering, logging,
journal, reports; walk-forward, which the program never calls; and deployment
files. Each is a component with its reason in `PROJECT.json`.

Hazards without a property: the flatten that misreports, and the entries a flatten
leaves working; and the exit that triggers under a flatten, before its GTT is deleted
(`FlattenDisarms` says that none can after that). The models have these behaviours; the code
makes no promise there that holds, and the notes say what happens.

## 7. Plan

Written so far, in this order: live broker and exchange; its proofs; paper loop;
its proofs; feed; sweeps; backtester; its proofs; dashboard settings; tuner; its
proofs; candles, screener, composites, advice and the requests that use them; the
proofs of the feed, the sweeps, the settings and the requests; the proof about the
metrics; `OrderLifecycle`, which `KiteBroker` is shown to implement by TLC and by
TLAPS. Nothing on the plan is left. What could be added: the walk-forward windows,
once the program calls them; prices of the live broker, with which its books could be
compared with the account's; and types of their own for settings and requests.
