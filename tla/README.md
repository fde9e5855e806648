# Verification of swing-trading-app

TLA+ models, TLC model checks and TLAPS proofs for the stateful core of this repository: the
paper-trading books that several processes share through files, the fetches that keep the daily
candles, the two Dhan tokens they depend on, and the stores, detectors and journals built on the
candles. Paths are relative to `backend/` of the repository unless they start with `docs/`,
`tests/`, `deploy/` or `frontend/`.

Contents: 1 the system, 2 the models and how they correspond to the code, 3 the runs, 4
disagreements between code and documentation, 5 the proofs, 6 what is not modelled, 7 the roadmap,
8 running it.

## 1. The system

A Python backend (FastAPI services, long-running workers, one-shot scripts started by cron),
two TypeScript front ends and deployment scripts. Two generations share it: the *swing app*
(`app/*.py`, SQLite, one process) and *Matsya* (`app/matsya/*.py`, PostgreSQL, an API process and
workers), plus the paper-trading scripts that live on files. Market data comes from the Dhan HTTP
API and feed.

### 1.1 Paper trading

One directory per strategy (`v8_demo`, `uptrend_sideways`) holds
`paper_broker_state.json`, `paper_trade_ledger.csv`, `paper_order_ledger.csv`,
`daily_report.csv`, `continuity_status.json` and, while somebody changes it,
`.paper_state.lock`.

| component | state | operations | correct when | hard because |
|---|---|---|---|---|
| intraday engine `app/matsya/intraday_paper.py` | cash, pending orders, open positions, event log, last ticks (state file); trade ledger | `process_tick`, `reconcile`, `sync_all_ledgers`, `update_feed_health` | money is conserved, an order has one entry or one miss, a position one exit, every exit one ledger row | two files written one after the other; late, repeated, reordered packets; a session reconciled more than once |
| intraday worker `scripts/matsya_intraday_paper_worker.py` | `completed_date` and subscriptions, in memory | feed loop and reconciliation loop in one asyncio process | every session reconciled once it has candles | the book changes while candles are awaited; restarts forget what was completed |
| state lock `app/matsya/paper_state.py` | the lock file | `O_EXCL` create, staleness check and unlink, release | one process inside; an orphaned file does not block for ever | separate system calls; crashes inside; holders slower than `stale_seconds` |
| end-of-day traders `scripts/v8_demo_trader.py`, `app/scripts/uptrend_sideways_paper_trader.py` | the same files, a loaded copy of the book | load, fill, exit, place, save, report (with the intraday engine on: load, place, merge, report) | one claim per symbol, `MAX_SLOTS` and the holding limit kept, each session applied once | load without the lock and merge later; several files in a row; death in between |
| continuity wrapper `scripts/run_v8_demo_trader_once.py`, `run_uptrend_sideways_paper_trader_once.py`, `paper_trader_continuity.py` | `continuity_status.json` | plan, replay, label | sessions in order, once, none forgotten; gaps and replays visible in the label | death between two dates; sessions stored late; overlapping runs |
| continuity initialisation `scripts/initialize_paper_continuity.py` | intent journal, two status files | audit, create-only writes, recovery check | never overwrites; both files, or a remainder that a repeat refuses | interruption between two creates and inside a write; jobs that write meanwhile |
| forward logger and health check `scripts/v7b_matsya_forward_paper_logger.py`, `v7b_daily_health_check.py` | portfolio, trade ledger, daily log | one date per run; `--force` repeats one | the files agree; a date is processed once | four files in a row; a rewrite that truncates first |
| ledger reconstruction `scripts/reconstruct_paper_ledger.py` | a new ledger directory | offline replay | replays every session once | single process, offline |

The worker and the trader never call each other; they meet in the state file. The worker holds the
lock around each `process_tick` and `reconcile`; the trader loads the file *without* the lock,
decides, and under the lock merges the orders it added into whatever the file holds by then. The
wrapper starts the trader as a subprocess, one date at a time, and looks only at its exit code and
at `daily_report.csv`. The gate, a subprocess of the trader, reads the candles that the OHLCV
worker stores.

### 1.2 Market data and tokens

| component | state | operations | correct when | hard because |
|---|---|---|---|---|
| daily candle fetch `app/historical_data.py`, `data_maintenance.py` | runs, items, candles, archive rows | start or resume, prepare, claim item, upsert, record outcome, finish, prune | every item of a run ends, the run's status counts them, the archive is gapless | separate transactions per step, task death, retries, fatal 401/403 in the middle |
| Matsya OHLCV fetch `app/matsya/ohlcv_service.py`, `ohlcv_worker.py`, `market_calendar.py` | runs, items, archives, the stages done today | primary, repair and final-check stages | the day's session is fetched in some stage; no second run | provider lags behind the close; restart inside a stage; reuse of the latest run |
| swing token `app/token_service.py`, `store.py`, `scheduler.py` | one token row | manual save, profile refresh, renewal | a token is renewed before it runs out | two loops and the user write the row around an await |
| Matsya token `app/matsya/token_service.py`, `renewal_worker.py`, `auth.py` | one token row | save, refresh, renew, check loop | as above | the transaction spans the call; death between Dhan's answer and the commit |
| candle mirror `deploy/matsya-candle-mirror/*` | watermark, staged rows on a second host | incremental export, full snapshot, import | the replica never goes back | `updated_at` is set before the commit that shows it |
| Matsya intraday store `app/matsya_intraday/*`, `scripts/matsya_intraday_db.py` | minute candles, quarantine, derived candles, daily reconciliation | ingest a day, reconcile it, derive | derived candles are those of the stored minutes | commands in any order, repeated with another answer |
| instrument master and universe `app/instrument_master.py`, `index_universe.py` | instruments, constituents, import runs | download, upsert, deactivate | active is what the newest import saw | overlapping downloads, deaths between transactions |

### 1.3 What is computed from the candles

| component | state | operations | correct when | hard because |
|---|---|---|---|---|
| data quality `app/data_quality.py` | none | report per item of the latest run | a gap, a stale end or a broken candle is flagged | which days are expected is itself derived from candles |
| range movers, move events `app/range_movers.py`, `move_events.py` | runs and events | refresh | the largest rise of each piece | index arithmetic |
| regimes, Drishti signal 01 `app/regime.py`, `drishti.py` | regime rows, runs, hits | refresh | rows are of one run, counts are rows | upserts over earlier runs; death in the middle |
| reversal radar `app/reversal_opportunities.py`, `support_resistance.py`, `candlesticks.py` | runs, items, outcomes | refresh, replay, measure, promote | a verdict uses no later candle; one hit and candidate per stock and date | replays hold an item twice; promotion is two writes |
| paper desk and watchlist `app/watchlist.py`, `demo_trading.py`, `learning.py`, `trading_journal.py` | candidates, orders, positions, account, snapshots, outcomes | review, monitor, place, refresh, reset | account and journal agree, a signal is ordered once | every write is a transaction of its own |
| ML samples, shadow journal `app/ml_samples.py`, `app/scripts/track_shadow_*.py`, `resolve_shadow_outcomes.py` | samples, shadow rows | generate, track, resolve | a label says what its window says, and stays | candles arrive and change while labels are made |
| training jobs `app/ml_foundation.py` | job rows | start, pause, resume, cancel | the shown job is the active one | look-up and change in two connections |

Reads, ingest and report scripts, the research scripts of the ML branch, the HTTP application,
configuration and Dhan client, and two front ends make up the rest; section 6 says why they are not
modelled.

## 2. The models

| module | what it models | checked by |
|---|---|---|
| `PaperEngine` | one strategy's directory with the intraday engine on: worker, reconciliation, trader, crashes | `account`, `lifecycle` |
| `PaperStateLock` | the lock file, call by call | `lock` |
| `EodTrader` | the end-of-day trader with the engine off: one process per date and the order of its file writes | `epoch`, `clean`, `unsaved` |
| `PaperContinuity` | composes `EodTrader` with the wrapper: sessions arriving, plan, replay, labels, failures, overlapping runs | the same |
| `OrderLifecycle` | abstract: the life of an order; implemented by both books | `lifecycle`, `clean` |
| `CandleArchive` | abstract: what a daily candle archive promises; implemented by both fetches | `fetch`, `matsya` |
| `CandleFetch` | the swing app's fetch service, its thread and the maintenance loop | `fetch`, `short_scope` |
| `MatsyaFetch` | Matsya's fetch service and its scheduled worker | `matsya` |
| `SwingToken`, `MatsyaToken` | the two Dhan tokens and everybody who writes them | `tokens` |
| `ContinuityInit` | the create-only initialisation and the jobs that write meanwhile | `operations` |
| `CandleMirror` | primary, exports, overlapping syncs | `operations` |
| `IntradayStore` | one symbol-day: ingest, reconcile, derive | `operations` |
| `DemoDesk` | candidates, orders, positions, account, learning of the paper desk | `operations` |
| `ForwardLogger` | the forward logger's day, its files and the health check | `operations` |
| `ScanRuns` | the runs of the research refreshes | `operations` |
| `ReversalRadar` | the radar's store: snapshots, replays, outcomes, promotion | `operations` |
| `ReferenceData` | instrument master and index constituents | `operations` |
| `CandleSeries` | a growing series of candles read by the six detectors below | `operations` |
| `MoveEvents`, `Regime`, `Candlesticks`, `SupportResistance`, `RadarSignals`, `StrategySignals` | the detectors: functions of a series, and their reference definitions | `operations` |
| `LabelTracking`, `DataQuality` | ML samples behind the quality gate, shadow journal; the quality report | `operations` |
| `TrainingJobs` | training job rows | `operations` |
| `MC*` | constants for TLC: prices, bars, sessions, answers, files | |
| `*Proofs` | theorems, by component (section 5) | TLAPS |
| `DataLemmas` | least and greatest elements, and sums over finite sets: what the proofs share | TLAPS |

Names follow the source where TLA+ allows it; `PROJECT.json` gives the source lines of every
definition.

### 2.1 `PaperEngine`

State: `cash`, `pending`, `open`, `events`, `last` are the fields of `paper_broker_state.json`;
`ledger` is the number of rows per exit id in the trade ledger; `lock` is free, the worker's, or
an orphan; `worker`, `recon` and `tr` are the processes' own memory (program counters, the
fetched targets, the trader's loaded copy); `lastReport` is the last report row.

| action | code |
|---|---|
| `Tick` | `process_tick`: order check, `_fill_pending` (entry, refusal or duplicate event), else `_process_live_exit`, then the save; the lock stays held |
| `SyncLedger` | `_sync_trade_ledger` after the save, and the release |
| `ReconcileFetch`, `ReconcileFail`, `ReconcileSession` | the loop reads the desired symbols, awaits the candles, then applies `reconcile` to the state *of that later moment* |
| `WorkerCrash`, `WorkerStart` | death at any point; `sync_all_ledgers` before either loop starts |
| `BreakStaleLock` | removal of a lock file older than `stale_seconds` |
| `TraderPlace`, `TraderSave`, `TraderReport`, `TraderDies` | load without lock and `place_entry_orders`; merge under the lock; the report row; death or lock timeout |
| `Advance` | the clock |

Abstractions. Money is an integer number of paise and the modelled prices (76, 80, 88 rupees)
are chosen so that the friction of 0.25% is a whole number on them and on the levels derived
from them, with one exception (the stop of an 88-rupee entry, rounded down). A day is `TicksPerDay`
instants, the last after the close; every modelled day is a trading day. The size of an order is
the constant `Allocation`. Candles are any set of at most `MaxCandles` bars for the symbols asked
for. Feed-health fields, packet counters and the order CSV (an audit trail nobody reads back) are
left out. One strategy per instance; a reconciliation needs candles for some target of
either strategy of the worker, so it may go ahead with none of this one's. Trader runs do not overlap here (`PaperContinuity` has that).
The engine takes the lock as exclusive; `PaperStateLock` says when it is. A reconciliation's
requests end before the next session opens.

### 2.2 `PaperStateLock`

One action per system call of `paper_state_lock`: `Create` or `Exists`, `StatGone`, `StatStale`
or `Sleep` or `TimeOut`, `Unlink`, `Release`; `Crash` at any call, `GrowOld` for the passing of
`stale_seconds` (for a live holder only if `Stalls`), `PassDeadline` for `timeout_seconds`.
`judged` is a history variable: some process has found a file stale.

### 2.3 `EodTrader` and `PaperContinuity`

`EodTrader` has one action per file that is written: `Process` (load, fills, exits, the trade rows
appended on the way), `Place` (in memory), `Save` (state file), `Report` (report row). The two
strategies are two settings of two constants: `SameDayGuard` (uptrend_sideways does not fill an
order on its own signal date) and `AlwaysSaves` (v8_demo saves on a date without signals too).
Which of the fillable orders the cash suffices for is a free choice, made per subset; a session's
candles, the levels they cross and its ranked signals are drawn from `SessionData` when the
session is stored. What the signals *are* is in `StrategySignals`.

`PaperContinuity` adds `StoreSession` (in order, or with `Backfills` at any free date), `Start`
(`build_plan`: the label, and the dates still to do), `Finish` and `GateFails`/`TraderDies`
(`BeginWrite`: `write_continuity` after success and failure reads the prior status), `WriteContinuity`
(the file is replaced by what was made of that reading), `RunnerDies` (nothing more is written). A batch is
the set of its dates, taken in ascending order, which is the order `build_plan` sorts them in.
Any number of `Runners` may be at it at once: the code excludes none. `batched` and `deaths` are
history, the latter bounded by `MaxDeaths`; refusals of the gate are not bounded. A CSV append is
one step (a torn row is not modelled).

### 2.4 The abstract specifications

`OrderLifecycle`: an order, named by symbol and signal date, is placed once, then entered
or missed once, then closed once; a symbol has one live order and the book at most `MaxSlots`.
`PaperEngine` and `PaperContinuity` each define `OrderStatus` from their files and instantiate it;
`DayTrades` says whether one save may both enter and close (the end-of-day trader may).

`CandleArchive`: whatever runs, retries, deaths and restarts it takes, the candles of an instrument
are a gapless stretch of what the source has published, extended at either end; retention drops a
prefix; and an instrument is declared complete only when the source has nothing older in the
window that every universe asks for. It says nothing of runs, items or transactions. `CandleFetch` and `MatsyaFetch` implement
it, each with `complete` and `floor` read off its own tables; a capture and the declaration that
follows are two of its steps because they are two transactions in the code.

### 2.5 The fetches

`CandleFetch` (SQLite). `runs` holds each run with its window, status and items; `candles` and
`archive` are the other two tables; `task` is the one background thread: the places of the items it has still to work off
(`QueuedItems` reads them in ascending order, so that the one in hand is the least), its attempts and
its answer. A step is a transaction: `StartOrResume` (under the asyncio lock: resume an
active run, reuse a good one of the same window, refuse when all is covered or the token is not
allowed, else create run and items from `FetchPlan`), `PrepareRun`, `QueuedItems`,
`MarkItemFetching`, `UpsertCandles` or `NoData`, `RecordFetchOutcome`, `MarkItem`, `RetryItem`,
`MarkItemFailed`, `FailRefused`, `FinishRunIfComplete`; `PruneCandlesBefore` is the maintenance
loop's purge. `WriteFails` is an exception in a write after the candles are stored, `Die` the end of
thread or process anywhere. `Tick`, `Publish` and `TokenChanges` are the world: half-days pass, the
source serves sessions late, the token's permission comes and goes.

`MatsyaFetch` (PostgreSQL) has the same steps under the names of `ohlcv_service.py`, with its
differences: the latest run is reused only under `reusable_current_window_run`, an incremental
request overlaps by trading days, a trailing stale answer is kept *and* put off, the whole run is
called by a worker whose `due_schedule_stage` decides primary, repair or final check, and whose
`initial_completed_schedule_stages` infers after a restart what is done today. The clock goes in
steps of half an hour on a morning; days 5 and 6 are a weekend.

Both: requests answer whole, empty, late, transiently failing, failing or refused, as a free choice.
The source is taken to include both ends of a request. Matsya's client adds a day because Dhan
leaves the last one out (`tests/test_matsya_ohlcv_worker_static.py:367`); the swing client
(`historical_data.py:1220`) does not, which only moves its window by a session. The coverage grace
(10 days at the start, 3 at the end) is 0 and 1. The thread's sleep and pacing are left out.

### 2.6 The tokens

`SwingToken`. One event loop: what lies between two awaits is a step, a call to Dhan is two.
`RenewIfNeeded` (renewal loop, maintenance loop, and by force the user), `Renewed`, `RenewalFails`;
`RefreshProfile`, `ProfileArrives`, `ProfileFails` write back the row *as it was read before the
await*; `SaveManualToken`. A token comes with an expiry or without; unlike Matsya's, this one is
renewed without. `left` is the recorded, `real` the true
remaining life; a call made with a token that has run out only fails. A call is shorter than a step
of time.

`MatsyaToken`. A renewal is one transaction across the await: its first UPDATE locks the row, others
wait (`wait_*`), a death (`Dies`) leaves nothing of it whatever Dhan has done. `CheckAndRenew` is
the worker's look, which leaves `renew_failed` to a person, and `unknown` too: the state of a token
stored without an expiry, by a manual save that gives none and is not validated
(`app/matsya/api.py:39-43`) or by a renewal whose answer names none (`dhan_client.py:69-72`). The worker
only logs it (`renewal_worker.py:79-80`), so such a token runs out though Dhan answers. `dated` is
history: everything the row was made from had an expiry. `mayFail` decides for a whole behaviour
whether Dhan refuses or times out at all, because with a failure nothing but a person ends
`renew_failed`, and the token does run out.

There is one API request at a time. With two, the renewing one holds the row lock while it awaits
Dhan, and the other one's UPDATE blocks the very thread that should receive the answer
(`matsya/token_service.py:146`): both stand still until a timeout. `MatsyaToken` has `Stuck` for it;
`Requests` of two shows it as a failure of `WaitEnds`.

### 2.7 Stores and journals

* `ContinuityInit`: `Audit` reads ledger after ledger; `StartWrite`, `Boundary`, `FinalBoundary` are
  the three comparisons with the approved audit; `_create_intent_record` and `_create_metadata` are
  two steps each, exclusive creation and content (a death in between leaves a torn file); `Recover`
  is what a repeat does when an intent record is there. `Others` are the strategies' own jobs,
  publications and deployments. Two invocations overlap.
* `CandleMirror`: a row carries the time its transaction began and shows when it commits;
  `Lock` (flock and the choice of mode), `Export`, `Apply` (one transaction), `MoveWatermark`,
  `Fails`. `straddled` is history: versions whose transaction was open across an export.
* `IntradayStore`: `store_day` validates (order, duplicates, session times, types, OHLC) and stores or
  quarantines; `StoreUnavailable`; `load_stored_day` then `store_reconciliation` or `derive_day`,
  or a death in between; `aggregate` builds the candles of each interval. One command runs at a time:
  it is an operator's manual tool. Nothing in the code would stop two, and an `ingest` between another
  command's `load_stored_day` and its `derive_day` would leave candles of the older minutes.
* `DemoDesk`: methods are synchronous sequences of transactions: `work` is what the running call has
  still to do and `Dies` forgets it. Reviews of the language model are free choices.
* `ForwardLogger`: `process_day` takes a book into memory and works on it order by order, position by
  position and signal by signal (`logger.todo`), `save_state` truncates and writes, `append_trade` and
  `append_log` follow one by one. What is in memory is lost with a death. One run at a time, dates
  never before the last run's. Friction is left out.
* `ScanRuns`: create, one transaction per stock, finish or fail, for runs that insert rows and runs
  that upsert. Refreshes do not overlap: the handlers block the event loop of the one process.
* `ReversalRadar`: refresh and replay create a run, insert items and measure outcomes, in separate
  transactions; `Promote` ensures a hit, then a candidate. A verdict on a session is a value given
  when the session comes (that it cannot depend on later ones is `PastStays` of `CandleSeries`).
* `ReferenceData`: downloads overlap, imports do not. `BeginUpsert`, `UpsertLine` for each line and
  `CommitRows` are one transaction: `importing.rows` is the table as it sees it, the stored table
  changes at the commit and an error or a death before it leaves nothing. `UpsertRow` is by natural
  key; what the file did not hold is deactivated; `Finish` writes the run's counts.
* `LabelTracking` with `DataQuality`: `Generate` runs behind the quality gate and locks samples with a
  full future; `Track` inserts OBSERVING rows; `Classify` reads all ready rows in one pass and
  `WriteOutcome` writes them one by one; `NextDay` and `Retouch` add, revise and fill in candles.
* `TrainingJobs`: no executor exists; the rows change by request only.

### 2.8 The detectors

Each detector is a function of the whole stored series, so the state is the series (`history`), and
what can go wrong is arithmetic at the edges and a look ahead. Prices are integers, percentages and
ratios are multiplied out, averages are sums, scores are hundredths. Windows and thresholds are
constants, cut down so that a series of seven candles reaches every verdict:

* `MoveEvents`: cutting at pullbacks (`split_continuous_move_segments`), the largest rise of a piece
  kept on the fly (`best_upward_event`), against the definition over all pairs;
* `Regime`: the regime of each day and Drishti's signal 01;
* `Candlesticks`: patterns, indecision and reversal scores of a candle and its predecessors;
* `SupportResistance`: pivots, their clustering and the level of each cluster;
* `RadarSignals`: stage, scores, suggested action and promotion, from the three above;
* `StrategySignals`: the walk of v7b and v8_demo from a crash to the break of a confirmed higher low,
  v8_demo's watch candidates, and the sideways base after an uptrend, against their definitions.

## 3. The runs

Bounds are constants of the configuration files and of the instances in `MC*`; none is a state
constraint.

| run | result | question |
|---|---|---|
| `account` | holds | money, claims, log and ledger of the engine, and that every exit reaches the ledger |
| `lifecycle` | holds | slots, bars per session, and the refinement of `OrderLifecycle` by the engine |
| `lock` | holds | exclusion until a file is judged stale; orphans do not block |
| `epoch` | holds | order and completeness of the sessions under late data, refusals and a death |
| `clean` | holds | the end-of-day book without deaths, and its refinement of `OrderLifecycle` |
| `fetch` | holds | runs and items of the swing fetch, its refinement of `CandleArchive`, and that runs end |
| `matsya` | holds | the runs of the scheduled worker, and its refinement of `CandleArchive` |
| `tokens` | holds | no token runs out or is handed out dead, a failed renewal and a wait for the row end |
| `operations` | holds | eleven parts that share no state, one question each |
| `unsaved`, `short_scope` | violated | section 4 |

### 3.1 Paper trading

`account` (v8_demo exits, one symbol, three days of two instants, packets up to two instants
late, one candle per session): six instants are an entry, a session after it and the session that
reaches the limit `MaxBars = 2`; cash below one position's cost at the higher price makes refusals
happen; the three bars are a quiet one, one through the stop and an ambiguous one. Properties:

* `CashConserved`: cash plus the cost of what is open is the starting equity plus every recorded
  result, and never negative, over all interleavings of live and recovered exits and crashes.
* `BookConsistent`: an open position has its entry and no exit in the log (`_close_position` refuses
  an exit id already logged, so such a position would be stuck for ever); it is closed in time; no
  exit precedes its entry.
* `LedgerMatchesLog`, `LedgerCatchesUp`: the second file never disagrees with the first while
  ticks are served, and every exit gets its row.
* `OneClaimPerSymbol`: orders decided on a stale copy never claim a symbol twice (the copy still
  covers every claim).
* `NothingDropped`: an order or a position leaves the book only with an event.

`lifecycle` (uptrend_sideways exits, two symbols for one slot, a position an end-of-day run has
left): contention for the slot is what `SlotsBounded` needs; two symbols let the worker free one
claim while the trader holds a copy with it. `OneBarPerSession`: a session reconciled more than once
ages a position once. Packets are not late here (`account` has that). `ReportCrash` is off because a
rerun after that crash is the configuration `rerun` of section 4.

`lock` (three processes, stalls allowed): two waiters and a holder are what the takeover race
needs. Crashes are unbounded.

`epoch` (one symbol, three dates, backfills, one death): three dates are the least with an interior
gap and with a batch of two behind a report; two slots for one symbol leave the slots out of it, so
that a second claim would show. `EverySessionProcessed`: a session stored behind a report is
processed in the end or the gap is flagged, and a gap ends up labelled `invalid_gap`. One death
suffices for each crash point on its own; section 4 says what it costs.

`clean` (two symbols, three dates, one slot, ranked signals in both orders). `OncePerSession`: a
session ages a position once, a trade has one row, and an order is filled after its signal's date.

### 3.2 Fetches and tokens

`fetch` (two instruments, one listed inside the window, a constituent without instrument, a
maintained and an on-demand universe that share an instrument, two days, two runs, one death or
failing write): two runs are a run resumed and its successor, or a run of each universe; two days
are what a late session and a retry time need; the sixth day is one without trading.

* `RunsSettled`: one active run per universe; an ended run has no open item; `completed` means that
  everything succeeded; an item reported done has candles and outcome on record, whichever of the
  three transactions the process dies between.
* `PassedOverIsComplete`: what is passed over as up to date lacks no session that *every* universe
  asks for that day, that the source serves and that retention keeps. The on-demand universe looks
  back less far here (two days and three). That it lacks no session of its *own* run's window
  (`SkippedOnlyWhenComplete`) is not so: `short_scope` shows the maintained universe passing over
  sessions older than the shorter window (section 4).
* `KeepsArchive`: the refinement of `CandleArchive`, whose `floor` is the first day that every
  universe asks for (`CommonFloor`).
* `MainRunsEnd`: if the token is usable again and again, an active run of the maintained universe
  comes to an end. Universes fetched on demand have no such promise: nobody calls again.

`matsya` (the same instruments, two mornings around a weekend, two runs, one mishap: a death, a
failing write or a lost token).

* `RunsInOrder`: never two active runs, nothing open in an ended one (a reused good run is put back
  to `running` and may end as `failed`), and once a stage counts as done no interrupted run is left.
* `FreshMeansWhole`: where the freshness check, which looks at the newest candle only, says fresh,
  no earlier session of the stored stretch is missing.
* `KeepsArchive` again.

`tokens`. `Life = 5`, `Before = 3` and intervals of one and two steps give every loop at least one
look inside the window; one failing call leaves one more. Two deaths for Matsya. `NeverOut` of
section 5 shows that these windows are the narrowest that suffice.

* `NeverRunsOut`, of the true and the recorded life: of the swing token always, of Matsya's while
  Dhan answers and the token's expiry is known. The rest is not so by design: a failed renewal and
  an unknown expiry wait for a person.
* `OnlyLiveTokens`: `live_market_credentials` hands out no Matsya token that has run out, whatever
  failed, died, was written back late or left its expiry out: an `unknown` or `renew_failed` token is
  refused although it may still be good.
* `WaitsEnd`: a failed renewal does not block the swing fetch for good, and whoever waits for
  Matsya's row gets it.

### 3.3 `operations`

A behaviour picks one of eleven systems and is a behaviour of that module; the other variables
stay as they start. The properties say, of the system picked:

| property | says |
|---|---|
| `DeskAddsUp` | desk: the account is the sum of the journal, each order once, whichever call died half-way; a signal is ordered once and filled after it; sessions are counted once and a position is not held past its limit; what learning keeps is about the position it names |
| `LoggerAddsUp` | logger: cash, positions and closes add up, the trade ledger missing exactly the closes of runs that died after the save; one claim per symbol within the slots; the log is ordered and not ahead of the portfolio |
| `ContinuityRecorded` | a continuity file that the initialisation began to write is covered by a whole intent record; success is reported of both files only, and of the evidence approved |
| `CandlesDerived` | derived intraday candles are those of the minutes now stored, of a whole session, longer ones agree with shorter ones, nothing of a rejected answer is stored; the mirror misses, of rows older than the watermark, only what was open across an export |
| `RunsTruthful` | scans: counts are rows and regimes of one run; radar: a promoted stock and date is one hit and one candidate, an outcome counts candles that exist; reference: active is what the newest committed import saw, counts add up |
| `SeriesReadRight` | moves, pivots and strategy signals equal their reference definitions; reversals are read against their trend; the radar never recommends what its own evidence speaks against |
| `LabelsHonest` | a locked label claims what the candles of its full window say unless one came or changed afterwards; sample and shadow rows agree; the shown job is the active one |
| `NothingGoesBack` | no step undoes what was settled: a created continuity file, a mirrored version, a closed candidate, an ended scan, a measured outcome, a listing's key, a verdict about a past session (no look-ahead), a label, a cancelled job |

Bounds, chosen so that each case happens once with something else in its way: two invocations, one
change by others and deaths anywhere (`init`); two rows in two versions, two syncs, one failure
(`mirror`); ten kinds of answer for a session of four minutes (`intraday`); three candles of two
kinds, two hits, two orders, one death (`desk`); two stocks, two kinds, three scans (`scans`); four
sessions, two runs, two hits (`radar`); files that add, correct, repeat, drop and are empty, three
imports (`reference`); up to seven candles of five shapes, all 19 531 series (`series`); three days,
two symbols, one revision (`labels`); three sessions of four kinds, one forced repeat, one death
(`logger`).

Every property of a passing run has a mutant: a definition of the model changed the way a plausible
bug would change the code (an unchecked duplicate, an off-by-one in a window, a dropped lock, the
loaded copy written back whole), under which TLC finds the property violated. They stand next to the
definition they replace.

### 3.4 Fairness and deadlock

`PaperEngine`: weak fairness of `SyncLedger` (the next statement of a live process),
`WorkerStart` (`restart: unless-stopped` in the compose file) and `BreakStaleLock`
(`stale_seconds` pass); ticks, reconciliations and the trader get none. `PaperStateLock`: weak
fairness of a process's own loop, which only makes system calls, and of time. `PaperContinuity`:
weak fairness of `Start` and `Finish` (the daily schedule), strong fairness of the trader's steps:
the gate and deaths may interrupt it again and again, but a trader that is started infinitely often
gets through in the end. Without the latter a gate that refuses for ever defeats every progress
property, as it should.

`CandleFetch`: weak fairness of the thread's own steps, strong fairness of the maintenance loop's
call with a usable token (`data_maintenance.py` calls on every round). Death is not fair, and
bounded. `SwingToken`: time passes, a loop that is due looks, and a call comes back, answered or
failed (it has a timeout). `MatsyaToken`: the same, with strong fairness of a writer's commit and of
a waiter's turn, since PostgreSQL hands the row lock to a waiter in the end.

Deadlock is checked where the modelled part can always move: paper trading, the lock, the tokens. It
is off in `fetch`, `matsya`, `operations` and `short_scope`, because the bounds on
days, runs, sessions and requests bring every behaviour of them to an end.

## 4. Disagreements between the code and its documentation

Two runs, each with one property that a comment, a document or a test states:

| run | the code | the documentation |
|---|---|---|
| `unsaved` | uptrend_sideways saves only when there are breakouts (`uptrend_sideways_paper_trader.py:510`); fills, ages and exits of a quiet session are lost while their trade and report rows stay | `deploy/uptrend-sideways-paper-trader/README.md:23`: time exit after 40 bars |
| `short_scope` | a capture that reached its own request start is recorded as the complete history (`historical_data.py:846`), however short its lookback; the full fetch then passes the instrument over | the test `test_up_to_date_skip_requires_source_floor_reached_when_older_history_is_missing` |

### Further configurations

Four configurations are kept beside the runs; each shows a behaviour that contradicts a document, and
TLC finds each violated. The last two rows have none of their own: with the constants of the next
paragraph TLC finds them violated as well.

| configuration | property | the code | the documentation |
|---|---|---|---|
| `PaperEngine_stale_order` | `EntersNextSessionOnly` | an order is entered on *any* later session (`intraday_paper.py:258`); if the worker was down over the next one, days after its signal | `docs/matsya_intraday_paper_worker.md:29`: orders without a next-session entry are recorded as missed, not filled |
| `PaperEngine_rerun` | `MissedHadNoEntry` | a date run again after a death between save and report places the same order id again; its entry is in the log, so it blocks symbol and slot until it is recorded as *missed* | the same line |
| `PaperStateLock_takeover` | `MutualExclusion` | two waiters judge one orphan stale; the second unlinks the file the first has just created; both are inside | `paper_state.py:16`: "process-safe lock" |
| `PaperContinuity_overlap` | `ReportedOnce` | the report is read once at the start and nothing excludes a second run | `deploy/matsya-setup/V8_DEMO_TRADER.md:19`: no duplicate reports when run more than once for a date |
| no deaths, `MaxBars` 2 | `HealthyIsForward` | a batch interrupted after its first date leaves no trace, and the rest is labelled healthy | `docs/matsya_paper_continuity.md:8`: such an epoch is permanently `reconstructed` |
| one death, `MaxBars` 3 | `AgedOncePerSession` | state saved, report row missing: the session is applied again on the saved book | `docs/matsya_paper_continuity.md:7`: a session is processed once |

The constants of those two: one symbol with one slot, days 0 to 2, one runner, `AlwaysSaves`, neither
`SameDayGuard` nor `Backfills`, and `OneSymbol` of `MCPaperContinuity` as the session data.

`OncePerSession` and `TimeExitKept` are checked where they hold (`clean` without deaths, `epoch` with
v8_demo's unconditional save), which marks the limits of those promises.

### Observed while modelling

Behaviour that no document denies, worth knowing when the code is changed:

* Radar promotion inserts its hit under the *radar's* run id into `drishti_signal_hits`, and the
  latest report of signal 01 selects hits by run id alone.
* A failed scan reports counts of zero although rows of it stay; a run whose process died stays
  `running` and is the latest.
* `daily_shadow_pipeline.py:96` calls the resolver without `--execute`, so it classifies and writes
  nothing. `update_shadow_outcome` itself does not look at the status of the row it changes.
* Items of status `skipped_no_new_data` are exempt from the gap check (`data_quality.py:183-189`), so
  a label may be locked over a gap that is filled later (`touched` in `LabelTracking`).
* The intraday gate of a day stays as it was reconciled when the day is ingested again; derived
  candles are removed.
* Two downloads of a reference file may be applied in the opposite order of their requests. The
  deactivation count includes rows that were inactive already.
* In the forward logger `--force` may age a position twice; the health check without `--date` passes
  on an old row; a death while the portfolio is rewritten leaves it torn, and every later run stops.
* The stage `below_support_broken` and the bias `mixed` cannot be reached.
* What Matsya's primary fetch asked in vain is not asked again for three hours
  (`ohlcv_service.py:536`; one hour in `deploy/matsya-setup/.env.example:30`), so the repair fetch, an
  hour after the primary's start, passes over it; the final check, an hour later, asks again only
  with the shorter delay.
* A restart of Matsya's worker after a primary fetch that ended past the repair time counts the
  repair as done (`ohlcv_worker.py:195-215`).

## 5. The proofs

All hold for every value of the constants that satisfies the named assumptions
(`ConstantsAssumption`, `LegacyAssumption`, `LockAssumption`, `TraderAssumption`,
`ContinuityAssumption`, `FetchAssumption`, `MatsyaFetchAssumption`, `TokensAssumption`,
`OperationsAssumption`): sets of symbols, of Matsya's universe and of mirrored rows are finite, days
and limits are naturals, a schedule is ascending, a holding limit is at least two bars, positions left
by an end-of-day run are paid for from the starting cash, an invocation of the initialisation is not
one of the strategies' jobs, a row of an intraday answer is of a minute of the session or of none, the
stocks of a scan and the old listings are finitely many, the lines of a file are numbered, the desk's
candles, levels and cash are integers (hundredths of a price, say) and it may hold a position for a
session at least, no bar has a negative volume (which marks a missing candle), and the forward
logger has a slot, starts with what is no debt and reads closes and (positive) opens that are naturals.
The bounds of the instances (`MaxTime`, `MaxLate`, `MaxCandles`, `MaxDeaths`, `MaxRuns`, `LastDay`,
`MaxFailures`, `MaxSessions`, `MaxDays` and their like), horizons and future windows are arbitrary
naturals; prices, bars, barriers, runners, processes, requests and session data arbitrary sets. Hypotheses beyond these stand in the theorems and are named
below, each with what happens without it.

**`DataLemmas`**: a non-empty set of naturals has a least element, and a greatest if it is bounded;
`SumFunctionOnSet` of the community modules picks elements in an unspecified order by a recursive
function, and the lemmas show that this function exists, that the order does not matter and how a sum
follows its set. Each induction is a minimal counterexample under strict inclusion of finite sets.
What is said of records whoever holds them stands here too: that a finite set can be listed in an
order, the moves of an account, and what a book of orders and positions keeps (`BookFits`).

**`PaperEngineProofs`**
* `TypeCorrect`: `Spec => []TypeOK`.
* `OneClaim`: `Spec => []OneClaimPerSymbol`. The property alone is not inductive: the merge adds
  orders chosen from a copy that may be arbitrarily old. `MergeInv` adds `StaleCopyCovers`: while a
  copy is held it still names every symbol the book claims. It is kept because the worker only ever
  shrinks or moves claims (`ClaimsOnlyShrink`), and it makes the merge harmless.
* `Slots`: `Spec => []SlotsBounded`, by `SlotsReserved`: orders, positions and the orders the trader
  has chosen but not yet merged are together at most `MaxSlots`; ticks and reconciliations never
  raise that sum.
* `Book`, `OneBar`: `BookConsistent` and `OneBarPerSession`, by `BookInv`: the clock is ahead of every
  date on record (`DatesInv`); an exit's id is that of its type and its entry is on record (`LogInv`);
  a position has at most one bar for each session from its entry to the last one counted (`AgeInv`).
  The last is what makes the forced exit of the holding limit fall on a later day than the entry.
* `LedgerComplete`: `LedgerMatchesLog`. A save makes the log run ahead of the ledger only while the
  worker holds the lock or is down, and `sync_all_ledgers` comes before it serves ticks again.
* `NoSilentDrop`: the action property `NothingDropped`: what `reconcile` and a tick remove, they record.
* `Cash`: `CashConserved`. Each step is one of three movements (an order paid for, positions paid out,
  neither), and the sums over log and book follow by the lemmas of `DataLemmas`.
* `Implements`: the refinement of `OrderLifecycle`, if the trader does not die between its save and its
  report (`~ReportCrash`): every step is one of the abstract order life, or a stutter, for each order.
  With that death the date runs again and places the same ids anew (`rerun` of section 4).

**`PaperStateLockProofs`**
* `TypeCorrect`, and `Exclusive`: `Spec => []ExclusiveUntilTakeover`, by `LockInv`: until a file is
  judged stale nobody stands before the unlink and every holder owns the file.

**`PaperContinuityProofs`**: `TypeCorrect`, `OneClaim` and `Slots` for any number of runners
* `TypeCorrect`, strengthened by `Dated`: a runner's dates are stored sessions, and a working trader
  has one.
* `OneClaim` and `Slots`: what is claimed of the file is claimed of every book in the system, the
  file and each runner's copy (`ClaimInv`, `SlotInv`). `NextBooks` reduces every step to three cases:
  a book that was there, a book filled from the file, a book with orders placed on it. So both
  survive runners that overlap, die and overwrite each other, although much else does not.
* `Reconstructed`: with one runner, `Spec => ReconstructedForGood`. The label is only given together
  with dates on record, the dates only grow, and with dates on record no later write says healthy
  (`LabelInv`). Two runners that overlap read the same prior status, and the later replacement loses
  the dates of the earlier (`paper_trader_continuity.py:94-113`, no lock).
* `InOrder`: with one runner, `Spec => []ReportsAscend`. `OrderInv`: all that a runner has still to
  do is later than all that is reported. The configuration `PaperContinuity_overlap` shows that one
  runner is necessary.
* `TimeExit`: with one runner and `AlwaysSaves`, `Spec => []TimeExitKept`. `TimeInv`: a book has been
  aged for every reported session with a candle, and a trader's copy for the date in hand too. A death
  makes a date be gone through again and ages twice, never too little. The run `unsaved` shows that
  `AlwaysSaves` is necessary.
* `OncePer`, and `Implements` (the refinement of `OrderLifecycle`): with one runner, `AlwaysSaves` and
  no deaths. `CleanInv` says of what the book is the outcome (`OutcomeOf`: exactly the sessions
  reported, and from the save on the one in hand), and that no trade row is of an order the book still
  has. A death between save and report breaks both (section 4).

**`CandleFetchProofs`**
* `Settlement`: `Spec => []RunsSettled`, without hypotheses. `FetchInv` adds to the types what the
  thread may rely on between two transactions (`TaskInv`: its run is active as long as it has items,
  the item in hand is open, the others are queued, an answer is that of the item) and what has been
  settled (`RunsInv`: the status of an ended run is the one its items' statuses call for). When a
  run is resumed after a death, its item in hand is put back to `queued`, which is what makes `TaskInv`
  hold again.

* `UpToDate`: `Spec => []PassedOverIsComplete`, for any lookbacks and without hypotheses.
  `HistoryInv`: up to the latest candle, all that is due, that every window still asks for and no purge
  drops, is stored (`StoredInv`); for that, whenever a request was planned, it must still start right
  behind a stored day or before all that is due when its answer comes (`RequestInv`). Neither an
  outage nor the `complete` flag matters. What only the longer window asks for is beyond it
  (`short_scope`).
* `ImplementsArchive`: `Spec /\ []InTime => KeepsArchive`, for any lookbacks, under `KeptWindow`
  (retention covers the shortest window, as with the defaults: 1825 and 365 days in
  `config.py:21-22`, 365 of retention in `config.py:39`). `KeptInv` adds that a backfill joins a stored
  or a purged day and any other request reaches the end of its run's window (`JoinInv`), and that
  there is no gap (`GapInv`). `InTime` says three things: an archive is not older, and a run in progress
  not staler, than what every universe asks for; and the purge has not overtaken the day that
  a backfill of a run in progress is to join. TLC finds the refinement violated when retention is
  shorter than both windows and when an outage outlasts the shorter one.
* `ShortHorizon`: under `Horizon`, `InTime` always holds, whatever fails. With the defaults and the
  purge off (as it is by default; in the model a retention that reaches before the first window)
  that is nearly a year, the shorter window. With the purge on at 365 days and backfills of 1825 the
  third part of `InTime` remains a hypothesis of `ImplementsArchive`: a backfill that is still in
  progress on the day the purge passes its end leaves a gap.

**`MatsyaFetchProofs`**
* `Ordered`: `Spec => []RunsInOrder`, without hypotheses. `OrderedInv`: only the last run can be in
  progress (`OrderInv`), and the worker is on it, with one item fetching (`WorkerInv`).
* `Fresh` and `ImplementsArchive`: `Spec /\ []NoLongOutage` implies `[]FreshMeansWhole`, and
  `KeepsArchive`, the refinement of `CandleArchive`. `StoreInv` adds that what is stored was served
  and has no gap, that what an open item asks for still joins what is stored by then (`RequestsInv`:
  plans are made for a whole run at its start, answers come one by one), and that an answer leaves
  nothing older behind (`AnswerInv`, for the declaration that follows it in another transaction).
* `NoLongOutage` says that a non-empty archive reaches the day before the window. It is needed: an
  incremental update asks from the window's start (`incremental_request_from_date`, `max`), so after an
  outage longer than the lookback (1825 days in `app/matsya/settings.py:34`) a gap is left for good.
  `ShortHorizon` discharges it: it holds in every instance whose last day's window still reaches the
  first day's newest candle, such as that of the run `matsya`.

**`TokenProofs`**
* `Stored`: `Spec => []TokensStored`, the types, on which the others rest.
* `OnlyLive`: `Spec => []OnlyLiveTokens`, without hypotheses. `LifeTold`: a recorded expiry is never
  later than the true one, in the row and in whatever a transaction has read.
* `NeverOut`: `Spec => []NeverRunsOut`, for both tokens, under what is needed of the windows.
  The swing token: some loop's interval fits `MaxFailures + 2` times into `Before`, and `Before` is
  less than `Life`. `SwingKept`: inside the window the recorded and the true life outlast the loop's
  next look and all failures to come, the true one by an interval more; a failing call pays for the
  interval it costs (`Spare`); whoever waits for a profile holds the row as it is, or a token has been
  issued since (`UserKept`), which bounds what a row written back late can hide. Matsya's token, while
  Dhan answers and its expiry is known (`mayFail` and `dated` of section 2.6): `RenewBefore` is at least two looks and less than
  `TokenLife`. `MatsyaKept`: the token is never more than one look inside the window, and a refresh
  that writes back what it read costs one look of the recorded life.
  TLC finds `NeverRunsOut` violated with each window one step narrower, and with one failure more. With
  the default of 180 minutes and a look every 15 the windows are twelve looks wide: ten failing
  calls in the life of a token are survived.

**`OperationsProofs`**, of the eleven systems that `operations` picks from; their constants are
those of `MCOperations`, given values by the configuration
* `Recorded`: `Spec => []ContinuityRecorded`. `ContinuityInv` says of every stage of an invocation what
  it knows of the disk (`StageInv`): from the filled record on, the record is its own and holds what
  was approved; before `created` and `unchanged` both files hold what the record says or what a
  strategy's job has put there since. Only one invocation can be past the record's creation, so
  two that overlap do not disturb each other's stages.
* `CandlesHold`: `Spec => []CandlesDerived`. Of the store, `IntradayInv`: an accepted day has a price
  for every minute, a command that has loaded a day holds what is still stored (one command at a
  time, section 2.7), what is derived is derived of it. That longer candles say what the shorter
  ones say is arithmetic: with `j` a multiple of `i` a bucket of `i` lies in one of `j` (`Nested`),
  and the extremes of the parts are those of the whole (`OneRollsUp`). Of the mirror, `MirrorInv`:
  between an export and the new watermark (`Delivers`, `Delivered`), of each row the sync has the
  newest version, or that version was open at the export, or its transaction began no earlier than
  anything the watermark may be set to (`Late`). The lock, held from the choice of mode to the
  watermark, is what lets only one sync be at that.
* `Truthful`: `Spec => []ScansTruthful`. Of the research scans, `ScanInv`: what the run at work has
  counted so far is what it has written (`AtWork`). Of the radar, `RadarInv`: items are of sessions the
  stock traded and count no more candles than follow (`ItemFits`; a replay's date has a whole horizon
  behind it, `Followed`), the call at work holds only such items and dates between its transactions
  (`WorkFits`, `DatesFit`), and a promoted date has one hit and one candidate and was eligible
  (`PromotionFits`). Sessions, runs and hits are only added (`Grows`), so none of it is undone.
* `Honest`: `Spec => []LabelsHonest`. `LabelInv`: every label, also one that the resolver has yet to
  write, says of the full window behind its day what the stored candles say (`Says`), unless a candle
  there changed after its day had gone by (`Clear`). Windows are counted by rank: a day that comes
  moves no full window (`DayCame`, by `WindowAdded`), and a day filled in or corrected either lies
  behind the window and leaves it, or is recorded as a change (`DayChanged`). That the verdict of
  `classify_outcome`, which looks at the first day that reached a barrier, is what a label claims is
  `ClassifySays`. Of the training jobs, `JobInv`: all but the newest are cancelled.
* `ReferenceTrue`: `Spec => []ReferenceTruthful`. `RefInv`: of each table the active rows are those of
  the newest import that committed rows, and no import has seen a row of another segment. The rows of
  the transaction at work are related to it by what it has seen so far (`ImportFits`): a row is its own
  or as it was, what is active and not its own is what `CommitRows` will switch off, its insertions are
  the keys whose first sight it is, and its counts add up, line after line. `RunsTrue` puts
  it and `Truthful` together, as the run checks them: `Spec => []RunsTruthful`.
* `DeskTrue`: `Spec => []DeskAddsUp`, by `DeskInv`, which does without the order in which things happen
  but for what is still to do. `WorkSuits` says of every item left that the row it is about is still
  there in the state it was listed in (a pending order, an open position, an active candidate), and
  `Behind` which items may follow which: what is filled or closed now is not listed again behind
  it, and nothing is placed behind a list already made. Of the tables: one candidate and one order
  for a session of the signal; a position is of a filled order and has counted the candles from its
  entry on, of which none reached stop or target (`Counts`); an outcome is of a position or of an order
  that a reset removed for good (`OutcomesFit`: ids are never used again); a label says nothing that
  the reason of the close excludes (`LabelFits`). Cash and result are sums over the positions
  (`DeskCost`, `DeskGain`), moved by a fill, a mark and a close (`FillMoves`, `MarkMoves`, `CloseMoves`).
  The journal's sum is the same since each order has one row, that of the candidate which shows it
  (`JournalRows`, `RealizedIsGain`). That the lists the code sorts exist, each row once, is `ListAgenda`.
* `LoggerTrue`: `Spec => []LoggerAddsUp`. `LoggerInv`: the saved book fits what has been closed
  (`BookFits`: one claim per symbol within the slots, `OneEach`; dates and rows that can follow
  each other, `ClaimsFit`, `RowsFit`; cash, cost and gains add up, `Balanced`), and so does the book in
  memory with what the run has closed besides (`BookWorks`), one fill, exit, ageing or order after the
  other (`BookFilled`, `BookClosed`, `BookAged`, `BookOrdered`). A position may be aged only where the
  run's date has added a session it was held or a forced repeat has (`MayAge`), and only while the run
  has yet to look at it. From the save on each close is in exactly one of the ledger, the run's memory
  and what a death lost (`LedgerInv`).
* `Kept`, `ResearchKept`, `LabelsKept`, `ReferenceKept` and `DeskKept`: eight conjuncts of the action
  property `NothingGoesBack`, `CreateOnly`, `NeverGoesBack`, `EndedScansStay`, `OutcomesGrow`,
  `LabelsStay`, `CancelledStays`, `KeysStay` and `CandidatesFinal`.
* `NoLookAhead`: of the ninth, `PastStays`, what it says of regimes, Drishti hits, pivots and candle
  reports, for any windows with `RANGE_WINDOW <= SMA_WINDOW + SLOPE_LOOKBACK` (else the first regimes
  would read sessions before the first). The invariant is no more than that `history` is a non-empty
  series of candles (`SeriesInv`); a step adds one (`OneMore`), and every window that a detector reads
  for a session it has decided ends by the session that decided it: `RegimeSame`, `HitsSame`,
  `PivotsKept` (a pivot is decided `DEFAULT_PIVOT_RIGHT` sessions later), `CandleSame`. A hit's best
  high is compared through the greatest of a finite set (`BestHighHere`).

Only model-checked:

* liveness (`LedgerCatchesUp`, `OrphanRemoved`, `EverySessionProcessed`, `MainRunsEnd`, `WaitsEnd`),
  which is beyond the prover;
* of the series, `SeriesReadRight` and the conjunct of `PastStays` on ended moves (`EndedMovesStay`):
  moves, segments, pivot clusters and first breaks are folds over the candles, and what a fold computes
  for every input is an induction over data, of which the prover cannot say anything.

## 6. What is not modelled

| part | reason |
|---|---|
| ledger reconstruction | a one-off offline replay into a new directory, one process; it refuses an existing directory |
| Matsya API, market-data reads, ingest and reports | reads, record conversions and single-transaction upserts. The report of a paper strategy reads the state file and the daily report one after the other, so the two may be of different instants |
| ML data sets, training, scoring, research scripts | offline and numeric, one process each; nothing that a small state space would decide |
| HTTP application, configuration, Dhan client | routing and I/O; their answers are free choices in the models of their callers |
| front ends | display |

Left out within modelled components:

* engine and worker: feed-health fields, packet counters, the loop over the two strategies (each is
  an instance), subscription changes;
* engine: an exception while the trade ledger is rewritten, which the feed loop catches
  (`matsya_intraday_paper_worker.py:154`): the worker serves ticks with a ledger behind the log until
  the next synced tick. In the models only a death leaves it behind;
* wrapper: the trade rows of a date are one step (`v8_demo_trader.py:201` appends them one by one), and
  `Finish` looks at the sessions stored then, where the job uses the `latest` it read at the start,
  which does not enter the label;
* traders: order, watch and scan CSVs, dry-run modes. In `PaperContinuity` and `EodTrader` signals and
  prices are free choices; their computation is in `StrategySignals`;
* forward logger: friction, ranking scores, `liquidity_cap` beside the target allocation and the files
  that are only written;
* continuity initialisation: the reads between two comparisons are one step;
* fetches: each universe has one lookback, where a request may bring its own of 1 to 365 days
  (`main.py:461`); the run's state and its update, two connections, are one step; Matsya reads the
  newest candle itself where `reusable_current_window_run` reads the date kept in the archive rows; an
  exception in the no-data branch, which ends Matsya's worker, is a death.
  `scripts/matsya_fetch_ohlcv.py`, an operator's tool, upserts any range outside the protocol and may
  leave an archive with a gap;
* detectors: candle reports and levels are functions of the whole series, where the code reads the
  last 120 and 365 candles (`candlesticks.py:46-56`, `support_resistance.py:37-47`): beyond that
  length the first sessions of the window are read again with fewer predecessors, and `PastStays` does
  not speak of them;
* scans: the rows of a stock have one run id, where rows that a purge (off by default) keeps have that of
  the earlier run;
* labels: `Generate` is one step (a transaction for each sample in the code, none of which another
  step can see differently), the gate sees the whole report (500 items in the code), and the run has
  one of the two shadow models (`hgb`);
* desk: the journal is whole, where the code limits it to 200 or at most 500 rows and sums up those;
* both fetches: pacing between requests, logging and the wording of errors; the script that starts the
  candle mirror;
* data quality: the wording of the report; ML: the feature columns;
* desk: the review by a language model is a free choice of verdict; report texts and automation
  switches. Its services are retired from the HTTP runtime (`docs/layers.md`) but are still in the
  code, and the shadow scripts read the tables.

Two observations on the desk, which no document denies: a death between `close_position` and
`upsert_trade_outcome` leaves the outcome of a closed position open until its row is next written, and
an order without an entry ceiling may fill above its target. `candle_groups` groups by instrument id,
so an ISIN with two active instruments counts twice.

## 7. What is left

The model covers the protocols of the system. Every safety invariant of a passing run but
`SeriesReadRight` is a theorem, and so is every action property but for `EndedMovesStay`, a part of
`NothingGoesBack`. Of `SeriesReadRight` the consistency of the radar's verdicts (`VerdictsConsistent`)
is not recursive and could be proved; the rest stays with TLC, as liveness does.

## 8. Running it

    tlc -workers 2 -config PaperEngine_account.cfg MCPaperEngine.tla
    tlc -workers 2 -config PaperEngine_lifecycle.cfg MCPaperEngine.tla
    tlc -workers 2 -config PaperStateLock_lock.cfg PaperStateLock.tla
    tlc -workers 2 -config PaperContinuity_epoch.cfg MCPaperContinuity.tla
    tlc -workers 2 -config CandleFetch_fetch.cfg MCCandleFetch.tla
    tlc -workers 2 -config MatsyaFetch_matsya.cfg MCMatsyaFetch.tla
    tlc -workers 2 -config MCTokens_tokens.cfg MCTokens.tla
    tlc -workers 2 -config MCOperations_operations.cfg MCOperations.tla
    tlapm DataLemmas.tla
    tlapm PaperEngineProofs.tla
    tlapm PaperStateLockProofs.tla
    tlapm PaperContinuityProofs.tla
    tlapm CandleFetchProofs.tla
    tlapm MatsyaFetchProofs.tla
    tlapm TokenProofs.tla
    tlapm OperationsProofs.tla

`PROJECT.json` lists the runs with their properties, the mutants, the hazards of the code at
their lines, and for every definition the source lines it stands for. `operations` is the longest
run (about 3.7 million states, three minutes), then `lifecycle` and `fetch`; the others take
less than a minute.
