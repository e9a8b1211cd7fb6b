# Scope Candles in TLA+

Scope Candles brings one MetaTrader 5 broker's minute candles into ClickHouse and its live
quotes into Redis, and serves both over HTTP. This directory models its parts and how they meet,
checks them with TLC on small instances, and proves the safety of the candles worker, the
supervisor, the price stream, the routes with their connection pool, the server clock and the names
with TLAPS for every instance. Line numbers refer to the files under `src/`.

## 1. The system

```
 API process ── supervisor ─┬─ child "candles": one loop ── terminal 1 ── ClickHouse
   │  routes                └─ child "price":   one loop ── terminal 2 ── Redis
   └─ ClickHouse, Redis (reads)          pipes carry heartbeats only
```

| component | state | operations | talks to | what makes it correct |
|---|---|---|---|---|
| candles worker (`workers/candles_worker.py`) | catalogue snapshot, states, due times, empty counts, `REPAIR_SINCE` | refresh, regular pass, backfill, repair, prune, error handling | terminal by calls, ClickHouse by inserts and queries, supervisor by heartbeats | nothing received is lost; holes heal; the watermark tells the truth; every symbol gets its history |
| candle store (`storage/clickhouse.py`) | `candles`, `sync_state`, `symbols`, `symbol_state` | insert, set watermark, read watermarks, write states | worker (writes), routes (read), operators (SQL) | finished minutes only, nothing removed, watermark forward onto a stored minute |
| connection pool (`ClientPool` in `storage/clickhouse.py`) | list of idle connections | acquire, release, discard, close | threads of the routes, lifespan | a connection has one user, none leaks |
| catalogue rules (`symbols/catalog.py`) | none | `reconcile`, `limit_extra` | candles worker | a glitch delists nothing; a symbol that returns keeps its history state |
| requests (`mt5/fetch.py`) | none | `copy_rates`, `daily_history`, `last_quote_at`, `read_tick`, `chunks` | terminal | a window is `[start, end)`; no answer is not "no data" |
| price worker, Redis (`workers/price_worker.py`, `storage/redis_store.py`) | `watched`, `seen`; keys with a TTL, channels | subscribe, poll, pipeline | terminal, Redis | every change is written and pushed |
| price routes (`api/routes/prices.py`) | one pubsub connection per socket | subscribe, snapshot, forward | Redis | no gap between snapshot and stream |
| supervisor (`workers/supervisor.py`, `protocol.py`) | child: process, pipe, reader task, status, backoff | start, spawn, read, reap, terminate, stop | processes, event loop | one process per terminal, as far as processes can be ended; what is dead or hung is replaced; stop ends |
| candles route (`api/routes/candles.py`) | none | admit, resolve, count, select | pool, store | an answer is whole or refused |
| status and symbols routes (`api/routes/status.py`, `symbols.py`) | none | read symbols, watermarks, states; ping | pool, store | what is announced is served; three reads do not contradict each other |
| server clock (`mt5/clock.py`) | offset segments | measure, convert | terminal | the UTC minute of a broker label |
| terminal (`mt5/terminal.py`) | module handle, login, lock | connect, login, reset, start gate | MetaTrader5 | one login, restart after loss |
| names (`symbols/normalize.py`, `resolver.py`) | alias table | normalise, choose, look up | workers, routes | a symbol is found under the key it was stored with; both workers mean the same instrument |
| application (`api/app.py`, `main.py`) | supervisor, pool | lifespan: start, stop, close | | children before requests, pool last |
| configuration, logging, deployment, tests | | | | |

What is hard here: the terminal answers from a history that fills in behind the worker's back;
the two writes of a window (rows, watermark) are not atomic and either may fail; state read at
the start of a phase is used for hours; the price pipeline is not a transaction; the supervisor's
coroutines interleave at every await and can be cancelled at any of them; the routes read several
times while the worker writes, on connections that threads share; the broker's offset from UTC is
inferred from gaps in its history and used before it can be confirmed; two workers pick the
broker's name of a series independently. `PROJECT.json` lists each hazard at its line, with the property that watches it.

## 2. Modules

| module | models | how |
|---|---|---|
| `SymbolCatalog` | `reconcile` and the row properties of `SymbolState` | operators over functions symbol → row |
| `CandleLog` | what the store promises its readers | abstract specification: `Tick`, `Append`, `Advance` |
| `CandlesWorker` | the loop of the candles child | one action per call to the terminal or ClickHouse; `pc` is the place in the code, `job` the locals of the symbol in hand, `marks`/`todo` those of the phase, `memory` what survives an iteration but not a restart |
| `CandlesProperties` | its properties | invariants, action properties, liveness, `CandleLog` as its specification |
| `CandlesOperator` | worker and an operator who rewinds a watermark | composes `CandlesWorker` with `Rewind` |
| `Terminal` | `MT5Terminal` and the program behind it | the handle of the worker, the process it may have outlived, the outcomes of a call |
| `PriceStream` | price worker, Redis, WebSocket streams | one command of the pipeline per step; extends `Terminal` |
| `OneTerminal` | what the supervisor promises the terminals | abstract specification: `Start`, `End` |
| `Supervisor` | `start`, reaper, `stop()`, readers, worker processes | `pc` at each await of the one coroutine that spawns and terminates; implements `OneTerminal` |
| `ClientPool` | the pool of connections | one action per critical section of its lock, one per connect and close |
| `Api` | candles, symbols, status and health routes, end of the lifespan | one query per step; composes `ClientPool` (its threads) with `CandleLog` (the worker, as the routes see it) |
| `ServerClock` | measuring and using the broker's offset | weeks of a few hours; a broker that switches, closes for holidays; `Measure`, `Tick`, `Sweep` |
| `Names` | normalisation, choice, catalogue, feed, lookup | names are tuples over a small alphabet |
| `CandlesProofs`, `CandlesHoleProofs` | theorems about the candles worker, the last about holes and the operator | section 5 |
| `SupervisorProofs`, `PriceStreamProofs`, `ClientPoolProofs`, `ApiProofs`, `NamesProofs`, `ClockProofs` | theorems about the module each is named after | section 5 |
| `MC*` | values of constants | used by the `.cfg` files |

The pieces meet where the program's do. `Api` takes the worker's writes from `CandleLog`, and
`CandlesWorker` is shown to implement `CandleLog`, so what `Api` meets is what the worker may do.
`ServerClock` stands between the terminal's labels and the minutes `CandlesWorker` works with;
`Names` between the broker's names and the symbols of all other modules.

### Candles worker

`RefreshCatalog`/`CatalogEmpty` are `_refresh_catalog`; `BeginPass`, `Requeue`, `StartSync`,
`SkipIdle`, `SyncWindow`, `SettleWindow`, `InsertRows`, `SetWatermark`, `SyncDone` are `_run_pass`,
`_sync_symbol` and `_settle`; `BeginBackfill`, `TakeQueued`, `Daily*`, `FillWindow`,
`DeadlinePasses`, `FinishBackfill`, `QueueDone` are `_run_backfill` and `_backfill_symbol`;
`BeginRepair`, `SweepSymbol`, `MendWindow`, `EndRepair` are `_run_repair` and `_repair_symbol`;
`Rest` is the pruning at the end of an iteration. `SkipFailing`, `WriteFails`, `MendFails`,
`StateWriteFails`, `IterationFails` are the except clauses, each with what the failed call may
have left in the tables, and `Crash` the death of the process. `Tick`, `Download`,
`RepairComesDue` and `CatalogComesDue` are the world: the clock, the terminal's download, the two
timers.

Abstractions. Time is in minutes and a candle is its minute; prices are left out. Bars are already
in UTC (the clock is a component of its own). A day of the broker, the unit of the D1 bars, opens
`Ahead` minutes before a day of UTC, by its clock's distance (`DayOpen`); that this distance changes
with the season is left to `ServerClock`. A terminal request is answered from `local`, both ends
included, and filtered to the window as in `copy_rates`; the retries inside one `copy_rates` call
are one step. `Refusals` says whether the terminal may answer with an error code that is not an IPC
failure. `daily_history` ends in one of three ways (`DailyFound`, `DailyEmpty`, `DailyUnstable`);
that two agreeing answers may be those of an unfinished download is in: `DailyFound` takes what is
local at that step. The request lists the days that open inside it (`KnownDays`), so the day of the
start date is listed only where it opens no earlier, and is otherwise reached by the step back of
`BackfillStart` (`candles_worker.py:446`), provided the next day is one of trading. `Wanted` in
`CandlesProperties` is what this leaves: the bars a backfill reaches. `existing_minutes` and the
insert of a repair window are one step: only the worker writes candles. A failed insert leaves a
prefix of its rows in time order. The count of empty backfills stops at the limit it is compared
with.

### Price stream and terminal

`Relist` and `PollOn` are the two ways into a poll (`price_worker.py:57-64`), `ListSymbols` and
`ListFails` the ends of `_subscribe`, `ReadTick` and `EndRead` the loop of `_publish`, `Execute` one
command of its pipeline; `PipelineFails`, `StartFails` and `ListFails` are the except clauses;
`Restart` is a new process. `Accept`, `Subscribe`, `SendSnapshot`, `SendMessage`, `Leave` are the
awaits of `stream_price`. A quote is the number of its tick. A key expires at any moment, which
covers its TTL and a Redis that lost its data; sockets may close at any moment. redis-py's own
connection handling is left out: a pipeline either executes a command or fails there.

`Terminal` keeps the worker's handle apart from the program (`running`): `connect` trusts a handle,
a call of a dead program fails with an IPC code, and only `check_call` with the probe that follows
decides that the terminal is lost. `read_tick` checks nothing, so a dead terminal looks like a
silent broker until the list of symbols is 15 minutes old.

### Supervisor

The coroutine of `start()` and of the reaper is one: both walk over the children, spawn and
terminate. `caller` says in which loop it is; `stop()` continues it after the cancellation. Steps
between two awaits may be several actions (`visit`, `release`, `spawn`), and `Stop` is possible at
awaits only. A reader is a record in `readers` because a task that was not cancelled would live on
beside the next one. A heartbeat is old when the timeout has passed; for a process that works this
counts as a fault, as does a slow start. `Cancellable` is the set of awaits a cancellation really
leaves the reaper from: the await on a cancelled reader (`supervisor.py:158-161`) is not in it,
because the `except CancelledError` there cannot tell the reader's cancellation from its own.

`_terminate` drops the handle first (`Detached`) and then tries to end the process. It may fail to:
`terminate()` may raise (`TerminateRaises`), `join()` or `kill()` may raise, or the process outlive the
five seconds after `kill()`, which nothing looks at (`NotEnded`). Each is a fault, and each goes on as
if the process were gone (`LeftAlive`): the reaper starts the next one. `orphans` holds the processes
that lost their handle alive, in one of these ways or because `stop()` cancelled the join. Nothing but
their own end removes them, and that may come at any time or never.

`OneTerminal` sees of all this only which processes exist: a worker's next process starts when none
of its processes is left but orphans. `README.md:18` ("One terminal per OS process, no exceptions") knows no such
exception.

### Routes and pool

`AskCandles` to `Respond` are one request on its thread: borrowed connection, queries one by one,
the end of the `with` block, the answer. `Worker` is the candles worker as `CandleLog` has it, one
minute an insert, with the rows of `symbols` and `symbol_state` reduced to `entry`. There is one
symbol: requests of two do not meet anywhere but in the pool. Buckets are divisions of the minute by
the length of the timeframe. `Ping` may answer either way, since the workers' health is not the
store's matter; a connection whose read raised is closed in `Leave`, any other may go back, whatever
the answer. `Shutdown` waits for the requests as uvicorn does; `closed` ends the service, and `Over` is
that end as a step.

In `ClientPool` a thread is `out`, has found the list empty (`missed`), holds a connection (`lent`) or
is closing it. `close()` empties the list in one step and closes its connections one by one, which a
late `release` might overtake.

### Server clock

The unit is the hour and stands for the minute; `Week` and `Open` are small, and the offsets, the gap
and the switch lengths of the code become 1, 2 and 3. New York's own switch, by which the code
dates the closings, cancels out of the difference it takes and is left out, as are the rounding to
half hours and symbols that trade through the weekend. `Opening`, `Quoted` and `Label` are the broker:
a week begins at its opening, a holiday takes hours before its closing, a bar carries its hour plus
the offset of its week.

A history is the set of its labels. `Weekends` is `_weekends`: a function from the label that ends a
gap to what the closing before it says of the offset (`FridayClose`, `Reading`), over the gaps that are
near enough to a closing (`Plausible`). `Steps` is the loop of `_steps`, a fold over the labels in which
`Taken` is one turn, `Following` the slice of later weekends and `Since` the opening of the weekend
before. `Measure` is `measure_history_clock` with its fallbacks on the scan and on the tick, from a
history that begins anywhere. `Sweep` is `copy_rates` with `to_server` at both ends and `to_utc` of
every bar. `ClockAssumption` states what the options of `clock.py` and a weekend of two days satisfy:
an offset is shorter than half a week and than a weekend, a weekend is a gap even across a switch, and
enough weekends to confirm one are enough to measure.

Three premises appear in the properties, each a fact the code cannot check: `TickWasFresh` (a tick on a
holiday is old), `Settled` (the first weekends after a switch were regular, and not every closing
before the next one was mistaken) and with it `Known`; what happens without them is a hazard on the
list. `Mistaken` names the closings a holiday spoils: skipped, or read as those of the next season.

### Names

`Normalize` follows `normalize` step by step: trim, tails, suffixes, separators, upper case. The
alphabet has one or two characters of each kind the code distinguishes. Every step that drops
characters is `Kept` of the places it lets through, which says in one definition that the order stays;
`limit_extra` likewise returns the places it lets through, since TLAPS knows nothing of `SelectSeq`. `Chosen` is the choice among
names of one key, made from an answer in any order; `Refresh` is what the candles worker keeps of it
(rows are never deleted), `Subscribe` what the price worker watches, which lists no extra groups.
`Resolution` and `Canonical` are the two lookups of the routes. Suffixes hold a small letter, as the
defaults do, so a key never ends in one.

## 3. Runs

Passing (`expect: pass`):

| run | question | bounds and why they are enough |
|---|---|---|
| `prompt_terminal` | does any error or crash leave a hole when the terminal answers fully, and is a rewind at rest respected? | worker and operator; two symbols, empty tables; days of two minutes that open one minute before those of UTC, so that the day of the start date opens before it; the next day is one of trading for the first symbol, whose step back reaches the first day, and closed for the second, whose does not; windows of two minutes, batches of two, so that a batch ends inside and between windows; two faults, so that a failure hits the recovery from another; a range to delete with candles on both sides of it and one to come |
| `slow_terminal` | are received rows kept while the terminal is still downloading, does the store keep `CandleLog`'s promise? | history empty at first, downloads in any order, windows of one minute, retries 2 so that answers grow and a refused one follows a full one, pruning, a start date after the first bar, days as above, candles without a watermark for one symbol |
| `heals` | does every hole close, does every backfill end, is no symbol forgotten? | fair; a lookback that covers the history; windows of three minutes, so that the history takes two; a bar on each side of a gap, so that the watermark can pass a hole; one fault or refusal; a symbol given up on after one empty answer, so that it goes round through done and pending and has to come back; days as above, with the start date's own out of the daily request |
| `price_stream` | does a served socket show what Redis holds, is every lasting tick written and pushed, is a dead terminal started again? | fair; one symbol (symbols share nothing but the order in the pipeline), two ticks, one failing pipeline, three deaths or restarts, one socket that leaves and returns |
| `supervision` | one process per terminal but those `_terminate` failed to end, no ghost heartbeats, nothing else left after stop; are dead and silent workers replaced, does stop end? | fair; two children, any of them with a terminal path; three faults less one for each child with one, among them failed attempts to end a process; pipes of one message, stop at any await |
| `api` | are connections shared or leaked, does a request wait for another, is an undisturbed answer whole, do the routes agree? | two threads, one for candles and one for the rest; a list of one and three connections (interchangeable), so that the list is empty, full and raced for; a limit of two rows, frames of one and two minutes, so that counts are below, at and above it, also under rows inserted between count and select; one failing call; one candle at first, the clock moves once from 2 to 3, no lag |
| `clock` | do known weeks convert exactly, do holidays stay out, is a request whole? | eight weeks: three before a switch, three to confirm it, two beyond; one switch up or down anywhere, one holiday of one hour (as long as a switch) or four (no weekend any more) anywhere; history from week 0 or 2; acting early and late in the week and on the weekend |
| `names` | is a symbol found under its key, with its digits, from the same name by both workers, by both routes? | five names: two decorations of one key of equal length, two names of another key, one of them in an extra group, a third key in that group; a cut to one extra name; all spellings of three characters; the list changes once |

Deadlock is checked in every run. Where the system really ends, the end is a step: `Over` in `Api`,
`Supervisor` and `ServerClock`.

A larger bound adds repetitions: the candles loop forgets everything but `memory` and the tables
between iterations, and two faults are enough for one to hit the recovery from the other. The theorems of
section 5 hold without bounds.

Violations (`expect: violation`), each a statement of the documentation the code does not keep;
the findings in `PROJECT.json` quote the line:

| run | what the counterexample shows |
|---|---|
| `budget_runs_out` | windows without candles keep no progress: a silence longer than the budget is read again from its start for ever |
| `start_day_lost` | the broker's day of the start date opens before it, the next day is closed: the backfill starts after the start day's minutes and is recorded as done without them |
| `truncated_answer` | an insert between count and select makes a truncated 200 |
| `stored_in_utc` | between a switch and its confirmation, the weeks before the current one are converted with the old offset |

More places where the code does less than one may expect are part of the models and visible in the
premises of the properties:

- `HolesAreRewound` and `FinishedIsComplete` speak of the bars in `Wanted` (see `start_day_lost`);
  `FinishedIsComplete` asks that two days have passed since the start date, because before that the
  listed day that gives the start date's own away may be to come.
- `BackfillEnds` and `NeverForgotten` speak of symbols with a day a daily request can list.
- `FinishedIsComplete` is checked without refusals only, because a refused window counts as empty
  (`fetch.py:79`); `EventuallyComplete` leaves out a symbol whose watermark was lost in a crash
  between the last rows and the watermark (`candles_worker.py:449`, and the repair's skip in 519-521).
- `RewoundIsAhead` is checked for an operator who waits for the loop to rest: a pass under way
  writes its watermark over the operator's (`candles_worker.py:291`).
- `QuoteIsWritten` assumes that no pipeline fails any more: a quote whose pipeline failed counts as
  published until the next tick (`price_worker.py:130`).
- `ImplementsOneTerminal` and `StoppedMeansGone` leave out processes that lost their handle alive
  (`supervisor.py:164-180`, so two processes may be on one terminal); `DeadIsReplaced` asks for a process with a handle.
- `AnnouncedIsServed` leaves out an answer under which rows were inserted and which is as long as the
  limit: `LIMIT` may have cut it (see `truncated_answer`).
- `SilentIsReplaced` leaves out a worker that reported `failed` and then hangs (`supervisor.py:193`),
  `StopEnds` a cancellation that `_terminate` swallows (`supervisor.py:158-161`).
- `ShownDoneIsDone` leaves out symbols without a last candle: between `upsert_symbols` and
  `write_symbol_states` a new symbol shows its backfill as done (`symbols.py:47`).
- `PriceIsOfTheSymbol` holds while no alias is a broker's name (`resolver.py:73-76`).

Every property of a passing run has a mutant of the code (`PROJECT.json`, `mutants`); the mutated
forms stand in the modules before the definition they change, marked "Mistake in".

## 4. Fairness

- Candles worker (`Fairness`): the loop goes on (one sequential thread; sleeps end), downloads
  end, the repair interval passes. Strong fairness of `TakeQueued` and `FillWindow`: the deadline
  is counted from the end of the pass (`candles_worker.py:86`), so with a positive budget it does
  not always fall before the first symbol and the first window. Nothing is assumed of the clock,
  the refreshes or failures; faults are bounded by `MaxFaults`.
- Price stream: the worker's loop and every socket's coroutine are scheduled; the list of symbols gets
  old after 15 minutes whatever the polls find, hence strong fairness of `Relist`. Ticks, expiry and
  failures are not fair. The properties ask that the symbol stays watched: a `select` that fails
  for ever is not the worker's doing.
- Supervisor: the event loop runs what can run, a working process sends its id, time passes for
  a silent one. Heartbeats, faults and `stop()` are not fair.

The routes, the clock and the names are checked for safety only, without fairness. `NobodyWaits` is the
part of liveness that needs none: it asks whether a thread at a request has a next step (`ENABLED`).

## 5. Proofs

All proofs are checked by TLAPS for all values of the constants, from the named assumptions of the
modules, which TLC evaluates in the runs. The parts of each inductive invariant were checked by TLC
before they were proved.

### Candles worker (`CandlesProofs`)

For all symbols, options, histories and fault counts, from `SymbolsAssumption`, `RatioAssumption`,
`OptionsAssumption` and `EnvironmentAssumption`.

1. `TypeInvariant`: `TypeInv` is `TypeOK` with `Control`: where the loop stands decides whether it
   holds a symbol, the symbol comes from the phase's `todo`, and that from the catalogue.
2. `SafeInvariant`: `Safe` is inductive relative to `TypeInv`. `ReceivedIsStored` alone is not:
   it needs to know that the watermarks read at the start of a phase are still those of the
   symbols to come (`MarksFresh`), that the job moves forward (`Forward`: mark ≤ newest row read <
   next window, rows not yet stored are beyond the watermark), that a watermark is a stored minute
   (`MarkStored`), and that only finished minutes are asked for (`OnlyOver`).
3. From these: `TypeCorrect`, `CatalogIsTracked`, `ReceivedIsNeverLost`,
   `PassNeverReadsFullHistory`, and `RefinesCandleLog`: initial states map to initial states of
   `CandleLog`, every step to `Tick`, `Append`, `Advance` or a stutter.

### Holes, and the operator's rewind (`CandlesHoleProofs`)

Three premises, as in the runs: no refusals (a refused window counts as empty, `fetch.py:79`), a store
that starts without holes, and `PromptTerminal`: the terminal holds every bar of a minute that is over.
`HoleFree` (no bar a backfill reaches is missing before the newest candle) is not inductive, since
nothing in it says that what is written next leaves nothing out. `CoverInv` does: every bar a backfill
reaches (`Wanted`) up to a watermark is stored, or, where the watermark is missing, every bar up to any
candle (`MarkWhole`: both are what a phase may start from after a crash); every bar before the next
window is stored or in the buffer, which is before it (`Covered`); a repair stays before the watermark.
It rests on `MarksFresh` and `Forward` of `Safe`. A failed insert keeps it because it leaves a prefix of
its rows in time order, a failed repair because everything it writes is before a watermark that already
vouches for it. A backfill begins before every bar of `Wanted` (`WantedIsListed`, `DayIsListed`): such a
bar's day, or the one after it, is listed, because days are `Day` apart (`DaysApart`). What `CoverInv`
gives of a step is that it stores in order (`StepStoresInOrder`): nothing is removed, and no bar left
out before one that is stored.

Theorems: `WatermarksAreTrue` (`CoverInv`), `NoHoles`, `FinishedHistoryIsComplete` for any number of
faults; `NoHolesInHeldHistory` with premises on the constants alone (the terminal starts with its
history, no pruning), which shows that `PromptTerminal` is not empty.

The operator, provided he waits for the loop to rest: `OperatorInv` joins the above with `Remembered`
(a minute remembered as deleted is not stored). `OnlyRewoundHoles`: what is missing is the operator's.
`RewoundStaysAhead`: it is beyond the watermark, if what he deletes is what the broker still has and a
backfill reaches (`DeletesBars`; anything else cannot come back).

### Supervisor (`SupervisorProofs`)

For all registered workers, lengths of the pipes and fault counts, from `SupervisorAssumption` (no
worker is registered twice). `SupervisorInv` joins `TypeOK` and `StatusIsCurrent` with `Visits` (the
coroutine's place fixes its caller), `Heard` (a reader belongs to the present process, whose id it
never sees, and is gone before the handle is dropped), `Held` (a process is the last of its worker
and has its handle, is being joined, or is an orphan), `Unvisited`
(children `start()` has yet to visit have no process) and `Gone` (what `stop()` has visited is gone or
an orphan). `Held` is what `OneTerminal` needs: at `spawn` the child has no handle and nobody
joins it, so it has no process but orphans. Theorems: `TypeCorrect`, `StatusStaysCurrent`, `NoneLeftAfterStop`,
`RefinesOneTerminal`.

### Price stream (`PriceStreamProofs`)

For all symbols, sockets and bounds. `ServedIsCurrent` speaks of a socket with nothing waiting; what
is inductive is `Told`: whenever Redis holds what the worker remembers, the newest quote of every
socket, sent or waiting, is that one, or its PUBLISH is still queued. It needs `Paired` (a queued
command carries the remembered quote, a SET is followed by its PUBLISH), `InOrder` (a symbol is queued
once per poll), `Deaf` and `Homeless` (what a socket that is not subscribed may have). Theorems:
`TypeCorrect`, `SocketsAreCurrent`.

### Pool and routes (`ClientPoolProofs`, `ApiProofs`)

For any threads, connections, size, row limit and frames. `PoolInv` is `PoolTypeOK`, `NeverShared`,
`NothingLeaks` and the finiteness of the list, which the bound on its cardinality needs: `PoolIsSafe`.
`ServiceUsesPool` shows that every step of `Api` is a step of `ClientPool` or leaves it alone, and
`ConnectionsAreSafe` and `ConnectionsAreKept` carry the promises over to the service; the latter adds
that a thread with a connection is at a request (`lent` follows `pc`), and that nothing is open after
`close()` but what it is still closing (`Shutdown` finds no thread with a connection).

What the routes answer rests on `ApiInv`: `TypeOK`; the state of the store (`LogOK`); what was announced
is stored with the watermark at or beyond it (`Stands`); and `ThreadInv`, what each thread knows between
two queries: the fields it has read agree with the query it is at (`Kind`), a counted window that
nobody has written since has at most `MaxRows` buckets, and a reading that will show `done` with a
candle is of a symbol that is done (`ShownRight`). The store's own monotony (`LogGrows`, from
`CandleLog`) carries what one thread knows across the steps of the worker and of the others.
`LimitAgreesWithCount` is the lemma about the two queries: where the count is within the limit, the
`LIMIT` cuts nothing. An answer with fewer rows than the limit is one `LIMIT` has not cut, whoever wrote meanwhile, which is
the second case of `AnnouncedAreServed`. Theorems: `ApiTypes`, `ShownIsRight`, `QuietAnswers`,
`AnnouncedAreServed`.

### Names (`NamesProofs`)

For any suffixes, aliases, names, limits and lengths of spellings, over the alphabet of the model.

1. Texts. The places kept of a text are enumerated in order (`Rank`, `PlaceOf`), and two selections
   related by an increasing bijection give the same text (`SameKept`). With it each step of
   `normalize` is shown to keep the digits of its argument (a tail or a suffix that is cut has none),
   and a key to be unchanged by every step (`KeyIsNormal`): the key a symbol is stored under leads
   back to it. That suffixes hold a small letter and no digit is in `NamesAssumption`.
2. Choice. `Ahead` is a strict total order of the names of one key (`AheadIsOrder`: exactness,
   length, then Python's order of strings, which compares places of characters), so a finite
   non-empty group has one best name (`ChosenIsBest`), whatever the order of the answer.
3. `ChoicesInv`: `TypeOK`, and each worker holds, of the names it read last, the best of each
   key (`IsBest`). The rows keep the names of keys that are gone, so the statement is about keys listed.

Theorems: `NamesTypes`, `OneInstrument`, `FoundAsStored`, `DigitsAreNotLost`, and `PriceFollows` under the
premise the code states at `resolver.py:73-74`, that no alias is the key of a name of the broker.

### Server clock (`ClockProofs`)

For any number of weeks, lengths, offsets, holidays, switches, histories and moments of measuring, from
`ClockAssumption`. `ClockTypes` needs nothing else. The rest needs two premises:

- `CloseSeasons`: two offsets of the broker are no further apart than `_MAX_SWITCH_MINUTES`; a longer
  switch is never accepted (`clock.py:208`).
- `OneIsRegular`: of any weekends in a row that would confirm each other, one closing was regular.
  The code cannot tell holidays that agree from a switch: with three equal ones in a row TLC finds
  `HolidaysStayOut` violated. `FewHolidays` shows that no more holidays than confirmations is enough,
  so `ClockIsRight` has premises on the constants alone, which those of the run satisfy.

`KnownWeeksConvert` is not inductive: nothing in it says what the steps are. `ClockInv` adds `StepsInv`:
the steps are in order and each counts from an opening with its offset or from that of a mistaken week
(`Sound`), and for every week that can be known the last step that counts by its opening has the
week's offset (`HeldIn`). With `SweepIsWhole` this is inductive; TLC agrees on the run's instance. The
argument, in the order of the module:

1. A label lies in the week of its bar, and the closing nearest to one is the week's own, so the
   weekends of a history are the weeks seen from its beginning to now, each with the offset less
   what a holiday took (`WeekendsAre`).
2. What confirms and what counts can then be said of weeks (`ConfirmedIs`, `SinceIs`), and of three
   that confirm each other a regular one vouches for the offset (`OneVouches`): every reading that is
   confirmed is an offset of the broker, at its own week or at the switch the holidays before it
   anticipate (`ShownOrMistaken`, `NoFalseSwitch`).
3. The fold keeps, turn by turn, that its steps are in order and each stands for a confirmed weekend
   passed (`Gathered`; `TurnGathers`, `ScanGathers`), and that a settled week, once passed, is held from then on (`TurnHolds`,
   `ScanHolds`). Induction over the turns is by least counterexample (`Climb`), since TLAPS cannot
   instantiate an induction rule with an operator; so is the existence of the recursive function.
4. The pin of the tick adds one step at the current opening (`MeasuredSound`, `MeasuredHolds`).
5. A week that is held converts (`HeldConverts`), `to_server` keeps the order of moments across
   any switches of known weeks (`ToServerIs`), so a window neither loses nor gains a bar (`WindowIsWhole`).

Theorems: `ClockTypes`, `KnownWeeks`, `HolidaysAreOut`, `SweepsAreWhole`, `ClockIsRight`.

### Only model-checked

Liveness (`EventuallyComplete`, `BackfillEnds`, `NeverForgotten`, `QuoteIsWritten`, `ChangeIsPushed`,
`LostIsRestarted`, `DeadIsReplaced`, `SilentIsReplaced`, `StopEnds`) and `NobodyWaits`, which is made of
`ENABLED`: both are out of the prover's reach. Every other invariant and every safety property of a
passing run is stated by a theorem.

## 6. Not modelled

- `StartGate`, a second login and `forget_login` in `mt5/terminal.py`: the workers do not use them.
- `load_aliases` (reads a file), `symbol_exists` (not called), the DDL, `list_symbols`' search filter
  of `/symbols`, the bearer token, idle pings, middleware and routers.
- `GET /price/{symbol}` beyond its lookup (`Names`): it reads one key and answers.
- Configuration, logging and deployment: no state that changes.
- Real time: heartbeat age against the idle interval, backoff lengths, the two-second and
  three-second waits; the wording, timestamps and copied fields of rows and answers.

## 7. Plan

1. Done: the candles worker with catalogue, store and operator; price stream with its terminal;
   supervisor; routes on the shared pool; server clock; names. Proved: type correctness and safety of
   all of them; that a prompt terminal leaves no holes; the refinements of `CandleLog`, `OneTerminal`
   and `ClientPool`.
2. Open hazards without a property (see `PROJECT.json`): what one use of `REPAIR_SINCE` must reach, the
   backoff of a process that dies right after it is ready, the heartbeat timeout against the idle
   interval, old ticks on a holiday, the times of quotes while the clock is unknown.
