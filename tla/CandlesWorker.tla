--------------------------- MODULE CandlesWorker ---------------------------
(* The candles worker of src/workers/candles_worker.py: one sequential loop   *)
(* (catalogue refresh, regular pass, backfill, repair) between a terminal     *)
(* whose local history fills in behind its back and three ClickHouse tables.  *)
(* Every call to the terminal or to ClickHouse is a step of its own, so the   *)
(* clock, the terminal's downloads, errors of either side and the death of    *)
(* the process fall between any two of them.                                  *)
(*                                                                            *)
(* Time is counted in minutes; a candle is named by its minute.  The prices   *)
(* of a bar are left out, and bars are taken as already converted to UTC.     *)
EXTENDS SymbolCatalog

CONSTANTS
  \* options of the worker
  StartDate,        \* BACKFILL_START_DATE
  ChunkLen,         \* BACKFILL_CHUNK_DAYS, in minutes
  InsertBatch,      \* _INSERT_BATCH
  CatchUpLag,       \* _CATCH_UP_LAG
  HistoryRetries,   \* SYMBOL_HISTORY_RETRIES
  EmptyLimit,       \* _EMPTY_BACKFILL_LIMIT
  Day,              \* minutes in a day
  Ahead,            \* minutes by which a day of the broker begins before a day of UTC
  Lookback,         \* REPAIR_LOOKBACK_DAYS, in minutes
  RepairSince,      \* REPAIR_SINCE, NoTime when unset
  BackfillOn,       \* BACKFILL_BUDGET_SECONDS > 0
  RepairOn,         \* REPAIR_INTERVAL_HOURS > 0
  PruneCache,       \* PRUNE_CACHE
  \* the environment
  Bars,             \* symbol -> minutes for which the broker has a bar
  Loaded0,          \* symbol -> minutes in the terminal's history at the start
  Stored0,          \* symbol -> candles an earlier version left in the store
  Refusals,         \* the terminal may refuse a request without an IPC failure
  Now0,             \* the minute at which the worker is started
  MaxNow,           \* bound: the clock stops here
  MaxFaults         \* bound: errors and crashes in one behaviour

NoTime == -1        \* Python's None for a moment
Nobody == -1        \* no symbol is being worked on

ASSUME OptionsAssumption ==
  /\ StartDate \in Nat /\ ChunkLen \in Nat \ {0} /\ InsertBatch \in Nat \ {0}
  /\ CatchUpLag \in Nat /\ HistoryRetries \in Nat \ {0} /\ EmptyLimit \in Nat \ {0}
  /\ Day \in Nat \ {0} /\ Ahead \in 0 .. Day - 1 /\ Lookback \in Nat /\ RepairSince \in Nat \cup {NoTime}
  /\ BackfillOn \in BOOLEAN /\ RepairOn \in BOOLEAN /\ PruneCache \in BOOLEAN

ASSUME EnvironmentAssumption ==
  /\ Now0 \in Nat /\ MaxNow \in Nat /\ MaxFaults \in Nat /\ Refusals \in BOOLEAN
  /\ Bars \in [Symbols -> SUBSET Nat]
  /\ Loaded0 \in [Symbols -> SUBSET Nat]
  /\ Stored0 \in [Symbols -> SUBSET (0 .. Now0 - 1)]

VARIABLES
  now,           \* the minute that is forming
  local,         \* symbol -> minutes in the terminal's local history
  faults,        \* errors and crashes so far
  stored,        \* table candles: symbol -> minutes
  mark,          \* table sync_state: symbol -> last_ts
  db,            \* table symbol_state
  pc,            \* where the loop is
  catalog,       \* memory: the symbols of the last accepted refresh
  states,        \* memory: their SymbolState
  empties,       \* memory: _empty_backfills
  since,         \* memory: repair_since
  repairDue,     \* repair_due_at has passed
  catalogDue,    \* catalog_due_at has passed
  unlimited,     \* the budget of this iteration is infinite
  marks,         \* the watermarks read when the current phase began
  todo,          \* symbols the current phase has yet to visit
  sweep,         \* bounds of the repair in progress
  job,           \* the locals of the symbol in progress
  received       \* observed: minutes the terminal has handed to the job

env    == <<now, local>>
store  == <<stored, mark, db>>
memory == <<catalog, states, empties, since, repairDue, catalogDue>>
phase  == <<unlimited, marks, todo, sweep>>
vars   == <<env, faults, store, pc, memory, phase, job, received>>

-----------------------------------------------------------------------------
(* Helpers *)

Smaller(a, b) == IF a < b THEN a ELSE b
Larger(a, b)  == IF a > b THEN a ELSE b

\* The newest minute of a set, as a set: empty sets have none and give NoTime.
Newest(minutes) ==
  IF minutes = {} THEN {NoTime} ELSE {m \in minutes : \A n \in minutes : n <= m}

Oldest(minutes) == {m \in minutes : \A n \in minutes : m <= n}

\* sorted(...): the phases visit their symbols in name order.
First(s) == s \in todo /\ \A t \in todo : s <= t

\* Mistakes in Last: the fallback forgotten; the candles believed before the watermark.
LastByMark(s)    == {marks[s]}
LastByCandles(s) == Newest(stored[s])

\* marks.get(symbol), else candle_watermark(client, symbol).
Last(s) == IF marks[s] # NoTime THEN {marks[s]} ELSE Newest(stored[s])

NoJob == [sym |-> Nobody, last |-> NoTime, at |-> 0, end |-> 0, high |-> NoTime,
          buf |-> {}, best |-> {}, prev |-> {}, tries |-> 0, catching |-> FALSE]

Job(s, last, start, end) ==
  [NoJob EXCEPT !.sym = s, !.last = last, !.at = start, !.end = end, !.high = last]

\* chunks(): the window that begins at the cursor.
WindowEnd == Smaller(job.at + ChunkLen, job.end)

\* copy_rates on the current window.  The terminal answers from its local history,
\* both ends included, and the rows outside [at, WindowEnd) are dropped.  An error code
\* that is not an IPC failure, or an unknown clock, gives the same [] as no data.
TerminalRows == {m \in local[job.sym] : job.at <= m /\ m <= WindowEnd}

\* Mistakes in Kept: the first bar of a window lost; the bar at its end kept.
KeptAfterStart == {m \in TerminalRows : job.at < m /\ m < WindowEnd}
KeptWithEnd    == {m \in TerminalRows : job.at <= m /\ m <= WindowEnd}

Kept == {m \in TerminalRows : job.at <= m /\ m < WindowEnd}

Fault == faults < MaxFaults /\ faults' = faults + 1

Refused == Refusals /\ Fault

CopyRates(rows) ==
  \/ rows = Kept /\ UNCHANGED faults
  \/ rows = {} /\ Refused

\* What an insert that raised may have left in the table: the slices of _INSERT_BATCH rows
\* go out in time order, and ClickHouse writes one part per month in that order.
Prefixes(rows) == {rows} \cup {{m \in rows : m < n} : n \in rows}

\* The loop is done with a symbol: the phase goes on with the next one.
LeaveSymbol(s) ==
  /\ todo' = todo \ {s}
  /\ job' = NoJob
  /\ received' = {}
  /\ UNCHANGED <<unlimited, marks, sweep>>

KeepPhase == UNCHANGED <<unlimited, marks, todo, sweep>>

\* An exception reaches worker_main: the locals of the iteration are gone.
ForgetPhase ==
  /\ unlimited' = FALSE
  /\ marks' = [s \in Symbols |-> NoTime]
  /\ todo' = {}
  /\ sweep' = [from |-> 0, to |-> 0]
  /\ job' = NoJob
  /\ received' = {}

-----------------------------------------------------------------------------
(* The environment *)

Tick ==
  /\ now < MaxNow
  /\ now' = now + 1
  /\ UNCHANGED <<local, faults, store, pc, memory, phase, job, received>>

\* A bar of the broker, the forming one included, arrives in the local history.
Download(s) ==
  /\ \E m \in Bars[s] \ local[s] :
       /\ m <= now
       /\ local' = [local EXCEPT ![s] = @ \cup {m}]
  /\ UNCHANGED <<now, faults, store, pc, memory, phase, job, received>>

RepairComesDue ==
  /\ ~repairDue
  /\ repairDue' = TRUE
  /\ UNCHANGED <<env, faults, store, pc, catalog, states, empties, since, catalogDue, phase, job, received>>

CatalogComesDue ==
  /\ ~catalogDue
  /\ catalogDue' = TRUE
  /\ UNCHANGED <<env, faults, store, pc, catalog, states, empties, since, repairDue, phase, job, received>>

-----------------------------------------------------------------------------
(* worker_main and _refresh_catalog *)

RefreshWanted == catalog = {} \/ catalogDue

Reconciled(found) == Reconcile(db, found, {s \in Symbols : mark[s] # NoTime})

\* symbols_get listed nothing: the old catalogue stays, and the refresh stays due.
CatalogEmpty ==
  /\ pc = "top" /\ RefreshWanted
  /\ pc' = "start"
  /\ UNCHANGED <<env, faults, store, memory, phase, job, received>>

RefreshCatalog(found) ==
  /\ pc = "top" /\ RefreshWanted
  /\ db' = Reconciled(found)
  /\ states' = Reconciled(found)
  /\ catalog' = found
  /\ catalogDue' = FALSE
  /\ pc' = "start"
  /\ UNCHANGED <<env, faults, stored, mark, empties, since, repairDue, phase, job, received>>

-----------------------------------------------------------------------------
(* _run_pass and _sync_symbol: last candle -> now *)

BeginPass ==
  /\ pc = "start" \/ (pc = "top" /\ ~RefreshWanted)
  /\ marks' = mark
  /\ todo' = {s \in catalog : Ready(states[s])}
  /\ pc' = "pass"
  /\ UNCHANGED <<env, faults, store, memory, unlimited, sweep, job, received>>

HoldsNothing(s) == marks[s] = NoTime /\ stored[s] = {}

\* Mistakes in Recorded: the changed copy is thrown away; nothing but "done" is recorded.
RecordedAsIs(s, backfill) == states[s]
RecordedDone(s, backfill) == [states[s] EXCEPT !.backfill = "done"]

Recorded(s, backfill) == [states[s] EXCEPT !.backfill = backfill]

Requeue(s) ==
  /\ pc = "pass" /\ First(s) /\ HoldsNothing(s)
  /\ db' = [db EXCEPT ![s] = Recorded(s, "pending")]
  /\ states' = [states EXCEPT ![s] = Recorded(s, "pending")]
  /\ LeaveSymbol(s)
  /\ UNCHANGED <<env, faults, stored, mark, pc, catalog, empties, since, repairDue, catalogDue>>

SyncStart(last) == IF last = NoTime THEN StartDate ELSE Larger(last + 1, StartDate)

CatchingUp(last) == last # NoTime /\ now - SyncStart(last) > CatchUpLag

\* last_quote_at: nothing, or the moment of the broker's newest tick.
Quotes(s) == {NoTime} \cup Newest({m \in Bars[s] : m <= now})

StartSync(s) ==
  /\ pc = "pass" /\ First(s) /\ ~HoldsNothing(s)
  /\ \E last \in Last(s), quote \in Quotes(s) :
       /\ SyncStart(last) < now
       /\ CatchingUp(last) /\ quote # NoTime => quote >= last + 1
       /\ job' = [Job(s, last, SyncStart(last), now) EXCEPT !.catching = CatchingUp(last)]
  /\ pc' = "sync"
  /\ UNCHANGED <<env, faults, store, memory, phase, received>>

\* Nothing to ask for, or the broker has not quoted it since the last candle.
SkipIdle(s) ==
  /\ pc = "pass" /\ First(s) /\ ~HoldsNothing(s)
  /\ \E last \in Last(s), quote \in Quotes(s) :
       \/ SyncStart(last) >= now
       \/ CatchingUp(last) /\ quote # NoTime /\ quote < last + 1
  /\ LeaveSymbol(s)
  /\ UNCHANGED <<env, faults, store, pc, memory>>

\* symbol_select refused the symbol, or a query inside its try block raised.
SkipFailing(s) ==
  /\ First(s) /\ Fault
  /\ pc = "queue" \/ (pc = "pass" /\ ~HoldsNothing(s))
  /\ LeaveSymbol(s)
  /\ UNCHANGED <<env, store, pc, memory>>

\* Rows of the current window go to the buffer; a full buffer, or the last window with
\* anything buffered, is written out.
Absorb(rows) ==
  LET buffer == job.buf \cup rows
      last   == WindowEnd >= job.end
  IN  /\ \E high \in Newest({job.high} \cup rows) :
           job' = [job EXCEPT !.buf = buffer, !.high = high, !.at = WindowEnd,
                              !.best = {}, !.prev = {}, !.tries = 0]
      /\ pc' = IF Cardinality(buffer) >= InsertBatch \/ (last /\ buffer # {})
               THEN "flush" ELSE "sync"

SyncWindow ==
  /\ pc = "sync" /\ job.at < job.end
  /\ \E rows \in {Kept, {}} :
       /\ CopyRates(rows)
       /\ received' = received \cup rows
       /\ IF job.catching
          THEN /\ job' = [job EXCEPT !.best = rows, !.prev = rows, !.tries = HistoryRetries]
               /\ pc' = "settle"
          ELSE Absorb(rows)
  /\ KeepPhase
  /\ UNCHANGED <<env, store, memory>>

\* Mistake in Fuller: the last answer wins.
Latest(best, again) == again

Fuller(best, again) == IF Cardinality(again) > Cardinality(best) THEN again ELSE best

\* _settle: ask again, keep the fullest answer, stop when an answer repeats.
SettleWindow ==
  /\ pc = "settle"
  /\ \E again \in {Kept, {}} :
       /\ CopyRates(again)
       /\ received' = received \cup again
       /\ LET best == Fuller(job.best, again)
          IN  IF again = job.prev \/ job.tries = 1
              THEN Absorb(best)
              ELSE /\ job' = [job EXCEPT !.best = best, !.prev = again, !.tries = @ - 1]
                   /\ UNCHANGED pc
  /\ KeepPhase
  /\ UNCHANGED <<env, store, memory>>

SyncDone ==
  /\ pc = "sync" /\ job.at >= job.end
  /\ pc' = "pass"
  /\ LeaveSymbol(job.sym)
  /\ UNCHANGED <<env, faults, store, memory>>

-----------------------------------------------------------------------------
(* _run_backfill and _backfill_symbol: the history of new symbols *)

PassDone == pc = "pass" /\ todo = {}

AnyReady == \E s \in catalog : Ready(states[s])

\* The budget is worked out once, before the backfill: unlimited on a fresh install.
BeginBackfill ==
  /\ PassDone
  /\ BackfillOn \/ ~AnyReady
  /\ unlimited' = ~AnyReady
  /\ marks' = mark
  /\ todo' = {s \in catalog : Queued(states[s])}
  /\ pc' = "queue"
  /\ UNCHANGED <<env, faults, store, memory, sweep, job, received>>

NoBackfill ==
  /\ PassDone
  /\ ~BackfillOn /\ AnyReady
  /\ pc' = "repair"
  /\ UNCHANGED <<env, faults, store, memory, phase, job, received>>

\* The next queued symbol: resumed after its last candle, or its first bar looked up.
TakeQueued(s) ==
  /\ pc = "queue" /\ First(s)
  /\ \E last \in Last(s) :
       /\ job' = Job(s, last, last + 1, now)
       /\ pc' = IF last = NoTime THEN "daily" ELSE IF last + 1 >= now THEN "finish" ELSE "fill"
  /\ UNCHANGED <<env, faults, store, memory, phase, received>>

\* The open of the D1 bar a minute belongs to: midnight by the broker's clock.
DayOpen(m) == ((m + Ahead) \div Day) * Day - Ahead

\* daily_history: the days the terminal knows of that open inside the request, both ends
\* included, taken once two answers agree.
KnownDays == {d \in {DayOpen(m) : m \in local[job.sym]} : StartDate <= d /\ d <= job.end}

\* Mistake in BackfillStart: the listed day itself.
WithoutStepBack(first) == Larger(StartDate, first)

\* A day before the first listed one, for the day of the start date: it opens before the
\* request where the broker's day begins before that of UTC.
BackfillStart(first) == Larger(StartDate, first - Day)

DailyFound ==
  /\ pc = "daily"
  /\ \E first \in Oldest(KnownDays) :
       /\ job' = [job EXCEPT !.at = BackfillStart(first)]
       /\ pc' = IF BackfillStart(first) >= job.end THEN "finish" ELSE "fill"
  /\ KeepPhase
  /\ UNCHANGED <<env, faults, store, memory, received>>

\* Two answers agree on nothing; two refused requests look the same.  The count is only
\* ever compared with the limit, so it stops there.
DailyEmpty ==
  /\ pc = "daily"
  /\ (KnownDays = {} /\ UNCHANGED faults) \/ Refused
  /\ empties' = [empties EXCEPT ![job.sym] = Smaller(@ + 1, EmptyLimit)]
  /\ IF empties'[job.sym] >= EmptyLimit
     THEN pc' = "finish" /\ KeepPhase /\ UNCHANGED <<job, received>>
     ELSE pc' = "queue" /\ LeaveSymbol(job.sym)
  /\ UNCHANGED <<env, store, catalog, states, since, repairDue, catalogDue>>

\* The answers kept changing: the history is still downloading.
DailyUnstable ==
  /\ pc = "daily"
  /\ {m \in Bars[job.sym] : m <= now} \ local[job.sym] # {}
  /\ pc' = "queue"
  /\ LeaveSymbol(job.sym)
  /\ UNCHANGED <<env, faults, store, memory>>

FillWindow ==
  /\ pc = "fill"
  /\ \E rows \in {Kept, {}} :
       /\ CopyRates(rows)
       /\ received' = received \cup rows
       /\ \E high \in Newest({job.high} \cup rows) :
            job' = [job EXCEPT !.buf = rows, !.high = high, !.at = WindowEnd]
       /\ pc' = IF rows # {} THEN "insert" ELSE IF WindowEnd >= job.end THEN "finish" ELSE "fill"
  /\ KeepPhase
  /\ UNCHANGED <<env, store, memory>>

\* The writes of both phases, in the order of the code: the rows, then the watermark.
Syncing == pc \in {"flush", "advance"}

InsertRows ==
  /\ pc \in {"flush", "insert"}
  /\ stored' = [stored EXCEPT ![job.sym] = @ \cup job.buf]
  /\ job' = [job EXCEPT !.buf = {}]
  /\ pc' = IF Syncing THEN "advance" ELSE "mark"
  /\ KeepPhase
  /\ UNCHANGED <<env, faults, mark, db, memory, received>>

SetWatermark ==
  /\ pc \in {"advance", "mark"}
  /\ mark' = [mark EXCEPT ![job.sym] = job.high]
  /\ pc' = IF Syncing THEN "sync" ELSE IF job.at < job.end THEN "fill" ELSE "finish"
  /\ KeepPhase
  /\ UNCHANGED <<env, faults, stored, db, memory, job, received>>

\* insert_candles or set_watermark raised: any part of the write may have reached the
\* table.  The error is swallowed and the phase goes on with the next symbol.
WriteFails ==
  /\ pc \in {"flush", "insert", "advance", "mark"} /\ Fault
  /\ \/ /\ pc \in {"flush", "insert"}
        /\ \E applied \in Prefixes(job.buf) :
             stored' = [stored EXCEPT ![job.sym] = @ \cup applied]
        /\ UNCHANGED mark
     \/ /\ pc \in {"advance", "mark"}
        /\ mark' \in {mark, [mark EXCEPT ![job.sym] = job.high]}
        /\ UNCHANGED stored
  /\ pc' = IF Syncing THEN "pass" ELSE "queue"
  /\ LeaveSymbol(job.sym)
  /\ UNCHANGED <<env, db, memory>>

FinishBackfill ==
  /\ pc = "finish"
  /\ db' = [db EXCEPT ![job.sym] = Recorded(job.sym, "done")]
  /\ states' = [states EXCEPT ![job.sym] = Recorded(job.sym, "done")]
  /\ pc' = "queue"
  /\ LeaveSymbol(job.sym)
  /\ UNCHANGED <<env, faults, stored, mark, catalog, empties, since, repairDue, catalogDue>>

EndBackfill ==
  /\ pc' = "repair"
  /\ ForgetPhase
  /\ UNCHANGED <<env, faults, store, memory>>

\* The deadline, looked at before each symbol and each window.
DeadlinePasses == pc \in {"queue", "fill"} /\ ~unlimited /\ todo # {} /\ EndBackfill

QueueDone == pc = "queue" /\ todo = {} /\ EndBackfill

-----------------------------------------------------------------------------
(* _run_repair and _repair_symbol: re-read the last days, insert missing minutes *)

\* Mistake in SweepFrom: the lookback is not subtracted.
SweepFromNow == now

SweepFrom ==
  LET lookback == now - Lookback
  IN  IF since # NoTime /\ since < lookback THEN Larger(since, StartDate) ELSE lookback

BeginRepair ==
  /\ pc = "repair" /\ RepairOn /\ repairDue
  /\ marks' = mark
  /\ sweep' = [from |-> SweepFrom, to |-> now]
  /\ todo' = {s \in catalog : mark[s] # NoTime /\ mark[s] > SweepFrom /\ Ready(states[s])}
  /\ pc' = "sweep"
  /\ UNCHANGED <<env, faults, store, memory, unlimited, job, received>>

SweepSymbol(s) ==
  /\ pc = "sweep" /\ First(s)
  /\ job' = Job(s, marks[s], sweep.from, Smaller(marks[s], sweep.to))
  /\ pc' = "mend"
  /\ UNCHANGED <<env, faults, store, memory, phase, received>>

\* One window: what the terminal holds of it and existing_minutes does not.
MendWindow ==
  /\ pc = "mend" /\ job.at < job.end
  /\ \E rows \in {Kept, {}} :
       /\ CopyRates(rows)
       /\ stored' = [stored EXCEPT ![job.sym] = @ \cup rows]
  /\ job' = [job EXCEPT !.at = WindowEnd]
  /\ KeepPhase
  /\ UNCHANGED <<env, mark, db, pc, memory, received>>

\* existing_minutes or insert_candles raised; swallowed, the sweep goes on.
MendFails ==
  /\ pc = "mend" /\ job.at < job.end /\ Fault
  /\ \E applied \in Prefixes(Kept) :
       stored' = [stored EXCEPT ![job.sym] = @ \cup applied]
  /\ pc' = "sweep"
  /\ LeaveSymbol(job.sym)
  /\ UNCHANGED <<env, mark, db, memory>>

MendDone ==
  /\ pc = "mend" /\ job.at >= job.end
  /\ pc' = "sweep"
  /\ LeaveSymbol(job.sym)
  /\ UNCHANGED <<env, faults, store, memory>>

\* REPAIR_SINCE is used up once a sweep ran to its end.
EndRepair ==
  /\ pc = "sweep" /\ todo = {}
  /\ since' = NoTime
  /\ repairDue' = FALSE
  /\ pc' = "rest"
  /\ ForgetPhase
  /\ UNCHANGED <<env, faults, store, catalog, states, empties, catalogDue>>

NoRepair ==
  /\ pc = "repair" /\ ~(RepairOn /\ repairDue)
  /\ pc' = "rest"
  /\ ForgetPhase
  /\ UNCHANGED <<env, faults, store, memory>>

\* prune_price_cache deletes the history files the terminal does not hold open.
Rest(unlocked) ==
  /\ pc = "rest"
  /\ unlocked # {} => PruneCache
  /\ local' = [s \in Symbols |-> IF s \in unlocked THEN {} ELSE local[s]]
  /\ pc' = "top"
  /\ UNCHANGED <<now, faults, store, memory, phase, job, received>>

-----------------------------------------------------------------------------
(* Failures that end the iteration, and the death of the process *)

\* TerminalError (an IPC failure in copy_rates, daily_history or symbols_get), or a query
\* outside the per-symbol try blocks raised.
IterationFails ==
  /\ pc \in {"top", "start", "pass", "sync", "settle", "queue", "daily", "fill", "repair", "mend"}
  /\ Fault
  /\ pc' = "top"
  /\ ForgetPhase
  /\ UNCHANGED <<env, store, memory>>

\* write_symbol_states raised, outside any try block of its caller: the rows may have
\* reached the table, memory keeps what it had.
StateWriteFails ==
  /\ Fault
  /\ \/ /\ pc = "top" /\ RefreshWanted
        /\ \E found \in (SUBSET Symbols) \ {{}} : db' = Reconciled(found)
     \/ /\ pc = "pass"
        /\ \E s \in todo :
             First(s) /\ HoldsNothing(s) /\ db' = [db EXCEPT ![s] = Recorded(s, "pending")]
     \/ /\ pc = "finish"
        /\ db' = [db EXCEPT ![job.sym] = Recorded(job.sym, "done")]
  /\ pc' = "top"
  /\ ForgetPhase
  /\ UNCHANGED <<env, stored, mark, memory>>

FreshMemory ==
  /\ catalog' = {}
  /\ states' = [s \in Symbols |-> NoState]
  /\ empties' = [s \in Symbols |-> 0]
  /\ since' = RepairSince
  /\ repairDue' = TRUE
  /\ catalogDue' = FALSE

\* The process dies at any step; the supervisor starts another.
Crash ==
  /\ Fault
  /\ pc' = "top"
  /\ FreshMemory
  /\ ForgetPhase
  /\ UNCHANGED <<env, store>>

-----------------------------------------------------------------------------

Init ==
  /\ now = Now0
  /\ local = Loaded0
  /\ faults = 0
  /\ stored = Stored0
  /\ mark \in [Symbols -> UNION {Newest(Stored0[s]) : s \in Symbols}]
  /\ \A s \in Symbols : mark[s] \in Newest(Stored0[s])
  /\ db = [s \in Symbols |-> NoState]
  /\ pc = "top"
  /\ catalog = {}
  /\ states = [s \in Symbols |-> NoState]
  /\ empties = [s \in Symbols |-> 0]
  /\ since = RepairSince
  /\ repairDue = TRUE
  /\ catalogDue = FALSE
  /\ unlimited = FALSE
  /\ marks = [s \in Symbols |-> NoTime]
  /\ todo = {}
  /\ sweep = [from |-> 0, to |-> 0]
  /\ job = NoJob
  /\ received = {}

Environment ==
  \/ Tick \/ RepairComesDue \/ CatalogComesDue
  \/ \E s \in Symbols : Download(s)

Refresh ==
  \/ CatalogEmpty
  \/ \E found \in (SUBSET Symbols) \ {{}} : RefreshCatalog(found)

Pass ==
  \/ BeginPass
  \/ \E s \in todo : Requeue(s) \/ StartSync(s) \/ SkipIdle(s)
  \/ SyncWindow \/ SettleWindow \/ SyncDone

Backfill ==
  \/ BeginBackfill \/ NoBackfill
  \/ \E s \in todo : TakeQueued(s)
  \/ DailyFound \/ DailyEmpty \/ DailyUnstable
  \/ FillWindow \/ FinishBackfill \/ DeadlinePasses \/ QueueDone

Write == InsertRows \/ SetWatermark

Repair ==
  \/ BeginRepair \/ NoRepair
  \/ \E s \in todo : SweepSymbol(s)
  \/ MendWindow \/ MendDone \/ EndRepair

Failure ==
  \/ \E s \in todo : SkipFailing(s)
  \/ WriteFails \/ MendFails \/ StateWriteFails \/ IterationFails \/ Crash

Next ==
  \/ Environment \/ Refresh \/ Pass \/ Backfill \/ Write \/ Repair
  \/ \E unlocked \in SUBSET Symbols : Rest(unlocked)
  \/ Failure

Spec == Init /\ [][Next]_vars

\* The loop runs on, the terminal finishes its downloads, the repair interval elapses; and
\* the deadline does not always fall before the first symbol or the first window, because
\* the budget is counted from the end of the pass.  Nothing is assumed of the clock, of the
\* catalogue's refreshes or of the order in which bars arrive.
Fairness ==
  /\ WF_vars(Refresh \/ Pass \/ Backfill \/ Write \/ Repair \/ Rest({}))
  /\ SF_vars(\E s \in todo : TakeQueued(s))
  /\ SF_vars(FillWindow)
  /\ WF_vars(RepairComesDue)
  /\ \A s \in Symbols : WF_vars(Download(s))

FairSpec == Spec /\ Fairness
=============================================================================
