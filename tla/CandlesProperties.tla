------------------------- MODULE CandlesProperties -------------------------
(* What the candles worker is checked for.                                    *)
EXTENDS CandlesWorker

Times == Nat \cup {NoTime}

EnvOK == now \in Nat /\ local \in [Symbols -> SUBSET Nat] /\ faults \in Nat

StoreOK ==
  /\ stored \in [Symbols -> SUBSET Nat] /\ mark \in [Symbols -> Times]
  /\ db \in [Symbols -> State \cup {NoState}]

MemoryOK ==
  /\ catalog \subseteq Symbols /\ states \in [Symbols -> State \cup {NoState}]
  /\ empties \in [Symbols -> Nat] /\ since \in Times

FlagsOK == repairDue \in BOOLEAN /\ catalogDue \in BOOLEAN /\ unlimited \in BOOLEAN

PhaseOK ==
  /\ pc \in {"top", "start", "pass", "sync", "settle", "flush", "advance", "queue", "daily",
             "fill", "insert", "mark", "finish", "repair", "sweep", "mend", "rest"}
  /\ marks \in [Symbols -> Times] /\ todo \subseteq Symbols /\ sweep \in [from : Int, to : Nat]

Jobs ==
  [sym : Symbols \cup {Nobody}, last : Times, at : Int, end : Int, high : Times,
   buf : SUBSET Nat, best : SUBSET Nat, prev : SUBSET Nat, tries : Nat, catching : BOOLEAN]

JobOK == job \in Jobs /\ received \subseteq Nat

\* Every variable has its type.
TypeOK == EnvOK /\ StoreOK /\ MemoryOK /\ FlagsOK /\ PhaseOK /\ JobOK

\* The watermark never passes a candle the terminal handed over and the store does not
\* hold: rows first, watermark second, whatever fails or dies in between
\* (candles_worker.py:279-292, 466-470, and the best-of of _settle).
ReceivedIsStored ==
  job.sym # Nobody => {m \in received : m <= mark[job.sym]} \subseteq stored[job.sym]

\* The regular pass never reads a full history: it always has a last candle to start from
\* (the comment at candles_worker.py:211-212).
PassStartsFromCandle == pc \in {"sync", "settle"} => job.last # NoTime

\* Whatever the loop works from was recorded as active in the last accepted refresh, so the
\* default of _state (candles_worker.py:568-571) is never needed.
CatalogTracked == \A s \in catalog : states[s].status = "active"

\* The bars a backfill reaches: all from BACKFILL_START_DATE on, but for those of the day the
\* start date falls into when the broker's day opened before it and the next day has no bar.
Wanted(s) ==
  {m \in Bars[s] :
     /\ StartDate <= m
     /\ DayOpen(m) >= StartDate \/ \E n \in Bars[s] : DayOpen(n) = DayOpen(m) + Day}

\* Against a terminal that holds its history and reports its failures, no error and no
\* crash, wherever it falls, leaves a hole: every bar the backfill reaches is stored up to the
\* newest candle, without any help from the repair.
HoleFree ==
  \A s \in Symbols : \A n \in stored[s] : \A m \in Wanted(s) : m <= n => m \in stored[s]

\* A backfill about to be recorded as done, given up on or not, has stored every bar it can
\* reach up to the moment it began ("Returns True once the series reaches the present",
\* candles_worker.py:419), once two days have passed since BACKFILL_START_DATE: before, the
\* day that gives the day of the start date away may be to come.
FinishedIsComplete ==
  pc = "finish" /\ StartDate + 2 * Day <= job.end
    => {m \in Wanted(job.sym) : m < job.end} \subseteq stored[job.sym]

\* "History for newly listed symbols, from BACKFILL_START_DATE (or the symbol's first bar, if
\* later) to now" (candles_worker.py:371-372): a backfill about to be recorded as done that
\* stored anything has stored every bar from BACKFILL_START_DATE on.
HistoryFromStartDate ==
  pc = "finish" /\ stored[job.sym] # {}
    => {m \in Bars[job.sym] : StartDate <= m /\ m < job.end} \subseteq stored[job.sym]

\* Every hole heals: while a symbol stays listed and has a watermark, sooner or later every
\* finished bar the broker has is stored, those the terminal answered too late or the store
\* refused included, provided the repair looks far enough back (README.md:129).  A symbol
\* without a watermark is none of the repair's business (candles_worker.py:519-521).
EventuallyComplete ==
  \A s \in Symbols :
    <>[](s \in catalog /\ mark[s] # NoTime)
      => <>[]({m \in Bars[s] : StartDate <= m /\ m < now} \subseteq stored[s])

\* A day of the symbol is one a daily request can list.
HasListedDay(s) == \E m \in Bars[s] : m < Now0 /\ DayOpen(m) >= StartDate

\* A symbol that stays listed and has such a day leaves the backfill queue for good: the budget
\* running out, errors and restarts only delay it ("a restart, or the budget running out,
\* resumes where it stopped", candles_worker.py:419-420).
BackfillEnds ==
  \A s \in Symbols :
    HasListedDay(s) /\ <>[](s \in catalog) => <>[](states[s].backfill = "done")

\* Nor is such a symbol forgotten: one recorded as done without a candle, because the terminal
\* knew of no day yet or refused its requests (candles_worker.py:440-445), is queued again
\* (candles_worker.py:210-214) until it has candles.
NeverForgotten ==
  \A s \in Symbols : HasListedDay(s) /\ <>[](s \in catalog) => <>[](stored[s] # {})

\* The store sees what CandleLog promises: finished minutes only, nothing removed, the
\* watermark only forward and onto a stored minute.
Log == INSTANCE CandleLog
ImplementsLog == Log!Spec

=============================================================================
