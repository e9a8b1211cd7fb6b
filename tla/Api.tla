-------------------------------- MODULE Api --------------------------------
(* The routes that read ClickHouse: GET /candles/{symbol}, /symbols, /status   *)
(* and /healthz (src/api/routes), each read on a thread of its own with a      *)
(* connection of the pool, while the candles worker goes on writing; and the   *)
(* end of the lifespan (src/api/app.py).                                       *)
(*                                                                            *)
(* One symbol; a candle is the number of its minute.  The candles table and    *)
(* the watermark are those of CandleLog, which the candles worker implements.  *)
EXTENDS Integers, FiniteSets

CONSTANTS
  Threads, Clients, NoClient, Size,     \* of the pool
  Kinds,       \* thread -> the routes it serves
  Frames,      \* lengths of the timeframes, in minutes
  MaxRows,     \* MAX_ROWS
  Lag,         \* freshness_lag_minutes
  Stored0,     \* minutes in the table at the start
  Now0,
  MaxNow,      \* bound: the clock stops here
  MaxFaults    \* bound: calls of ClickHouse that raise

NoTime == -1
TheSymbol == "s"

Routes == {"candles", "symbols", "status", "healthz"}

ASSUME PoolAssumption == Size \in Nat \ {0} /\ NoClient \notin Clients

ASSUME ApiAssumption ==
  /\ Kinds \in [Threads -> SUBSET Routes]
  /\ Frames \subseteq Nat \ {0} /\ MaxRows \in Nat \ {0} /\ Lag \in Nat
  /\ Now0 \in Nat /\ MaxNow \in Nat /\ MaxFaults \in Nat /\ Stored0 \subseteq 0 .. Now0 - 1

VARIABLES
  now, stored, mark,              \* of CandleLog
  entry,                          \* the symbol: unknown, listed (no state row), pending, done
  idle, doomed, open, at, lent,   \* of ClientPool
  pc,          \* thread -> free, borrow, the next query, leave
  request,     \* thread -> the window of a candles request, what a /symbols request has read
  code,        \* thread -> the status of its answer
  closed,      \* the lifespan has ended
  faults,
  disturbed,   \* observed: rows inserted since the count of a thread
  announced    \* observed: the newest last candle a client has been told of

log  == <<now, stored, mark, entry>>
pool == <<idle, doomed, open, at, lent>>
vars == <<log, pool, pc, request, code, closed, faults, disturbed, announced>>

Log  == INSTANCE CandleLog WITH Symbols <- {TheSymbol}
Pool == INSTANCE ClientPool

-----------------------------------------------------------------------------
(* The candles worker *)

\* One more minute a time: an insert of several is several steps.
Worker ==
  /\ \/ Log!Tick /\ now < MaxNow /\ UNCHANGED entry
     \/ /\ entry \in {"pending", "done"} /\ UNCHANGED entry
        /\ \/ Log!Advance(TheSymbol)
           \/ Log!Append(TheSymbol) /\ Cardinality(stored'[TheSymbol] \ stored[TheSymbol]) = 1
     \/ /\ UNCHANGED <<now, stored, mark>>
        /\ \/ entry = "unknown" /\ entry' = "listed"
           \/ entry = "listed" /\ entry' = IF mark[TheSymbol] = NoTime THEN "pending" ELSE "done"
           \/ entry = "pending" /\ entry' = "done"
           \/ entry = "done" /\ stored[TheSymbol] = {} /\ entry' = "pending"
  /\ disturbed' = [t \in Threads |-> disturbed[t] \/ (pc[t] = "select" /\ stored' # stored)]
  /\ UNCHANGED <<pool, pc, request, code, closed, faults, announced>>

-----------------------------------------------------------------------------
(* A request *)

NoWindow == [from |-> 0, to |-> 0, frame |-> 1]
NoReading == [listed |-> FALSE, last |-> NoTime, backfill |-> "done"]
NoRequest == [kind |-> "none", window |-> NoWindow, reading |-> NoReading, rows |-> {}]

Serve(t, kind, window) ==
  /\ pc' = [pc EXCEPT ![t] = "borrow"]
  /\ request' = [request EXCEPT ![t] = [NoRequest EXCEPT !.kind = kind, !.window = window]]
  /\ UNCHANGED <<log, pool, code, closed, faults, disturbed, announced>>

Cutoff == now - Lag

\* Mistake in Clamped: the end the client asked for.
AsAsked(to) == to

Clamped(to) == IF to > Cutoff THEN Cutoff ELSE to

\* A window that begins at the cutoff or later, or is empty, is refused without a query.
AskCandles(t) ==
  /\ pc[t] = "free" /\ ~closed /\ "candles" \in Kinds[t]
  /\ \E from \in 0 .. MaxNow, to \in 0 .. MaxNow, frame \in Frames :
       /\ from < Cutoff /\ from < Clamped(to)
       /\ Serve(t, "candles", [from |-> from, to |-> Clamped(to), frame |-> frame])

AskOther(t) ==
  /\ pc[t] = "free" /\ ~closed
  /\ \E kind \in Kinds[t] \ {"candles"} : Serve(t, kind, NoWindow)

Go(t, next) == pc' = [pc EXCEPT ![t] = next]

Answered(t, status) == code' = [code EXCEPT ![t] = status] /\ Go(t, "leave")

\* What a read that raised is answered with.
Failure(t) == IF request[t].kind = "healthz" THEN 503 ELSE 500

FirstQuery(t) ==
  CASE request[t].kind = "candles" -> "resolve" [] request[t].kind = "symbols" -> "rows"
    [] request[t].kind = "status" -> "marks"    [] request[t].kind = "healthz" -> "ping"

KeepRest == UNCHANGED <<log, closed, disturbed, announced>>

\* with client.borrow() as connection.
Borrow(t) ==
  /\ pc[t] = "borrow"
  /\ \/ (Pool!Take(t) \/ Pool!Connect(t)) /\ Go(t, FirstQuery(t)) /\ UNCHANGED <<code, faults>>
     \/ Pool!Miss(t) /\ UNCHANGED <<pc, code, faults>>
     \/ /\ faults < MaxFaults /\ faults' = faults + 1
        /\ Pool!Refuse(t) /\ Answered(t, Failure(t))
  /\ UNCHANGED request /\ KeepRest

Querying(t) == at[t] = "lent" /\ pc[t] # "leave"

QueryFails(t) ==
  /\ Querying(t) /\ faults < MaxFaults /\ faults' = faults + 1
  /\ Pool!Drop(t) /\ Answered(t, Failure(t))
  /\ UNCHANGED request /\ KeepRest

Kept == UNCHANGED <<pool, log, closed, faults, announced>>

\* get_symbol: the symbol has a row in symbols, or 404.
Resolve(t) ==
  /\ pc[t] = "resolve"
  /\ IF entry = "unknown" THEN Answered(t, 404) ELSE Go(t, "count") /\ UNCHANGED code
  /\ UNCHANGED <<request, disturbed>> /\ Kept

\* Mistake in Inside: the first minute of the window is left out.
After(m, window) == window.from < m /\ m < window.to

Inside(m, window) == window.from <= m /\ m < window.to

\* GROUP BY bucket over from <= ts < to.
Buckets(window) == {m \div window.frame : m \in {n \in stored[TheSymbol] : Inside(n, window)}}

\* Mistake in TooMany: one row too many.
OneTooMany(buckets) == Cardinality(buckets) > MaxRows + 1

TooMany(buckets) == Cardinality(buckets) > MaxRows

Count(t) ==
  /\ pc[t] = "count"
  /\ IF TooMany(Buckets(request[t].window)) THEN Answered(t, 400)
                                            ELSE Go(t, "select") /\ UNCHANGED code
  /\ disturbed' = [disturbed EXCEPT ![t] = FALSE]
  /\ UNCHANGED request /\ Kept

\* ORDER BY bucket LIMIT MAX_ROWS.
Limited(buckets) == {b \in buckets : Cardinality({d \in buckets : d < b}) < MaxRows}

Select(t) ==
  /\ pc[t] = "select" /\ Answered(t, 200)
  /\ request' = [request EXCEPT ![t].rows = Limited(Buckets(request[t].window))]
  /\ UNCHANGED disturbed /\ Kept

\* Mistake in Following: the states are read before the watermarks.
StatesEarlier(query) == [rows |-> "states", states |-> "marks", marks |-> "leave"][query]

\* known_symbols, watermarks and symbol_states, one after the other.
Following(query) == [rows |-> "marks", marks |-> "states", states |-> "leave"][query]

\* What one of these queries adds to the reading; a symbol without a state row shows "done".
Read(query, reading) ==
  CASE query = "rows"   -> [reading EXCEPT !.listed = entry # "unknown"]
    [] query = "marks"  -> [reading EXCEPT !.last = mark[TheSymbol]]
    [] query = "states" -> [reading EXCEPT !.backfill = IF entry = "pending" THEN "pending" ELSE "done"]

ReadTable(t) ==
  /\ pc[t] \in {"rows", "marks", "states"}
  /\ request' = [request EXCEPT ![t].reading = Read(pc[t], @)]
  /\ LET next == IF request[t].kind = "status" THEN "leave" ELSE Following(pc[t])
     IN  IF next = "leave" THEN Answered(t, 200) ELSE Go(t, next) /\ UNCHANGED code
  /\ UNCHANGED disturbed /\ Kept

\* SELECT 1.  The with block ends before the route looks at the workers: whether they are
\* healthy decides between 200 and 503, not over the connection.
Ping(t) ==
  /\ pc[t] = "ping" /\ \E status \in {200, 503} : Answered(t, status)
  /\ UNCHANGED <<request, disturbed>> /\ Kept

\* The end of the with block: the connection of a read that raised is closed, any other goes
\* back, whatever the route answers.
Leave(t) ==
  /\ pc[t] = "leave" /\ (Pool!CloseClient(t) \/ Pool!GiveBack(t))
  /\ UNCHANGED <<pc, request, code, faults>> /\ KeepRest

Newer(last) == IF last > announced THEN last ELSE announced

Respond(t) ==
  /\ pc[t] = "leave" /\ at[t] = "out"
  /\ announced' = IF request[t].kind = "status" \/ request[t].reading.listed
                  THEN Newer(request[t].reading.last) ELSE announced
  /\ Go(t, "free")
  /\ request' = [request EXCEPT ![t] = NoRequest] /\ code' = [code EXCEPT ![t] = 0]
  /\ disturbed' = [disturbed EXCEPT ![t] = FALSE]
  /\ UNCHANGED <<log, pool, closed, faults>>

-----------------------------------------------------------------------------
(* The lifespan *)

\* uvicorn ends the lifespan when the last request has been answered.
Shutdown ==
  /\ ~closed /\ \A t \in Threads : pc[t] = "free"
  /\ Pool!CloseAll /\ closed' = TRUE
  /\ UNCHANGED <<log, pc, request, code, faults, disturbed, announced>>

CloseNext ==
  /\ closed /\ Pool!CloseOne
  /\ UNCHANGED <<log, pc, request, code, closed, faults, disturbed, announced>>

\* The service has ended.
Over == closed /\ doomed = {} /\ UNCHANGED vars

Init ==
  /\ now = Now0 /\ stored = [s \in {TheSymbol} |-> Stored0]
  /\ mark \in [{TheSymbol} -> Stored0 \cup {NoTime}]
  /\ entry \in {"unknown", "listed", "pending", "done"}
  /\ Pool!Init
  /\ pc = [t \in Threads |-> "free"] /\ request = [t \in Threads |-> NoRequest]
  /\ code = [t \in Threads |-> 0] /\ closed = FALSE /\ faults = 0
  /\ disturbed = [t \in Threads |-> FALSE] /\ announced = NoTime

Work(t) ==
  \/ Borrow(t) \/ QueryFails(t) \/ Resolve(t) \/ Count(t) \/ Select(t) \/ ReadTable(t)
  \/ Ping(t) \/ Leave(t) \/ Respond(t)

Handle(t) == AskCandles(t) \/ AskOther(t) \/ Work(t)

Next == Worker \/ Shutdown \/ CloseNext \/ Over \/ \E t \in Threads : Handle(t)

Spec == Init /\ [][Next]_vars

-----------------------------------------------------------------------------
(* Properties *)

\* Every variable has its type, and no window reaches past the present.
TypeOK ==
  /\ Pool!PoolTypeOK
  /\ entry \in {"unknown", "listed", "pending", "done"} /\ announced \in Nat \cup {NoTime}
  /\ closed \in BOOLEAN /\ faults \in 0 .. MaxFaults /\ disturbed \in [Threads -> BOOLEAN]
  /\ pc \in [Threads -> {"free", "borrow", "resolve", "count", "select", "rows", "marks",
                         "states", "ping", "leave"}]
  /\ code \in [Threads -> {0, 200, 400, 404, 500, 503}]
  /\ \A t \in Threads :
       LET window == request[t].window
       IN  window.from \in 0 .. now /\ window.to \in 0 .. now /\ window.frame \in Frames \cup {1}

\* The threads of the routes share one pool: no two ever use one connection, and none uses a
\* closed one (clickhouse.py:319-347).
NeverShared == Pool!NeverShared

\* However requests end, every open connection is waiting in the list, in the hands of a thread
\* that is at a request, or about to be closed, and no more than size of them wait
\* (clickhouse.py:325-356): a service whose queries fail for days does not pile up connections.
\* Once close() has run, nothing is open but what it goes through.
NothingLeaks ==
  /\ Pool!NothingLeaks
  /\ \A t \in Threads : lent[t] # NoClient => pc[t] \notin {"free", "borrow"}
  /\ closed => open = doomed

\* No request ever waits for another: whatever has raised under way and whether the list is full
\* or empty, a thread at a request has a next step of its own (clickhouse.py:319-356).
NobodyWaits == \A t \in Threads : pc[t] # "free" => ENABLED Work(t)

\* A thread gets the rows of its answer, and nothing was inserted since its count.
Selected(t) == pc[t] = "select" /\ pc'[t] = "leave" /\ code'[t] = 200

Undisturbed(t) == Selected(t) /\ ~disturbed[t]

\* An answer that nothing was inserted under holds every candle of its window: the count and
\* the LIMIT agree at the boundary (candles.py:92-99).
QuietAnswerIsWhole ==
  [][\A t \in Threads : Undisturbed(t) => request'[t].rows = Buckets(request[t].window)]_vars

\* "a 400 rather than a truncated series, so a client can never mistake a partial answer for
\* the whole range" (README.md:153): an answer holds every candle of its window.
AnswerIsWhole ==
  [][\A t \in Threads : Selected(t) => request'[t].rows = Buckets(request[t].window)]_vars

\* A later answer that LIMIT cannot have cut off: nothing was inserted since its count, or it
\* holds fewer rows than the limit.
SurelyWhole(t) == Selected(t) /\ (~disturbed[t] \/ Cardinality(request'[t].rows) < MaxRows)

\* The last candle /symbols or /status has told a client of is in every later answer whose
\* window it falls into, unless rows were inserted under that answer and it holds as many rows
\* as the limit allows (symbols.py:44-50, status.py:57-61, candles.py:82-100).
AnnouncedIsServed ==
  [][\A t \in Threads :
       LET window == request[t].window
       IN  SurelyWhole(t) /\ window.from <= announced /\ announced < window.to
             => announced \div window.frame \in request'[t].rows]_vars

\* /symbols reads three tables one after the other while the worker writes them: a symbol it
\* shows with a last candle and its backfill done is not one whose backfill is under way,
\* although a missing state row is shown as done (symbols.py:41-47).
ShownDoneIsDone ==
  \A t \in Threads :
    /\ request[t].kind = "symbols" /\ pc[t] = "leave" /\ code[t] = 200
    /\ request[t].reading.listed /\ request[t].reading.last # NoTime
    /\ request[t].reading.backfill = "done"
    => entry # "pending"
=============================================================================
