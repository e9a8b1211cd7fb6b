----------------------------- MODULE ServerClock -----------------------------
(* The broker's clock as src/mt5/clock.py reconstructs it: the terminal labels *)
(* bars and ticks with a local time whose offset from UTC changes over a       *)
(* weekend now and then, and the workers measure that offset from the labels   *)
(* around the weekends and from the last tick.  CopyRates is the request of    *)
(* src/mt5/fetch.py, which converts there and back.                            *)
(*                                                                             *)
(* The unit is the hour.  Week w lasts from its opening at w * Week to the     *)
(* next one; the market is open for its first Open hours.  A holiday takes     *)
(* hours away before the closing.                                              *)
EXTENDS Integers, FiniteSets, Sequences

CONSTANTS
  Weeks,          \* number of weeks
  Week, Open,     \* hours from opening to opening, and to the closing
  Offsets,        \* offsets of the broker's seasons
  Missing,        \* hours a holiday may take away
  MaxHolidays, MaxSwitches,   \* bounds
  Starts,         \* weeks at which the terminal's history may begin
  Moments,        \* hours of the week at which something is done
  MinGap,         \* _MIN_GAP_HOURS
  MaxOffset,      \* _MAX_OFFSET_MINUTES
  MaxSwitch,      \* _MAX_SWITCH_MINUTES
  Confirmations,  \* _CONFIRMATIONS
  MinWeekends,    \* _MIN_WEEKENDS
  Refresh,        \* _CLOCK_REFRESH_SECONDS
  Lookback        \* REPAIR_LOOKBACK_DAYS

\* A weekend is a gap and so is a weekend after a switch; no offset is as long as a weekend or as
\* half a week; enough weekends to confirm one are enough to measure.
ASSUME ClockAssumption ==
  /\ {Weeks, Week, Open, MinGap, Lookback, MinWeekends} \subseteq Nat \ {0}
  /\ {MaxHolidays, MaxSwitches, MaxOffset, MaxSwitch, Confirmations, Refresh} \subseteq Nat
  /\ Open < Week /\ Offsets \subseteq 0 .. MaxOffset /\ 2 * MaxOffset < Week /\ MaxOffset <= Week - Open
  /\ Starts \subseteq 0 .. Weeks - 1 /\ Missing \subseteq 1 .. Open - 1 /\ Moments \subseteq 0 .. Week - 1
  /\ MinWeekends <= Confirmations + 1
  /\ MinGap > 1 /\ \A a, b \in Offsets : MinGap <= 1 + Week - Open + a - b

VARIABLES
  now,        \* UTC
  offset,     \* week -> the broker's offset, from its opening on
  missing,    \* week -> hours without quotes before its closing
  steps,      \* ServerClock.steps of the worker: [at, minutes]
  measured,   \* observed: when, how far back and with what tick the steps were measured
  swept       \* observed: the last request for minutes, [start, rows]

world == <<offset, missing>>
vars  == <<now, world, steps, measured, swept>>

Unknown == -Week     \* no offset
Never   == [at |-> -1, from |-> 0, tick |-> Unknown, scanned |-> FALSE]
Nothing == [start |-> 0, rows |-> {}]

-----------------------------------------------------------------------------
(* The broker *)

Opening(w) == w * Week
WeekOf(u)  == u \div Week
Hour(u)    == u % Week

Calendar  == 0 .. Weeks - 1
Quoted(u) == WeekOf(u) \in Calendar /\ Hour(u) < Open - missing[WeekOf(u)]
Label(u)  == u + offset[WeekOf(u)]

\* The labels of the bars the terminal holds, from week from on.
Bars(from) == {Label(u) : u \in {u \in Opening(from) .. now - 1 : Quoted(u)}}

-----------------------------------------------------------------------------
(* _weekends, _steps: a weekend is known by the label of its end *)

Distance(a, b) == IF a < b THEN b - a ELSE a - b

First(labels)     == CHOOSE u \in labels : \A v \in labels : u <= v
Latest(labels)    == CHOOSE u \in labels : \A v \in labels : v <= u
Before(labels, u) == CHOOSE v \in labels : v < u /\ \A x \in v + 1 .. u - 1 : x \notin labels

\* _friday_close_utc: the closing nearest to a label, taken for UTC.
FridayClose(label) ==
  CHOOSE c \in {Opening(w) + Open : w \in -1 .. Weeks} : 2 * Distance(label, c) <= Week

\* What the closing before a bar says of the offset.
Reading(bars, u) ==
  LET closed == Before(bars, u) + 1
  IN  closed - FridayClose(closed)

\* Mistake in Plausible: no bound on what is read.
Whatever(minutes) == TRUE

Plausible(minutes) == Distance(minutes, 0) <= MaxOffset

\* A gap between two bars is read as a weekend unless it is too far from any.
Weekends(bars) ==
  LET gaps == {u \in bars : (\E b \in bars : b < u) /\ \A b \in u - MinGap + 1 .. u - 1 : b \notin bars}
      read == [u \in gaps |-> Reading(bars, u)]
  IN  [u \in {u \in gaps : Plausible(read[u])} |-> read[u]]

\* The next weekends after one.
Following(weekends, u) ==
  {v \in DOMAIN weekends :
     v > u /\ Cardinality({x \in DOMAIN weekends : u < x /\ x < v}) < Confirmations}

\* Mistake in Confirmed: a weekend speaks for itself.
OnItsOwn(weekends, u) == TRUE

\* The weekends after it have to agree.
Confirmed(weekends, u) ==
  /\ Cardinality(Following(weekends, u)) = Confirmations
  /\ \A v \in Following(weekends, u) : weekends[v] = weekends[u]

\* Mistake in Since: the opening after the confirmed weekend.
SinceNext(weekends, u) == u

\* A switch counts from the opening before the first weekend that shows it.
Since(weekends, u) == Before(DOMAIN weekends, u)

Step(at, minutes) == [at |-> at, minutes |-> minutes]

\* One turn of the loop over the weekends.
Taken(first, weekends, acc, u) ==
  IF u \notin DOMAIN weekends \/ ~Confirmed(weekends, u) THEN acc
  ELSE IF acc = <<>> THEN <<Step(first, weekends[u])>>
  ELSE IF Distance(weekends[u], acc[Len(acc)].minutes) \in 1 .. MaxSwitch
  THEN Append(acc, Step(Since(weekends, u), weekends[u]))
  ELSE acc

Steps(first, weekends) ==
  LET taken[n \in 0 .. now + MaxOffset] == IF n = 0 THEN <<>> ELSE Taken(first, weekends, taken[n - 1], n - 1)
  IN  taken[now + MaxOffset]

-----------------------------------------------------------------------------
(* The tick, and the measurement *)

MarketIsOpen == Hour(now) <= Open

\* measure_offset_from_tick: the last tick may be old without the code noticing.
TickOffset ==
  LET ticks == {u \in 0 .. now : Quoted(u)}
      label == Label(Latest(ticks))
  IN  IF MarketIsOpen /\ ticks # {} /\ Plausible(label - now)
      THEN label - now ELSE Unknown

CurrentWeekLabel(minutes) == Opening(WeekOf(now)) + minutes

\* The scanned steps, pinned to the tick's offset from the current week's opening on.
Pinned(scanned, tick) ==
  IF tick # Unknown /\ tick # scanned[Len(scanned)].minutes
  THEN Append(scanned, Step(CurrentWeekLabel(tick), tick)) ELSE scanned

ScannedSteps(from) ==
  LET bars     == Bars(from)
      weekends == Weekends(bars)
  IN  IF Cardinality(DOMAIN weekends) < MinWeekends THEN <<>> ELSE Steps(First(bars), weekends)

\* measure_history_clock, falling back on measure_server_clock, falling back on the tick.
MeasuredSteps(scanned, tick) ==
  IF scanned # <<>> THEN Pinned(scanned, tick)
  ELSE IF tick # Unknown THEN <<Step(CurrentWeekLabel(tick), tick)>>
  ELSE <<>>

\* The terminal's history may begin anywhere, and no symbol may answer with a tick.
Measure ==
  /\ \E from \in {w \in Starts : w <= WeekOf(now)} :
       LET scanned == ScannedSteps(from)
       IN  \E tick \in {TickOffset, Unknown} :
             /\ steps' = MeasuredSteps(scanned, tick)
             /\ measured' = [at |-> now, from |-> from, tick |-> tick, scanned |-> scanned # <<>>]
  /\ swept' = Nothing
  /\ UNCHANGED <<now, world>>

-----------------------------------------------------------------------------
(* Conversion *)

LastStep(S) == steps[Latest(S)]

OffsetAt(label) ==
  LET begun == {i \in DOMAIN steps : steps[i].at <= label}
  IN  IF begun = {} THEN steps[1].minutes ELSE LastStep(begun).minutes

ToUtc(label) == label - OffsetAt(label)

\* Mistake in ToServer: a time in UTC compared with a label.
ToServerByLabel(u) == u + OffsetAt(u)

ToServer(u) ==
  LET begun == {i \in DOMAIN steps : steps[i].at <= u + steps[i].minutes}
  IN  u + (IF begun = {} THEN steps[1].minutes ELSE LastStep(begun).minutes)

\* copy_rates: the window is asked for in labels, both ends included, the answer converted
\* and cut to [start, end).  Without a clock nothing is kept.
CopyRates(start, end) ==
  IF steps = <<>> THEN {}
  ELSE {u \in {ToUtc(label) : label \in Bars(0) \cap (ToServer(start) .. ToServer(end))} :
          start <= u /\ u < end}

\* A regular pass reads on from its last candle, a repair reads the last days.
Sweep ==
  /\ \E start \in {now - Lookback} \cup {u \in now - Open .. now - 1 : Quoted(u)} :
       start >= 0 /\ swept' = [start |-> start, rows |-> CopyRates(start, now)]
  /\ UNCHANGED <<now, world, steps, measured>>

-----------------------------------------------------------------------------

\* Time passes to the next moment; a clock that is due is measured anew before it is used.
Tick ==
  /\ \E t \in now + 1 .. now + Week :
       /\ WeekOf(t) \in Calendar /\ Hour(t) \in Moments
       /\ \A u \in now + 1 .. t - 1 : Hour(u) \notin Moments
       /\ now' = t
       /\ IF t - measured.at <= Refresh THEN UNCHANGED <<steps, measured>>
          ELSE steps' = <<>> /\ measured' = Never
  /\ swept' = Nothing
  /\ UNCHANGED world

\* The last week is over.
Over ==
  /\ now > Opening(Weeks - 1) /\ \A u \in now + 1 .. Opening(Weeks) - 1 : Hour(u) \notin Moments
  /\ UNCHANGED vars

Switches(f) == {w \in 1 .. Weeks - 1 : f[w] # f[w - 1]}

Init ==
  /\ now = 0
  /\ offset \in {f \in [Calendar -> Offsets] : Cardinality(Switches(f)) <= MaxSwitches}
  /\ missing \in {f \in [Calendar -> Missing \cup {0}] :
                    Cardinality({w \in Calendar : f[w] # 0}) <= MaxHolidays}
  /\ steps = <<>> /\ measured = Never /\ swept = Nothing

Next == Tick \/ Measure \/ Sweep \/ Over

Spec == Init /\ [][Next]_vars

-----------------------------------------------------------------------------
(* Properties *)

TypeOK ==
  /\ now \in Nat
  /\ offset \in [Calendar -> Offsets] /\ missing \in [Calendar -> Missing \cup {0}]
  /\ steps \in Seq([at : Int, minutes : -MaxOffset .. MaxOffset])
  /\ measured \in [at : Int, from : Nat, tick : Int, scanned : BOOLEAN] /\ measured.at <= now
  /\ swept.start \in Nat /\ swept.rows \subseteq Nat

\* The tick was that of the moment, not one left from before a holiday.
TickWasFresh == measured.tick # Unknown => Quoted(measured.at)

\* A holiday so long that the gap is read as no weekend at all.
Skipped(w) == Distance(offset[w] - missing[w], 0) > MaxOffset

\* A closing that is left out, or that holidays up to a switch make look like the next season's.
Mistaken(w) ==
  \/ Skipped(w)
  \/ \E s \in Switches(offset) : /\ w < s /\ \A v \in w .. s - 1 : missing[v] # 0
                                 /\ offset[w] - missing[w] = offset[s]

\* The weeks since the switch before w whose closing had been read when the clock was measured.
Read(w) ==
  LET begun == {s \in Switches(offset) : s <= w} \cup {measured.from}
      since == CHOOSE s \in begun : \A t \in begun : t <= s
  IN  {v \in since .. WeekOf(measured.at) - 1 : ~Skipped(v) /\ measured.at > Opening(v + 1)}

\* The first three closings after the switch were regular, and those between w and the next
\* switch are not all mistaken.
Settled(w) ==
  /\ w >= measured.from
  /\ LET three == {v \in Read(w) : Cardinality({u \in Read(w) : u < v}) <= Confirmations}
     IN  /\ Cardinality(three) = Confirmations + 1
         /\ \A v \in three : missing[v] = 0 /\ offset[v] = offset[w]
  /\ \E v \in w .. Weeks - 1 : ~Mistaken(v) /\ \A u \in w .. v : offset[u] = offset[w]

\* A week whose offset the worker can know: confirmed, or that of the tick.
Known(w) ==
  /\ measured # Never /\ TickWasFresh
  /\ \/ Settled(w)
     \/ w = WeekOf(measured.at) /\ measured.tick # Unknown

\* "a switch is accepted" two weekends later and the live tick bridges the wait (README.md:40,
\* clock.py:258-266): the labels of every known week convert to the minutes they stand for,
\* whatever part of the history was scanned and whatever holidays lie around.
KnownWeeksConvert ==
  \A w \in Calendar :
    Known(w) => \A u \in Opening(w) .. now - 1 : Quoted(u) /\ WeekOf(u) = w => ToUtc(Label(u)) = u

\* "which keeps holidays out of the result" (README.md:40): every offset is one the broker had
\* and every later step is an opening with that offset, or that of a week whose closing a holiday
\* took away or made look like the next season's.
HolidaysStayOut ==
  measured # Never /\ TickWasFresh =>
    /\ \A i \in DOMAIN steps : \E w \in Calendar : offset[w] = steps[i].minutes
    /\ \A i \in DOMAIN steps \ {1} : \E w \in Calendar :
         steps[i].at = Label(Opening(w)) /\ (offset[w] = steps[i].minutes \/ Mistaken(w))

\* The window of a request is neither cut nor shifted by the conversion of its ends: over known
\* weeks it brings exactly the quoted hours.  Not so for a window that starts less than a switch
\* before an opening, when the clock was set back over that weekend (clock.py:106-115).
SweepIsWhole ==
  /\ swept # Nothing /\ Hour(swept.start) + MaxSwitch <= Week
  /\ \A w \in WeekOf(swept.start) .. WeekOf(now) : Known(w)
  => swept.rows = {u \in swept.start .. now - 1 : Quoted(u)}

\* The clock was measured just now from enough history and, with the market open, a fresh tick.
WellMeasured ==
  measured.at = now /\ measured.scanned /\ IF MarketIsOpen THEN Quoted(now) /\ measured.tick # Unknown
                                           ELSE measured.tick = Unknown

\* "Candles are stored in real UTC, so the offset has to be reconstructed rather than assumed"
\* (README.md:38): no request brings a candle for a time at which there was no quote.
StoredInUtc == WellMeasured => \A u \in swept.rows : Quoted(u)
=============================================================================
