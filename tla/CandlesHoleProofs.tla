------------------------- MODULE CandlesHoleProofs -------------------------
(* Against a terminal that has every finished bar and reports its failures,   *)
(* the candles worker leaves no holes, whatever fails or dies and wherever;   *)
(* and an operator who rewinds a watermark while the loop rests gets the      *)
(* range back.  Both come from what a watermark says of the bars before it.   *)
EXTENDS CandlesProofs, CandlesOperator

USE DEF NoTime, Nobody, Times

\* The terminal has downloaded every bar of a minute that is over.
PromptTerminal == \A s \in Symbols : {m \in Bars[s] : m < now} \subseteq local[s]

\* Every bar a backfill reaches, up to a minute, is stored.
WholeTo(s, n) == {m \in Wanted(s) : m <= n} \subseteq stored[s]

\* Every bar up to the watermark is stored; without one, up to every candle.
MarkWhole ==
  \A s \in Symbols :
    /\ mark[s] # NoTime => WholeTo(s, mark[s])
    /\ mark[s] = NoTime => \A n \in stored[s] : WholeTo(s, n)

\* Every such bar before the next window is stored or in the buffer, the buffer is before it.
Covered ==
  /\ {m \in Wanted(job.sym) : m < job.at} \subseteq stored[job.sym] \cup job.buf
  /\ \A m \in job.buf : m < job.at

\* A sweep stays before the watermark.
JobCovers ==
  /\ pc \in Reading => Covered
  /\ FinishedIsComplete
  /\ pc = "mend" => job.end <= mark[job.sym]

CoverInv == MarkWhole /\ JobCovers

\* A step removes nothing, and leaves out no bar before one it stores.
StoresInOrder ==
  \A s \in Symbols :
    /\ stored[s] \subseteq stored'[s]
    /\ \A n \in stored'[s] \ stored[s], m \in Wanted(s) : m <= n => m \in stored'[s]

-----------------------------------------------------------------------------
(* Days *)

\* What a backfill reaches are bars from BACKFILL_START_DATE on.
LEMMA WantedBars ==
  ASSUME NEW s \in Symbols, NEW m \in Wanted(s)
  PROVE  m \in Bars[s] /\ m \in Nat /\ StartDate <= m
BY EnvironmentAssumption DEF Wanted

\* A later day opens a day later at least.
LEMMA DaysApart ==
  ASSUME NEW m \in Nat, NEW n \in Nat, DayOpen(m) < DayOpen(n)
  PROVE  DayOpen(m) + Day <= DayOpen(n)
<1> DEFINE a == (m + Ahead) \div Day
           b == (n + Ahead) \div Day
<1>1. Day \in Int /\ Day > 0 /\ Ahead \in Int
  BY OptionsAssumption
<1>2. a \in Int /\ b \in Int
  BY <1>1
<1>3. DayOpen(m) = a * Day - Ahead /\ DayOpen(n) = b * Day - Ahead
  BY DEF DayOpen
<1> HIDE DEF a, b
<1>4. a * Day \in Int /\ b * Day \in Int /\ a * Day < b * Day
  BY <1>1, <1>2, <1>3
<1>5. a < b
  BY <1>1, <1>2, <1>4
<1>6. (a + 1) * Day <= b * Day /\ (a + 1) * Day = a * Day + Day
  BY <1>1, <1>2, <1>5
<1> QED
  BY <1>1, <1>3, <1>4, <1>6

\* A bar that is over, of a day that opens after the start date, has its day in the list a
\* prompt terminal gives.
LEMMA DayIsListed ==
  ASSUME TypeInv, PromptTerminal, job.sym \in Symbols, job.end \in Int, job.end <= now,
         NEW n \in Bars[job.sym], n < job.end, StartDate <= DayOpen(n)
  PROVE  DayOpen(n) \in KnownDays
<1>1. n \in Nat /\ now \in Nat
  BY EnvironmentAssumption DEF TypeInv, TypeOK, EnvOK
<1>2. n \in local[job.sym]
  BY <1>1 DEF PromptTerminal
<1>3. DayOpen(n) <= job.end
  BY <1>1, DayOpenType
<1> QED
  BY <1>2, <1>3 DEF KnownDays

\* A bar a backfill reaches is of a listed day, or of the day before one.
LEMMA WantedIsListed ==
  ASSUME TypeInv, PromptTerminal, job.sym \in Symbols, job.end \in Int, job.end <= now,
         NEW m \in Wanted(job.sym), NEW limit \in Int, limit <= job.end, m < limit,
         \A n \in Bars[job.sym] : DayOpen(n) = DayOpen(m) + Day /\ DayOpen(m) < StartDate => n < limit
  PROVE  \E d \in KnownDays : d <= m + Day
<1>1. /\ m \in Bars[job.sym] /\ m \in Nat /\ StartDate <= m /\ now \in Nat
      /\ StartDate \in Int /\ Day \in Int /\ Day > 0
      /\ DayOpen(m) \in Int /\ DayOpen(m) <= m /\ m < DayOpen(m) + Day
  BY WantedBars, DayOpenType, OptionsAssumption DEF TypeInv, TypeOK, EnvOK
<1>2. CASE StartDate <= DayOpen(m)
  <2>1. DayOpen(m) \in KnownDays
    BY <1>1, <1>2, DayIsListed
  <2> QED
    BY <1>1, <2>1
<1>3. CASE ~(StartDate <= DayOpen(m))
  <2>1. PICK n \in Bars[job.sym] : DayOpen(n) = DayOpen(m) + Day
    BY <1>1, <1>3 DEF Wanted
  <2>2. n \in Nat /\ n < limit
    BY <1>1, <1>3, <2>1, EnvironmentAssumption
  <2>3. DayOpen(n) \in KnownDays
    BY <1>1, <2>1, <2>2, DayIsListed
  <2> QED
    BY <1>1, <2>1, <2>3
<1> QED
  BY <1>2, <1>3

-----------------------------------------------------------------------------
(* What the terminal answers, and what is written *)

\* A terminal that reports its failures answers a window with all it holds.
LEMMA AnswerIsFull ==
  ASSUME ~Refusals, NEW rows, CopyRates(rows)
  PROVE  rows = Kept
BY DEF CopyRates, Refused

\* The bars of the current window are over, so the terminal holds them.
LEMMA WindowCovered ==
  ASSUME TypeInv, Safe, PromptTerminal, pc \in Working
  PROVE  {m \in Bars[job.sym] : job.at <= m /\ m < WindowEnd} \subseteq Kept
<1>1. /\ job.sym \in Symbols /\ job.at \in Int /\ job.end \in Int /\ now \in Nat /\ job.end <= now
      /\ Bars[job.sym] \subseteq Nat
  BY EnvironmentAssumption DEF TypeInv, TypeOK, EnvOK, PhaseOK, JobOK, Jobs, Control, Safe, OnlyOver
<1>2. WindowEnd \in Int /\ WindowEnd <= job.end
  BY <1>1, KeptBounds, KeptType DEF TypeInv
<1>3. ASSUME NEW m \in Bars[job.sym], job.at <= m, m < WindowEnd PROVE m \in Kept
  <2>1. m \in local[job.sym]
    BY <1>1, <1>2, <1>3 DEF PromptTerminal
  <2> QED
    BY <1>1, <1>2, <1>3, <2>1 DEF Kept, TerminalRows
<1> QED
  BY <1>3

\* Whatever part of the buffer, or of a window before the watermark, reaches the table, no bar
\* before one of its minutes is left out.
LEMMA WrittenInOrder ==
  ASSUME TypeInv, CoverInv, pc \in Working, NEW rows,
         \/ pc \in {"flush", "insert"} /\ rows \in Prefixes(job.buf)
         \/ pc = "mend" /\ rows \subseteq Kept
  PROVE  \A n \in rows : {m \in Wanted(job.sym) : m <= n} \subseteq stored[job.sym] \cup rows
<1>1. /\ job.sym \in Symbols /\ job.at \in Int /\ job.end \in Int /\ job.buf \subseteq Nat
      /\ mark[job.sym] \in Times /\ Wanted(job.sym) \subseteq Nat
  BY WantedBars DEF TypeInv, TypeOK, StoreOK, PhaseOK, JobOK, Jobs, Control
<1>2. CASE pc \in {"flush", "insert"} /\ rows \in Prefixes(job.buf)
  <2>1. Covered
    BY <1>2 DEF CoverInv, JobCovers, Reading
  <2>2. rows \subseteq job.buf /\ \A n \in rows, m \in job.buf : m <= n => m \in rows
    BY <1>1, <1>2 DEF Prefixes
  <2> QED
    BY <1>1, <2>1, <2>2 DEF Covered
<1>3. CASE pc = "mend" /\ rows \subseteq Kept
  <2>1. \A n \in rows : n \in Nat /\ n < job.end
    BY <1>1, <1>3, KeptBounds DEF TypeInv
  <2>2. job.end <= mark[job.sym]
    BY <1>3 DEF CoverInv, JobCovers
  <2>3. \A n \in rows : mark[job.sym] # NoTime /\ n < mark[job.sym]
    BY <1>1, <2>1, <2>2
  <2>4. ASSUME NEW n \in rows, NEW m \in Wanted(job.sym), m <= n
        PROVE  m \in stored[job.sym]
    <3>1. m \in Nat /\ m <= mark[job.sym] /\ mark[job.sym] # NoTime
      BY <1>1, <2>1, <2>3, <2>4
    <3>2. WholeTo(job.sym, mark[job.sym])
      BY <1>1, <3>1 DEF CoverInv, MarkWhole
    <3> QED
      BY <2>4, <3>1, <3>2 DEF WholeTo
  <2> QED
    BY <2>4
<1> QED
  BY <1>2, <1>3

\* Minutes written in this way keep what the watermarks say, and add no hole.
LEMMA WritingKeepsWhole ==
  ASSUME TypeInv, CoverInv, pc \in Working, NEW rows \in SUBSET Nat,
         \A n \in rows : {m \in Wanted(job.sym) : m <= n} \subseteq stored[job.sym] \cup rows,
         stored' = [stored EXCEPT ![job.sym] = @ \cup rows]
  PROVE  /\ UNCHANGED mark => MarkWhole'
         /\ StoresInOrder
<1>1. /\ job.sym \in Symbols /\ stored \in [Symbols -> SUBSET Nat] /\ mark \in [Symbols -> Times]
  BY DEF TypeInv, TypeOK, StoreOK, PhaseOK, JobOK, Jobs, Control
<1>2. \A s \in Symbols : stored'[s] = IF s = job.sym THEN stored[s] \cup rows ELSE stored[s]
  BY <1>1
<1>3. ASSUME UNCHANGED mark PROVE MarkWhole'
  BY <1>1, <1>2, <1>3 DEF CoverInv, MarkWhole, WholeTo
<1>4. StoresInOrder
  BY <1>1, <1>2 DEF StoresInOrder
<1> QED
  BY <1>3, <1>4

\* A watermark written by the worker stands before every window to come.
LEMMA AdvancingKeepsWhole ==
  ASSUME TypeInv, Safe, CoverInv, pc \in {"advance", "mark"}, UNCHANGED stored,
         mark' \in {mark, [mark EXCEPT ![job.sym] = job.high]}
  PROVE  MarkWhole'
<1>1. /\ job.sym \in Symbols /\ mark \in [Symbols -> Times]
      /\ job.high \in Times /\ job.at \in Int /\ Wanted(job.sym) \subseteq Nat
  BY WantedBars
     DEF TypeInv, TypeOK, StoreOK, PhaseOK, JobOK, Jobs, Control, Working
<1>2. Covered /\ Forward /\ job.buf = {}
  BY DEF CoverInv, JobCovers, Safe, JobForward, Forward, Reading
<1>3. WholeTo(job.sym, job.high)
  BY <1>1, <1>2 DEF Covered, Forward, WholeTo
<1>4. job.high = NoTime => mark[job.sym] = NoTime
  BY <1>1, <1>2 DEF Forward
<1> QED
  BY <1>1, <1>3, <1>4 DEF CoverInv, MarkWhole, WholeTo

\* Where a job begins, the bars before it are stored.
LEMMA StartCovered ==
  ASSUME TypeInv, CoverInv, NEW s \in Symbols, marks[s] = mark[s], NEW last \in Last(s)
  PROVE  /\ last \in Times
         /\ {m \in Wanted(s) : m <= last} \subseteq stored[s]
<1>1. /\ stored \in [Symbols -> SUBSET Nat] /\ mark \in [Symbols -> Times] /\ Wanted(s) \subseteq Nat
      /\ last \in Times
  BY WantedBars, LastType DEF TypeInv, TypeOK, StoreOK
<1>2. CASE mark[s] # NoTime
  BY <1>1, <1>2 DEF Last, CoverInv, MarkWhole, WholeTo
<1>3. CASE mark[s] = NoTime
  <2>1. last = NoTime \/ last \in stored[s]
    BY <1>1, <1>3, NewestIs DEF Last
  <2>2. last \in stored[s] => WholeTo(s, last)
    BY <1>3 DEF CoverInv, MarkWhole
  <2> QED
    BY <1>1, <2>1, <2>2 DEF WholeTo
<1> QED
  BY <1>2, <1>3

\* Rows of the current window absorbed into the buffer: the windows read so far are covered.
LEMMA AbsorbCovers ==
  ASSUME TypeInv, Safe, PromptTerminal, Covered, pc \in {"sync", "settle"}, job.at < job.end,
         NEW rows, Kept \subseteq rows, rows \subseteq Kept, Absorb(rows), UNCHANGED stored
  PROVE  Covered' /\ pc' \in {"flush", "sync"}
<1>1. /\ job \in Jobs /\ job.sym \in Symbols /\ job.at \in Int /\ job.buf \subseteq Nat
      /\ WindowEnd \in Int /\ Bars[job.sym] \subseteq Nat
  BY EnvironmentAssumption, KeptType
     DEF TypeInv, TypeOK, PhaseOK, JobOK, Jobs, Control, Working
<1>2. /\ job'.sym = job.sym /\ job'.at = WindowEnd /\ job'.buf = job.buf \cup rows
      /\ pc' \in {"flush", "sync"}
  BY <1>1 DEF Absorb, Jobs
<1>3. /\ {m \in Bars[job.sym] : job.at <= m /\ m < WindowEnd} \subseteq rows
      /\ \A m \in rows : m < WindowEnd
      /\ job.at < WindowEnd
  BY <1>1, WindowCovered, KeptBounds DEF TypeInv, Working
<1>4. \A m \in job.buf \cup rows : m < WindowEnd
  BY <1>1, <1>3 DEF Covered
<1>5. ASSUME NEW m \in Wanted(job.sym), m < WindowEnd
      PROVE  m \in stored[job.sym] \cup job.buf \cup rows
  <2>1. m \in Bars[job.sym] /\ m \in Nat
    BY <1>1, WantedBars
  <2> QED
    BY <1>1, <1>3, <1>5, <2>1 DEF Covered
<1> QED
  BY <1>2, <1>4, <1>5 DEF Covered

-----------------------------------------------------------------------------
(* The inductive invariant *)

\* A worker started over a store without holes.
LEMMA CoverInit == Init /\ HoleFree => CoverInv
<1> SUFFICES ASSUME Init, HoleFree PROVE CoverInv
  OBVIOUS
<1>1. \A s \in Symbols : mark[s] # NoTime => mark[s] \in stored[s]
  BY SafeInit DEF Safe, MarkStored
<1>2. MarkWhole
  BY <1>1 DEF MarkWhole, WholeTo, HoleFree
<1>3. JobCovers
  BY DEF Init, JobCovers, FinishedIsComplete, Reading
<1> QED
  BY <1>2, <1>3 DEF CoverInv

\* A step that leaves the two tables alone and no symbol in hand.
LEMMA JoblessCovers ==
  ASSUME CoverInv, UNCHANGED <<stored, mark>>, pc' \notin Working
  PROVE  CoverInv'
BY DEF CoverInv, MarkWhole, WholeTo, JobCovers, FinishedIsComplete, Reading, Working

\* A step that leaves the two tables alone: only the job counts.
LEMMA SameTablesCover ==
  ASSUME CoverInv, UNCHANGED <<stored, mark>>, JobCovers'
  PROVE  CoverInv'
BY DEF CoverInv, MarkWhole, WholeTo

\* Every step of the worker keeps every watermark true, as long as the terminal is prompt.
LEMMA CoverStep ==
  ASSUME ~Refusals
  PROVE  TypeInv /\ TypeInv' /\ Safe /\ Safe' /\ PromptTerminal /\ CoverInv /\ [Next]_vars => CoverInv'
<1> SUFFICES ASSUME TypeInv, TypeInv', Safe, Safe', PromptTerminal, CoverInv, [Next]_vars
             PROVE  CoverInv'
  OBVIOUS
<1> USE DEF env, store, memory, phase
<1>t. /\ pc \in Working => job.sym \in todo /\ job.sym \in Symbols
      /\ pc \notin Working => job = NoJob /\ job.sym = Nobody
      /\ now \in Nat /\ todo \subseteq Symbols /\ job \in Jobs
      /\ stored \in [Symbols -> SUBSET Nat] /\ mark \in [Symbols -> Times]
      /\ marks \in [Symbols -> Times] /\ sweep \in [from : Int, to : Nat]
      /\ \A s \in Symbols : Bars[s] \subseteq Nat
      /\ \A s \in Symbols : \A m \in Wanted(s) : m \in Bars[s] /\ m \in Nat /\ StartDate <= m
      /\ StartDate \in Nat /\ Day \in Nat \ {0}
  BY EnvironmentAssumption, OptionsAssumption, WantedBars DEF TypeInv, TypeOK, Control, EnvOK, StoreOK, PhaseOK, JobOK, NoJob
(* the environment, and steps without a symbol in hand *)
<1>1. ASSUME UNCHANGED <<stored, mark, pc, job>> PROVE CoverInv'
  BY <1>1, SameTablesCover DEF CoverInv, JobCovers, Covered, FinishedIsComplete
<1>2. CASE Environment \/ UNCHANGED vars
  BY <1>1, <1>2 DEF Environment, Tick, Download, RepairComesDue, CatalogComesDue, vars
<1>3. CASE Refresh \/ BeginPass \/ SyncDone \/ BeginBackfill \/ NoBackfill \/ DailyUnstable
           \/ FinishBackfill \/ DeadlinePasses \/ QueueDone
  BY <1>3, JoblessCovers
     DEF Refresh, CatalogEmpty, RefreshCatalog, BeginPass, SyncDone, BeginBackfill, NoBackfill,
         DailyUnstable, FinishBackfill, DeadlinePasses, QueueDone, EndBackfill, Working
<1>4. CASE BeginRepair \/ NoRepair \/ MendDone \/ EndRepair
           \/ \E unlocked \in SUBSET Symbols : Rest(unlocked)
  BY <1>4, JoblessCovers DEF BeginRepair, NoRepair, MendDone, EndRepair, Rest, Working
<1>5. ASSUME NEW s \in todo, Requeue(s) \/ SkipIdle(s) \/ SkipFailing(s) PROVE CoverInv'
  BY <1>5, JoblessCovers DEF Requeue, SkipIdle, SkipFailing, Working
<1>6. CASE StateWriteFails \/ IterationFails \/ Crash
  BY <1>6, JoblessCovers DEF StateWriteFails, IterationFails, Crash, Working
(* a job is taken up *)
<1>7. ASSUME NEW s \in todo, StartSync(s) PROVE CoverInv'
  <2>1. PICK last \in Last(s) :
          job' = [Job(s, last, SyncStart(last), now) EXCEPT !.catching = CatchingUp(last)]
    BY <1>7 DEF StartSync
  <2>2. /\ UNCHANGED <<stored, mark>> /\ pc' = "sync" /\ marks[s] = mark[s]
    BY <1>7, <1>t, NobodyIsNoSymbol DEF StartSync, Safe, MarksFresh, Working
  <2>3. /\ last \in Times
        /\ {m \in Wanted(s) : m <= last} \subseteq stored[s]
    BY <1>t, <2>1, <2>2, StartCovered
  <2>4. job'.sym = s /\ job'.at = SyncStart(last) /\ job'.buf = {}
    BY <2>1 DEF Job, NoJob
  <2>5. \A m \in Wanted(s) : m < SyncStart(last) => m <= last
    BY <1>t, <2>3 DEF SyncStart, Larger
  <2>6. Covered'
    BY <2>2, <2>3, <2>4, <2>5 DEF Covered
  <2> QED
    BY <2>2, <2>6, SameTablesCover DEF JobCovers, FinishedIsComplete
<1>8. ASSUME NEW s \in todo, TakeQueued(s) PROVE CoverInv'
  <2>1. PICK last \in Last(s) :
          /\ job' = Job(s, last, last + 1, now)
          /\ pc' = IF last = NoTime THEN "daily" ELSE IF last + 1 >= now THEN "finish" ELSE "fill"
    BY <1>8 DEF TakeQueued
  <2>2. /\ UNCHANGED <<stored, mark>> /\ marks[s] = mark[s]
    BY <1>8, <1>t, NobodyIsNoSymbol DEF TakeQueued, Safe, MarksFresh, Working
  <2>3. /\ last \in Times
        /\ {m \in Wanted(s) : m <= last} \subseteq stored[s]
    BY <1>t, <2>1, <2>2, StartCovered
  <2>4. job'.sym = s /\ job'.at = last + 1 /\ job'.end = now /\ job'.buf = {}
    BY <2>1 DEF Job, NoJob
  <2>5. \A m \in Wanted(s) : m < last + 1 => m <= last
    BY <1>t, <2>3
  <2>6. Covered'
    BY <2>2, <2>3, <2>4, <2>5 DEF Covered
  <2>7. FinishedIsComplete'
    BY <1>t, <2>1, <2>2, <2>3, <2>4, <2>5 DEF FinishedIsComplete
  <2> QED
    BY <2>1, <2>2, <2>6, <2>7, SameTablesCover DEF JobCovers
<1>9. ASSUME NEW s \in todo, SweepSymbol(s) PROVE CoverInv'
  <2>1. /\ UNCHANGED <<stored, mark>> /\ pc' = "mend" /\ marks[s] = mark[s]
        /\ job' = Job(s, marks[s], sweep.from, Smaller(marks[s], sweep.to))
    BY <1>9, <1>t, NobodyIsNoSymbol DEF SweepSymbol, Safe, MarksFresh, Working
  <2>2. job'.sym = s /\ job'.end = Smaller(mark[s], sweep.to)
    BY <2>1 DEF Job, NoJob
  <2>3. job'.end <= mark'[s]
    BY <1>t, <2>1, <2>2 DEF Smaller
  <2> QED
    BY <2>1, <2>2, <2>3, SameTablesCover DEF JobCovers, FinishedIsComplete, Reading
(* rows arrive *)
<1>10. CASE SyncWindow
  <2>1. /\ received' = received \cup Kept
        /\ \/ /\ job' = [job EXCEPT !.best = Kept, !.prev = Kept, !.tries = HistoryRetries]
              /\ pc' = "settle"
           \/ Absorb(Kept)
    BY <1>10, AnswerIsFull DEF SyncWindow
  <2>2. UNCHANGED <<stored, mark>> /\ pc = "sync" /\ job.at < job.end /\ Covered
    BY <1>10 DEF SyncWindow, CoverInv, JobCovers, Reading
  <2>3. CASE Absorb(Kept)
    <3>1. Covered' /\ pc' \in {"flush", "sync"}
      BY <2>2, <2>3, AbsorbCovers
    <3> QED
      BY <2>2, <3>1, SameTablesCover DEF JobCovers, FinishedIsComplete
  <2>4. CASE /\ job' = [job EXCEPT !.best = Kept, !.prev = Kept, !.tries = HistoryRetries]
             /\ pc' = "settle"
    <3>1. job'.sym = job.sym /\ job'.at = job.at /\ job'.buf = job.buf
      BY <1>t, <2>4 DEF Jobs
    <3> QED
      BY <2>2, <2>4, <3>1, SameTablesCover DEF JobCovers, FinishedIsComplete, Covered
  <2> QED
    BY <2>1, <2>3, <2>4
<1>11. CASE SettleWindow
  <2>1. \/ Absorb(Fuller(job.best, Kept))
        \/ /\ pc' = "settle"
           /\ job' = [job EXCEPT !.best = Fuller(job.best, Kept), !.prev = Kept, !.tries = @ - 1]
    BY <1>11, AnswerIsFull DEF SettleWindow
  <2>2. /\ UNCHANGED <<stored, mark>> /\ pc = "settle" /\ job.at < job.end /\ Covered
        /\ job.best \subseteq Kept
    BY <1>11 DEF SettleWindow, CoverInv, JobCovers, Safe, JobForward, Forward, Reading
  <2>3. Fuller(job.best, Kept) \subseteq Kept /\ Kept \subseteq Fuller(job.best, Kept)
    BY <1>t, <2>2, FullerContains DEF TypeInv, Working
  <2>4. CASE Absorb(Fuller(job.best, Kept))
    <3>1. Covered' /\ pc' \in {"flush", "sync"}
      BY <2>2, <2>3, <2>4, AbsorbCovers
    <3> QED
      BY <2>2, <3>1, SameTablesCover DEF JobCovers, FinishedIsComplete
  <2>5. CASE /\ pc' = "settle"
             /\ job' = [job EXCEPT !.best = Fuller(job.best, Kept), !.prev = Kept, !.tries = @ - 1]
    <3>1. job'.sym = job.sym /\ job'.at = job.at /\ job'.buf = job.buf
      BY <1>t, <2>5 DEF Jobs
    <3> QED
      BY <2>2, <2>5, <3>1, SameTablesCover DEF JobCovers, FinishedIsComplete, Covered
  <2> QED
    BY <2>1, <2>4, <2>5
<1>12. CASE DailyFound
  <2>1. PICK first \in Oldest(KnownDays) :
          /\ job' = [job EXCEPT !.at = BackfillStart(first)]
          /\ pc' = IF BackfillStart(first) >= job.end THEN "finish" ELSE "fill"
    BY <1>12 DEF DailyFound
  <2> DEFINE start == BackfillStart(first)
  <2>2. UNCHANGED <<stored, mark>> /\ pc = "daily" /\ job.sym \in Symbols /\ job.buf = {}
    BY <1>12, <1>t DEF DailyFound, Safe, JobForward, Forward, Reading, Working
  <2>3. /\ first \in KnownDays /\ first \in Int /\ \A d \in KnownDays : first <= d /\ d \in Int
        /\ first <= job.end /\ job.end \in Int /\ job.end <= now
        /\ \E n \in Nat : first = DayOpen(n)
    BY <1>t, <2>1, <2>2, KnownDaysType
       DEF Oldest, KnownDays, TypeInv, TypeOK, EnvOK, Jobs, Safe, OnlyOver, Working
  <2>4. start \in Int /\ start = Larger(StartDate, first - Day)
    BY <2>2, <2>3, KnownDaysType DEF BackfillStart, TypeInv
  <2>5. /\ job' = [job EXCEPT !.at = start]
        /\ pc' = IF start >= job.end THEN "finish" ELSE "fill"
    BY <2>1
  <2> HIDE DEF start
  <2>7. job'.sym = job.sym /\ job'.end = job.end /\ job'.at = start /\ job'.buf = {}
    BY <1>t, <2>2, <2>5 DEF Jobs
  <2>8. ASSUME NEW m \in Wanted(job.sym), m < start PROVE FALSE
    <3>1. m \in Nat /\ m + Day < first
      BY <1>t, <2>2, <2>3, <2>4, <2>8 DEF Larger
    <3>2. ASSUME NEW n \in Bars[job.sym], DayOpen(n) = DayOpen(m) + Day PROVE n < first
      <4>1. n \in Nat /\ n < DayOpen(n) + Day /\ DayOpen(n) \in Int /\ DayOpen(m) <= m /\ DayOpen(m) \in Int
        BY <1>t, <2>2, <3>1, DayOpenType
      <4>2. DayOpen(n) < first
        BY <1>t, <2>3, <3>1, <3>2, <4>1
      <4>3. DayOpen(n) + Day <= first
        BY <2>3, <4>1, <4>2, DaysApart
      <4> QED
        BY <1>t, <2>3, <4>1, <4>3
    <3>3. m < first
      BY <1>t, <2>3, <3>1
    <3>4. \E d \in KnownDays : d <= m + Day
      BY <2>2, <2>3, <3>2, <3>3, WantedIsListed
    <3> QED
      BY <1>t, <2>3, <3>1, <3>4
  <2>9. Covered'
    BY <2>7, <2>8 DEF Covered
  <2>10. FinishedIsComplete'
    BY <1>t, <2>2, <2>3, <2>4, <2>5, <2>7, <2>8 DEF FinishedIsComplete
  <2> QED
    BY <2>2, <2>5, <2>9, <2>10, SameTablesCover DEF JobCovers
<1>13. CASE DailyEmpty
  <2>1. KnownDays = {} /\ UNCHANGED <<stored, mark>> /\ pc = "daily"
    BY <1>13 DEF DailyEmpty, Refused
  <2>2. CASE pc' = "finish" /\ UNCHANGED job
    <3>1. /\ job.sym \in Symbols /\ job.end \in Int /\ job.end <= now /\ Covered
      BY <1>t, <2>1 DEF Jobs, Safe, OnlyOver, CoverInv, JobCovers, Working, Reading
    <3>2. ASSUME StartDate + 2 * Day <= job.end, NEW m \in Wanted(job.sym), m < job.end PROVE FALSE
      <4>1. m \in Nat /\ DayOpen(m) \in Int
        BY <1>t, <3>1, DayOpenType
      <4>2. ASSUME NEW n \in Bars[job.sym], DayOpen(n) = DayOpen(m) + Day, DayOpen(m) < StartDate
            PROVE  n < job.end
        <5>1. n \in Nat /\ n < DayOpen(n) + Day
          BY <1>t, <3>1, DayOpenType
        <5> QED
          BY <1>t, <3>1, <3>2, <4>1, <4>2, <5>1
      <4>3. \E d \in KnownDays : d <= m + Day
        BY <3>1, <3>2, <4>2, WantedIsListed
      <4> QED
        BY <2>1, <4>3
    <3>3. FinishedIsComplete' /\ Covered'
      BY <2>1, <2>2, <3>1, <3>2 DEF FinishedIsComplete, Covered
    <3> QED
      BY <2>1, <2>2, <3>3, SameTablesCover DEF JobCovers
  <2>3. CASE pc' = "queue"
    BY <2>1, <2>3, JoblessCovers DEF Working
  <2> QED
    BY <1>13, <2>2, <2>3 DEF DailyEmpty
<1>14. CASE FillWindow
  <2>1. /\ job'.sym = job.sym /\ job'.end = job.end /\ job'.at = WindowEnd /\ job'.buf = Kept
        /\ pc' = IF Kept # {} THEN "insert" ELSE IF WindowEnd >= job.end THEN "finish" ELSE "fill"
    BY <1>14, <1>t, AnswerIsFull DEF FillWindow, Jobs
  <2>2. /\ UNCHANGED <<stored, mark>> /\ pc = "fill" /\ job.sym \in Symbols /\ job.buf = {}
        /\ Covered /\ job.at < job.end /\ job.at \in Int /\ job.end \in Int
    BY <1>14, <1>t
       DEF FillWindow, CoverInv, JobCovers, Safe, JobForward, Forward, Reading, Working, Jobs
  <2>3. /\ {m \in Bars[job.sym] : job.at <= m /\ m < WindowEnd} \subseteq Kept
        /\ \A m \in Kept : m < WindowEnd
        /\ WindowEnd \in Int
    BY <2>2, WindowCovered, KeptBounds, KeptType DEF TypeInv, Working
  <2>4. ASSUME NEW m \in Wanted(job.sym), m < WindowEnd
        PROVE  m \in stored[job.sym] \cup Kept
    BY <1>t, <2>2, <2>3, <2>4 DEF Covered
  <2>5. Covered'
    BY <2>1, <2>2, <2>3, <2>4 DEF Covered
  <2>6. FinishedIsComplete'
    BY <1>t, <2>1, <2>2, <2>3, <2>4 DEF FinishedIsComplete
  <2> QED
    BY <2>1, <2>2, <2>5, <2>6, SameTablesCover DEF JobCovers
(* rows and watermarks are written *)
<1>15. CASE InsertRows
  <2>1. /\ UNCHANGED mark /\ pc \in {"flush", "insert"} /\ pc' \in {"advance", "mark"}
        /\ stored' = [stored EXCEPT ![job.sym] = @ \cup job.buf]
        /\ job.sym \in Symbols /\ Covered
    BY <1>15, <1>t DEF InsertRows, CoverInv, JobCovers, Reading, Working
  <2>2. job'.sym = job.sym /\ job'.at = job.at /\ job'.buf = {} /\ job.buf \in SUBSET Nat
    BY <1>15, <1>t DEF InsertRows, Jobs
  <2>3. MarkWhole'
    BY <2>1, <2>2, WrittenInOrder, WritingKeepsWhole DEF Prefixes, Working
  <2>4. Covered'
    BY <1>t, <2>1, <2>2 DEF Covered
  <2> QED
    BY <2>1, <2>3, <2>4 DEF CoverInv, JobCovers, FinishedIsComplete
<1>16. CASE SetWatermark
  <2>1. /\ UNCHANGED <<stored, job>> /\ pc \in {"advance", "mark"}
        /\ pc' \in {"sync", "fill", "finish"} /\ (pc' = "finish" => job.at >= job.end)
        /\ mark' = [mark EXCEPT ![job.sym] = job.high]
        /\ job.sym \in Symbols /\ Covered /\ job.buf = {} /\ job.at \in Int /\ job.end \in Int
    BY <1>16, <1>t
       DEF SetWatermark, Syncing, CoverInv, JobCovers, Safe, JobForward, Forward, Reading, Working, Jobs
  <2>2. MarkWhole'
    BY <2>1, AdvancingKeepsWhole
  <2>3. FinishedIsComplete'
    BY <1>t, <2>1 DEF FinishedIsComplete, Covered
  <2>4. Covered'
    BY <2>1 DEF Covered
  <2> QED
    BY <2>1, <2>2, <2>3, <2>4 DEF CoverInv, JobCovers
<1>17. CASE MendWindow
  <2>1. PICK rows \in {Kept, {}} : stored' = [stored EXCEPT ![job.sym] = @ \cup rows]
    BY <1>17 DEF MendWindow
  <2>2. /\ UNCHANGED mark /\ pc = "mend" /\ pc' = "mend" /\ job.sym \in Symbols
        /\ job' = [job EXCEPT !.at = WindowEnd] /\ rows \in SUBSET Nat
    BY <1>17, <1>t, KeptType DEF MendWindow, TypeInv, Working
  <2>3. job'.sym = job.sym /\ job'.end = job.end
    BY <1>t, <2>2 DEF Jobs
  <2>4. MarkWhole'
    BY <2>1, <2>2, WrittenInOrder, WritingKeepsWhole DEF Working
  <2> QED
    BY <2>2, <2>3, <2>4 DEF CoverInv, JobCovers, FinishedIsComplete, Reading
<1>18. CASE WriteFails \/ MendFails
  <2>1. pc \in Working /\ pc' \notin Working
    BY <1>18 DEF WriteFails, MendFails, Syncing, Working
  <2>2. MarkWhole'
    <3>1. CASE pc \in {"advance", "mark"}
      BY <1>18, <3>1, AdvancingKeepsWhole DEF WriteFails, MendFails
    <3>2. CASE pc \in {"flush", "insert", "mend"}
      <4>1. PICK rows : /\ stored' = [stored EXCEPT ![job.sym] = @ \cup rows] /\ UNCHANGED mark
                        /\ IF pc = "mend" THEN rows \in Prefixes(Kept) ELSE rows \in Prefixes(job.buf)
        BY <1>18, <3>2 DEF WriteFails, MendFails
      <4>2. job.buf \subseteq Nat /\ Kept \subseteq Nat
        BY <1>t, <2>1, KeptType DEF Jobs, TypeInv
      <4>3. rows \in SUBSET Nat /\ (pc = "mend" => rows \subseteq Kept)
        BY <4>1, <4>2 DEF Prefixes
      <4> QED
        BY <2>1, <3>2, <4>1, <4>3, WrittenInOrder, WritingKeepsWhole
    <3> QED
      BY <1>18, <3>1, <3>2 DEF WriteFails, MendFails
  <2> QED
    BY <2>1, <2>2 DEF CoverInv, JobCovers, FinishedIsComplete, Reading, Working
<1> QED
  BY <1>2, <1>3, <1>4, <1>5, <1>6, <1>7, <1>8, <1>9, <1>10, <1>11, <1>12, <1>13, <1>14, <1>15,
     <1>16, <1>17, <1>18
  DEF Next, Pass, Backfill, Write, Repair, Failure

\* Every watermark of a worker with a prompt terminal tells the truth: no bar a backfill reaches
\* is missing before it, and the worker resumes after it.
THEOREM WatermarksAreTrue ==
  ASSUME ~Refusals
  PROVE  Spec /\ HoleFree /\ []PromptTerminal => []CoverInv
<1>1. Init /\ HoleFree => CoverInv
  BY CoverInit
<1>2. TypeInv /\ TypeInv' /\ Safe /\ Safe' /\ PromptTerminal /\ CoverInv /\ [Next]_vars => CoverInv'
  BY CoverStep
<1> QED
  BY <1>1, <1>2, TypeInvariant, SafeInvariant, PTL DEF Spec

\* A terminal that starts with all its history, and none of whose files are pruned, is one.
LEMMA HeldHistoryIsPrompt ==
  ASSUME \A s \in Symbols : Bars[s] \subseteq Loaded0[s], ~PruneCache
  PROVE  Spec => []PromptTerminal
<1> DEFINE Held == \A s \in Symbols : Bars[s] \subseteq local[s]
<1>1. Init => Held
  BY DEF Init
<1>2. TypeInv /\ Held /\ [Next]_vars => Held'
  <2> SUFFICES ASSUME TypeInv, Held, [Next]_vars PROVE Held'
    OBVIOUS
  <2> USE DEF env, store, memory, phase
  <2>1. CASE \E s \in Symbols : Download(s)
    BY <2>1 DEF Download, TypeInv, TypeOK, EnvOK
  <2>2. CASE \E unlocked \in SUBSET Symbols : Rest(unlocked)
    BY <2>2 DEF Rest
  <2>3. CASE Tick \/ RepairComesDue \/ CatalogComesDue \/ Refresh \/ UNCHANGED vars
    BY <2>3 DEF Tick, RepairComesDue, CatalogComesDue, Refresh, CatalogEmpty, RefreshCatalog, vars
  <2>4. CASE Pass
    BY <2>4 DEF Pass, BeginPass, Requeue, StartSync, SkipIdle, SyncWindow, SettleWindow, SyncDone
  <2>5. CASE Backfill
    BY <2>5 DEF Backfill, BeginBackfill, NoBackfill, TakeQueued, DailyFound, DailyEmpty, DailyUnstable,
                FillWindow, FinishBackfill, DeadlinePasses, QueueDone, EndBackfill
  <2>6. CASE Write \/ Repair
    BY <2>6 DEF Write, InsertRows, SetWatermark, Repair, BeginRepair, NoRepair, SweepSymbol,
                MendWindow, MendDone, EndRepair
  <2>7. CASE Failure
    BY <2>7 DEF Failure, SkipFailing, WriteFails, MendFails, StateWriteFails, IterationFails, Crash
  <2> QED
    BY <2>1, <2>2, <2>3, <2>4, <2>5, <2>6, <2>7 DEF Next, Environment
<1>3. Held => PromptTerminal
  BY DEF PromptTerminal
<1> QED
  BY <1>1, <1>2, <1>3, TypeInvariant, PTL DEF Spec

-----------------------------------------------------------------------------
(* The properties *)

\* Whatever the worker does and wherever it fails, it stores in order.
LEMMA StepStoresInOrder ==
  ASSUME TypeInv, CoverInv, [Next]_vars
  PROVE  StoresInOrder
<1> USE DEF env, store, memory, phase
<1>t. /\ job.buf \in SUBSET Nat
      /\ pc \in Working => Kept \in SUBSET Nat
  BY KeptType DEF TypeInv, TypeOK, PhaseOK, JobOK, Jobs, Control
<1>1. ASSUME UNCHANGED stored PROVE StoresInOrder
  BY <1>1 DEF StoresInOrder
<1>2. ASSUME NEW rows, pc \in Working, stored' = [stored EXCEPT ![job.sym] = @ \cup rows],
             \/ pc \in {"flush", "insert"} /\ rows \in Prefixes(job.buf)
             \/ pc = "mend" /\ rows \subseteq Kept
      PROVE  StoresInOrder
  <2>1. rows \in SUBSET Nat
    BY <1>t, <1>2 DEF Prefixes
  <2> QED
    BY <1>2, <2>1, WrittenInOrder, WritingKeepsWhole
<1>3. CASE Environment \/ Refresh \/ UNCHANGED vars
  BY <1>1, <1>3 DEF Environment, Tick, Download, RepairComesDue, CatalogComesDue, Refresh,
       CatalogEmpty, RefreshCatalog, vars
<1>4. CASE Pass
  BY <1>1, <1>4 DEF Pass, BeginPass, Requeue, StartSync, SkipIdle, SyncWindow, SettleWindow, SyncDone
<1>5. CASE Backfill
  BY <1>1, <1>5 DEF Backfill, BeginBackfill, NoBackfill, TakeQueued, DailyFound, DailyEmpty,
       DailyUnstable, FillWindow, FinishBackfill, DeadlinePasses, QueueDone, EndBackfill
<1>6. CASE InsertRows
  <2>1. /\ pc \in Working /\ pc \in {"flush", "insert"} /\ job.buf \in Prefixes(job.buf)
        /\ stored' = [stored EXCEPT ![job.sym] = @ \cup job.buf]
    BY <1>6 DEF InsertRows, Prefixes, Working
  <2> QED
    BY <1>2, <2>1
<1>7. CASE MendWindow
  <2>1. PICK rows \in {Kept, {}} : stored' = [stored EXCEPT ![job.sym] = @ \cup rows]
    BY <1>7 DEF MendWindow
  <2>2. pc \in Working /\ pc = "mend" /\ rows \subseteq Kept
    BY <1>7 DEF MendWindow, Working
  <2> QED
    BY <1>2, <2>1, <2>2
<1>8. CASE SetWatermark \/ BeginRepair \/ NoRepair \/ MendDone \/ EndRepair
           \/ \E s \in todo : SweepSymbol(s)
  BY <1>1, <1>8 DEF SetWatermark, BeginRepair, NoRepair, SweepSymbol, MendDone, EndRepair
<1>9. CASE \E unlocked \in SUBSET Symbols : Rest(unlocked)
  BY <1>1, <1>9 DEF Rest
<1>10. CASE WriteFails
  BY <1>1, <1>2, <1>10 DEF WriteFails, Working
<1>11. CASE MendFails
  <2>1. PICK applied \in Prefixes(Kept) : stored' = [stored EXCEPT ![job.sym] = @ \cup applied]
    BY <1>11 DEF MendFails
  <2>2. pc \in Working /\ pc = "mend" /\ applied \subseteq Kept
    BY <1>11 DEF MendFails, Prefixes, Working
  <2> QED
    BY <1>2, <2>1, <2>2
<1>12. CASE StateWriteFails \/ IterationFails \/ Crash \/ \E s \in todo : SkipFailing(s)
  BY <1>1, <1>12 DEF StateWriteFails, IterationFails, Crash, SkipFailing
<1> QED
  BY <1>3, <1>4, <1>5, <1>6, <1>7, <1>8, <1>9, <1>10, <1>11, <1>12
     DEF Next, Write, Repair, Failure

\* Against a prompt terminal no error and no crash, wherever it falls, leaves a hole: every bar
\* a backfill reaches, up to the newest candle, is stored (candles_worker.py:279-292, 419-470).
\* Which bars of the day of BACKFILL_START_DATE it reaches is what Wanted says (fetch.py:130-151,
\* candles_worker.py:446).
THEOREM NoHoles ==
  ASSUME ~Refusals
  PROVE  Spec /\ HoleFree /\ []PromptTerminal => []HoleFree
<1>1. TypeInv /\ CoverInv /\ HoleFree /\ [Next]_vars => HoleFree'
  <2> SUFFICES ASSUME TypeInv, CoverInv, HoleFree, [Next]_vars PROVE HoleFree'
    OBVIOUS
  <2>1. StoresInOrder
    BY StepStoresInOrder
  <2> QED
    BY <2>1 DEF HoleFree, StoresInOrder
<1> QED
  BY <1>1, WatermarksAreTrue, TypeInvariant, PTL DEF Spec

\* A backfill that is about to be recorded as done, two days after BACKFILL_START_DATE or later,
\* has stored every bar it reaches up to the moment it began (candles_worker.py:419), also when
\* two answers said that there is no history.
THEOREM FinishedHistoryIsComplete ==
  ASSUME ~Refusals
  PROVE  Spec /\ HoleFree /\ []PromptTerminal => []FinishedIsComplete
<1>1. CoverInv => FinishedIsComplete
  BY DEF CoverInv, JobCovers
<1> QED
  BY <1>1, WatermarksAreTrue, PTL

\* The same of a worker whose terminal starts with all its history and keeps it, over a store
\* without holes: what the runs check on a small instance.
THEOREM NoHolesInHeldHistory ==
  ASSUME ~Refusals, ~PruneCache, \A s \in Symbols : Bars[s] \subseteq Loaded0[s],
         \A s \in Symbols : \A n \in Stored0[s] :
           {m \in Wanted(s) : m <= n} \subseteq Stored0[s]
  PROVE  Spec => [](HoleFree /\ FinishedIsComplete)
<1>1. Init => HoleFree
  BY DEF Init, HoleFree
<1> QED
  BY <1>1, HeldHistoryIsPrompt, NoHoles, FinishedHistoryIsComplete, PTL DEF Spec

-----------------------------------------------------------------------------
(* The operator *)

\* Every minute that is deleted is one a backfill reaches.
DeletesBars == \A s \in Symbols : rewound[s] \subseteq Wanted(s)

\* A deleted minute is remembered until it is stored again.
Remembered == \A s \in Symbols : rewound[s] \cap stored[s] = {}

\* What the worker's proofs rest on, beside an operator.
OperatorInv == TypeInv /\ Safe /\ CoverInv /\ Remembered /\ rewound \in [Symbols -> SUBSET Nat]

\* A watermark put back while the loop rests is that of a stored candle, and still one before
\* which nothing is missing.
LEMMA RewindKeeps ==
  ASSUME ~RewindWhileRunning, OperatorInv, NEW s \in Symbols, Rewind(s)
  PROVE  OperatorInv'
<1> USE DEF env, store, memory, phase
<1>1. PICK to \in stored[s], until \in 0 .. now :
        LET range == {m \in stored[s] : to < m /\ m < until}
        IN  /\ to < mark[s] /\ range # {}
            /\ stored' = [stored EXCEPT ![s] = @ \ range]
            /\ mark' = [mark EXCEPT ![s] = to]
            /\ rewound' = [rewound EXCEPT ![s] = @ \cup range]
  BY DEF Rewind
<1> DEFINE range == {m \in stored[s] : to < m /\ m < until}
<1>2. /\ pc \in {"top", "rest"}
      /\ UNCHANGED <<env, faults, db, pc, memory, phase, job, received>>
  BY DEF Rewind
<1>3. /\ stored \in [Symbols -> SUBSET Nat] /\ mark \in [Symbols -> Times]
      /\ rewound \in [Symbols -> SUBSET Nat] /\ job = NoJob
      /\ Bars[s] \subseteq Nat
  BY <1>2, EnvironmentAssumption DEF OperatorInv, TypeInv, TypeOK, StoreOK, Control, Working
<1>4. to \in Nat /\ to < mark[s] /\ to \notin range /\ range \subseteq stored[s]
  BY <1>1, <1>3
<1>5. /\ stored' = [stored EXCEPT ![s] = @ \ range] /\ mark' = [mark EXCEPT ![s] = to]
      /\ rewound' = [rewound EXCEPT ![s] = @ \cup range]
  BY <1>1
<1>6. \A m \in range : to < m
  OBVIOUS
<1> HIDE DEF range
<1>7. TypeInv'
  <2>1. StoreOK'
    BY <1>2, <1>3, <1>4, <1>5 DEF OperatorInv, TypeInv, TypeOK, StoreOK
  <2>2. EnvOK' /\ MemoryOK' /\ FlagsOK' /\ PhaseOK' /\ JobOK'
    BY <1>2 DEF OperatorInv, TypeInv, TypeOK, EnvOK, MemoryOK, FlagsOK, PhaseOK, JobOK
  <2>3. Control'
    BY <1>2 DEF OperatorInv, TypeInv, Control, CatalogTracked
  <2> QED
    BY <2>1, <2>2, <2>3 DEF TypeInv, TypeOK
<1>8. Safe'
  <2>1. MarkStored'
    BY <1>1, <1>3, <1>4, <1>5 DEF OperatorInv, Safe, MarkStored
  <2>2. OnlyOver'
    BY <1>2, <1>3, <1>5 DEF OperatorInv, Safe, OnlyOver, NoJob, Working
  <2>3. MarksFresh' /\ JobForward'
    BY <1>2 DEF MarksFresh, JobForward, Working, Reading
  <2> QED
    BY <2>1, <2>2, <2>3 DEF Safe
<1>9. CoverInv'
  <2>1. WholeTo(s, mark[s])
    BY <1>3, <1>4 DEF OperatorInv, CoverInv, MarkWhole
  <2>2. {m \in Wanted(s) : m <= to} \subseteq stored[s] \ range
    BY <1>3, <1>4, <1>6, <2>1, WantedBars DEF WholeTo
  <2>3. MarkWhole'
    BY <1>3, <1>4, <1>5, <2>2 DEF OperatorInv, CoverInv, MarkWhole, WholeTo
  <2>4. JobCovers'
    BY <1>2 DEF JobCovers, FinishedIsComplete, Reading
  <2> QED
    BY <2>3, <2>4 DEF CoverInv
<1>10. (Remembered /\ rewound \in [Symbols -> SUBSET Nat])'
  BY <1>3, <1>4, <1>5 DEF OperatorInv, Remembered
<1> QED
  BY <1>7, <1>8, <1>9, <1>10 DEF OperatorInv

\* Beside an operator who waits for the loop to rest the worker keeps what its proofs rest on, and
\* the holes are the operator's.
LEMMA OperatorStep ==
  ASSUME ~Refusals, ~RewindWhileRunning, PromptTerminal, OperatorInv, [OperatorNext]_operatorVars
  PROVE  OperatorInv' /\ (HolesAreRewound => HolesAreRewound')
<1>1. ASSUME [Next]_vars PROVE TypeInv' /\ Safe' /\ CoverInv' /\ StoresInOrder
  BY <1>1, TypeStep, SafeStep, CoverStep, StepStoresInOrder DEF OperatorInv
<1>2. CASE Next /\ rewound' = [s \in Symbols |-> rewound[s] \ stored'[s]]
  <2>1. (Remembered /\ rewound \in [Symbols -> SUBSET Nat])'
    BY <1>2 DEF OperatorInv, Remembered
  <2>2. HolesAreRewound => HolesAreRewound'
    BY <1>1, <1>2 DEF HolesAreRewound, StoresInOrder
  <2> QED
    BY <1>1, <1>2, <2>1, <2>2 DEF OperatorInv
<1>3. CASE \E s \in Symbols : Rewind(s)
  <2>1. PICK s \in Symbols : Rewind(s)
    BY <1>3
  <2>2. PICK range : /\ stored' = [stored EXCEPT ![s] = @ \ range]
                     /\ rewound' = [rewound EXCEPT ![s] = @ \cup range]
    BY <2>1 DEF Rewind
  <2>3. HolesAreRewound => HolesAreRewound'
    BY <2>2 DEF HolesAreRewound, OperatorInv, TypeInv, TypeOK, StoreOK
  <2> QED
    BY <2>1, <2>3, RewindKeeps
<1>4. CASE UNCHANGED operatorVars
  <2>1. UNCHANGED vars /\ UNCHANGED rewound
    BY <1>4 DEF operatorVars
  <2>2. UNCHANGED stored
    BY <2>1 DEF vars, store
  <2> QED
    BY <1>1, <2>1, <2>2 DEF OperatorInv, Remembered, HolesAreRewound
<1> QED
  BY <1>2, <1>3, <1>4 DEF OperatorNext

LEMMA OperatorInvariant ==
  ASSUME ~Refusals, ~RewindWhileRunning
  PROVE  OperatorSpec /\ HoleFree /\ []PromptTerminal => [](OperatorInv /\ HolesAreRewound)
<1>1. OperatorInit /\ HoleFree => OperatorInv /\ HolesAreRewound
  BY TypeInit, SafeInit, CoverInit DEF OperatorInit, OperatorInv, Remembered, HoleFree, HolesAreRewound
<1>2. PromptTerminal /\ (OperatorInv /\ HolesAreRewound) /\ [OperatorNext]_operatorVars
        => (OperatorInv /\ HolesAreRewound)'
  BY OperatorStep
<1> QED
  BY <1>1, <1>2, PTL DEF OperatorSpec

\* No error and no crash, wherever it falls, leaves a hole beside an operator who waits for the
\* loop to rest: what is missing before the newest candle is what the operator deleted and no pass
\* has stored again (candles_worker.py:279-292, 419-470); and a backfill about to be recorded as
\* done is complete.
THEOREM OnlyRewoundHoles ==
  ASSUME ~Refusals, ~RewindWhileRunning
  PROVE  OperatorSpec /\ HoleFree /\ []PromptTerminal => [](HolesAreRewound /\ FinishedIsComplete)
<1>1. OperatorInv => FinishedIsComplete
  BY DEF OperatorInv, CoverInv, JobCovers
<1> QED
  BY <1>1, OperatorInvariant, PTL

\* "An operator can deliberately rewind one and have the next pass refill a gap" (README.md:108):
\* as long as a deleted minute is missing the watermark is before it, provided the operator waits
\* for the loop to rest and deletes what the broker still has and a backfill reaches.
THEOREM RewoundStaysAhead ==
  ASSUME ~Refusals, ~RewindWhileRunning
  PROVE  OperatorSpec /\ HoleFree /\ []PromptTerminal /\ []DeletesBars => []RewoundIsAhead
<1>1. OperatorInv /\ DeletesBars => RewoundIsAhead
  <2> SUFFICES ASSUME OperatorInv, DeletesBars, NEW s \in Symbols, NEW m \in rewound[s]
               PROVE  mark[s] < m
    BY DEF RewoundIsAhead
  <2>1. m \in Wanted(s) /\ m \in Nat /\ m \notin stored[s] /\ mark[s] \in Times
    BY DEF OperatorInv, DeletesBars, Remembered, TypeInv, TypeOK, StoreOK
  <2>2. mark[s] # NoTime => ~(m <= mark[s])
    BY <2>1 DEF OperatorInv, CoverInv, MarkWhole, WholeTo
  <2> QED
    BY <2>1, <2>2
<1> QED
  BY <1>1, OperatorInvariant, PTL
=============================================================================
