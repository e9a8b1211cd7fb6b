--------------------------- MODULE CandlesProofs ---------------------------
(* For every value of its constants: the types of the candles worker, with    *)
(* where its loop stands and which symbol it holds; its safety properties,    *)
(* from one inductive invariant; and that it implements CandleLog.            *)
EXTENDS CandlesProperties, FiniteSetTheorems, TLAPS

(* Where the loop stands: between the phases, or inside one with a symbol in hand. *)
Between == {"top", "start", "repair", "rest"}
Working == {"sync", "settle", "flush", "advance", "daily", "fill", "insert", "mark", "finish", "mend"}

\* The symbols of a phase come from the catalogue, the symbol in hand from the phase.
Control ==
  /\ pc \in Between => todo = {}
  /\ pc \in Working => job.sym \in todo
  /\ pc \notin Working => job = NoJob /\ received = {}
  /\ pc = "settle" => job.tries > 0
  /\ todo \subseteq catalog
  /\ CatalogTracked

TypeInv == TypeOK /\ Control

USE DEF NoTime, Nobody, Times

\* What the catalogue rules write back is a state for every symbol, and the symbols of the
\* answer are active (catalog.py, reconcile).
LEMMA ReconcileType ==
  ASSUME NEW known \in [Symbols -> State \cup {NoState}], NEW found \in SUBSET Symbols,
         NEW hasHistory
  PROVE  /\ Reconcile(known, found, hasHistory) \in [Symbols -> State \cup {NoState}]
         /\ \A s \in found : Reconcile(known, found, hasHistory)[s].status = "active"
<1> DEFINE gone == IF DelistingSkipped(known, found) THEN {} ELSE Active(known) \ found
           row(s) == IF s \in found THEN Listed(s, known[s], hasHistory)
                     ELSE IF s \in gone THEN Delisted(known[s]) ELSE known[s]
<1>1. Reconcile(known, found, hasHistory) = [s \in Symbols |-> row(s)]
  BY DEF Reconcile
<1>2. \A s \in Symbols : s \in gone => known[s].status = "active"
  BY DEF Active
<1> HIDE DEF gone
<1>3. ASSUME NEW s \in Symbols PROVE row(s) \in State \cup {NoState}
  BY <1>2 DEF State, NoState, NewState, Reactivated, Listed, Delisted
<1>4. ASSUME NEW s \in found PROVE row(s).status = "active"
  BY DEF State, NoState, NewState, Reactivated, Listed
<1> HIDE DEF row
<1> QED
  BY <1>1, <1>3, <1>4

\* The same for the rows _refresh_catalog reads and writes.
LEMMA ReconciledType ==
  ASSUME TypeOK, NEW found \in SUBSET Symbols
  PROVE  /\ Reconciled(found) \in [Symbols -> State \cup {NoState}]
         /\ \A s \in found : Reconciled(found)[s].status = "active"
<1>1. db \in [Symbols -> State \cup {NoState}]
  BY DEF TypeOK, StoreOK
<1>2. Reconcile(db, found, {s \in Symbols : mark[s] # NoTime}) \in [Symbols -> State \cup {NoState}]
  BY <1>1, ReconcileType
<1>3. \A s \in found : Reconcile(db, found, {t \in Symbols : mark[t] # NoTime})[s].status = "active"
  BY <1>1, ReconcileType
<1> QED
  BY <1>2, <1>3 DEF Reconciled

\* The newest minute of a set, its last one, and none of a set without one.
LEMMA NewestType ==
  ASSUME NEW minutes \in SUBSET Times
  PROVE  Newest(minutes) \subseteq Times
BY DEF Newest

\* A job taken up has the type of a job.
LEMMA JobType ==
  ASSUME NEW s \in Symbols, NEW last \in Times, NEW start \in Int, NEW end \in Int
  PROVE  Job(s, last, start, end) \in Jobs /\ Job(s, last, start, end).sym = s
BY DEF Job, NoJob, Jobs

\* What a window answers is a set of minutes.
LEMMA KeptType ==
  ASSUME TypeOK, job.sym \in Symbols
  PROVE  WindowEnd \in Int /\ Kept \subseteq Nat
BY OptionsAssumption DEF TypeOK, EnvOK, JobOK, Jobs, WindowEnd, Smaller, Kept, TerminalRows

\* The watermark a symbol is resumed from.
LEMMA LastType ==
  ASSUME TypeOK, NEW s \in Symbols
  PROVE  Last(s) \subseteq Times
BY NewestType DEF TypeOK, StoreOK, PhaseOK, Last

\* Recording a backfill state keeps the symbol active.
LEMMA RecordedType ==
  ASSUME TypeOK, CatalogTracked, NEW s \in catalog, NEW backfill \in {"pending", "done"}
  PROVE  Recorded(s, backfill) \in State /\ Recorded(s, backfill).status = "active"
BY DEF TypeOK, MemoryOK, CatalogTracked, Recorded, State, NoState

\* A minute belongs to the day that opens last before it.
LEMMA DayOpenType ==
  \A m \in Nat : DayOpen(m) \in Int /\ DayOpen(m) <= m /\ m < DayOpen(m) + Day
<1> SUFFICES ASSUME NEW m \in Nat
             PROVE  DayOpen(m) \in Int /\ DayOpen(m) <= m /\ m < DayOpen(m) + Day
  OBVIOUS
<1> DEFINE n == (m + Ahead) \div Day
<1>1. m + Ahead \in Int /\ Ahead \in Int /\ Day \in Int /\ Day > 0
  BY OptionsAssumption
<1>2. n \in Int /\ Day * n <= m + Ahead /\ m + Ahead < Day * (n + 1)
  BY <1>1
<1>3. n * Day \in Int /\ n * Day = Day * n /\ Day * (n + 1) = n * Day + Day
  BY <1>1, <1>2
<1>4. DayOpen(m) = n * Day - Ahead
  BY DEF DayOpen
<1> QED
  BY <1>1, <1>2, <1>3, <1>4

\* A day listed in a request opens inside it.
LEMMA KnownDaysType ==
  ASSUME TypeOK, job.sym \in Symbols
  PROVE  \A d \in KnownDays : d \in Int /\ BackfillStart(d) \in Int /\ StartDate <= BackfillStart(d)
<1> SUFFICES ASSUME NEW d \in KnownDays
             PROVE  d \in Int /\ BackfillStart(d) \in Int /\ StartDate <= BackfillStart(d)
  OBVIOUS
<1>1. PICK m \in local[job.sym] : d = DayOpen(m)
  BY DEF KnownDays
<1>2. d \in Int
  BY <1>1, DayOpenType DEF TypeOK, EnvOK
<1> QED
  BY <1>2, OptionsAssumption DEF BackfillStart, Larger

\* Rows absorbed into the buffer: the job stays with its symbol.
LEMMA AbsorbType ==
  ASSUME TypeOK, job.sym \in Symbols, NEW rows \in SUBSET Nat, Absorb(rows)
  PROVE  job' \in Jobs /\ job'.sym = job.sym /\ pc' \in {"flush", "sync"}
<1>1. Newest({job.high} \cup rows) \subseteq Times
  BY NewestType DEF TypeOK, JobOK, Jobs
<1>2. PICK high \in Newest({job.high} \cup rows) :
        job' = [job EXCEPT !.buf = @ \cup rows, !.high = high, !.at = WindowEnd,
                           !.best = {}, !.prev = {}, !.tries = 0]
  BY DEF Absorb
<1>3. high \in Times /\ WindowEnd \in Int
  BY <1>1, KeptType
<1> QED
  BY <1>2, <1>3 DEF Absorb, TypeOK, JobOK, Jobs

\* A worker that has just been started is well typed.
LEMMA TypeInit == Init => TypeInv
<1> SUFFICES ASSUME Init PROVE TypeInv
  OBVIOUS
<1> USE DEF Init
<1>1. \A s \in Symbols : Newest(Stored0[s]) \subseteq Times
  BY NewestType, EnvironmentAssumption
<1>2. EnvOK /\ StoreOK
  BY <1>1, EnvironmentAssumption DEF EnvOK, StoreOK
<1>3. MemoryOK /\ PhaseOK /\ JobOK
  BY OptionsAssumption DEF MemoryOK, PhaseOK, JobOK, Jobs, NoJob
<1>4. FlagsOK
  BY DEF FlagsOK
<1>5. Control
  BY DEF Control, CatalogTracked, Working, Between
<1> QED
  BY <1>2, <1>3, <1>4, <1>5 DEF TypeInv, TypeOK

\* An exception that reaches worker_main leaves no phase and no job behind.
LEMMA ForgetPhaseType ==
  ASSUME ForgetPhase
  PROVE  /\ marks' \in [Symbols -> Times] /\ todo' = {} /\ sweep' \in [from : Int, to : Nat]
         /\ JobOK' /\ job' = NoJob /\ received' = {} /\ unlimited' = FALSE
BY DEF ForgetPhase, JobOK, Jobs, NoJob

\* Leaving a symbol: the rest of the phase is as it was.
LEMMA LeaveSymbolType ==
  ASSUME TypeInv, NEW s, LeaveSymbol(s)
  PROVE  /\ todo' \subseteq todo /\ JobOK' /\ job' = NoJob /\ received' = {}
         /\ UNCHANGED <<unlimited, marks, sweep>>
BY DEF LeaveSymbol, JobOK, Jobs, NoJob

\* Every step keeps the types and the shape of the control.
LEMMA TypeStep == TypeInv /\ [Next]_vars => TypeInv'
<1> SUFFICES ASSUME TypeInv, [Next]_vars PROVE TypeInv'
  OBVIOUS
<1> USE DEF TypeInv, TypeOK, EnvOK, StoreOK, MemoryOK, PhaseOK, Control, CatalogTracked,
            Working, Between, env, store, memory, phase
(* the environment *)
<1>1. ASSUME Tick PROVE TypeInv'
  BY <1>1 DEF Tick, JobOK, FlagsOK
<1>2. ASSUME NEW s \in Symbols, Download(s) PROVE TypeInv'
  <2>1. PICK m \in Bars[s] : local' = [local EXCEPT ![s] = @ \cup {m}]
    BY <1>2 DEF Download
  <2>2. m \in Nat
    BY <2>1, EnvironmentAssumption
  <2>3. local' \in [Symbols -> SUBSET Nat]
    BY <2>1, <2>2
  <2> QED
    BY <1>2, <2>3 DEF Download, JobOK, FlagsOK
<1>3. ASSUME RepairComesDue PROVE TypeInv'
  <2>1. FlagsOK'
    BY <1>3 DEF RepairComesDue, FlagsOK
  <2> QED
    BY <1>3, <2>1 DEF RepairComesDue, JobOK
<1>4. ASSUME CatalogComesDue PROVE TypeInv'
  <2>1. FlagsOK'
    BY <1>4 DEF CatalogComesDue, FlagsOK
  <2> QED
    BY <1>4, <2>1 DEF CatalogComesDue, JobOK
(* the catalogue *)
<1>5. ASSUME CatalogEmpty PROVE TypeInv'
  BY <1>5 DEF CatalogEmpty, JobOK, FlagsOK
<1>6. ASSUME NEW found \in SUBSET Symbols, RefreshCatalog(found) PROVE TypeInv'
  <2>1. FlagsOK'
    BY <1>6 DEF RefreshCatalog, FlagsOK
  <2>2. /\ Reconciled(found) \in [Symbols -> State \cup {NoState}]
        /\ \A s \in found : Reconciled(found)[s].status = "active"
    BY ReconciledType
  <2> QED
    BY <1>6, <2>1, <2>2 DEF RefreshCatalog, JobOK
(* the regular pass *)
<1>7. ASSUME BeginPass PROVE TypeInv'
  BY <1>7 DEF BeginPass, JobOK, FlagsOK
<1>8. ASSUME NEW s \in todo, Requeue(s) PROVE TypeInv'
  <2>1. Recorded(s, "pending") \in State /\ Recorded(s, "pending").status = "active"
    BY RecordedType
  <2> QED
    BY <1>8, <2>1, LeaveSymbolType DEF Requeue, FlagsOK
<1>9. ASSUME NEW s \in todo, StartSync(s) PROVE TypeInv'
  <2>1. PICK last \in Last(s) :
          job' = [Job(s, last, SyncStart(last), now) EXCEPT !.catching = CatchingUp(last)]
    BY <1>9 DEF StartSync
  <2>2. s \in Symbols /\ last \in Times /\ SyncStart(last) \in Int
    BY LastType, OptionsAssumption DEF SyncStart, Larger
  <2>3. CatchingUp(last) \in BOOLEAN
    BY DEF CatchingUp
  <2>4. Job(s, last, SyncStart(last), now) \in Jobs /\ Job(s, last, SyncStart(last), now).sym = s
    BY <2>2, JobType
  <2>5. job' \in Jobs /\ job'.sym = s
    BY <2>1, <2>3, <2>4 DEF Jobs
  <2> QED
    BY <1>9, <2>5 DEF StartSync, JobOK, FlagsOK
<1>10. ASSUME NEW s \in todo, SkipIdle(s) PROVE TypeInv'
  BY <1>10, LeaveSymbolType DEF SkipIdle, FlagsOK
<1>11. ASSUME NEW s \in todo, SkipFailing(s) PROVE TypeInv'
  BY <1>11, LeaveSymbolType DEF SkipFailing, Fault, FlagsOK
<1>12. ASSUME SyncWindow PROVE TypeInv'
  <2>1. PICK rows \in {Kept, {}} :
          /\ CopyRates(rows) /\ received' = received \cup rows
          /\ \/ /\ job' = [job EXCEPT !.best = rows, !.prev = rows, !.tries = HistoryRetries]
                /\ pc' = "settle"
             \/ Absorb(rows)
    BY <1>12 DEF SyncWindow
  <2>2. rows \subseteq Nat
    BY <1>12, KeptType DEF SyncWindow
  <2>3. job.sym \in Symbols
    BY <1>12 DEF SyncWindow
  <2>4. job' \in Jobs /\ job'.sym = job.sym /\ pc' \in {"settle", "flush", "sync"}
        /\ (pc' = "settle" => job'.tries > 0)
    <3>1. CASE Absorb(rows)
      BY <2>2, <2>3, <3>1, AbsorbType
    <3>2. CASE pc' = "settle" /\ job' = [job EXCEPT !.best = rows, !.prev = rows, !.tries = HistoryRetries]
      <4>1. HistoryRetries \in Nat /\ HistoryRetries > 0
        BY OptionsAssumption
      <4> QED
        BY <2>2, <3>2, <4>1 DEF JobOK, Jobs
    <3> QED
      BY <2>1, <3>1, <3>2
  <2> QED
    BY <1>12, <2>1, <2>2, <2>4 DEF SyncWindow, CopyRates, Fault, Refused, KeepPhase, JobOK, FlagsOK
<1>13. ASSUME SettleWindow PROVE TypeInv'
  <2>1. PICK again \in {Kept, {}} :
          /\ CopyRates(again) /\ received' = received \cup again
          /\ \/ Absorb(Fuller(job.best, again))
             \/ /\ job.tries # 1 /\ UNCHANGED pc
                /\ job' = [job EXCEPT !.best = Fuller(job.best, again), !.prev = again,
                                      !.tries = @ - 1]
    BY <1>13 DEF SettleWindow
  <2>2. again \subseteq Nat /\ Fuller(job.best, again) \subseteq Nat
    BY <1>13, KeptType DEF SettleWindow, Fuller, JobOK, Jobs
  <2>3. job.sym \in Symbols /\ job.tries > 0
    BY <1>13 DEF SettleWindow
  <2>4. job' \in Jobs /\ job'.sym = job.sym /\ pc' \in {"settle", "flush", "sync"}
        /\ (pc' = "settle" => job'.tries > 0)
    <3>1. CASE Absorb(Fuller(job.best, again))
      BY <2>2, <2>3, <3>1, AbsorbType
    <3>2. CASE /\ job.tries # 1 /\ UNCHANGED pc
               /\ job' = [job EXCEPT !.best = Fuller(job.best, again), !.prev = again,
                                     !.tries = @ - 1]
      <4>1. job.tries - 1 \in Nat /\ job.tries - 1 > 0
        BY <2>3, <3>2 DEF JobOK, Jobs
      <4> QED
        BY <1>13, <2>2, <3>2, <4>1 DEF SettleWindow, JobOK, Jobs
    <3> QED
      BY <2>1, <3>1, <3>2
  <2> QED
    BY <1>13, <2>1, <2>2, <2>4 DEF SettleWindow, CopyRates, Fault, Refused, KeepPhase, JobOK, FlagsOK
<1>14. ASSUME SyncDone PROVE TypeInv'
  BY <1>14, LeaveSymbolType DEF SyncDone, FlagsOK
(* the backfill *)
<1>15. ASSUME BeginBackfill PROVE TypeInv'
  <2>1. FlagsOK'
    BY <1>15 DEF BeginBackfill, FlagsOK
  <2> QED
    BY <1>15, <2>1 DEF BeginBackfill, PassDone, JobOK
<1>16. ASSUME NoBackfill PROVE TypeInv'
  BY <1>16 DEF NoBackfill, PassDone, JobOK, FlagsOK
<1>17. ASSUME NEW s \in todo, TakeQueued(s) PROVE TypeInv'
  <2>1. PICK last \in Last(s) :
          /\ job' = Job(s, last, last + 1, now)
          /\ pc' \in {"daily", "finish", "fill"}
    BY <1>17 DEF TakeQueued
  <2>2. s \in Symbols /\ last \in Times /\ last + 1 \in Int
    BY LastType
  <2>3. job' \in Jobs /\ job'.sym = s
    BY <2>1, <2>2, JobType
  <2> QED
    BY <1>17, <2>1, <2>3 DEF TakeQueued, JobOK, FlagsOK
<1>18. ASSUME DailyFound PROVE TypeInv'
  <2>1. PICK first \in KnownDays : job' = [job EXCEPT !.at = BackfillStart(first)]
    BY <1>18 DEF DailyFound, Oldest
  <2>2. BackfillStart(first) \in Int
    BY <1>18, KnownDaysType DEF DailyFound
  <2>3. job' \in Jobs /\ job'.sym = job.sym
    BY <2>1, <2>2 DEF JobOK, Jobs
  <2> QED
    BY <1>18, <2>3 DEF DailyFound, KeepPhase, JobOK, FlagsOK
<1>19. ASSUME DailyEmpty PROVE TypeInv'
  <2>1. empties' \in [Symbols -> Nat]
    BY <1>19, OptionsAssumption DEF DailyEmpty, Smaller
  <2>2. CASE pc' = "finish" /\ KeepPhase /\ UNCHANGED <<job, received>>
    BY <1>19, <2>1, <2>2 DEF DailyEmpty, KeepPhase, Fault, Refused, JobOK, FlagsOK
  <2>3. CASE pc' = "queue" /\ LeaveSymbol(job.sym)
    BY <1>19, <2>1, <2>3, LeaveSymbolType DEF DailyEmpty, Fault, Refused, FlagsOK
  <2> QED
    BY <1>19, <2>2, <2>3 DEF DailyEmpty
<1>20. ASSUME DailyUnstable PROVE TypeInv'
  BY <1>20, LeaveSymbolType DEF DailyUnstable, FlagsOK
<1>21. ASSUME FillWindow PROVE TypeInv'
  <2>1. PICK rows \in {Kept, {}} :
          /\ CopyRates(rows) /\ received' = received \cup rows
          /\ \E high \in Newest({job.high} \cup rows) :
               job' = [job EXCEPT !.buf = rows, !.high = high, !.at = WindowEnd]
          /\ pc' \in {"insert", "finish", "fill"}
    BY <1>21 DEF FillWindow
  <2>2. rows \subseteq Nat /\ WindowEnd \in Int
    BY <1>21, KeptType DEF FillWindow
  <2>3. Newest({job.high} \cup rows) \subseteq Times
    BY <2>2, NewestType DEF JobOK, Jobs
  <2>4. job' \in Jobs /\ job'.sym = job.sym
    BY <2>1, <2>2, <2>3 DEF JobOK, Jobs
  <2> QED
    BY <1>21, <2>1, <2>2, <2>4 DEF FillWindow, CopyRates, Fault, Refused, KeepPhase, JobOK, FlagsOK
<1>22. ASSUME FinishBackfill PROVE TypeInv'
  <2>1. Recorded(job.sym, "done") \in State /\ Recorded(job.sym, "done").status = "active"
    BY <1>22, RecordedType DEF FinishBackfill
  <2> QED
    BY <1>22, <2>1, LeaveSymbolType DEF FinishBackfill, FlagsOK
<1>23. ASSUME DeadlinePasses \/ QueueDone PROVE TypeInv'
  <2>1. FlagsOK'
    BY <1>23, ForgetPhaseType DEF DeadlinePasses, QueueDone, EndBackfill, FlagsOK
  <2> QED
    BY <1>23, <2>1, ForgetPhaseType DEF DeadlinePasses, QueueDone, EndBackfill
(* the writes *)
<1>24. ASSUME InsertRows PROVE TypeInv'
  BY <1>24 DEF InsertRows, Syncing, KeepPhase, JobOK, Jobs, FlagsOK
<1>25. ASSUME SetWatermark PROVE TypeInv'
  BY <1>25 DEF SetWatermark, Syncing, KeepPhase, JobOK, Jobs, FlagsOK
(* the repair *)
<1>26. ASSUME BeginRepair PROVE TypeInv'
  <2>1. SweepFrom \in Int
    BY OptionsAssumption DEF SweepFrom, Larger
  <2> QED
    BY <1>26, <2>1 DEF BeginRepair, JobOK, FlagsOK
<1>27. ASSUME NoRepair PROVE TypeInv'
  <2>1. FlagsOK'
    BY <1>27, ForgetPhaseType DEF NoRepair, FlagsOK
  <2> QED
    BY <1>27, <2>1, ForgetPhaseType DEF NoRepair
<1>28. ASSUME NEW s \in todo, SweepSymbol(s) PROVE TypeInv'
  <2>1. s \in Symbols /\ marks[s] \in Times /\ sweep.from \in Int /\ Smaller(marks[s], sweep.to) \in Int
    BY DEF Smaller
  <2>2. job' \in Jobs /\ job'.sym = s
    BY <1>28, <2>1, JobType DEF SweepSymbol
  <2> QED
    BY <1>28, <2>2 DEF SweepSymbol, JobOK, FlagsOK
<1>29. ASSUME MendWindow PROVE TypeInv'
  <2>1. PICK rows \in {Kept, {}} :
          CopyRates(rows) /\ stored' = [stored EXCEPT ![job.sym] = @ \cup rows]
    BY <1>29 DEF MendWindow
  <2>2. rows \subseteq Nat /\ WindowEnd \in Int
    BY <1>29, KeptType DEF MendWindow
  <2>3. job' \in Jobs /\ job'.sym = job.sym
    BY <1>29, <2>2 DEF MendWindow, JobOK, Jobs
  <2>4. stored' \in [Symbols -> SUBSET Nat]
    BY <1>29, <2>1, <2>2 DEF MendWindow
  <2> QED
    BY <1>29, <2>1, <2>3, <2>4 DEF MendWindow, CopyRates, Fault, Refused, KeepPhase, JobOK, FlagsOK
<1>30. ASSUME MendDone PROVE TypeInv'
  BY <1>30, LeaveSymbolType DEF MendDone, FlagsOK
<1>31. ASSUME EndRepair PROVE TypeInv'
  <2>1. FlagsOK'
    BY <1>31, ForgetPhaseType DEF EndRepair, FlagsOK
  <2> QED
    BY <1>31, <2>1, ForgetPhaseType DEF EndRepair
<1>32. ASSUME NEW unlocked \in SUBSET Symbols, Rest(unlocked) PROVE TypeInv'
  BY <1>32 DEF Rest, JobOK, FlagsOK
(* failures *)
<1>33. ASSUME WriteFails PROVE TypeInv'
  <2>1. \A applied \in Prefixes(job.buf) : applied \subseteq job.buf
    BY DEF Prefixes
  <2>2. stored' \in [Symbols -> SUBSET Nat] /\ mark' \in [Symbols -> Times]
    BY <1>33, <2>1 DEF WriteFails, JobOK, Jobs
  <2> QED
    BY <1>33, <2>2, LeaveSymbolType DEF WriteFails, Syncing, Fault, FlagsOK
<1>34. ASSUME MendFails PROVE TypeInv'
  <2>1. Kept \subseteq Nat
    BY <1>34, KeptType DEF MendFails
  <2>2. \A applied \in Prefixes(Kept) : applied \subseteq Nat
    BY <2>1 DEF Prefixes
  <2>3. stored' \in [Symbols -> SUBSET Nat]
    BY <1>34, <2>2 DEF MendFails
  <2> QED
    BY <1>34, <2>3, LeaveSymbolType DEF MendFails, Fault, FlagsOK
<1>35. ASSUME StateWriteFails PROVE TypeInv'
  <2>1. FlagsOK'
    BY <1>35, ForgetPhaseType DEF StateWriteFails, FlagsOK
  <2>2. db' \in [Symbols -> State \cup {NoState}]
    <3>1. \A found \in SUBSET Symbols : Reconciled(found) \in [Symbols -> State \cup {NoState}]
      BY ReconciledType
    <3>2. \A s \in catalog, backfill \in {"pending", "done"} : Recorded(s, backfill) \in State
      BY RecordedType
    <3> QED
      BY <1>35, <3>1, <3>2 DEF StateWriteFails
  <2> QED
    BY <1>35, <2>1, <2>2, ForgetPhaseType DEF StateWriteFails, Fault
<1>36. ASSUME IterationFails PROVE TypeInv'
  <2>1. FlagsOK'
    BY <1>36, ForgetPhaseType DEF IterationFails, FlagsOK
  <2> QED
    BY <1>36, <2>1, ForgetPhaseType DEF IterationFails, Fault
<1>37. ASSUME Crash PROVE TypeInv'
  <2>1. FlagsOK'
    BY <1>37, ForgetPhaseType DEF Crash, FreshMemory, FlagsOK
  <2> QED
    BY <1>37, <2>1, ForgetPhaseType, OptionsAssumption DEF Crash, FreshMemory, Fault
<1>38. ASSUME UNCHANGED vars PROVE TypeInv'
  BY <1>38 DEF vars, JobOK, FlagsOK
<1> QED
  BY <1>1, <1>2, <1>3, <1>4, <1>5, <1>6, <1>7, <1>8, <1>9, <1>10, <1>11, <1>12, <1>13, <1>14,
     <1>15, <1>16, <1>17, <1>18, <1>19, <1>20, <1>21, <1>22, <1>23, <1>24, <1>25, <1>26, <1>27,
     <1>28, <1>29, <1>30, <1>31, <1>32, <1>33, <1>34, <1>35, <1>36, <1>37, <1>38
  DEF Next, Environment, Refresh, Pass, Backfill, Write, Repair, Failure

\* Every variable keeps its type, and the loop never holds a symbol that is not both in the
\* catalogue of the last refresh and recorded as active: the default of _state
\* (candles_worker.py:568-571) is dead code.
THEOREM TypeInvariant == Spec => []TypeInv
BY TypeInit, TypeStep, PTL DEF Spec

-----------------------------------------------------------------------------
(* Safety *)


(* The loop holds a symbol whose history it reads, and may hold rows of it. *)
Reading == {"sync", "settle", "flush", "advance", "daily", "fill", "insert", "mark", "finish"}

\* A watermark is the minute of a stored candle.
MarkStored == \A s \in Symbols : mark[s] # NoTime => mark[s] \in stored[s]

\* The watermarks read at the start of a phase are still those of the symbols to come.
MarksFresh ==
  pc \in Working \cup {"pass", "queue", "sweep"} =>
    \A s \in todo : s # job.sym => marks[s] = mark[s]

\* Only minutes that are over are stored, buffered or asked for.
OnlyOver ==
  /\ \A s \in Symbols : stored[s] \subseteq 0 .. now - 1
  /\ job.buf \cup job.best \subseteq 0 .. now - 1
  /\ pc \in Working => job.end <= now
  /\ pc \in {"sweep", "mend"} => sweep.to <= now

\* The job moves forward: the watermark is at or before the newest row read, the rows not
\* yet stored are beyond the watermark, the windows to come beyond the newest row.
Forward ==
  /\ mark[job.sym] <= job.high
  /\ job.high < job.at
  /\ job.high # NoTime => job.high \in stored[job.sym] \cup job.buf
  /\ \A m \in job.buf : mark[job.sym] < m
  /\ received \subseteq stored[job.sym] \cup job.buf \cup job.best
  /\ pc \in {"daily", "fill", "advance", "mark", "finish"} => job.buf = {}
  /\ IF pc = "settle" THEN job.best \subseteq Kept ELSE job.best = {}
  /\ pc = "daily" => job.high = NoTime
  /\ pc \in {"settle", "fill"} => job.at < job.end

JobForward ==
  /\ pc \in Reading => Forward
  /\ pc = "mend" => received = {}

Safe == MarkStored /\ MarksFresh /\ OnlyOver /\ JobForward

\* The newest of some minutes is NoTime for none of them, else one that none is after.
LEMMA NewestIs ==
  ASSUME NEW minutes \in SUBSET Times, NEW high \in Newest(minutes)
  PROVE  /\ minutes = {} => high = NoTime
         /\ minutes # {} => high \in minutes
         /\ \A m \in minutes : m <= high
<1>1. CASE minutes = {}
  BY <1>1 DEF Newest
<1>2. CASE minutes # {}
  BY <1>2 DEF Newest
<1> QED
  BY <1>1, <1>2

\* A window answers with minutes inside its bounds, finitely many.
LEMMA KeptBounds ==
  ASSUME TypeOK, job.sym \in Symbols
  PROVE  /\ \A m \in Kept : m \in Nat /\ job.at <= m /\ m < WindowEnd /\ m < job.end
         /\ WindowEnd <= job.end
         /\ job.at < job.end => job.at < WindowEnd
         /\ IsFiniteSet(Kept)
<1>1. job.at \in Int /\ job.end \in Int /\ local[job.sym] \subseteq Nat
  BY DEF TypeOK, EnvOK, JobOK, Jobs
<1>2. WindowEnd \in Int /\ WindowEnd <= job.end /\ (job.at < job.end => job.at < WindowEnd)
  BY <1>1, OptionsAssumption DEF WindowEnd, Smaller
<1>3. \A m \in Kept : m \in Nat /\ job.at <= m /\ m < WindowEnd /\ m < job.end
  BY <1>1, <1>2 DEF Kept, TerminalRows
<1>4. Kept \subseteq job.at .. job.end
  BY <1>1, <1>3
<1>5. IsFiniteSet(Kept)
  BY <1>1, <1>4, FS_Interval, FS_Subset
<1> QED
  BY <1>2, <1>3, <1>5

\* Of two answers that are both part of what the terminal holds, the larger contains the other.
LEMMA FullerContains ==
  ASSUME TypeOK, job.sym \in Symbols, NEW best \in SUBSET Kept, NEW again \in {Kept, {}}
  PROVE  /\ Fuller(best, again) \subseteq Kept
         /\ best \cup again \subseteq Fuller(best, again)
<1>1. IsFiniteSet(Kept) /\ IsFiniteSet(best)
  BY KeptBounds, FS_Subset
<1>2. CASE again = Kept
  <2>1. /\ Cardinality(best) <= Cardinality(Kept)
        /\ Cardinality(best) = Cardinality(Kept) => best = Kept
    BY <1>1, FS_Subset
  <2>2. Cardinality(Kept) \in Nat /\ Cardinality(best) \in Nat
    BY <1>1, FS_CardinalityType
  <2> QED
    BY <1>2, <2>1, <2>2 DEF Fuller
<1>3. CASE again = {}
  <2>1. Cardinality(again) = 0 /\ Cardinality(best) \in Nat
    BY <1>1, <1>3, FS_EmptySet, FS_CardinalityType
  <2> QED
    BY <1>3, <2>1 DEF Fuller
<1> QED
  BY <1>2, <1>3

\* Rows of the current window absorbed into the buffer.
LEMMA AbsorbForward ==
  ASSUME TypeOK, job.sym \in Symbols, Forward, pc \in {"sync", "settle"}, job.at < job.end,
         NEW rows \in SUBSET Kept, Absorb(rows), UNCHANGED <<stored, mark>>,
         received' \subseteq stored[job.sym] \cup job.buf \cup rows
  PROVE  Forward'
<1>1. PICK high \in Newest({job.high} \cup rows) :
        job' = [job EXCEPT !.buf = @ \cup rows, !.high = high, !.at = WindowEnd,
                           !.best = {}, !.prev = {}, !.tries = 0]
  BY DEF Absorb
<1>2. /\ \A m \in rows : m \in Nat /\ job.at <= m /\ m < WindowEnd
      /\ job.at < WindowEnd
  BY KeptBounds
<1>3. job \in Jobs /\ WindowEnd \in Int /\ mark[job.sym] \in Times
  BY KeptType DEF TypeOK, JobOK, StoreOK
<1>4. {job.high} \cup rows \in SUBSET Times
  BY <1>2, <1>3 DEF Jobs
<1>5. high \in {job.high} \cup rows /\ job.high <= high
  BY <1>4, NewestIs
<1>6. pc' \in {"flush", "sync"}
  BY DEF Absorb
<1>7. /\ job'.sym = job.sym /\ job'.high = high /\ job'.at = WindowEnd
      /\ job'.buf = job.buf \cup rows /\ job'.best = {}
  BY <1>1, <1>3 DEF Jobs
<1>8. job.high \in Times /\ job.at \in Int /\ job.buf \subseteq Nat
  BY <1>3 DEF Jobs
<1>9. mark[job.sym] <= high /\ high < WindowEnd
  BY <1>2, <1>3, <1>5, <1>8 DEF Forward
<1>10. \A m \in job.buf \cup rows : mark[job.sym] < m
  BY <1>2, <1>3, <1>8 DEF Forward
<1>11. high # NoTime => high \in stored[job.sym] \cup job.buf \cup rows
  BY <1>5 DEF Forward
<1> QED
  BY <1>6, <1>7, <1>9, <1>10, <1>11 DEF Forward

\* A worker that has just been started is safe.
LEMMA SafeInit == Init => Safe
<1> SUFFICES ASSUME Init PROVE Safe
  OBVIOUS
<1>1. MarkStored
  BY DEF Init, MarkStored, Newest
<1>2. OnlyOver
  BY EnvironmentAssumption DEF Init, OnlyOver, NoJob, Working
<1>3. MarksFresh /\ JobForward
  BY DEF Init, MarksFresh, JobForward, Working, Reading
<1> QED
  BY <1>1, <1>2, <1>3 DEF Safe

\* Nobody is no symbol.
LEMMA NobodyIsNoSymbol == Nobody \notin Symbols
BY SymbolsAssumption

\* A step into a state without a job, that leaves the store and the clock alone, and after
\* which the phase is over, new, or the same one without the symbol in hand.
LEMMA JoblessSafe ==
  ASSUME TypeInv, TypeInv', Safe, UNCHANGED <<now, stored, mark>>, pc' \notin Working,
         \/ todo' = {}
         \/ marks' = mark
         \/ /\ UNCHANGED marks /\ pc \in Working \cup {"pass", "queue", "sweep"}
            /\ \A s \in todo' : s \in todo /\ s # job.sym,
         pc' = "sweep" => sweep'.to = now \/ (pc \in {"sweep", "mend"} /\ UNCHANGED sweep)
  PROVE  Safe'
<1>1. MarkStored'
  BY DEF Safe, MarkStored
<1>2. MarksFresh'
  BY DEF Safe, MarksFresh
<1>3. OnlyOver'
  BY DEF Safe, OnlyOver, TypeInv, Control, NoJob, TypeOK, EnvOK, PhaseOK, Working
<1>4. JobForward'
  BY DEF JobForward, Reading, Working
<1> QED
  BY <1>1, <1>2, <1>3, <1>4 DEF Safe

\* A step that stays with the job, the store and the clock: only the job's progress counts.
LEMMA SameStoreSafe ==
  ASSUME TypeInv, Safe, UNCHANGED <<now, stored, mark, marks, todo, sweep>>,
         pc \in Working, pc' \in Working, pc' = "mend" => pc = "mend",
         job'.sym = job.sym, job'.end = job.end,
         job'.buf \cup job'.best \subseteq 0 .. now - 1,
         JobForward'
  PROVE  Safe'
<1>1. MarkStored'
  BY DEF Safe, MarkStored
<1>2. MarksFresh'
  BY DEF Safe, MarksFresh
<1>3. OnlyOver'
  BY DEF Safe, OnlyOver, Working
<1> QED
  BY <1>1, <1>2, <1>3 DEF Safe

\* What the current window answers is over.
LEMMA KeptIsOver ==
  ASSUME TypeInv, OnlyOver, pc \in Working
  PROVE  Kept \subseteq 0 .. now - 1
<1>1. job.sym \in Symbols /\ job.end \in Int /\ now \in Int /\ job.end <= now
  BY DEF TypeInv, TypeOK, EnvOK, PhaseOK, JobOK, Jobs, Control, OnlyOver
<1> QED
  BY <1>1, KeptBounds DEF TypeInv

\* Every step of the worker, its errors and its death included, keeps it safe.
LEMMA SafeStep == TypeInv /\ TypeInv' /\ Safe /\ [Next]_vars => Safe'
<1> SUFFICES ASSUME TypeInv, TypeInv', Safe, [Next]_vars PROVE Safe'
  OBVIOUS
<1> USE DEF env, store, memory, phase
<1>t. /\ pc \in Working => job.sym \in todo /\ job.sym \in Symbols
      /\ pc \notin Working => job = NoJob /\ job.sym = Nobody /\ received = {}
      /\ now \in Nat /\ todo \subseteq Symbols /\ job \in Jobs /\ local \in [Symbols -> SUBSET Nat]
      /\ stored \in [Symbols -> SUBSET Nat] /\ mark \in [Symbols -> Times]
      /\ marks \in [Symbols -> Times] /\ sweep \in [from : Int, to : Nat]
  BY DEF TypeInv, TypeOK, Control, EnvOK, StoreOK, PhaseOK, JobOK, NoJob
(* the environment *)
<1>1. ASSUME Tick PROVE Safe'
  <2>1. MarkStored' /\ MarksFresh' /\ JobForward'
    BY <1>1 DEF Tick, Safe, MarkStored, MarksFresh, JobForward, Forward, Kept, TerminalRows,
                WindowEnd, Smaller
  <2>2. OnlyOver'
    BY <1>1, <1>t DEF Tick, Safe, OnlyOver, Jobs
  <2> QED
    BY <2>1, <2>2 DEF Safe
<1>2. ASSUME NEW s \in Symbols, Download(s) PROVE Safe'
  <2>1. PICK m \in Bars[s] : local' = [local EXCEPT ![s] = @ \cup {m}]
    BY <1>2 DEF Download
  <2>2. UNCHANGED <<now, stored, mark, pc, marks, todo, sweep, job, received>>
    BY <1>2 DEF Download
  <2>3. pc = "settle" => Kept \subseteq Kept'
    BY <1>t, <2>1, <2>2 DEF Kept, TerminalRows, WindowEnd, Smaller, Working
  <2>4. JobForward'
    BY <2>2, <2>3 DEF Safe, JobForward, Forward
  <2> QED
    BY <2>2, <2>4 DEF Safe, MarkStored, MarksFresh, OnlyOver
<1>3. ASSUME RepairComesDue \/ CatalogComesDue \/ UNCHANGED vars PROVE Safe'
  BY <1>3 DEF RepairComesDue, CatalogComesDue, vars, Safe, MarkStored, MarksFresh, OnlyOver,
              JobForward, Forward, Kept, TerminalRows, WindowEnd, Smaller
(* steps between the phases and out of a job *)
<1>4. ASSUME CatalogEmpty \/ \E found \in (SUBSET Symbols) \ {{}} : RefreshCatalog(found)
      PROVE  Safe'
  <2>1. todo' = {}
    BY <1>4 DEF CatalogEmpty, RefreshCatalog, TypeInv, Control, Between
  <2> QED
    BY <1>4, <2>1, JoblessSafe DEF CatalogEmpty, RefreshCatalog, Working
<1>5. ASSUME BeginPass \/ BeginBackfill PROVE Safe'
  BY <1>5, JoblessSafe DEF BeginPass, BeginBackfill, Working
<1>6. ASSUME NEW s \in todo, Requeue(s) \/ SkipIdle(s) \/ SkipFailing(s) PROVE Safe'
  BY <1>6, <1>t, NobodyIsNoSymbol, JoblessSafe
     DEF Requeue, SkipIdle, SkipFailing, LeaveSymbol, Working
<1>7. ASSUME SyncDone \/ DailyUnstable \/ FinishBackfill \/ MendDone PROVE Safe'
  BY <1>7, JoblessSafe DEF SyncDone, DailyUnstable, FinishBackfill, MendDone, LeaveSymbol, Working
<1>8. ASSUME NoBackfill PROVE Safe'
  BY <1>8, JoblessSafe DEF NoBackfill, PassDone, Working
<1>9. ASSUME DeadlinePasses \/ QueueDone \/ NoRepair \/ EndRepair PROVE Safe'
  BY <1>9, JoblessSafe DEF DeadlinePasses, QueueDone, EndBackfill, NoRepair, EndRepair,
                           ForgetPhase, Working
<1>10. ASSUME BeginRepair PROVE Safe'
  BY <1>10, JoblessSafe DEF BeginRepair, Working
<1>11. ASSUME NEW unlocked \in SUBSET Symbols, Rest(unlocked) PROVE Safe'
  <2>1. todo' = {}
    BY <1>11 DEF Rest, TypeInv, Control, Between
  <2> QED
    BY <1>11, <2>1, JoblessSafe DEF Rest, Working
<1>12. ASSUME StateWriteFails \/ IterationFails \/ Crash PROVE Safe'
  BY <1>12, JoblessSafe DEF StateWriteFails, IterationFails, Crash, ForgetPhase, Working
(* a job is taken up *)
<1>13. ASSUME NEW s \in todo, StartSync(s) PROVE Safe'
  <2>1. PICK last \in Last(s) :
          job' = [Job(s, last, SyncStart(last), now) EXCEPT !.catching = CatchingUp(last)]
    BY <1>13 DEF StartSync
  <2>2. /\ UNCHANGED <<now, stored, mark, marks, todo, sweep, received>>
        /\ pc = "pass" /\ pc' = "sync" /\ marks[s] = mark[s] /\ received = {}
    BY <1>13, <1>t, NobodyIsNoSymbol DEF StartSync, Safe, MarksFresh, Working
  <2>3. last \in Times /\ mark[s] <= last /\ (last # NoTime => last \in stored[s])
    BY <1>t, <2>2, NewestIs DEF Last, Safe, MarkStored
  <2>4. last < SyncStart(last)
    BY <2>3, OptionsAssumption DEF SyncStart, Larger
  <2>5. /\ job'.sym = s /\ job'.high = last /\ job'.at = SyncStart(last) /\ job'.end = now
        /\ job'.buf = {} /\ job'.best = {}
    BY <2>1 DEF Job, NoJob
  <2>6. JobForward'
    BY <2>2, <2>3, <2>4, <2>5 DEF JobForward, Forward
  <2>7. OnlyOver' /\ MarkStored' /\ MarksFresh'
    BY <1>t, <2>2, <2>5, NobodyIsNoSymbol DEF Safe, OnlyOver, MarkStored, MarksFresh, Working
  <2> QED
    BY <2>6, <2>7 DEF Safe
<1>14. ASSUME NEW s \in todo, TakeQueued(s) PROVE Safe'
  <2>1. PICK last \in Last(s) :
          /\ job' = Job(s, last, last + 1, now)
          /\ pc' = IF last = NoTime THEN "daily" ELSE IF last + 1 >= now THEN "finish" ELSE "fill"
    BY <1>14 DEF TakeQueued
  <2>2. /\ UNCHANGED <<now, stored, mark, marks, todo, sweep, received>>
        /\ pc = "queue" /\ marks[s] = mark[s] /\ received = {}
    BY <1>14, <1>t, NobodyIsNoSymbol DEF TakeQueued, Safe, MarksFresh, Working
  <2>3. last \in Times /\ mark[s] <= last /\ (last # NoTime => last \in stored[s])
    BY <1>t, <2>2, NewestIs DEF Last, Safe, MarkStored
  <2>5. /\ job'.sym = s /\ job'.high = last /\ job'.at = last + 1 /\ job'.end = now
        /\ job'.buf = {} /\ job'.best = {}
    BY <2>1 DEF Job, NoJob
  <2>6. JobForward'
    BY <1>t, <2>1, <2>2, <2>3, <2>5 DEF JobForward, Forward
  <2>7. OnlyOver' /\ MarkStored' /\ MarksFresh'
    BY <1>t, <2>1, <2>2, <2>5, NobodyIsNoSymbol
       DEF Safe, OnlyOver, MarkStored, MarksFresh, Working
  <2> QED
    BY <2>6, <2>7 DEF Safe
<1>15. ASSUME NEW s \in todo, SweepSymbol(s) PROVE Safe'
  <2>1. /\ UNCHANGED <<now, stored, mark, marks, todo, sweep, received>>
        /\ pc = "sweep" /\ pc' = "mend" /\ received = {}
        /\ job' = Job(s, marks[s], sweep.from, Smaller(marks[s], sweep.to))
    BY <1>15, <1>t DEF SweepSymbol, Working
  <2>2. /\ job'.sym = s /\ job'.end = Smaller(marks[s], sweep.to)
        /\ job'.buf = {} /\ job'.best = {}
    BY <2>1 DEF Job, NoJob
  <2>3. sweep.to <= now /\ Smaller(marks[s], sweep.to) <= now
    BY <1>t, <2>1 DEF Safe, OnlyOver, Smaller
  <2>4. OnlyOver' /\ MarkStored' /\ MarksFresh' /\ JobForward'
    BY <1>t, <2>1, <2>2, <2>3, NobodyIsNoSymbol
       DEF Safe, OnlyOver, MarkStored, MarksFresh, JobForward, Working, Reading
  <2> QED
    BY <2>4 DEF Safe
(* rows arrive *)
<1>16. ASSUME SyncWindow PROVE Safe'
  <2>1. PICK rows \in {Kept, {}} :
          /\ received' = received \cup rows
          /\ \/ /\ job' = [job EXCEPT !.best = rows, !.prev = rows, !.tries = HistoryRetries]
                /\ pc' = "settle"
             \/ Absorb(rows)
    BY <1>16 DEF SyncWindow
  <2>2. /\ UNCHANGED <<now, local, stored, mark, marks, todo, sweep>>
        /\ pc = "sync" /\ job.at < job.end
        /\ job.sym \in Symbols /\ Forward /\ rows \subseteq Kept /\ Kept \subseteq 0 .. now - 1
    BY <1>16, <1>t, KeptIsOver
       DEF SyncWindow, KeepPhase, Safe, JobForward, Reading, Working, Jobs
  <2>3. CASE Absorb(rows)
    <3>1. Forward' /\ pc' \in {"flush", "sync"}
      BY <2>1, <2>2, <2>3, AbsorbForward DEF TypeInv, Forward, Absorb
    <3>2. /\ job'.sym = job.sym /\ job'.end = job.end
          /\ job'.buf = job.buf \cup rows /\ job'.best = {}
      BY <1>t, <2>3 DEF Absorb, Jobs
    <3>3. JobForward'
      BY <3>1 DEF JobForward
    <3> QED
      BY <2>2, <3>1, <3>2, <3>3, SameStoreSafe DEF Safe, OnlyOver, Working
  <2>4. CASE /\ job' = [job EXCEPT !.best = rows, !.prev = rows, !.tries = HistoryRetries]
             /\ pc' = "settle"
    <3>1. /\ job'.sym = job.sym /\ job'.end = job.end /\ job'.at = job.at
          /\ job'.high = job.high /\ job'.buf = job.buf /\ job'.best = rows
      BY <1>t, <2>4 DEF Jobs
    <3>2. Kept' = Kept
      BY <2>2, <3>1 DEF Kept, TerminalRows, WindowEnd, Smaller
    <3>3. JobForward'
      BY <2>1, <2>2, <2>4, <3>1, <3>2 DEF JobForward, Forward
    <3> QED
      BY <2>2, <2>4, <3>1, <3>3, SameStoreSafe DEF Safe, OnlyOver, Working
  <2> QED
    BY <2>1, <2>3, <2>4
<1>17. ASSUME SettleWindow PROVE Safe'
  <2>1. PICK again \in {Kept, {}} :
          /\ received' = received \cup again
          /\ \/ Absorb(Fuller(job.best, again))
             \/ /\ pc' = "settle"
                /\ job' = [job EXCEPT !.best = Fuller(job.best, again), !.prev = again,
                                      !.tries = @ - 1]
    BY <1>17 DEF SettleWindow
  <2>2. /\ UNCHANGED <<now, local, stored, mark, marks, todo, sweep>>
        /\ pc = "settle" /\ job.at < job.end
        /\ job.sym \in Symbols /\ Forward /\ Kept \subseteq 0 .. now - 1
    BY <1>17, <1>t, KeptIsOver
       DEF SettleWindow, KeepPhase, Safe, JobForward, Forward, Reading, Working
  <2>3. /\ Fuller(job.best, again) \subseteq Kept
        /\ job.best \cup again \subseteq Fuller(job.best, again)
    BY <2>2, FullerContains DEF Forward, TypeInv
  <2>4. received' \subseteq stored[job.sym] \cup job.buf \cup Fuller(job.best, again)
    BY <2>1, <2>2, <2>3 DEF Forward
  <2>5. CASE Absorb(Fuller(job.best, again))
    <3>1. Forward' /\ pc' \in {"flush", "sync"}
      BY <2>2, <2>3, <2>4, <2>5, AbsorbForward DEF TypeInv, Absorb
    <3>2. /\ job'.sym = job.sym /\ job'.end = job.end
          /\ job'.buf = job.buf \cup Fuller(job.best, again) /\ job'.best = {}
      BY <1>t, <2>5 DEF Absorb, Jobs
    <3>3. JobForward'
      BY <3>1 DEF JobForward
    <3> QED
      BY <2>2, <2>3, <3>1, <3>2, <3>3, SameStoreSafe DEF Safe, OnlyOver, Working
  <2>6. CASE /\ pc' = "settle"
             /\ job' = [job EXCEPT !.best = Fuller(job.best, again), !.prev = again,
                                   !.tries = @ - 1]
    <3>1. /\ job'.sym = job.sym /\ job'.end = job.end /\ job'.at = job.at
          /\ job'.high = job.high /\ job'.buf = job.buf /\ job'.best = Fuller(job.best, again)
      BY <1>t, <2>6 DEF Jobs
    <3>2. Kept' = Kept
      BY <2>2, <3>1 DEF Kept, TerminalRows, WindowEnd, Smaller
    <3>3. JobForward'
      BY <2>2, <2>3, <2>4, <2>6, <3>1, <3>2 DEF JobForward, Forward
    <3> QED
      BY <2>2, <2>3, <2>6, <3>1, <3>3, SameStoreSafe DEF Safe, OnlyOver, Working
  <2> QED
    BY <2>1, <2>5, <2>6
<1>18. ASSUME DailyFound PROVE Safe'
  <2>1. PICK first \in KnownDays :
          /\ job' = [job EXCEPT !.at = BackfillStart(first)]
          /\ pc' = IF BackfillStart(first) >= job.end THEN "finish" ELSE "fill"
    BY <1>18 DEF DailyFound, Oldest
  <2>2. /\ UNCHANGED <<now, stored, mark, marks, todo, sweep, received>>
        /\ pc = "daily" /\ Forward /\ job.high = NoTime /\ job.buf = {} /\ job.best = {}
    BY <1>18 DEF DailyFound, KeepPhase, Safe, JobForward, Forward, Reading
  <2> DEFINE start == BackfillStart(first)
  <2>3. start \in Int /\ start >= StartDate
    BY <1>t, <2>2, KnownDaysType, OptionsAssumption DEF TypeInv, Working
  <2> HIDE DEF start
  <2>4. /\ job'.sym = job.sym /\ job'.end = job.end /\ job'.at = start
        /\ job'.high = NoTime /\ job'.buf = {} /\ job'.best = {}
        /\ pc' = IF start >= job.end THEN "finish" ELSE "fill"
    BY <1>t, <2>1, <2>2 DEF Jobs, start
  <2>5. JobForward'
    BY <1>t, <2>2, <2>3, <2>4, OptionsAssumption DEF JobForward, Forward, Jobs
  <2> QED
    BY <2>2, <2>4, <2>5, SameStoreSafe DEF Working
<1>19. ASSUME DailyEmpty PROVE Safe'
  <2>1. CASE pc' = "finish" /\ KeepPhase /\ UNCHANGED <<job, received>>
    <3>1. JobForward'
      BY <1>19, <2>1 DEF DailyEmpty, Safe, JobForward, Forward, Reading
    <3> QED
      BY <1>19, <2>1, <3>1, SameStoreSafe DEF DailyEmpty, KeepPhase, Safe, OnlyOver, Working
  <2>2. CASE pc' = "queue" /\ LeaveSymbol(job.sym)
    BY <1>19, <2>2, JoblessSafe DEF DailyEmpty, LeaveSymbol, Working
  <2> QED
    BY <1>19, <2>1, <2>2 DEF DailyEmpty
<1>20. ASSUME FillWindow PROVE Safe'
  <2>0. PICK rows \in {Kept, {}} :
          \E high \in Newest({job.high} \cup rows) :
            /\ received' = received \cup rows
            /\ job' = [job EXCEPT !.buf = rows, !.high = high, !.at = WindowEnd]
            /\ pc' = IF rows # {} THEN "insert" ELSE IF WindowEnd >= job.end THEN "finish" ELSE "fill"
    BY <1>20 DEF FillWindow
  <2>1. PICK high \in Newest({job.high} \cup rows) :
          /\ received' = received \cup rows
          /\ job' = [job EXCEPT !.buf = rows, !.high = high, !.at = WindowEnd]
          /\ pc' = IF rows # {} THEN "insert" ELSE IF WindowEnd >= job.end THEN "finish" ELSE "fill"
    BY <2>0
  <2>2. /\ UNCHANGED <<now, stored, mark, marks, todo, sweep>>
        /\ pc = "fill" /\ job.at < job.end /\ job.buf = {} /\ job.best = {}
        /\ job.sym \in Symbols /\ Forward /\ Kept \subseteq 0 .. now - 1
    BY <1>20, <1>t, KeptIsOver DEF FillWindow, KeepPhase, Safe, JobForward, Forward, Reading, Working
  <2>3. /\ \A m \in rows : m \in Nat /\ job.at <= m /\ m < WindowEnd
        /\ job.at < WindowEnd /\ WindowEnd \in Int /\ WindowEnd <= job.end
    BY <2>2, KeptBounds, KeptType DEF TypeInv
  <2>4. high \in {job.high} \cup rows /\ job.high <= high
    BY <1>t, <2>1, <2>3, NewestIs DEF Jobs
  <2>5. /\ job'.sym = job.sym /\ job'.end = job.end /\ job'.at = WindowEnd
        /\ job'.high = high /\ job'.buf = rows /\ job'.best = {}
    BY <1>t, <2>1, <2>2 DEF Jobs
  <2>6. /\ mark[job.sym] <= high /\ high < WindowEnd
        /\ \A m \in rows : mark[job.sym] < m
    BY <1>t, <2>2, <2>3, <2>4 DEF Forward, Jobs
  <2>7. received' \subseteq stored[job.sym] \cup rows
    BY <2>1, <2>2 DEF Forward
  <2>8. high # NoTime => high \in stored[job.sym] \cup rows
    BY <2>2, <2>4 DEF Forward
  <2>9. pc' = "fill" => WindowEnd < job.end
    BY <1>t, <2>1, <2>3 DEF Jobs
  <2>10. JobForward'
    BY <2>1, <2>2, <2>5, <2>6, <2>7, <2>8, <2>9 DEF JobForward, Forward
  <2> QED
    BY <2>1, <2>2, <2>5, <2>10, SameStoreSafe DEF Working
(* rows and watermarks are written *)
<1>21. ASSUME InsertRows PROVE Safe'
  <2>1. /\ UNCHANGED <<now, mark, marks, todo, sweep, received>>
        /\ pc \in {"flush", "insert"} /\ pc' \in {"advance", "mark"}
        /\ stored' = [stored EXCEPT ![job.sym] = @ \cup job.buf]
        /\ job.sym \in Symbols /\ Forward
    BY <1>21, <1>t DEF InsertRows, KeepPhase, Safe, JobForward, Reading, Working
  <2>2. /\ job'.sym = job.sym /\ job'.end = job.end /\ job'.at = job.at
        /\ job'.high = job.high /\ job'.buf = {} /\ job'.best = {}
    BY <1>21, <1>t, <2>1 DEF InsertRows, Forward, Jobs
  <2>3. stored'[job.sym] = stored[job.sym] \cup job.buf /\ job.best = {}
    BY <1>t, <2>1 DEF Forward
  <2>4. JobForward'
    BY <2>1, <2>2, <2>3 DEF JobForward, Forward
  <2>5. MarkStored' /\ MarksFresh'
    BY <1>t, <2>1, <2>2 DEF Safe, MarkStored, MarksFresh, Working
  <2>6. OnlyOver'
    BY <1>t, <2>1, <2>2 DEF Safe, OnlyOver, Working
  <2> QED
    BY <2>4, <2>5, <2>6 DEF Safe
<1>22. ASSUME SetWatermark PROVE Safe'
  <2>1. /\ UNCHANGED <<now, stored, marks, todo, sweep, job, received>>
        /\ pc \in {"advance", "mark"} /\ pc' \in {"sync", "fill", "finish"}
        /\ pc' = "fill" => job.at < job.end
        /\ mark' = [mark EXCEPT ![job.sym] = job.high]
        /\ job.sym \in Symbols /\ Forward
    BY <1>22, <1>t DEF SetWatermark, Syncing, KeepPhase, Safe, JobForward, Reading, Working
  <2>2. mark'[job.sym] = job.high /\ job.high \in Times /\ job.buf = {} /\ job.best = {}
    BY <1>t, <2>1 DEF Forward, Jobs
  <2>3. JobForward'
    BY <2>1, <2>2 DEF JobForward, Forward
  <2>4. MarkStored' /\ MarksFresh'
    BY <1>t, <2>1, <2>2 DEF Safe, MarkStored, MarksFresh, Forward, Working
  <2>5. OnlyOver'
    BY <2>1 DEF Safe, OnlyOver, Working
  <2> QED
    BY <2>3, <2>4, <2>5 DEF Safe
<1>23. ASSUME MendWindow PROVE Safe'
  <2>1. PICK rows \in {Kept, {}} : stored' = [stored EXCEPT ![job.sym] = @ \cup rows]
    BY <1>23 DEF MendWindow
  <2>2. /\ UNCHANGED <<now, mark, marks, todo, sweep, received>>
        /\ pc = "mend" /\ pc' = "mend" /\ job.sym \in Symbols /\ rows \subseteq 0 .. now - 1
        /\ job' = [job EXCEPT !.at = WindowEnd]
    BY <1>23, <1>t, KeptIsOver DEF MendWindow, KeepPhase, Safe, Working
  <2>3. /\ job'.sym = job.sym /\ job'.end = job.end
        /\ job'.buf = job.buf /\ job'.best = job.best
    BY <1>t, <2>2 DEF Jobs
  <2>4. MarkStored' /\ MarksFresh' /\ JobForward'
    BY <1>t, <2>1, <2>2, <2>3 DEF Safe, MarkStored, MarksFresh, JobForward, Reading, Working
  <2>5. OnlyOver'
    BY <1>t, <2>1, <2>2, <2>3 DEF Safe, OnlyOver, Working
  <2> QED
    BY <2>4, <2>5 DEF Safe
<1>24. ASSUME WriteFails \/ MendFails PROVE Safe'
  <2>1. /\ UNCHANGED <<now, marks, sweep>> /\ pc \in Working /\ pc' \in {"pass", "queue", "sweep"}
        /\ todo' = todo \ {job.sym} /\ job' = NoJob /\ received' = {}
        /\ pc' = "sweep" => pc = "mend"
        /\ job.sym \in Symbols
    BY <1>24, <1>t DEF WriteFails, MendFails, Syncing, LeaveSymbol, Working
  <2>2. \/ UNCHANGED mark
        \/ /\ pc \in {"advance", "mark"} /\ UNCHANGED stored
           /\ mark' = [mark EXCEPT ![job.sym] = job.high]
    BY <1>24 DEF WriteFails, MendFails
  <2>3. \/ UNCHANGED stored
        \/ \E rows \in SUBSET (0 .. now - 1) : stored' = [stored EXCEPT ![job.sym] = @ \cup rows]
    BY <1>24, <1>t, KeptIsOver DEF WriteFails, MendFails, Prefixes, Safe, OnlyOver, Working
  <2>4. pc \in {"advance", "mark"} => (job.high # NoTime => job.high \in stored[job.sym])
    BY DEF Safe, JobForward, Forward, Reading
  <2>5. MarkStored'
    BY <1>t, <2>1, <2>2, <2>3, <2>4 DEF Safe, MarkStored
  <2>6. MarksFresh'
    BY <1>t, <2>1, <2>2 DEF Safe, MarksFresh
  <2>7. OnlyOver'
    <3>1. job'.buf = {} /\ job'.best = {}
      BY <2>1 DEF NoJob
    <3>2. \A s \in Symbols : stored'[s] \subseteq 0 .. now - 1
      BY <1>t, <2>1, <2>3 DEF Safe, OnlyOver
    <3> QED
      BY <2>1, <3>1, <3>2 DEF Safe, OnlyOver, Working
  <2>8. JobForward'
    BY <2>1 DEF JobForward, Reading
  <2> QED
    BY <2>5, <2>6, <2>7, <2>8 DEF Safe
<1> QED
  BY <1>1, <1>2, <1>3, <1>4, <1>5, <1>6, <1>7, <1>8, <1>9, <1>10, <1>11, <1>12, <1>13, <1>14,
     <1>15, <1>16, <1>17, <1>18, <1>19, <1>20, <1>21, <1>22, <1>23, <1>24
  DEF Next, Environment, Refresh, Pass, Backfill, Write, Repair, Failure

\* The inductive invariant holds in every reachable state of the worker.
THEOREM SafeInvariant == Spec => []Safe
<1>1. Init => Safe
  BY SafeInit
<1>2. TypeInv /\ TypeInv' /\ Safe /\ [Next]_vars => Safe'
  BY SafeStep
<1> QED
  BY <1>1, <1>2, TypeInvariant, PTL DEF Spec

-----------------------------------------------------------------------------
(* The properties *)

\* Every variable keeps its type.
THEOREM TypeCorrect == Spec => []TypeOK
<1>1. TypeInv => TypeOK
  BY DEF TypeInv
<1> QED
  BY <1>1, TypeInvariant, PTL

\* The worker only works from symbols its states hold as active: the default of _state
\* (candles_worker.py:568-571) is dead code.
THEOREM CatalogIsTracked == Spec => []CatalogTracked
<1>1. TypeInv => CatalogTracked
  BY DEF TypeInv, Control
<1> QED
  BY <1>1, TypeInvariant, PTL

\* No crash, error or late download lets the watermark pass a candle that was handed over
\* and is not stored: rows first, watermark second (candles_worker.py:279-292, 466-470).
THEOREM ReceivedIsNeverLost == Spec => []ReceivedIsStored
<1>1. TypeInv /\ Safe => ReceivedIsStored
  <2> SUFFICES ASSUME TypeInv, Safe, job.sym # Nobody, NEW m \in received, m <= mark[job.sym]
               PROVE  m \in stored[job.sym]
    BY DEF ReceivedIsStored
  <2>1. pc \in Working
    BY DEF TypeInv, Control, NoJob
  <2>2. pc # "mend"
    BY DEF Safe, JobForward
  <2>3. Forward
    BY <2>1, <2>2 DEF Safe, JobForward, Reading, Working
  <2>4. /\ job.sym \in Symbols /\ mark[job.sym] \in Times /\ m \in Nat
        /\ job.at \in Int /\ job.high \in Times /\ job.buf \subseteq Nat
    BY <2>1 DEF TypeInv, TypeOK, StoreOK, PhaseOK, JobOK, Jobs, Control
  <2>5. m \notin job.buf
    BY <2>3, <2>4 DEF Forward
  <2>6. m \notin job.best
    <3>1. job.best \subseteq Kept
      BY <2>3 DEF Forward
    <3>2. \A n \in Kept : job.at <= n
      BY <2>4, KeptBounds DEF TypeInv
    <3> QED
      BY <2>3, <2>4, <3>1, <3>2 DEF Forward
  <2> QED
    BY <2>3, <2>5, <2>6 DEF Forward
<1> QED
  BY <1>1, TypeInvariant, SafeInvariant, PTL

\* The worker implements CandleLog: whatever it does, the store only ever gains minutes that
\* are over, and a watermark only moves forward, onto a stored minute.
THEOREM RefinesCandleLog == Spec => ImplementsLog
<1>1. Init => Log!Init
  <2> SUFFICES ASSUME Init PROVE Log!Init
    OBVIOUS
  <2>1. TypeInv /\ Safe
    BY TypeInit, SafeInit
  <2> QED
    BY <2>1 DEF Log!Init, Log!Finished, TypeInv, TypeOK, EnvOK, StoreOK, Safe, MarkStored, OnlyOver
<1>2. TypeInv /\ Safe /\ [Next]_vars => [Log!Next]_(Log!vars)
  <2> SUFFICES ASSUME TypeInv, Safe, [Next]_vars PROVE [Log!Next]_(Log!vars)
    OBVIOUS
  <2> USE DEF env, store, memory, phase
  <2>t. /\ pc \in Working => job.sym \in Symbols
        /\ stored \in [Symbols -> SUBSET Nat] /\ mark \in [Symbols -> Times] /\ now \in Nat
        /\ job \in Jobs
    BY DEF TypeInv, TypeOK, EnvOK, StoreOK, PhaseOK, JobOK, Control
  <2>1. ASSUME NEW rows \in SUBSET (0 .. now - 1), pc \in Working, UNCHANGED <<now, mark>>,
               stored' = [stored EXCEPT ![job.sym] = @ \cup rows]
        PROVE  Log!Next
    BY <2>t, <2>1 DEF Log!Next, Log!Append, Log!Finished
  <2>2. ASSUME pc \in {"advance", "mark"}, UNCHANGED <<now, stored>>,
               mark' = [mark EXCEPT ![job.sym] = job.high]
        PROVE  [Log!Next]_(Log!vars)
    <3>1. /\ job.sym \in Symbols /\ mark[job.sym] <= job.high /\ job.high \in Times
          /\ mark[job.sym] \in Times
          /\ job.high # NoTime => job.high \in stored[job.sym]
      BY <2>t, <2>2 DEF Safe, JobForward, Forward, Reading, Working, Jobs
    <3>2. CASE job.high = mark[job.sym]
      BY <2>t, <2>2, <3>1, <3>2 DEF Log!vars
    <3>3. CASE job.high # mark[job.sym]
      <4>1. job.high \in stored[job.sym] /\ (mark[job.sym] = NoTime \/ mark[job.sym] < job.high)
        BY <3>1, <3>3
      <4>2. Log!Advance(job.sym)
        BY <2>2, <4>1 DEF Log!Advance
      <4> QED
        BY <3>1, <4>2 DEF Log!Next
    <3> QED
      BY <3>2, <3>3
  <2>3. ASSUME UNCHANGED <<now, stored, mark>> PROVE [Log!Next]_(Log!vars)
    BY <2>3 DEF Log!vars
  <2>4. CASE Environment
    BY <2>3, <2>4 DEF Environment, Tick, RepairComesDue, CatalogComesDue, Download, Log!Next, Log!Tick
  <2>5. CASE Refresh
    BY <2>3, <2>5 DEF Refresh, CatalogEmpty, RefreshCatalog
  <2>6. CASE Pass
    BY <2>3, <2>6 DEF Pass, BeginPass, Requeue, StartSync, SkipIdle, SyncWindow, SettleWindow, SyncDone
  <2>7. CASE Backfill
    BY <2>3, <2>7 DEF Backfill, BeginBackfill, NoBackfill, TakeQueued, DailyFound, DailyEmpty,
         DailyUnstable, FillWindow, FinishBackfill, DeadlinePasses, QueueDone, EndBackfill
  <2>8. CASE InsertRows
    <3>1. job.buf \subseteq 0 .. now - 1
      BY DEF Safe, OnlyOver
    <3> QED
      BY <2>1, <2>8, <3>1 DEF InsertRows, Working
  <2>9. CASE SetWatermark
    BY <2>2, <2>9 DEF SetWatermark
  <2>10. CASE BeginRepair \/ NoRepair \/ MendDone \/ EndRepair \/ \E s \in todo : SweepSymbol(s)
    BY <2>3, <2>10 DEF BeginRepair, NoRepair, SweepSymbol, MendDone, EndRepair
  <2>11. CASE MendWindow
    BY <2>1, <2>11, KeptIsOver DEF MendWindow, Safe, Working
  <2>12. CASE \E unlocked \in SUBSET Symbols : Rest(unlocked)
    BY <2>3, <2>12 DEF Rest
  <2>13. CASE WriteFails
    <3>1. \A applied \in Prefixes(job.buf) : applied \subseteq 0 .. now - 1
      BY DEF Prefixes, Safe, OnlyOver
    <3> QED
      BY <2>1, <2>2, <2>3, <2>13, <3>1 DEF WriteFails, Working
  <2>14. CASE MendFails
    <3>1. \A applied \in Prefixes(Kept) : applied \subseteq 0 .. now - 1
      BY <2>14, KeptIsOver DEF MendFails, Prefixes, Safe, Working
    <3> QED
      BY <2>1, <2>14, <3>1 DEF MendFails, Working
  <2>15. CASE StateWriteFails \/ IterationFails \/ Crash \/ \E s \in todo : SkipFailing(s)
    BY <2>3, <2>15 DEF StateWriteFails, IterationFails, Crash, SkipFailing
  <2>16. CASE UNCHANGED vars
    BY <2>3, <2>16 DEF vars
  <2> QED
    BY <2>4, <2>5, <2>6, <2>7, <2>8, <2>9, <2>10, <2>11, <2>12, <2>13, <2>14, <2>15, <2>16
       DEF Next, Write, Repair, Failure
<1> QED
  BY <1>1, <1>2, TypeInvariant, SafeInvariant, PTL DEF Spec, ImplementsLog, Log!Spec

\* The job of the regular pass, from its first window to its last watermark, has a last candle.
PassJob == pc \in {"sync", "settle", "flush", "advance"} => job.last # NoTime

\* The regular pass never reads a full history (candles_worker.py:210-214).
THEOREM PassNeverReadsFullHistory == Spec => []PassStartsFromCandle
<1>1. Init => PassJob
  BY DEF Init, PassJob
<1>2. TypeInv /\ PassJob /\ [Next]_vars => PassJob'
  <2> SUFFICES ASSUME TypeInv, PassJob, [Next]_vars PROVE PassJob'
    OBVIOUS
  <2> USE DEF env, store, memory, phase
  <2>t. job \in Jobs /\ todo \subseteq Symbols /\ stored \in [Symbols -> SUBSET Nat]
        /\ marks \in [Symbols -> Times]
    BY DEF TypeInv, TypeOK, StoreOK, PhaseOK, JobOK
  <2>1. CASE Environment
    BY <2>1 DEF Environment, Tick, Download, RepairComesDue, CatalogComesDue, PassJob
  <2>2. CASE Refresh
    BY <2>2 DEF Refresh, CatalogEmpty, RefreshCatalog, PassJob
  <2>3. ASSUME NEW s \in todo, StartSync(s) PROVE PassJob'
    <3>1. PICK last \in Last(s) :
            job' = [Job(s, last, SyncStart(last), now) EXCEPT !.catching = CatchingUp(last)]
      BY <2>3 DEF StartSync
    <3>2. ~HoldsNothing(s)
      BY <2>3 DEF StartSync
    <3>3. last # NoTime
      <4>1. CASE marks[s] # NoTime
        BY <3>1, <4>1 DEF Last
      <4>2. CASE marks[s] = NoTime
        <5>1. stored[s] # {} /\ stored[s] \in SUBSET Times /\ last \in Newest(stored[s])
          BY <2>t, <3>1, <3>2, <4>2 DEF HoldsNothing, Last
        <5>2. last \in stored[s]
          BY <5>1, NewestIs
        <5> QED
          BY <2>t, <5>2
      <4> QED
        BY <4>1, <4>2
    <3>4. job'.last = last
      BY <3>1 DEF Job, NoJob
    <3> QED
      BY <3>3, <3>4 DEF PassJob
  <2>4. CASE BeginPass \/ SyncDone \/ \E s \in todo : Requeue(s) \/ SkipIdle(s)
    BY <2>4 DEF BeginPass, SyncDone, Requeue, SkipIdle, PassJob
  <2>5. CASE SyncWindow
    BY <2>t, <2>5 DEF SyncWindow, Absorb, PassJob, Jobs
  <2>6. CASE SettleWindow
    BY <2>t, <2>6 DEF SettleWindow, Absorb, PassJob, Jobs
  <2>7. CASE Backfill
    BY <2>7 DEF Backfill, BeginBackfill, NoBackfill, TakeQueued, DailyFound, DailyEmpty, DailyUnstable,
                FillWindow, FinishBackfill, DeadlinePasses, QueueDone, EndBackfill, PassJob
  <2>8. CASE InsertRows
    BY <2>t, <2>8 DEF InsertRows, Syncing, PassJob, Jobs
  <2>9. CASE SetWatermark
    BY <2>9 DEF SetWatermark, Syncing, PassJob
  <2>10. CASE Repair
    BY <2>10 DEF Repair, BeginRepair, NoRepair, SweepSymbol, MendWindow, MendDone, EndRepair, PassJob
  <2>11. CASE \E unlocked \in SUBSET Symbols : Rest(unlocked)
    BY <2>11 DEF Rest, PassJob
  <2>12. CASE Failure
    BY <2>12 DEF Failure, SkipFailing, WriteFails, MendFails, StateWriteFails, IterationFails, Crash,
                 PassJob
  <2>13. CASE UNCHANGED vars
    BY <2>13 DEF vars, PassJob
  <2> QED
    BY <2>1, <2>2, <2>3, <2>4, <2>5, <2>6, <2>7, <2>8, <2>9, <2>10, <2>11, <2>12, <2>13
       DEF Next, Pass, Write
<1>3. PassJob => PassStartsFromCandle
  BY DEF PassJob, PassStartsFromCandle
<1> QED
  BY <1>1, <1>2, <1>3, TypeInvariant, PTL DEF Spec
=============================================================================
