------------------------------ MODULE ApiProofs ------------------------------
(* The routes use the pool of connections as ClientPool says, so what the pool *)
(* promises holds of the service for any number of threads and connections;    *)
(* and what the routes answer is true of the store while the worker writes it. *)
EXTENDS Api, FiniteSetTheorems, WellFoundedInduction, TLAPS

PoolProofs == INSTANCE ClientPoolProofs

LEMMA PoolParametersHold == PoolProofs!PoolParameters
  BY PoolAssumption DEF PoolProofs!PoolParameters

\* The two instances of the pool count alike.
LEMMA SameCount == \A S : Pool!Cardinality(S) = PoolProofs!Cardinality(S)
  BY DEF Pool!Cardinality, PoolProofs!Cardinality, Pool!IsFiniteSet, PoolProofs!IsFiniteSet

\* A step of the routes, of the worker or of the lifespan is a step of the pool, or leaves it
\* alone.
LEMMA StepOfPool ==
  ASSUME [Next]_vars
  PROVE  [PoolProofs!Next]_(PoolProofs!vars)
<1> USE DEF PoolProofs!Next, PoolProofs!vars, pool
<1>1. CASE Worker \/ UNCHANGED vars
  BY <1>1 DEF Worker, vars
<1>2. CASE Shutdown \/ CloseNext \/ Over
  BY <1>2 DEF Shutdown, CloseNext, Over, vars, Pool!CloseAll, Pool!CloseOne,
              PoolProofs!CloseAll, PoolProofs!CloseOne
<1>3. ASSUME NEW t \in Threads, Handle(t)
      PROVE  [PoolProofs!Next]_(PoolProofs!vars)
  <2>1. CASE AskCandles(t) \/ AskOther(t)
    BY <2>1 DEF AskCandles, AskOther, Serve
  <2>2. CASE Resolve(t) \/ Count(t) \/ Select(t) \/ ReadTable(t) \/ Ping(t)
    BY <2>2 DEF Resolve, Count, Select, ReadTable, Ping, Kept
  <2>3. CASE Respond(t)
    BY <2>3 DEF Respond
  <2>4. CASE Borrow(t)
    <3>1. Pool!Take(t) \/ Pool!Connect(t) \/ Pool!Miss(t) \/ Pool!Refuse(t)
      BY <2>4 DEF Borrow
    <3> QED
      BY <3>1 DEF Pool!Take, Pool!Connect, Pool!Miss, Pool!Refuse, Pool!Without,
                  PoolProofs!Take, PoolProofs!Connect, PoolProofs!Miss, PoolProofs!Refuse,
                  PoolProofs!Without
  <2>5. CASE QueryFails(t)
    BY <2>5 DEF QueryFails, Pool!Drop, PoolProofs!Drop
  <2>6. CASE Leave(t)
    <3>1. Pool!CloseClient(t) \/ Pool!GiveBack(t)
      BY <2>6 DEF Leave
    <3> QED
      BY <3>1, SameCount DEF Pool!CloseClient, Pool!GiveBack, Pool!HasRoom,
                  PoolProofs!CloseClient, PoolProofs!GiveBack, PoolProofs!HasRoom
  <2> QED
    BY <1>3, <2>1, <2>2, <2>3, <2>4, <2>5, <2>6 DEF Handle, Work
<1> QED
  BY <1>1, <1>2, <1>3 DEF Next

\* The service implements the pool.
THEOREM ServiceUsesPool == Spec => PoolProofs!Spec
<1>1. Init => PoolProofs!Init
  BY DEF Init, Pool!Init, PoolProofs!Init
<1>2. [Next]_vars => [PoolProofs!Next]_(PoolProofs!vars)
  BY StepOfPool
<1> QED
  BY <1>1, <1>2, PTL DEF Spec, PoolProofs!Spec

LEMMA PoolIsKept == Spec => [](Pool!PoolTypeOK /\ NeverShared /\ Pool!NothingLeaks)
<1>1. PoolProofs!Spec => [](PoolProofs!PoolTypeOK /\ PoolProofs!NeverShared /\ PoolProofs!NothingLeaks)
  BY PoolParametersHold, PoolProofs!PoolIsSafe
<1>2. PoolProofs!NeverShared /\ PoolProofs!NothingLeaks => NeverShared /\ Pool!NothingLeaks
  BY SameCount DEF NeverShared, Pool!NeverShared, Pool!NothingLeaks, Pool!Lent,
         PoolProofs!NeverShared, PoolProofs!NothingLeaks, PoolProofs!Lent
<1>3. PoolProofs!PoolTypeOK => Pool!PoolTypeOK
  BY DEF Pool!PoolTypeOK, PoolProofs!PoolTypeOK
<1> QED
  BY <1>1, <1>2, <1>3, ServiceUsesPool, PTL

\* No two requests ever share a connection, and none uses a closed one.
THEOREM ConnectionsAreSafe == Spec => []NeverShared
  BY PoolIsKept, PTL

-----------------------------------------------------------------------------
(* What a request knows while it is under way *)

\* The store the worker keeps: only minutes that are over, and a watermark among them.
LogOK ==
  /\ now \in Nat
  /\ stored \in [{TheSymbol} -> SUBSET (0 .. now - 1)]
  /\ mark \in [{TheSymbol} -> Nat \cup {NoTime}]
  /\ mark[TheSymbol] \in stored[TheSymbol] \cup {NoTime}

Requests ==
  [kind : Routes \cup {"none"},
   window : [from : Nat, to : Nat, frame : Frames \cup {1}],
   reading : [listed : BOOLEAN, last : Nat \cup {NoTime}, backfill : {"pending", "done"}],
   rows : SUBSET Int]

\* The routes that send a query.
Kind(query) ==
  CASE query \in {"resolve", "count", "select"} -> {"candles"}
    [] query \in {"rows", "states"} -> {"symbols"}
    [] query = "marks" -> {"symbols", "status"}
    [] query = "ping" -> {"healthz"}
    [] query \in {"borrow", "leave"} -> Routes
    [] query = "free" -> {"none"}

\* A minute a client has been told of, or is about to be, is stored, and the watermark is set.
Stands(last) == last = NoTime \/ (last \in stored[TheSymbol] /\ mark[TheSymbol] # NoTime)

\* ShownDoneIsDone of one thread.
ShownRight(t) ==
  /\ request[t].kind = "symbols" /\ pc[t] = "leave" /\ code[t] = 200
  /\ request[t].reading.listed /\ request[t].reading.last # NoTime
  /\ request[t].reading.backfill = "done"
  => entry # "pending"

\* Once the service has ended nothing waits in the list and nobody is at a request.
Ended == closed => idle = {} /\ \A t \in Threads : pc[t] = "free"

\* What holds of one thread, whatever the others do.
ThreadInv(t) ==
  /\ at[t] \in {"lent", "closing"} => pc[t] \notin {"free", "borrow"}
  /\ request[t].kind \in Kind(pc[t])
  /\ Stands(request[t].reading.last)
  /\ pc[t] = "select" /\ ~disturbed[t] => ~TooMany(Buckets(request[t].window))
  /\ ShownRight(t)

ApiInv ==
  /\ TypeOK /\ LogOK
  /\ request \in [Threads -> Requests]
  /\ Stands(announced)
  /\ Ended
  /\ \A t \in Threads : ThreadInv(t)

-----------------------------------------------------------------------------
(* The rows of an answer *)

LEMMA DivNat ==
  ASSUME NEW m \in Nat, NEW f \in Nat, f > 0
  PROVE  m \div f \in Nat
  OBVIOUS

LEMMA BucketsAreFinite ==
  ASSUME LogOK, NEW window \in [from : Nat, to : Nat, frame : Frames \cup {1}]
  PROVE  IsFiniteSet(Buckets(window)) /\ Buckets(window) \subseteq Nat
<1> DEFINE minutes == {n \in stored[TheSymbol] : Inside(n, window)}
           bucket == [m \in minutes |-> m \div window.frame]
<1>1. minutes \subseteq 0 .. now - 1 /\ minutes \subseteq Nat
  BY DEF LogOK
<1>2. IsFiniteSet(minutes)
  <2>1. IsFiniteSet(0 .. now - 1)
    BY FS_Interval DEF LogOK
  <2> QED
    BY <1>1, <2>1, FS_Subset
<1>3. bucket \in Surjection(minutes, Buckets(window))
  BY DEF Surjection, Buckets
<1>4. IsFiniteSet(Buckets(window))
  BY <1>2, <1>3, FS_Surjection
<1>5. window.frame \in Nat /\ window.frame > 0
  <2>1. window.frame \in Frames \cup {1}
    OBVIOUS
  <2>2. \A f \in Frames \cup {1} : f \in Nat /\ f > 0
    BY ApiAssumption
  <2> QED
    BY <2>1, <2>2
<1>6. ASSUME NEW m \in minutes
      PROVE  m \div window.frame \in Nat
  <2>1. m \in Nat
    BY <1>1
  <2> QED
    BY <1>5, <2>1, DivNat
<1> QED
  BY <1>4, <1>6 DEF Buckets

\* The LIMIT cuts nothing off from what the count let through.
LEMMA LimitAgreesWithCount ==
  ASSUME NEW buckets, buckets \subseteq Nat, IsFiniteSet(buckets), ~TooMany(buckets)
  PROVE  Limited(buckets) = buckets
<1> SUFFICES ASSUME NEW b \in buckets
             PROVE  Cardinality({d \in buckets : d < b}) < MaxRows
  BY DEF Limited
<1> DEFINE before == {d \in buckets : d < b}
<1>1. before \in SUBSET buckets /\ b \notin before /\ b \in Nat
  OBVIOUS
<1>2. Cardinality(before) <= Cardinality(buckets) /\ Cardinality(before) # Cardinality(buckets)
  BY <1>1, FS_Subset
<1>3. Cardinality(before) \in Nat /\ Cardinality(buckets) \in Nat
  BY <1>1, FS_Subset, FS_CardinalityType
<1>4. Cardinality(buckets) <= MaxRows
  BY <1>3, ApiAssumption DEF TooMany
<1> QED
  BY <1>2, <1>3, <1>4, ApiAssumption

\* Rows that are fewer than the limit are all there are.
LEMMA FewAreAll ==
  ASSUME NEW buckets, buckets \subseteq Nat, IsFiniteSet(buckets),
         Cardinality(Limited(buckets)) < MaxRows
  PROVE  Limited(buckets) = buckets
<1> DEFINE cut == buckets \ Limited(buckets)
<1>1. Limited(buckets) \subseteq buckets
  BY DEF Limited
<1> SUFFICES ASSUME cut # {}
             PROVE  FALSE
  BY <1>1
<1>2. PICK b \in cut : \A c \in cut : ~(c < b)
  <2>1. cut \subseteq Nat
    OBVIOUS
  <2>2. PICK b \in cut : \A c \in cut : <<c, b>> \notin OpToRel(<, Nat)
    BY <2>1, NatLessThanWellFounded, WFMin
  <2> QED
    BY <2>1, <2>2 DEF OpToRel
<1> DEFINE before == {d \in buckets : d < b}
<1>3. before \subseteq Limited(buckets)
  BY <1>2
<1>4. IsFiniteSet(Limited(buckets)) /\ Cardinality(Limited(buckets)) \in Nat
  BY <1>1, FS_Subset, FS_CardinalityType
<1>5. Cardinality(before) <= Cardinality(Limited(buckets)) /\ Cardinality(before) \in Nat
  BY <1>3, <1>4, FS_Subset, FS_CardinalityType
<1>6. Cardinality(before) < MaxRows
  BY <1>4, <1>5, ApiAssumption
<1> QED
  BY <1>2, <1>6 DEF Limited

-----------------------------------------------------------------------------
(* The steps *)

LEMMA ApiInitially == Init => ApiInv
<1> SUFFICES ASSUME Init
             PROVE  ApiInv
  OBVIOUS
<1>1. LogOK
  <2>1. Stored0 \subseteq 0 .. now - 1 /\ Stored0 \subseteq Nat /\ now \in Nat
    BY ApiAssumption DEF Init
  <2>2. stored = [s \in {TheSymbol} |-> Stored0]
    BY DEF Init
  <2>3. mark \in [{TheSymbol} -> Stored0 \cup {NoTime}]
    BY DEF Init
  <2>4. mark \in [{TheSymbol} -> Nat \cup {NoTime}]
    BY <2>1, <2>3
  <2> QED
    BY <2>1, <2>2, <2>3, <2>4 DEF LogOK
<1>2. NoRequest \in Requests
  BY DEF NoRequest, NoWindow, NoReading, Requests
<1>3. request \in [Threads -> Requests]
  BY <1>2 DEF Init
<1>4. Pool!PoolTypeOK
  BY DEF Init, Pool!Init, Pool!PoolTypeOK
<1>5. TypeOK
  <2>1. \A t \in Threads : request[t].window = [from |-> 0, to |-> 0, frame |-> 1]
    BY DEF Init, NoRequest, NoWindow
  <2>2. 0 \in 0 .. now /\ faults \in 0 .. MaxFaults
    BY ApiAssumption DEF Init
  <2>3. announced \in Nat \cup {NoTime} /\ closed \in BOOLEAN
    BY DEF Init
  <2>4. \A t \in Threads :
          LET window == request[t].window
          IN  window.from \in 0 .. now /\ window.to \in 0 .. now /\ window.frame \in Frames \cup {1}
    BY <2>1, <2>2
  <2>5. /\ code \in [Threads -> {0, 200, 400, 404, 500, 503}]
        /\ disturbed \in [Threads -> BOOLEAN]
        /\ pc \in [Threads -> {"free", "borrow", "resolve", "count", "select", "rows", "marks",
                               "states", "ping", "leave"}]
    BY DEF Init
  <2> QED
    BY <1>4, <2>2, <2>3, <2>4, <2>5 DEF Init, TypeOK
<1>6. \A t \in Threads : ThreadInv(t)
  BY DEF Init, Pool!Init, ThreadInv, NoRequest, NoReading, Kind, Stands, ShownRight
<1> QED
  BY <1>1, <1>3, <1>5, <1>6 DEF ApiInv, Init, Stands, Ended

\* The worker only adds to the store, and the clock only goes on.
LEMMA LogGrows ==
  ASSUME LogOK, Worker
  PROVE  /\ LogOK' /\ now' >= now
         /\ stored[TheSymbol] \subseteq stored'[TheSymbol]
         /\ mark[TheSymbol] # NoTime => mark'[TheSymbol] # NoTime
<1> USE DEF LogOK, NoTime
<1>1. CASE Log!Tick
  BY <1>1 DEF Log!Tick
<1>2. CASE Log!Advance(TheSymbol)
  BY <1>2 DEF Log!Advance
<1>3. CASE Log!Append(TheSymbol)
  <2>1. PICK rows \in SUBSET (0 .. now - 1) :
          stored' = [stored EXCEPT ![TheSymbol] = @ \cup rows] /\ UNCHANGED <<now, mark>>
    BY <1>3 DEF Log!Append, Log!Finished
  <2>2. stored'[TheSymbol] = stored[TheSymbol] \cup rows
    BY <2>1
  <2>3. stored[TheSymbol] \cup rows \in SUBSET (0 .. now - 1)
    BY <2>1
  <2>4. stored' \in [{TheSymbol} -> SUBSET (0 .. now - 1)]
    BY <2>1, <2>3
  <2> QED
    BY <2>1, <2>2, <2>4
<1>4. CASE UNCHANGED <<now, stored, mark>>
  BY <1>4
<1> QED
  BY <1>1, <1>2, <1>3, <1>4 DEF Worker

LEMMA WorkerKeeps ==
  ASSUME ApiInv, Worker, Pool!PoolTypeOK'
  PROVE  ApiInv'
<1>1. /\ LogOK' /\ now' \in Nat /\ now \in Nat /\ now' >= now
      /\ stored[TheSymbol] \subseteq stored'[TheSymbol]
      /\ mark[TheSymbol] # NoTime => mark'[TheSymbol] # NoTime
  BY LogGrows DEF ApiInv, LogOK
<1>2. /\ UNCHANGED <<pool, pc, request, code, closed, faults, announced>>
      /\ disturbed' = [t \in Threads |-> disturbed[t] \/ (pc[t] = "select" /\ stored' # stored)]
  BY DEF Worker
<1>3. entry' \in {"unknown", "listed", "pending", "done"}
  BY DEF Worker, ApiInv, TypeOK
<1>4. TypeOK'
  <2>1. disturbed' \in [Threads -> BOOLEAN]
    BY <1>2 DEF ApiInv, TypeOK
  <2>2. \A t \in Threads :
          LET window == request'[t].window
          IN  window.from \in 0 .. now' /\ window.to \in 0 .. now' /\ window.frame \in Frames \cup {1}
    BY <1>1, <1>2 DEF ApiInv, TypeOK
  <2> QED
    BY <1>2, <1>3, <2>1, <2>2 DEF ApiInv, TypeOK
<1>5. \A last : Stands(last) => Stands(last)'
  BY <1>1 DEF Stands
<1>6. ASSUME NEW t \in Threads
      PROVE  ThreadInv(t)'
  <2>1. ThreadInv(t)
    BY DEF ApiInv
  <2>2. (request[t].kind \in Kind(pc[t]))'
    BY <1>2, <2>1 DEF ThreadInv, Kind
  <2>3. Stands(request[t].reading.last)'
    BY <1>1, <1>2, <2>1 DEF ThreadInv, Stands
  <2>4. ASSUME pc'[t] = "select", ~disturbed'[t]
        PROVE  ~TooMany(Buckets(request[t].window))'
    BY <1>2, <2>1, <2>4 DEF ThreadInv, TooMany, Buckets, Inside
  <2>5. ShownRight(t)'
    <3> SUFFICES ASSUME request[t].kind = "symbols", pc[t] = "leave", code[t] = 200,
                        request[t].reading.listed, request[t].reading.last # NoTime,
                        request[t].reading.backfill = "done"
                 PROVE  entry' # "pending"
      BY <1>2 DEF ShownRight
    <3>1. entry # "pending"
      BY <2>1 DEF ThreadInv, ShownRight
    <3>2. stored[TheSymbol] # {} /\ mark[TheSymbol] # NoTime
      BY <2>1 DEF ThreadInv, Stands
    <3> QED
      BY <3>1, <3>2 DEF Worker
  <2>6. at'[t] = at[t] /\ pc'[t] = pc[t]
    BY <1>2 DEF pool
  <2> QED
    BY <2>1, <2>2, <2>3, <2>4, <2>5, <2>6 DEF ThreadInv
<1> QED
  BY <1>1, <1>2, <1>4, <1>5, <1>6 DEF ApiInv, Stands, Ended, pool

\* What a thread does with the pool is seen at that thread only.
LEMMA OneBorrower ==
  ASSUME ApiInv, NEW t \in Threads, Handle(t)
  PROVE  /\ \A u \in Threads \ {t} : at'[u] = at[u]
         /\ at'[t] \in {"lent", "closing"} => pc'[t] \notin {"free", "borrow"}
<1> USE DEF ApiInv, TypeOK, Pool!PoolTypeOK
<1>1. CASE Borrow(t)
  <2>1. Pool!Take(t) \/ Pool!Connect(t) \/ Pool!Miss(t) \/ Pool!Refuse(t)
    BY <1>1 DEF Borrow
  <2>2. \A u \in Threads \ {t} : at'[u] = at[u]
    BY <2>1 DEF Pool!Take, Pool!Connect, Pool!Miss, Pool!Refuse
  <2>3. request[t].kind \in Routes
    BY <1>1 DEF Borrow, ThreadInv, Kind
  <2>4. FirstQuery(t) \notin {"free", "borrow"}
    BY <2>3 DEF FirstQuery, Routes
  <2>5. \/ at'[t] = "lent" /\ pc'[t] = FirstQuery(t)
        \/ at'[t] \in {"missed", "out"}
    BY <1>1 DEF Borrow, Go, Answered, Pool!Take, Pool!Connect, Pool!Miss, Pool!Refuse
  <2> QED
    BY <2>2, <2>4, <2>5
<1>2. CASE QueryFails(t)
  BY <1>2 DEF QueryFails, Pool!Drop, Answered, Go
<1>3. CASE Leave(t)
  <2>1. Pool!CloseClient(t) \/ Pool!GiveBack(t)
    BY <1>3 DEF Leave
  <2>2. \A u \in Threads \ {t} : at'[u] = at[u]
    BY <2>1 DEF Pool!CloseClient, Pool!GiveBack
  <2> QED
    BY <1>3, <2>2 DEF Leave
<1>4. CASE AskCandles(t) \/ AskOther(t)
  <2>1. PICK kind, window : Serve(t, kind, window)
    BY <1>4 DEF AskCandles, AskOther
  <2>2. pc[t] = "free" /\ ThreadInv(t)
    BY <1>4 DEF AskCandles, AskOther
  <2> QED
    BY <2>1, <2>2 DEF Serve, pool, ThreadInv
<1>5. CASE Resolve(t) \/ Count(t)
  BY <1>5 DEF Resolve, Count, Kept, Go, Answered, pool
<1>6. CASE Select(t) \/ Ping(t)
  BY <1>6 DEF Select, Ping, Kept, Go, Answered, pool
<1>7. CASE ReadTable(t)
  BY <1>7 DEF ReadTable, Kept, Go, Answered, Following, pool
<1>8. CASE Respond(t)
  BY <1>8 DEF Respond, pool
<1> QED
  BY <1>1, <1>2, <1>3, <1>4, <1>5, <1>6, <1>7, <1>8 DEF Handle, Work

\* Nor are the log and what the other threads do touched.
LEMMA OneThread ==
  ASSUME ApiInv, NEW t \in Threads, Handle(t)
  PROVE  /\ UNCHANGED <<log, closed>>
         /\ \A u \in Threads \ {t} : /\ pc'[u] = pc[u] /\ request'[u] = request[u]
                                     /\ code'[u] = code[u] /\ disturbed'[u] = disturbed[u]
<1> USE DEF ApiInv, TypeOK
<1>1. CASE AskCandles(t) \/ AskOther(t)
  <2>1. PICK kind, window : Serve(t, kind, window)
    BY <1>1 DEF AskCandles, AskOther
  <2> QED
    BY <2>1 DEF Serve
<1>2. CASE Borrow(t) \/ QueryFails(t)
  BY <1>2 DEF Borrow, QueryFails, Go, Answered, KeepRest
<1>3. CASE Resolve(t) \/ Count(t)
  BY <1>3 DEF Resolve, Count, Kept, Go, Answered
<1>4. CASE Select(t) \/ ReadTable(t) \/ Ping(t)
  BY <1>4 DEF Select, ReadTable, Ping, Kept, Go, Answered
<1>5. CASE Leave(t)
  BY <1>5 DEF Leave, KeepRest
<1>6. CASE Respond(t)
  BY <1>6 DEF Respond, Go
<1> QED
  BY <1>1, <1>2, <1>3, <1>4, <1>5, <1>6 DEF Handle, Work

\* The types of what a step of a thread writes.
LEMMA OwnTypes ==
  ASSUME ApiInv, NEW t \in Threads, Handle(t)
  PROVE  /\ request' \in [Threads -> Requests]
         /\ pc' \in [Threads -> {"free", "borrow", "resolve", "count", "select", "rows", "marks",
                                 "states", "ping", "leave"}]
         /\ code' \in [Threads -> {0, 200, 400, 404, 500, 503}]
         /\ disturbed' \in [Threads -> BOOLEAN]
         /\ faults' \in 0 .. MaxFaults
         /\ LET window == request'[t].window
            IN  window.from \in 0 .. now /\ window.to \in 0 .. now /\ window.frame \in Frames \cup {1}
<1> USE DEF ApiInv, TypeOK
<1> now \in Nat
  BY DEF LogOK
<1>1. ASSUME NEW kind \in Routes, NEW from \in Nat, NEW to \in Nat, NEW frame \in Frames \cup {1},
             from <= now, to <= now,
             Serve(t, kind, [from |-> from, to |-> to, frame |-> frame])
      PROVE  /\ request' \in [Threads -> Requests]
             /\ request'[t].window = [from |-> from, to |-> to, frame |-> frame]
  <2> DEFINE asked == [NoRequest EXCEPT !.kind = kind,
                                        !.window = [from |-> from, to |-> to, frame |-> frame]]
  <2>1. asked \in Requests /\ asked.window = [from |-> from, to |-> to, frame |-> frame]
    BY DEF NoRequest, NoReading, NoWindow, Requests
  <2>2. request' = [request EXCEPT ![t] = asked]
    BY <1>1 DEF Serve
  <2> QED
    BY <2>1, <2>2
<1>2. CASE AskCandles(t)
  <2>1. PICK from \in 0 .. MaxNow, to \in 0 .. MaxNow, frame \in Frames :
               /\ from < Cutoff /\ from < Clamped(to)
               /\ Serve(t, "candles", [from |-> from, to |-> Clamped(to), frame |-> frame])
    BY <1>2 DEF AskCandles
  <2>2. from \in Nat /\ Clamped(to) \in Nat /\ from <= now /\ Clamped(to) <= now
    BY <2>1, ApiAssumption DEF Clamped, Cutoff
  <2>3. /\ request' \in [Threads -> Requests]
        /\ request'[t].window = [from |-> from, to |-> Clamped(to), frame |-> frame]
    BY <1>1, <2>1, <2>2 DEF Routes
  <2> QED
    BY <2>1, <2>2, <2>3 DEF Serve
<1>3. CASE AskOther(t)
  <2>1. PICK kind \in Kinds[t] \ {"candles"} : Serve(t, kind, NoWindow)
    BY <1>3 DEF AskOther
  <2>2. kind \in Routes
    BY ApiAssumption
  <2>3. /\ request' \in [Threads -> Requests]
        /\ request'[t].window = [from |-> 0, to |-> 0, frame |-> 1]
    BY <1>1, <2>1, <2>2 DEF NoWindow
  <2> QED
    BY <2>1, <2>3 DEF Serve
<1>4. CASE Borrow(t)
  <2>1. request[t].kind \in Routes
    BY <1>4 DEF Borrow, ThreadInv, Kind
  <2>2. FirstQuery(t) \in {"resolve", "rows", "marks", "ping"} /\ Failure(t) \in {500, 503}
    BY <2>1 DEF FirstQuery, Failure, Routes
  <2> QED
    BY <1>4, <2>2, ApiAssumption DEF Borrow, Go, Answered, KeepRest
<1>5. CASE QueryFails(t)
  BY <1>5, ApiAssumption DEF QueryFails, Go, Answered, Failure, KeepRest
<1>6. CASE Resolve(t) \/ Ping(t)
  BY <1>6 DEF Resolve, Ping, Kept, Go, Answered
<1>7. CASE Count(t)
  BY <1>7 DEF Count, Kept, Go, Answered
<1>8. CASE Select(t)
  <2>1. request[t] \in Requests
    OBVIOUS
  <2>2. Buckets(request[t].window) \subseteq Int
    BY <2>1, BucketsAreFinite DEF Requests
  <2>3. Limited(Buckets(request[t].window)) \in SUBSET Int
    BY <2>2 DEF Limited
  <2>4. [request[t] EXCEPT !.rows = Limited(Buckets(request[t].window))] \in Requests
    BY <2>1, <2>3 DEF Requests
  <2>5. request' = [request EXCEPT ![t] = [request[t] EXCEPT !.rows = Limited(Buckets(request[t].window))]]
    BY <1>8 DEF Select
  <2>6. request' \in [Threads -> Requests] /\ request'[t].window = request[t].window
    BY <2>1, <2>4, <2>5 DEF Requests
  <2> QED
    BY <1>8, <2>6 DEF Select, Answered, Go, Kept
<1>9. CASE ReadTable(t)
  <2>1. request[t] \in Requests /\ mark[TheSymbol] \in Nat \cup {NoTime}
    BY DEF LogOK
  <2>2. Read(pc[t], request[t].reading)
          \in [listed : BOOLEAN, last : Nat \cup {NoTime}, backfill : {"pending", "done"}]
    BY <1>9, <2>1 DEF ReadTable, Read, Requests
  <2>3. request' = [request EXCEPT ![t].reading = Read(pc[t], request[t].reading)]
    BY <1>9 DEF ReadTable
  <2>4. request' \in [Threads -> Requests] /\ request'[t].window = request[t].window
    <3> DEFINE answer == [request[t] EXCEPT !.reading = Read(pc[t], request[t].reading)]
    <3>1. answer \in Requests /\ answer.window = request[t].window
      BY <2>1, <2>2 DEF Requests
    <3>2. request' = [request EXCEPT ![t] = answer] /\ request \in [Threads -> Requests]
      BY <2>3
    <3> HIDE DEF answer
    <3> QED
      BY <3>1, <3>2
  <2>5. /\ \/ pc' = [pc EXCEPT ![t] = "leave"] /\ code' = [code EXCEPT ![t] = 200]
           \/ \E next \in {"marks", "states"} : pc' = [pc EXCEPT ![t] = next] /\ code' = code
        /\ disturbed' = disturbed /\ faults' = faults
    BY <1>9 DEF ReadTable, Answered, Go, Kept, Following
  <2> QED
    BY <2>4, <2>5
<1>10. CASE Leave(t)
  BY <1>10 DEF Leave, KeepRest
<1>11. CASE Respond(t)
  <2>1. NoRequest \in Requests /\ NoRequest.window = [from |-> 0, to |-> 0, frame |-> 1]
    BY DEF NoRequest, NoReading, NoWindow, Requests
  <2>2. request' = [request EXCEPT ![t] = NoRequest]
    BY <1>11 DEF Respond
  <2>3. request' \in [Threads -> Requests] /\ request'[t] = NoRequest
    BY <2>1, <2>2
  <2> QED
    BY <1>11, <2>1, <2>3 DEF Respond, Go
<1>12. \/ AskCandles(t) \/ AskOther(t) \/ Borrow(t) \/ QueryFails(t) \/ Resolve(t) \/ Ping(t)
       \/ Count(t) \/ Select(t) \/ ReadTable(t) \/ Leave(t) \/ Respond(t)
  BY DEF Handle, Work
<1> QED
  BY <1>2, <1>3, <1>4, <1>5, <1>6, <1>7, <1>8, <1>9, <1>10, <1>11, <1>12

\* What a thread has read, counted and shown stays right when it takes a step.
LEMMA OwnStep ==
  ASSUME ApiInv, NEW t \in Threads, Handle(t)
  PROVE  ThreadInv(t)' /\ announced' \in Nat \cup {NoTime} /\ Stands(announced)'
<1> USE DEF TypeOK
<1>1. /\ UNCHANGED <<now, stored, mark, entry>>
      /\ at'[t] \in {"lent", "closing"} => pc'[t] \notin {"free", "borrow"}
      /\ announced \in Nat \cup {NoTime} /\ Stands(announced) /\ ThreadInv(t)
      /\ request[t] \in Requests
  BY OneThread, OneBorrower DEF ApiInv, log
<1>2. ASSUME NEW kind, NEW window, Serve(t, kind, window), kind \in Routes
      PROVE  ThreadInv(t)' /\ announced' = announced
  <2>1. request'[t] = [NoRequest EXCEPT !.kind = kind, !.window = window]
    BY <1>2 DEF Serve, ApiInv
  <2>2. pc'[t] = "borrow" /\ request'[t].kind = kind /\ request'[t].reading.last = NoTime
    BY <1>2, <2>1 DEF Serve, ApiInv, NoRequest, NoReading
  <2> QED
    BY <1>1, <1>2, <2>2 DEF Serve, ThreadInv, Kind, Stands, ShownRight
<1>3. CASE AskCandles(t) \/ AskOther(t)
  <2>1. PICK kind, window : kind \in Routes /\ Serve(t, kind, window)
    <3>1. CASE AskCandles(t)
      BY <3>1 DEF AskCandles, Routes
    <3>2. CASE AskOther(t)
      BY <3>2, ApiAssumption DEF AskOther
    <3> QED
      BY <1>3, <3>1, <3>2
  <2> QED
    BY <1>1, <1>2, <2>1 DEF Stands
<1>4. CASE Borrow(t)
  <2>1. pc[t] = "borrow" /\ request'[t] = request[t] /\ announced' = announced
    BY <1>4 DEF Borrow, KeepRest
  <2>2. \/ pc'[t] = FirstQuery(t) \/ pc'[t] = "borrow"
        \/ pc'[t] = "leave" /\ code'[t] \in {500, 503}
    BY <1>4, <2>1 DEF Borrow, Go, Answered, Failure, ApiInv
  <2>3. request[t].kind \in Routes
    BY <1>1, <2>1 DEF ThreadInv, Kind
  <2>4. FirstQuery(t) # "select" /\ FirstQuery(t) # "leave" /\ request[t].kind \in Kind(FirstQuery(t))
    BY <2>3 DEF FirstQuery, Routes, Kind
  <2>5. request'[t].kind \in Kind(pc'[t]) /\ pc'[t] # "select"
    BY <2>1, <2>2, <2>3, <2>4 DEF Kind
  <2>6. Stands(request[t].reading.last)' /\ Stands(announced)'
    BY <1>1, <2>1 DEF ThreadInv, Stands
  <2>7. ShownRight(t)'
    BY <2>2, <2>4 DEF ShownRight
  <2> QED
    BY <1>1, <2>1, <2>5, <2>6, <2>7 DEF ThreadInv, Kind
<1>5. CASE QueryFails(t)
  <2>1. /\ request'[t] = request[t] /\ announced' = announced
        /\ pc'[t] = "leave" /\ code'[t] \in {500, 503}
    BY <1>5 DEF QueryFails, Go, Answered, Failure, KeepRest, ApiInv
  <2>2. request[t].kind \in Routes
    <3>1. pc[t] # "free"
      BY <1>1, <1>5 DEF QueryFails, Querying, ThreadInv
    <3> QED
      BY <1>1, <3>1 DEF ThreadInv, Kind, Routes, ApiInv
  <2> QED
    BY <1>1, <2>1, <2>2 DEF ThreadInv, Kind, Stands, ShownRight
<1>6. CASE Resolve(t) \/ Count(t)
  <2>1. /\ request'[t] = request[t] /\ announced' = announced /\ request[t].kind = "candles"
    BY <1>1, <1>6 DEF Resolve, Count, Kept, ThreadInv, Kind
  <2>2. \/ pc'[t] = "leave" \/ pc'[t] = "count"
        \/ pc'[t] = "select" /\ ~TooMany(Buckets(request[t].window))
    BY <1>6 DEF Resolve, Count, Go, Answered, ApiInv
  <2> QED
    BY <1>1, <2>1, <2>2
       DEF ThreadInv, Kind, Routes, Stands, ShownRight, TooMany, Buckets, Inside
<1>7. CASE Select(t)
  <2>1. pc[t] = "select" /\ pc'[t] = "leave" /\ announced' = announced
    BY <1>7 DEF Select, Go, Answered, Kept, ApiInv
  <2>2. request'[t] = [request[t] EXCEPT !.rows = Limited(Buckets(request[t].window))]
    BY <1>7 DEF Select, ApiInv
  <2>3. request'[t].kind = "candles" /\ request'[t].reading = request[t].reading
    BY <1>1, <2>1, <2>2 DEF ThreadInv, Kind, Requests
  <2> QED
    BY <1>1, <2>1, <2>3 DEF ThreadInv, Kind, Routes, Stands, ShownRight
<1>8. CASE ReadTable(t)
  <2>1. /\ pc[t] \in {"rows", "marks", "states"} /\ announced' = announced
        /\ request'[t] = [request[t] EXCEPT !.reading = Read(pc[t], request[t].reading)]
    BY <1>8 DEF ReadTable, Kept, ApiInv
  <2>2. request'[t].kind = request[t].kind /\ request'[t].reading = Read(pc[t], request[t].reading)
    BY <1>1, <2>1 DEF Requests
  <2>3. request[t].kind \in Kind(pc[t])
    BY <1>1 DEF ThreadInv
  <2>4. \/ request[t].kind = "status" /\ pc'[t] = "leave"
        \/ request[t].kind = "symbols" /\ pc[t] = "rows" /\ pc'[t] = "marks"
        \/ request[t].kind = "symbols" /\ pc[t] = "marks" /\ pc'[t] = "states"
        \/ request[t].kind = "symbols" /\ pc[t] = "states" /\ pc'[t] = "leave"
    BY <1>8, <2>3 DEF ReadTable, Go, Answered, Following, Kind, ApiInv
  <2>5. Stands(request'[t].reading.last)
    <3>1. request'[t].reading.last \in {request[t].reading.last, mark[TheSymbol]}
      BY <1>1, <2>1, <2>2 DEF Read, Requests
    <3> QED
      BY <1>1, <3>1 DEF ThreadInv, Stands, ApiInv, LogOK
  <2>6. pc[t] = "states" /\ request'[t].reading.backfill = "done" => entry # "pending"
    BY <1>1, <2>2 DEF Read, Requests
  <2> QED
    BY <1>1, <2>1, <2>2, <2>4, <2>5, <2>6 DEF ThreadInv, Kind, Routes, Stands, ShownRight
<1>9. CASE Ping(t)
  <2>1. /\ request'[t] = request[t] /\ announced' = announced /\ request[t].kind = "healthz"
        /\ pc'[t] = "leave"
    BY <1>1, <1>9 DEF Ping, Kept, ThreadInv, Kind, Answered, Go, ApiInv
  <2> QED
    BY <1>1, <2>1 DEF ThreadInv, Kind, Routes, Stands, ShownRight
<1>10. CASE Leave(t)
  BY <1>1, <1>10 DEF Leave, KeepRest, ThreadInv, Kind, Stands, ShownRight
<1>11. CASE Respond(t)
  <2>1. request'[t] = NoRequest /\ pc'[t] = "free"
    BY <1>11 DEF Respond, Go, ApiInv
  <2>2. request[t].reading.last \in Nat \cup {NoTime} /\ Stands(request[t].reading.last)
    BY <1>1 DEF ThreadInv, Requests
  <2>3. announced' \in {announced, request[t].reading.last}
    BY <1>11 DEF Respond, Newer
  <2> QED
    BY <1>1, <2>1, <2>2, <2>3 DEF ThreadInv, Kind, Stands, ShownRight, NoRequest, NoReading
<1> QED
  BY <1>3, <1>4, <1>5, <1>6, <1>7, <1>8, <1>9, <1>10, <1>11 DEF Handle, Work

\* A step that leaves the log and a thread alone leaves what holds of the thread alone.
LEMMA ThreadKept ==
  ASSUME NEW t \in Threads, ThreadInv(t), UNCHANGED <<stored, mark, entry>>,
         at'[t] = at[t], pc'[t] = pc[t], request'[t] = request[t], code'[t] = code[t],
         disturbed'[t] = disturbed[t]
  PROVE  ThreadInv(t)'
<1>1. Stands(request[t].reading.last)' /\ ShownRight(t)'
  BY DEF ThreadInv, Stands, ShownRight
<1>2. TooMany(Buckets(request[t].window))' <=> TooMany(Buckets(request[t].window))
  BY DEF TooMany, Buckets, Inside
<1>3. (request[t].kind \in Kind(pc[t]))'
  BY DEF ThreadInv, Kind
<1> QED
  BY <1>1, <1>2, <1>3 DEF ThreadInv

\* Requests are served by a service that has not ended.
LEMMA ServedWhileOpen ==
  ASSUME ApiInv, NEW t \in Threads, Handle(t)
  PROVE  ~closed
<1>1. CASE AskCandles(t) \/ AskOther(t)
  BY <1>1 DEF AskCandles, AskOther
<1>2. CASE Work(t)
  <2>1. pc[t] # "free"
    BY <1>2 DEF Work, Borrow, QueryFails, Querying, Resolve, Count, Select, ReadTable, Ping,
                Leave, Respond, ApiInv, ThreadInv
  <2> QED
    BY <2>1 DEF ApiInv, Ended
<1> QED
  BY <1>1, <1>2 DEF Handle

LEMMA ApiStep ==
  ASSUME ApiInv, [Next]_vars, Pool!PoolTypeOK'
  PROVE  ApiInv'
<1>1. CASE Worker
  BY <1>1, WorkerKeeps
<1>2. ASSUME UNCHANGED <<log, at, pc, request, code, faults, disturbed, announced>>,
             closed' \in BOOLEAN, Ended'
      PROVE  ApiInv'
  <2>1. ASSUME NEW t \in Threads
        PROVE  ThreadInv(t)'
    BY <1>2, ThreadKept DEF ApiInv, log
  <2> QED
    BY <1>2, <2>1 DEF log, ApiInv, TypeOK, LogOK, Stands
<1>3. CASE UNCHANGED vars \/ Over
  BY <1>2, <1>3 DEF Over, vars, pool, ApiInv, TypeOK, Ended
<1>4. CASE Shutdown \/ CloseNext
  <2>1. Ended'
    BY <1>4 DEF Shutdown, CloseNext, Pool!CloseAll, Pool!CloseOne, ApiInv, Ended
  <2> QED
    BY <1>2, <1>4, <2>1 DEF Shutdown, CloseNext, Pool!CloseAll, Pool!CloseOne, ApiInv, TypeOK
<1>5. ASSUME NEW t \in Threads, Handle(t)
      PROVE  ApiInv'
  <2>1. /\ UNCHANGED <<now, stored, mark, entry, closed>>
        /\ \A u \in Threads \ {t} : /\ pc'[u] = pc[u] /\ request'[u] = request[u]
                                    /\ code'[u] = code[u] /\ disturbed'[u] = disturbed[u]
    BY <1>5, OneThread DEF log
  <2>2. ThreadInv(t)' /\ announced' \in Nat \cup {NoTime} /\ Stands(announced)'
    BY <1>5, OwnStep
  <2>3. ASSUME NEW u \in Threads \ {t}
        PROVE  ThreadInv(u)'
    <3>1. at'[u] = at[u]
      BY <1>5, OneBorrower
    <3> QED
      BY <2>1, <3>1, ThreadKept DEF ApiInv
  <2>4. \A u \in Threads :
          LET window == request'[u].window
          IN  window.from \in 0 .. now' /\ window.to \in 0 .. now' /\ window.frame \in Frames \cup {1}
    BY <1>5, <2>1, OwnTypes DEF ApiInv, TypeOK
  <2>5. TypeOK'
    BY <1>5, <2>1, <2>2, <2>4, OwnTypes DEF ApiInv, TypeOK
  <2>6. LogOK'
    BY <2>1 DEF ApiInv, LogOK
  <2>7. request' \in [Threads -> Requests]
    BY <1>5, OwnTypes
  <2>8. Ended'
    BY <1>5, <2>1, ServedWhileOpen DEF Ended
  <2> QED
    BY <2>2, <2>3, <2>5, <2>6, <2>7, <2>8 DEF ApiInv
<1> QED
  BY <1>1, <1>3, <1>4, <1>5 DEF Next

LEMMA ApiInvariant == Spec => []ApiInv
  BY ApiInitially, ApiStep, PoolIsKept, PTL DEF Spec

\* Every variable has its type, and no window reaches past the present.
THEOREM ApiTypes == Spec => []TypeOK
  BY ApiInvariant, PTL DEF ApiInv

\* However requests end, every open connection is in the list, in the hands of a thread that is
\* at a request, or about to be closed, and no more than size of them wait; after close() nothing
\* is open but what it goes through.
THEOREM ConnectionsAreKept == Spec => []NothingLeaks
<1>1. ApiInv /\ Pool!PoolTypeOK /\ Pool!NothingLeaks => NothingLeaks
  <2> SUFFICES ASSUME ApiInv, Pool!PoolTypeOK, Pool!NothingLeaks
               PROVE  NothingLeaks
    OBVIOUS
  <2>1. ASSUME NEW t \in Threads, lent[t] # NoClient
        PROVE  pc[t] \notin {"free", "borrow"}
    BY <2>1 DEF Pool!PoolTypeOK, ApiInv, ThreadInv
  <2>2. ASSUME closed
        PROVE  open = doomed
    <3>1. Pool!Lent = {}
      BY <2>1, <2>2 DEF Pool!Lent, ApiInv, Ended
    <3> QED
      BY <2>2, <3>1 DEF Pool!NothingLeaks, ApiInv, Ended
  <2> QED
    BY <2>1, <2>2 DEF NothingLeaks
<1> QED
  BY <1>1, ApiInvariant, PoolIsKept, PTL

\* Although /symbols reads three tables one after the other, it never shows as done, with a last
\* candle, a symbol whose backfill is under way.
THEOREM ShownIsRight == Spec => []ShownDoneIsDone
<1>1. ApiInv => ShownDoneIsDone
  BY DEF ApiInv, ThreadInv, ShownRight, ShownDoneIsDone
<1> QED
  BY <1>1, ApiInvariant, PTL

-----------------------------------------------------------------------------
(* Answers *)

\* A thread gets its rows in Select only.
LEMMA SelectedByQuery ==
  ASSUME ApiInv, [Next]_vars, NEW t \in Threads, Selected(t)
  PROVE  request'[t].rows = Limited(Buckets(request[t].window))
<1>1. pc'[t] # pc[t]
  BY DEF Selected
<1>2. PICK u \in Threads : Handle(u)
  BY <1>1 DEF Next, vars, Worker, Shutdown, CloseNext, Over
<1>3. u = t
  BY <1>1, <1>2, OneThread
<1>4. Select(t) \/ QueryFails(t)
  <2>1. pc[t] = "select"
    BY DEF Selected
  <2> QED
    BY <1>2, <1>3, <2>1
       DEF Handle, Work, AskCandles, AskOther, Borrow, Resolve, Count, ReadTable, Ping, Leave, Respond
<1>5. ~QueryFails(t)
  BY DEF Selected, QueryFails, Answered, Failure, ApiInv, TypeOK
<1> QED
  BY <1>4, <1>5 DEF Select, ApiInv, Requests

\* An answer that nothing was inserted under is whole.
LEMMA QuietRows ==
  ASSUME ApiInv, [Next]_vars, NEW t \in Threads, Undisturbed(t)
  PROVE  request'[t].rows = Buckets(request[t].window)
<1>1. request[t].window \in [from : Nat, to : Nat, frame : Frames \cup {1}]
  BY DEF ApiInv, Requests
<1>2. IsFiniteSet(Buckets(request[t].window)) /\ Buckets(request[t].window) \subseteq Nat
  BY <1>1, BucketsAreFinite DEF ApiInv
<1>3. ~TooMany(Buckets(request[t].window))
  BY DEF ApiInv, ThreadInv, Undisturbed, Selected
<1>4. Limited(Buckets(request[t].window)) = Buckets(request[t].window)
  BY <1>2, <1>3, LimitAgreesWithCount
<1> QED
  BY <1>4, SelectedByQuery DEF Undisturbed

\* The count and the LIMIT agree: an answer that nothing was inserted under holds every candle of
\* its window, whatever MAX_ROWS and the timeframe are.
THEOREM QuietAnswers == Spec => QuietAnswerIsWhole
<1>1. ApiInv /\ [Next]_vars
        => [\A t \in Threads : Undisturbed(t) => request'[t].rows = Buckets(request[t].window)]_vars
  BY QuietRows
<1> QED
  BY <1>1, ApiInvariant, PTL DEF Spec, QuietAnswerIsWhole

\* An answer that LIMIT cannot have cut off is whole, whatever was inserted since its count.
LEMMA WholeRows ==
  ASSUME ApiInv, [Next]_vars, NEW t \in Threads, SurelyWhole(t)
  PROVE  request'[t].rows = Buckets(request[t].window)
<1>1. CASE Undisturbed(t)
  BY <1>1, QuietRows
<1>2. CASE Cardinality(request'[t].rows) < MaxRows
  <2>1. request[t].window \in [from : Nat, to : Nat, frame : Frames \cup {1}]
    BY DEF ApiInv, Requests
  <2>2. IsFiniteSet(Buckets(request[t].window)) /\ Buckets(request[t].window) \subseteq Nat
    BY <2>1, BucketsAreFinite DEF ApiInv
  <2>3. request'[t].rows = Limited(Buckets(request[t].window))
    BY SelectedByQuery DEF SurelyWhole
  <2> QED
    BY <1>2, <2>2, <2>3, FewAreAll
<1> QED
  BY <1>1, <1>2 DEF SurelyWhole, Undisturbed

\* What /symbols or /status has announced is in every later answer whose window it falls into,
\* unless rows were inserted under that answer and it holds as many rows as the limit allows.
THEOREM AnnouncedAreServed == Spec => AnnouncedIsServed
<1>1. ASSUME ApiInv, [Next]_vars, NEW t \in Threads, SurelyWhole(t),
             request[t].window.from <= announced, announced < request[t].window.to
      PROVE  announced \div request[t].window.frame \in request'[t].rows
  <2>1. request'[t].rows = Buckets(request[t].window)
    BY <1>1, WholeRows
  <2>2. request[t].window.from \in Nat
    BY <1>1 DEF ApiInv, Requests
  <2>3. announced \in stored[TheSymbol]
    BY <1>1, <2>2 DEF ApiInv, Stands, NoTime
  <2> QED
    BY <1>1, <2>1, <2>3 DEF Buckets, Inside
<1>2. ApiInv /\ [Next]_vars
        => [\A t \in Threads :
              LET window == request[t].window
              IN  SurelyWhole(t) /\ window.from <= announced /\ announced < window.to
                    => announced \div window.frame \in request'[t].rows]_vars
  BY <1>1
<1> QED
  BY <1>2, ApiInvariant, PTL DEF Spec, AnnouncedIsServed
=============================================================================
