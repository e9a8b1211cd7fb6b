-------------------------- MODULE SupervisorProofs --------------------------
(* The supervisor never has two processes of a worker at once but for those   *)
(* it failed to end, for any workers, any length of the pipes and any number  *)
(* of faults.                                                                 *)
EXTENDS Supervisor, TLAPS

Reports == {"running", "failed"}

\* The child in progress belongs to the loop over the registered ones, and only a worker with
\* a terminal is ever spawned or terminated by the reaper.
Visits ==
  /\ todo \in Seq(Children)
  /\ caller = "stop" => pc \in {"visit", "unread", "release", "join", "rejoin", "stopped"}
  /\ pc \in {"sleep", "backoff"} => caller = "reap"
  /\ pc = "stopped" => caller = "stop" /\ todo = <<>>
  /\ caller # "stop" /\ pc \notin {"visit", "sleep", "stopped"} => child \in configured

\* A reader belongs to the present process, whose id has been taken from its pipe.
Heard ==
  /\ \A c \in Children : ~handle[c] \/ ~booted[c] => pipe[c] = <<>>
  /\ \A c \in Children : pipe[c] # <<>> => Tail(pipe[c]) \in Seq(Reports)
  /\ \A r \in readers :
       /\ r.gen = gen[r.child] /\ handle[r.child] /\ booted[r.child]
       /\ pipe[r.child] \in Seq(Reports)
       /\ pc \in {"unread", "release"} => r.child # child

\* A process that is not an orphan is the last one of its worker, and it has its handle or is
\* being joined.
Held ==
  /\ \A p \in alive \cup orphans : p[1] \in Children /\ p[2] <= gen[p[1]]
  /\ \A p \in alive \ orphans : p = Process(p[1])
  /\ \A c \in Children : Lives(c) /\ ~handle[c] =>
       \/ pc \in {"join", "rejoin"} /\ child = c
       \/ Process(c) \in orphans
  /\ pc \in {"spawn", "join", "rejoin"} => ~handle[child]

\* The children that start() has yet to visit have no process.
Unvisited ==
  /\ \A i, j \in 1 .. Len(todo) : todo[i] = todo[j] => i = j
  /\ caller = "start" => \A i \in 1 .. Len(todo) :
       handle[todo[i]] => i = 1 /\ pc \notin {"visit", "spawn"}

\* What stop() has visited is gone, or nobody holds it any more.
Gone ==
  caller = "stop" => \A c \in Children :
    Lives(c) => Process(c) \in orphans \/ \E i \in 1 .. Len(todo) : todo[i] = c

SupervisorInv == TypeOK /\ Visits /\ Heard /\ Held /\ Unvisited /\ Gone /\ StatusIsCurrent

LEMMA SupervisorInitially ==
  ASSUME Init
  PROVE  SupervisorInv
<1>1. Registered \in Seq(Children) /\ \A i, j \in 1 .. Len(Registered) : Registered[i] = Registered[j] => i = j
  BY SupervisorAssumption
<1>2. TypeOK
  <2>1. /\ configured \subseteq Children /\ alive = {} /\ stuck = {} /\ faults = 0
        /\ readers = {} /\ orphans = {}
    BY DEF Init
  <2>2. /\ pipe \in [Children -> Seq({"id", "running", "failed"})]
        /\ booted \in [Children -> BOOLEAN] /\ handle \in [Children -> BOOLEAN]
    BY DEF Init
  <2>3. /\ gen \in [Children -> Nat] /\ \A c \in Children \ configured : gen[c] = 0
        /\ told \in [Children -> Nat]
    BY <2>1 DEF Init
  <2>4. /\ status \in [Children -> {"starting", "running", "failed", "stopped"}]
        /\ beat \in [Children -> {"none", "fresh", "old"}]
    BY DEF Init
  <2>5. pc = "visit" /\ caller = "start" /\ failed = FALSE /\ stopping = FALSE /\ swallowed = FALSE
    BY DEF Init
  <2> QED
    BY <2>1, <2>2, <2>3, <2>4, <2>5 DEF TypeOK
<1>3. Visits /\ Heard /\ Held /\ Unvisited /\ Gone /\ StatusIsCurrent
  BY <1>1 DEF Init, Visits, Heard, Held, Unvisited, Gone, StatusIsCurrent, Lives, Process, child
<1> QED
  BY <1>2, <1>3 DEF SupervisorInv

LEMMA ChildInProgress ==
  ASSUME SupervisorInv, todo # <<>>
  PROVE  child \in Children /\ Tail(todo) \in Seq(Children)
BY DEF SupervisorInv, Visits, child

\* The type correctness of each part of a step.
LEMMA TypeStep ==
  ASSUME SupervisorInv, [Next]_vars
  PROVE  TypeOK'
<1> USE DEF processes, channel, statuses, loop, shutdown, Go, NextChild
<1> SUFFICES ASSUME TypeOK, Visits, Heard, Held
             PROVE  TypeOK'
  BY DEF SupervisorInv
<1>0. todo # <<>> => child \in Children /\ Tail(todo) \in Seq(Children)
  BY ChildInProgress
<1>1. CASE VisitToStart
  BY <1>0, <1>1 DEF VisitToStart, TypeOK
<1>2. CASE VisitToReap
  BY <1>0, <1>2 DEF VisitToReap, TypeOK, Terminate, Unheard
<1>3. CASE VisitToStop
  BY <1>0, <1>3 DEF VisitToStop, TypeOK, Terminate, Unheard
<1>4. CASE AllVisited
  BY <1>4 DEF AllVisited, TypeOK
<1>5. CASE Wake
  BY <1>0, <1>5 DEF Wake, TypeOK
<1>6. CASE ReaderGone
  BY <1>6 DEF ReaderGone, TypeOK
<1>7. CASE Release
  <2>1. child \in Children
    BY <1>0, <1>7 DEF Release, TypeOK
  <2>2. /\ pipe' \in [Children -> Seq({"id", "running", "failed"})]
        /\ handle' \in [Children -> BOOLEAN]
    BY <2>1, <1>7 DEF Release, Detached, TypeOK
  <2>3. /\ pc' \in {"visit", "join", "backoff", "spawn"} /\ caller' = caller
        /\ failed' \in BOOLEAN /\ (pc' = "visit" \/ todo' = todo) /\ todo # <<>>
    BY <1>7 DEF Release, Return, TypeOK
  <2> QED
    BY <1>7, <2>2, <2>3 DEF Release, TypeOK
<1>8. CASE Joined
  BY <1>0, <1>8 DEF Joined, Return, Ended, TypeOK
<1>25. CASE TerminateRaises
  <2>1. child \in Children /\ todo # <<>>
    BY <1>0, <1>25 DEF TerminateRaises, TypeOK
  <2>2. /\ pipe' \in [Children -> Seq({"id", "running", "failed"})]
        /\ handle' \in [Children -> BOOLEAN]
        /\ status' \in [Children -> {"starting", "running", "failed", "stopped"}]
    BY <2>1, <1>25 DEF TerminateRaises, Detached, LeftAlive, Ended, TypeOK
  <2>3. /\ pc' \in {"visit", "backoff", "spawn"} /\ caller' = caller
        /\ failed' \in BOOLEAN /\ (pc' = "visit" \/ todo' = todo)
    BY <1>25 DEF TerminateRaises, LeftAlive, Return, TypeOK
  <2>4. orphans' \subseteq Children \X Nat /\ faults' \in Nat
    BY <2>1, <1>25 DEF TerminateRaises, LeftAlive, Process, Fault, TypeOK
  <2> QED
    BY <1>25, <2>1, <2>2, <2>3, <2>4 DEF TerminateRaises, TypeOK
<1>26. CASE NotEnded
  <2>1. child \in Children /\ todo # <<>>
    BY <1>0, <1>26 DEF NotEnded, TypeOK
  <2>2. status' \in [Children -> {"starting", "running", "failed", "stopped"}]
    BY <2>1, <1>26 DEF NotEnded, LeftAlive, Ended, TypeOK
  <2>3. /\ pc' \in {"visit", "backoff", "spawn"} /\ caller' = caller
        /\ failed' \in BOOLEAN /\ (pc' = "visit" \/ todo' = todo)
    BY <1>26 DEF NotEnded, LeftAlive, Return, TypeOK
  <2>4. orphans' \subseteq Children \X Nat /\ faults' \in Nat
    BY <2>1, <1>26 DEF NotEnded, LeftAlive, Process, Fault, TypeOK
  <2> QED
    BY <1>26, <2>1, <2>2, <2>3, <2>4 DEF NotEnded, TypeOK
<1>9. CASE JoinTimesOut
  BY <1>9 DEF JoinTimesOut, TypeOK
<1>10. CASE Rejoined
  BY <1>0, <1>10 DEF Rejoined, Killed, Return, Ended, TypeOK
<1>11. CASE SpawnFails
  <2>1. status' \in [Children -> {"starting", "running", "failed", "stopped"}]
    BY <1>0, <1>11 DEF SpawnFails, TypeOK
  <2>2. faults' \in Nat
    BY <1>11 DEF SpawnFails, Fault, TypeOK
  <2>3. /\ pc' \in {"visit", "backoff"} /\ caller' = caller
        /\ (pc' = "visit" \/ todo' = todo) /\ todo # <<>>
    BY <1>11 DEF SpawnFails, TypeOK
  <2> QED
    BY <1>11, <2>1, <2>2, <2>3 DEF SpawnFails, TypeOK
<1>12. CASE Spawn
  BY <1>0, <1>12 DEF Spawn, TypeOK, Visits
<1>13. CASE Ready
  <2>1. child \in Children
    BY <1>0, <1>13 DEF Ready, TypeOK
  <2>2. pipe' \in [Children -> Seq({"id", "running", "failed"})]
    BY <2>1, <1>13 DEF Ready, TypeOK
  <2>3. /\ status' \in [Children -> {"starting", "running", "failed", "stopped"}]
        /\ beat' \in [Children -> {"none", "fresh", "old"}]
    BY <2>1, <1>13 DEF Ready, TypeOK
  <2>4. \A r \in readers' : r \in [child : Children, gen : Nat, holds : {Quiet, "running", "failed"}]
    BY <2>1, <1>13 DEF Ready, Reader, TypeOK
  <2> QED
    BY <1>13, <2>2, <2>3, <2>4 DEF Ready, TypeOK
<1>14. CASE NotReady
  <2>1. status' \in [Children -> {"starting", "running", "failed", "stopped"}]
    BY <1>0, <1>14 DEF NotReady, TypeOK
  <2>2. faults' \in Nat
    BY <1>14 DEF NotReady, Fault, TypeOK
  <2>3. /\ pc' \in {"unread", "release"} /\ caller' = caller /\ todo' = todo /\ todo # <<>>
        /\ readers' \subseteq readers /\ failed' = TRUE
    BY <1>14 DEF NotReady, Terminate, Unheard, TypeOK
  <2> QED
    BY <1>14, <2>1, <2>2, <2>3 DEF NotReady, TypeOK
<1>15. ASSUME NEW c \in Children, Boot(c)
       PROVE  TypeOK'
  BY <1>15 DEF Boot, TypeOK
<1>16. ASSUME NEW c \in Children, Report(c)
       PROVE  TypeOK'
  BY <1>16 DEF Report, TypeOK
<1>17. ASSUME NEW c \in Children, Dies(c)
       PROVE  TypeOK'
  <2>1. PICK p \in alive : /\ IF p \in orphans THEN UNCHANGED faults ELSE Fault
                          /\ alive' = alive \ {p} /\ stuck' = stuck \ {p} /\ orphans' = orphans \ {p}
    BY <1>17 DEF Dies
  <2>2. /\ alive' \subseteq Children \X Nat /\ stuck' \subseteq alive' /\ orphans' \subseteq Children \X Nat
    BY <2>1 DEF TypeOK
  <2>3. faults' \in Nat
    BY <2>1 DEF Fault, TypeOK
  <2> QED
    BY <1>17, <2>2, <2>3 DEF Dies, TypeOK
<1>18. ASSUME NEW c \in Children, StopsWorking(c)
       PROVE  TypeOK'
  <2>1. stuck' \subseteq alive /\ faults' \in Nat
    BY <1>18 DEF StopsWorking, Works, Lives, Fault, TypeOK
  <2> QED
    BY <1>18, <2>1 DEF StopsWorking, TypeOK
<1>19. ASSUME NEW c \in Children, BeatExpires(c)
       PROVE  TypeOK'
  BY <1>19 DEF BeatExpires, Fault, TypeOK
<1>20. ASSUME NEW r \in readers, Receive(r)
       PROVE  TypeOK'
  BY <1>20 DEF Receive, Reader, Quiet, TypeOK, Heard, Reports
<1>21. ASSUME NEW r \in readers, ReaderEnds(r)
       PROVE  TypeOK'
  BY <1>21 DEF ReaderEnds, TypeOK
<1>22. ASSUME NEW r \in readers, Apply(r)
       PROVE  TypeOK'
  <2>1. r \in [child : Children, gen : Nat, holds : {Quiet, "running", "failed"}]
    BY DEF TypeOK
  <2>2. /\ status' \in [Children -> {"starting", "running", "failed", "stopped"}]
        /\ beat' \in [Children -> {"none", "fresh", "old"}]
        /\ told' \in [Children -> Nat]
    BY <2>1, <1>22 DEF Apply, Quiet, TypeOK
  <2>3. \A q \in readers' : q \in [child : Children, gen : Nat, holds : {Quiet, "running", "failed"}]
    BY <2>1, <1>22 DEF Apply, Reader, TypeOK
  <2> QED
    BY <1>22, <2>2, <2>3 DEF Apply, TypeOK
<1>23. CASE Stop
  <2>1. stopping' \in BOOLEAN /\ swallowed' \in BOOLEAN
    BY <1>23, Zenon DEF Stop
  <2>2. orphans' \subseteq Children \X Nat
    BY <1>0, <1>23 DEF Stop, Process, TypeOK
  <2>3. /\ caller' \in {"start", "reap", "stop"} /\ failed' \in BOOLEAN
        /\ pc' \in {"visit", "spawn", "boot", "unread", "release", "join", "rejoin", "backoff",
                   "sleep", "stopped"}
        /\ pc' \in {"visit", "sleep", "stopped"} \/ todo' # <<>>
    BY <1>23 DEF Stop, Cancellable, TypeOK
  <2> QED
    BY <1>23, <2>1, <2>2, <2>3 DEF Stop, TypeOK
<1>24. CASE UNCHANGED vars
  BY <1>24 DEF vars, TypeOK
<1> QED
  BY <1>1, <1>2, <1>3, <1>4, <1>5, <1>6, <1>7, <1>8, <1>9, <1>10, <1>11, <1>12, <1>13, <1>14,
     <1>15, <1>16, <1>17, <1>18, <1>19, <1>20, <1>21, <1>22, <1>23, <1>24, <1>25, <1>26
     DEF Next, Loop, Read, Worker, Over

\* What happens in the workers and the readers leaves the coroutine where it is; processes can
\* only end.
LEMMA ElsewhereStep ==
  ASSUME [Next]_vars, ~Loop, ~Stop
  PROVE  /\ UNCHANGED <<configured, loop, stopping, gen, handle>>
         /\ \E ended : alive' = alive \ ended /\ orphans' = orphans \ ended
<1> USE DEF processes, channel, statuses, loop, shutdown
<1>1. ASSUME UNCHANGED <<alive, orphans>>
      PROVE  \E ended : alive' = alive \ ended /\ orphans' = orphans \ ended
  <2>1. alive' = alive \ {} /\ orphans' = orphans \ {}
    BY <1>1
  <2> QED
    BY <2>1
<1>2. CASE \E c \in Children : Dies(c)
  BY <1>2 DEF Dies
<1>3. CASE \E c \in Children : Boot(c) \/ Report(c) \/ StopsWorking(c) \/ BeatExpires(c)
  BY <1>1, <1>3 DEF Boot, Report, StopsWorking, BeatExpires
<1>4. CASE \E r \in readers : Receive(r) \/ ReaderEnds(r) \/ Apply(r)
  BY <1>1, <1>4 DEF Receive, ReaderEnds, Apply
<1>5. CASE UNCHANGED vars
  BY <1>1, <1>5 DEF vars
<1> QED
  BY <1>2, <1>3, <1>4, <1>5 DEF Next, Read, Worker, Over

LEMMA VisitsStep ==
  ASSUME SupervisorInv, [Next]_vars
  PROVE  Visits'
<1> USE DEF processes, channel, statuses, loop, shutdown, Go, NextChild
<1> SUFFICES ASSUME TypeOK, Visits
             PROVE  Visits'
  BY DEF SupervisorInv
<1>0. todo # <<>> => child \in Children /\ Tail(todo) \in Seq(Children)
  BY ChildInProgress
<1>1. CASE VisitToStart
  BY <1>0, <1>1 DEF VisitToStart, Watched, Visits, child
<1>2. CASE VisitToReap
  BY <1>0, <1>2 DEF VisitToReap, Watched, Terminate, Visits, child
<1>3. CASE VisitToStop
  BY <1>3 DEF VisitToStop, Terminate, Visits, child
<1>4. CASE AllVisited
  BY <1>4 DEF AllVisited, Visits, child, TypeOK
<1>5. CASE Wake
  BY <1>0, <1>5, SupervisorAssumption DEF Wake, Visits, child, TypeOK
<1>6. CASE ReaderGone
  BY <1>6 DEF ReaderGone, Visits, child
<1>7. CASE Release
  BY <1>0, <1>7 DEF Release, Return, Visits, child, TypeOK
<1>8. CASE Joined
  BY <1>0, <1>8 DEF Joined, Return, Visits, child, TypeOK
<1>17. CASE TerminateRaises
  BY <1>0, <1>17 DEF TerminateRaises, LeftAlive, Return, Visits, child, TypeOK
<1>18. CASE NotEnded
  BY <1>0, <1>18 DEF NotEnded, LeftAlive, Return, Visits, child, TypeOK
<1>9. CASE JoinTimesOut
  BY <1>9 DEF JoinTimesOut, Visits, child
<1>10. CASE Rejoined
  BY <1>0, <1>10 DEF Rejoined, Return, Visits, child, TypeOK
<1>11. CASE SpawnFails
  BY <1>0, <1>11 DEF SpawnFails, Visits, child, TypeOK
<1>12. CASE Spawn
  BY <1>12 DEF Spawn, Visits, child
<1>13. CASE Ready
  BY <1>0, <1>13 DEF Ready, Visits, child, TypeOK
<1>14. CASE NotReady
  BY <1>14 DEF NotReady, Terminate, Visits, child
<1>15. CASE Stop
  BY <1>15, SupervisorAssumption DEF Stop, Cancellable, Visits, child
<1>16. CASE ~Loop /\ ~Stop
  BY <1>16, ElsewhereStep DEF Visits, child
<1> QED
  BY <1>1, <1>2, <1>3, <1>4, <1>5, <1>6, <1>7, <1>8, <1>9, <1>10, <1>11, <1>12, <1>13, <1>14,
     <1>15, <1>16, <1>17, <1>18 DEF Loop

\* The locations of the coroutine matter to a reader only between its cancellation and the
\* closing of the connection.
LEMMA HeardStep ==
  ASSUME SupervisorInv, [Next]_vars
  PROVE  Heard'
<1> USE DEF processes, channel, statuses, loop, shutdown, Go, NextChild
<1> SUFFICES ASSUME TypeOK, Visits, Heard, Held
             PROVE  Heard'
  BY DEF SupervisorInv
<1>0. todo # <<>> => child \in Children /\ Tail(todo) \in Seq(Children)
  BY ChildInProgress
<1>1. CASE VisitToStart
  BY <1>1 DEF VisitToStart, Heard
<1>2. CASE VisitToReap
  BY <1>2 DEF VisitToReap, Terminate, Unheard, Heard, child
<1>3. CASE VisitToStop
  BY <1>3 DEF VisitToStop, Terminate, Unheard, Heard, child
<1>4. CASE AllVisited
  BY <1>4 DEF AllVisited, Heard
<1>5. CASE Wake
  BY <1>5 DEF Wake, Heard
<1>6. CASE ReaderGone
  BY <1>6 DEF ReaderGone, Heard, child
<1>7. CASE Release
  <2>1. child \in Children
    BY <1>0, <1>7 DEF Release, TypeOK
  <2>2. pc' \notin {"unread", "release"}
    BY <1>7 DEF Release, Return
  <2> QED
    BY <2>1, <2>2, <1>7 DEF Release, Detached, Heard, TypeOK
<1>8. CASE Joined
  BY <1>8 DEF Joined, Return, Heard
<1>23. CASE TerminateRaises
  <2>1. child \in Children
    BY <1>0, <1>23 DEF TerminateRaises, TypeOK
  <2>2. pc' \notin {"unread", "release"}
    BY <1>23 DEF TerminateRaises, LeftAlive, Return
  <2> QED
    BY <2>1, <2>2, <1>23 DEF TerminateRaises, Detached, Heard, TypeOK
<1>24. CASE NotEnded
  BY <1>24 DEF NotEnded, LeftAlive, Return, Heard
<1>9. CASE JoinTimesOut
  BY <1>9 DEF JoinTimesOut, Heard
<1>10. CASE Rejoined
  BY <1>10 DEF Rejoined, Return, Heard
<1>11. CASE SpawnFails
  BY <1>11 DEF SpawnFails, Heard
<1>12. CASE Spawn
  BY <1>0, <1>12 DEF Spawn, Heard, Held, TypeOK
<1>13. CASE Ready
  <2>1. child \in Children /\ pipe[child] # <<>> /\ Tail(pipe[child]) \in Seq(Reports)
    BY <1>0, <1>13 DEF Ready, TypeOK, Heard
  <2>2. /\ pipe' = [pipe EXCEPT ![child] = Tail(@)] /\ pc' = "visit"
        /\ readers' = readers \cup {Reader(child, gen[child], Quiet)}
        /\ UNCHANGED <<gen, handle, booted>>
    BY <1>13 DEF Ready
  <2>3. Tail(pipe[child]) # <<>> => Tail(Tail(pipe[child])) \in Seq(Reports)
    BY <2>1
  <2>4. \A c \in Children : pipe'[c] = IF c = child THEN Tail(pipe[child]) ELSE pipe[c]
    BY <2>1, <2>2 DEF TypeOK
  <2>5. handle[child] /\ booted[child]
    BY <2>1 DEF Heard
  <2>6. \A r \in readers : r.child \in Children
    BY DEF TypeOK
  <2> QED
    BY <2>1, <2>2, <2>3, <2>4, <2>5, <2>6 DEF Heard, Reader
<1>14. CASE NotReady
  BY <1>14 DEF NotReady, Terminate, Unheard, Heard, child
<1>15. ASSUME NEW c \in Children, Boot(c)
       PROVE  Heard'
  <2>1. pipe[c] = <<>> /\ handle[c] /\ \A r \in readers : r.child # c
    BY <1>15 DEF Boot, Works, Heard
  <2>2. pipe' = [pipe EXCEPT ![c] = <<"id">>]
    BY <1>15, <2>1 DEF Boot, TypeOK
  <2>3. Tail(<<"id">>) = <<>>
    OBVIOUS
  <2>4. \A d \in Children : pipe'[d] = IF d = c THEN <<"id">> ELSE pipe[d]
    BY <2>2 DEF TypeOK
  <2>5. \A d \in Children : booted'[d] = IF d = c THEN TRUE ELSE booted[d]
    BY <1>15 DEF Boot, TypeOK
  <2>6. UNCHANGED <<gen, handle, readers, pc, todo>> /\ <<>> \in Seq(Reports)
    BY <1>15 DEF Boot
  <2>7. \A r \in readers : r.child \in Children
    BY DEF TypeOK
  <2> QED
    BY <2>1, <2>3, <2>4, <2>5, <2>6, <2>7 DEF Heard, child
<1>16. ASSUME NEW c \in Children, Report(c)
       PROVE  Heard'
  <2>1. PICK state \in Reports : pipe' = [pipe EXCEPT ![c] = Append(@, state)]
    BY <1>16 DEF Report, Reports
  <2>2. pipe[c] \in Seq({"id", "running", "failed"})
    BY DEF TypeOK
  <2>3. Tail(Append(pipe[c], state)) \in Seq(Reports)
    <3>1. CASE pipe[c] = <<>>
      BY <3>1
    <3>2. CASE pipe[c] # <<>>
      <4>1. Tail(pipe[c]) \in Seq(Reports)
        BY <3>2 DEF Heard
      <4>2. Tail(Append(pipe[c], state)) = Append(Tail(pipe[c]), state)
        BY <2>2, <3>2
      <4> QED
        BY <4>1, <4>2
    <3> QED
      BY <3>1, <3>2
  <2>4. pipe[c] \in Seq(Reports) => Append(pipe[c], state) \in Seq(Reports)
    OBVIOUS
  <2>5. \A d \in Children : pipe'[d] = IF d = c THEN Append(pipe[c], state) ELSE pipe[d]
    BY <2>1 DEF TypeOK
  <2>6. handle[c] /\ booted[c] /\ UNCHANGED <<gen, handle, booted, readers, pc, todo>>
    BY <1>16 DEF Report, Works
  <2>7. \A r \in readers : r.child \in Children
    BY DEF TypeOK
  <2> QED
    BY <2>3, <2>4, <2>5, <2>6, <2>7 DEF Heard, child
<1>17. ASSUME NEW c \in Children, Dies(c) \/ StopsWorking(c) \/ BeatExpires(c)
       PROVE  Heard'
  BY <1>17 DEF Dies, StopsWorking, BeatExpires, Heard, child
<1>18. ASSUME NEW r \in readers, Receive(r)
       PROVE  Heard'
  <2>1. /\ r.child \in Children /\ r.gen = gen[r.child] /\ handle[r.child] /\ booted[r.child]
        /\ pipe[r.child] \in Seq(Reports) /\ pipe[r.child] # <<>>
        /\ pc \in {"unread", "release"} => r.child # child
    BY <1>18 DEF Receive, TypeOK, Heard
  <2>2. Tail(pipe[r.child]) \in Seq(Reports)
    BY <2>1
  <2>3. Tail(pipe[r.child]) # <<>> => Tail(Tail(pipe[r.child])) \in Seq(Reports)
    BY <2>2
  <2>4. \A c \in Children : pipe'[c] = IF c = r.child THEN Tail(pipe[c]) ELSE pipe[c]
    BY <1>18, <2>1 DEF Receive, TypeOK
  <2>5. /\ readers' = (readers \ {r}) \cup {Reader(r.child, r.gen, Head(pipe[r.child]))}
        /\ UNCHANGED <<gen, handle, booted, pc, todo>>
    BY <1>18 DEF Receive
  <2>6. \A q \in readers : q.child \in Children
    BY DEF TypeOK
  <2>7. \A c \in Children : ~handle'[c] \/ ~booted'[c] => pipe'[c] = <<>>
    BY <2>1, <2>4, <2>5 DEF Heard
  <2>8. \A c \in Children : pipe'[c] # <<>> => Tail(pipe'[c]) \in Seq(Reports)
    BY <2>1, <2>3, <2>4 DEF Heard
  <2>9. ASSUME NEW q \in readers'
        PROVE  /\ q.gen = gen[q.child] /\ handle[q.child] /\ booted[q.child]
               /\ pipe'[q.child] \in Seq(Reports)
               /\ pc \in {"unread", "release"} => q.child # child
    <3>1. CASE q = Reader(r.child, r.gen, Head(pipe[r.child]))
      BY <2>1, <2>2, <2>4, <3>1 DEF Reader
    <3>2. CASE q \in readers
      BY <2>2, <2>4, <2>6, <3>2 DEF Heard
    <3> QED
      BY <2>5, <3>1, <3>2
  <2> QED
    BY <2>5, <2>7, <2>8, <2>9 DEF Heard, child
<1>19. ASSUME NEW r \in readers, ReaderEnds(r)
       PROVE  Heard'
  BY <1>19 DEF ReaderEnds, Heard, child
<1>20. ASSUME NEW r \in readers, Apply(r)
       PROVE  Heard'
  BY <1>20 DEF Apply, Reader, Heard, child
<1>21. CASE Stop
  BY <1>21 DEF Stop, Cancellable, Heard, child
<1>22. CASE UNCHANGED vars
  BY <1>22 DEF vars, Heard, child
<1> QED
  BY <1>1, <1>2, <1>3, <1>4, <1>5, <1>6, <1>7, <1>8, <1>9, <1>10, <1>11, <1>12, <1>13, <1>14,
     <1>15, <1>16, <1>17, <1>18, <1>19, <1>20, <1>21, <1>22, <1>23, <1>24
     DEF Next, Loop, Read, Worker, Over

LEMMA HeldStep ==
  ASSUME SupervisorInv, [Next]_vars
  PROVE  Held'
<1> USE DEF processes, channel, statuses, loop, shutdown, Go, NextChild, Lives, Process
<1> SUFFICES ASSUME TypeOK, Visits, Held, Unvisited
             PROVE  Held'
  BY DEF SupervisorInv
<1>0. todo # <<>> => child \in Children
  BY ChildInProgress
<1>1. CASE VisitToStart
  BY <1>1 DEF VisitToStart, Held, Unvisited, child, Visits
<1>2. CASE VisitToReap
  BY <1>2 DEF VisitToReap, Terminate, Held, child
<1>3. CASE VisitToStop
  BY <1>3 DEF VisitToStop, Terminate, Held, child
<1>4. CASE AllVisited
  BY <1>4 DEF AllVisited, Held, child
<1>5. CASE Wake
  BY <1>5 DEF Wake, Held, child
<1>6. CASE ReaderGone
  BY <1>6 DEF ReaderGone, Held, child
<1>7. CASE Release
  <2>1. child \in Children
    BY <1>0, <1>7 DEF Release, TypeOK
  <2>2. \A c \in Children : handle'[c] = IF c = child THEN FALSE ELSE handle[c]
    BY <1>7 DEF Release, Detached, TypeOK
  <2>3. CASE handle[child]
    BY <2>1, <2>2, <2>3, <1>7 DEF Release, Held, child
  <2>4. CASE ~handle[child]
    <3>1. \A c \in Children : handle'[c] = handle[c]
      BY <2>2, <2>4 DEF TypeOK
    <3>2. pc' = "spawn" => child' = child
      BY <2>4, <1>7 DEF Release, Return, child
    <3>3. pc' \in {"visit", "backoff", "spawn"}
      BY <2>4, <1>7 DEF Release, Return
    <3>4. UNCHANGED <<alive, gen, orphans, caller>> /\ pc = "release"
      BY <2>4, <1>7 DEF Release, Return
    <3> QED
      BY <2>1, <2>4, <3>1, <3>2, <3>3, <3>4 DEF Held
  <2> QED
    BY <2>3, <2>4
<1>8. ASSUME Joined \/ Rejoined PROVE Held'
  <2>1. /\ alive' = alive \ {Process(child)} /\ pc \in {"join", "rejoin"}
        /\ UNCHANGED <<gen, handle, orphans>>
    BY <1>8 DEF Joined, Rejoined, Killed
  <2>2. pc' \in {"visit", "backoff", "spawn"} /\ (pc' = "spawn" => child' = child)
    BY <1>8 DEF Joined, Rejoined, Return, child
  <2> QED
    BY <2>1, <2>2 DEF Held
<1>9. CASE JoinTimesOut
  BY <1>9 DEF JoinTimesOut, Held, child
<1>10. ASSUME TerminateRaises \/ NotEnded PROVE Held'
  <2>1. child \in Children /\ Process(child) \in alive
    BY <1>0, <1>10 DEF TerminateRaises, NotEnded, TypeOK
  <2>2. \A c \in Children : handle'[c] = IF c = child THEN FALSE ELSE handle[c]
    <3>1. CASE TerminateRaises
      BY <3>1, <2>1 DEF TerminateRaises, Detached, TypeOK
    <3>2. CASE NotEnded
      BY <3>2, <2>1 DEF NotEnded, Held, TypeOK
    <3> QED
      BY <1>10, <3>1, <3>2
  <2>3. pc' \in {"visit", "backoff", "spawn"} /\ (pc' = "spawn" => child' = child)
    BY <1>10 DEF TerminateRaises, NotEnded, LeftAlive, Return, child
  <2>4. /\ orphans' = orphans \cup {Process(child)} /\ UNCHANGED <<alive, gen>>
        /\ pc \in {"release", "join", "rejoin"}
    BY <1>10 DEF TerminateRaises, NotEnded, LeftAlive
  <2> QED
    BY <2>1, <2>2, <2>3, <2>4 DEF Held
<1>11. CASE SpawnFails
  BY <1>11 DEF SpawnFails, Held, child
<1>12. CASE Spawn
  <2>1. child \in Children /\ ~handle[child]
    BY <1>0, <1>12 DEF Spawn, TypeOK, Held
  <2>2. Process(child) \in alive => Process(child) \in orphans
    BY <2>1, <1>12 DEF Spawn, Held
  <2>3. \A p \in alive \ orphans : p[1] # child
    BY <2>2 DEF Held
  <2>4. \A c \in Children : /\ gen'[c] = IF c = child THEN gen[c] + 1 ELSE gen[c]
                            /\ handle'[c] = IF c = child THEN TRUE ELSE handle[c]
                            /\ gen[c] \in Nat
    BY <1>12 DEF Spawn, TypeOK
  <2>5. /\ alive' = alive \cup {<<child, gen[child] + 1>>} /\ pc = "spawn" /\ pc' = "boot"
        /\ UNCHANGED <<caller, orphans>>
    BY <1>12 DEF Spawn
  <2>6. \A p \in alive' \cup orphans' : p[1] \in Children /\ p[2] <= gen'[p[1]]
    <3>1. ASSUME NEW p \in alive \cup orphans
          PROVE  p[1] \in Children /\ p[2] <= gen'[p[1]]
      <4>1. p[1] \in Children /\ p[2] \in Nat /\ p[2] <= gen[p[1]]
        BY DEF Held, TypeOK
      <4>2. gen[p[1]] \in Nat /\ gen'[p[1]] \in {gen[p[1]], gen[p[1]] + 1}
        BY <2>4, <4>1
      <4> QED
        BY <4>1, <4>2
    <3>2. gen'[child] = gen[child] + 1 /\ gen[child] \in Nat
      BY <2>1, <2>4
    <3> QED
      BY <2>1, <2>5, <3>1, <3>2
  <2>7. ASSUME NEW c \in Children, <<c, gen'[c]>> \in alive', ~handle'[c]
        PROVE  <<c, gen'[c]>> \in orphans
    <3>1. c # child /\ <<c, gen[c]>> \in alive /\ ~handle[c] /\ gen'[c] = gen[c]
      BY <2>4, <2>5, <2>7
    <3> QED
      BY <2>1, <2>5, <3>1 DEF Held
  <2>8. \A p \in alive' \ orphans : p = <<p[1], gen'[p[1]]>>
    <3>1. ASSUME NEW p \in alive \ orphans
          PROVE  p = <<p[1], gen'[p[1]]>>
      <4>1. p[1] \in Children /\ p[1] # child /\ p = <<p[1], gen[p[1]]>>
        BY <2>3 DEF Held
      <4>2. gen'[p[1]] = gen[p[1]]
        BY <2>4, <4>1
      <4> QED
        BY <4>1, <4>2
    <3>2. gen'[child] = gen[child] + 1
      BY <2>1, <2>4
    <3> QED
      BY <2>5, <3>1, <3>2
  <2> QED
    BY <2>5, <2>6, <2>7, <2>8 DEF Held
<1>13. CASE Ready
  BY <1>13 DEF Ready, Held, child
<1>14. CASE NotReady
  BY <1>14 DEF NotReady, Terminate, Held, child
<1>15. CASE Stop
  <2>1. UNCHANGED <<alive, gen, handle>>
    BY <1>15 DEF Stop
  <2>3. CASE pc \in {"join", "rejoin"}
    <3>1. pc' = "visit" /\ orphans' = orphans \cup ({Process(child)} \cap alive)
      BY <1>15, <2>3 DEF Stop, Cancellable
    <3> QED
      BY <2>1, <2>3, <3>1 DEF Held
  <2>4. CASE pc \notin {"join", "rejoin"}
    <3>1. UNCHANGED orphans /\ pc' \in {"visit", "unread"}
      BY <1>15, <2>4 DEF Stop, Cancellable
    <3> QED
      BY <2>1, <2>4, <3>1 DEF Held
  <2> QED
    BY <2>3, <2>4
<1>16. CASE ~Loop /\ ~Stop
  <2>1. PICK ended : alive' = alive \ ended /\ orphans' = orphans \ ended
    BY <1>16, ElsewhereStep
  <2>2. UNCHANGED <<pc, todo, gen, handle>>
    BY <1>16, ElsewhereStep
  <2> QED
    BY <2>1, <2>2 DEF Held, child
<1> QED
  BY <1>1, <1>2, <1>3, <1>4, <1>5, <1>6, <1>7, <1>8, <1>9, <1>10, <1>11, <1>12, <1>13, <1>14,
     <1>15, <1>16 DEF Loop

LEMMA UnvisitedStep ==
  ASSUME SupervisorInv, [Next]_vars
  PROVE  Unvisited'
<1> USE DEF processes, channel, statuses, loop, shutdown, Go
<1> SUFFICES ASSUME TypeOK, Visits, Unvisited
             PROVE  Unvisited'
  BY DEF SupervisorInv
<1>1. ASSUME NextChild, todo # <<>>, \A c \in Children : handle'[c] => handle[c]
      PROVE  Unvisited'
  <2>1. /\ Len(todo') = Len(todo) - 1 /\ Len(todo) \in Nat
        /\ \A i \in 1 .. Len(todo') : todo'[i] = todo[i + 1] /\ i + 1 \in 1 .. Len(todo)
                                      /\ todo[i + 1] \in Children
    BY <1>1 DEF NextChild, Visits
  <2>2. \A i, j \in 1 .. Len(todo') : todo'[i] = todo'[j] => i = j
    BY <2>1 DEF Unvisited
  <2>3. ASSUME NEW i \in 1 .. Len(todo'), handle'[todo'[i]], caller = "start"
        PROVE  FALSE
    <3>1. handle[todo[i + 1]] /\ i + 1 \in 1 .. Len(todo)
      BY <1>1, <2>1, <2>3
    <3>2. i + 1 = 1
      BY <2>3, <3>1 DEF Unvisited
    <3> QED
      BY <3>2
  <2> QED
    BY <1>1, <2>2, <2>3 DEF NextChild, Unvisited
<1>2. CASE VisitToStart
  BY <1>1, <1>2 DEF VisitToStart, Unvisited
<1>3. CASE VisitToReap \/ VisitToStop
  BY <1>1, <1>3 DEF VisitToReap, VisitToStop, Terminate, Unvisited
<1>4. CASE AllVisited
  BY <1>4 DEF AllVisited, Unvisited
<1>5. CASE Wake
  <2>1. CASE pc = "sleep"
    BY <1>5, <2>1, SupervisorAssumption DEF Wake, Unvisited, Visits
  <2>2. CASE pc = "backoff"
    BY <1>1, <1>5, <2>2 DEF Wake, TypeOK
  <2> QED
    BY <1>5, <2>1, <2>2 DEF Wake
<1>6. CASE ReaderGone
  BY <1>6 DEF ReaderGone, Unvisited
<1>7. CASE Release
  <2>1. \A c \in Children : handle'[c] => handle[c]
    BY <1>7 DEF Release, Detached, TypeOK
  <2> QED
    <3>1. CASE NextChild
      BY <1>1, <1>7, <2>1, <3>1 DEF Release, TypeOK
    <3>2. CASE pc' = "join" /\ UNCHANGED <<caller, todo>>
      BY <2>1, <3>2 DEF Unvisited, Visits
    <3>3. CASE caller = "reap" /\ UNCHANGED <<caller, todo>>
      BY <3>3 DEF Unvisited
    <3> QED
      BY <1>7, <3>1, <3>2, <3>3 DEF Release, Return, NextChild
<1>8. CASE Joined
  BY <1>1, <1>8 DEF Joined, Return, Unvisited, TypeOK
<1>17. CASE TerminateRaises
  <2>1. todo # <<>> /\ \A c \in Children : handle'[c] => handle[c]
    BY <1>17 DEF TerminateRaises, Detached, TypeOK
  <2>2. NextChild \/ (caller = "reap" /\ UNCHANGED <<caller, todo>>)
    BY <1>17 DEF TerminateRaises, LeftAlive, Return, NextChild
  <2> QED
    BY <1>1, <2>1, <2>2 DEF Unvisited
<1>18. CASE NotEnded
  <2>1. todo # <<>> /\ \A c \in Children : handle'[c] => handle[c]
    BY <1>18 DEF NotEnded, TypeOK
  <2>2. NextChild \/ (caller = "reap" /\ UNCHANGED <<caller, todo>>)
    BY <1>18 DEF NotEnded, LeftAlive, Return, NextChild
  <2> QED
    BY <1>1, <2>1, <2>2 DEF Unvisited
<1>9. CASE JoinTimesOut
  BY <1>9 DEF JoinTimesOut, Unvisited
<1>10. CASE Rejoined
  BY <1>1, <1>10 DEF Rejoined, Return, Unvisited, TypeOK
<1>11. CASE SpawnFails
  BY <1>1, <1>11 DEF SpawnFails, Unvisited, TypeOK
<1>12. CASE Spawn
  <2>1. \A c \in Children : c # child => handle'[c] = handle[c]
    BY <1>12 DEF Spawn, TypeOK
  <2>2. child = todo[1] /\ todo # <<>>
    BY <1>12 DEF Spawn, TypeOK, child
  <2> QED
    BY <2>1, <2>2, <1>12 DEF Spawn, Unvisited, Visits
<1>13. CASE Ready
  BY <1>1, <1>13 DEF Ready, TypeOK
<1>14. CASE NotReady
  BY <1>14 DEF NotReady, Terminate, Unvisited
<1>15. CASE Stop
  BY <1>15, SupervisorAssumption DEF Stop, Unvisited
<1>16. CASE ~Loop /\ ~Stop
  BY <1>16, ElsewhereStep DEF Unvisited
<1> QED
  BY <1>2, <1>3, <1>4, <1>5, <1>6, <1>7, <1>8, <1>9, <1>10, <1>11, <1>12, <1>13, <1>14,
     <1>15, <1>16, <1>17, <1>18 DEF Loop

LEMMA GoneStep ==
  ASSUME SupervisorInv, [Next]_vars
  PROVE  Gone'
<1> USE DEF processes, channel, statuses, loop, shutdown, Go, Lives, Process
<1> SUFFICES ASSUME TypeOK, Visits, Held, Unvisited, Gone, caller' = "stop"
             PROVE  Gone'
  BY DEF SupervisorInv, Gone
<1>1. ASSUME NextChild, todo # <<>>, UNCHANGED <<caller, gen>>, alive' \subseteq alive,
             orphans \subseteq orphans', Process(child) \in alive' => Process(child) \in orphans'
      PROVE  Gone'
  <2>1. \A i \in 2 .. Len(todo) : i - 1 \in 1 .. Len(todo') /\ todo'[i - 1] = todo[i]
    BY <1>1 DEF NextChild, Visits
  <2>2. ASSUME NEW c \in Children, <<c, gen[c]>> \in alive', <<c, gen[c]>> \notin orphans'
        PROVE  \E i \in 1 .. Len(todo') : todo'[i] = c
    <3>1. PICK i \in 1 .. Len(todo) : todo[i] = c
      BY <1>1, <2>2 DEF Gone
    <3>2. c # child
      BY <1>1, <2>2 DEF NextChild, child
    <3>3. i \in 2 .. Len(todo)
      BY <3>1, <3>2, <1>1 DEF child, Visits
    <3> QED
      BY <2>1, <3>1, <3>3
  <2> QED
    BY <1>1, <2>2 DEF Gone
<1>2. ASSUME UNCHANGED <<caller, gen, todo>>, alive' \subseteq alive,
             orphans \cap alive' \subseteq orphans'
      PROVE  Gone'
  BY <1>2 DEF Gone
<1>3. CASE VisitToStart \/ VisitToReap \/ Wake \/ SpawnFails \/ Spawn \/ Ready \/ NotReady
  BY <1>3 DEF VisitToStart, VisitToReap, Wake, SpawnFails, Spawn, Ready, NotReady, Terminate,
              NextChild, Visits
<1>4. CASE VisitToStop \/ ReaderGone \/ JoinTimesOut
  BY <1>2, <1>4 DEF VisitToStop, ReaderGone, JoinTimesOut, Terminate
<1>5. CASE AllVisited
  BY <1>2, <1>5 DEF AllVisited
<1>6. CASE Release
  <2>1. child \in Children /\ pc = "release" /\ caller = "stop"
    BY <1>6, ChildInProgress, SupervisorInv DEF Release, Return, NextChild, TypeOK
  <2>2. CASE handle[child]
    BY <1>2, <1>6, <2>2 DEF Release
  <2>3. CASE ~handle[child]
    <3>1. Lives(child) => Process(child) \in orphans
      BY <2>1, <2>3 DEF Held
    <3>2. NextChild /\ UNCHANGED <<gen, orphans, alive, caller>> /\ todo # <<>>
      BY <1>6, <2>1, <2>3 DEF Release, Return, NextChild, TypeOK
    <3> QED
      BY <1>1, <3>1, <3>2
  <2> QED
    BY <2>2, <2>3
<1>7. CASE Joined \/ Rejoined
  <2>1. caller = "stop"
    BY <1>7 DEF Joined, Rejoined, Return, NextChild
  <2>2. NextChild /\ UNCHANGED <<gen, orphans, caller>> /\ todo # <<>>
    BY <1>7, <2>1 DEF Joined, Rejoined, Return, NextChild, TypeOK
  <2>3. alive' = alive \ {Process(child)}
    BY <1>7 DEF Joined, Rejoined, Killed
  <2> QED
    BY <1>1, <2>2, <2>3
<1>10. CASE TerminateRaises \/ NotEnded
  <2>1. /\ UNCHANGED <<caller, gen, alive>> /\ caller = "stop" /\ todo # <<>>
        /\ orphans' = orphans \cup {Process(child)} /\ NextChild
    BY <1>10 DEF TerminateRaises, NotEnded, LeftAlive, Return, NextChild, TypeOK
  <2> QED
    BY <1>1, <2>1
<1>8. CASE Stop
  <2>1. \A c \in Children : \E i \in 1 .. Len(Registered) : Registered[i] = c
    BY DEF Children
  <2> QED
    BY <1>8, <2>1 DEF Stop, Gone
<1>9. CASE ~Loop /\ ~Stop
  <2>1. PICK ended : alive' = alive \ ended /\ orphans' = orphans \ ended
    BY <1>9, ElsewhereStep
  <2>2. UNCHANGED <<caller, gen, todo>>
    BY <1>9, ElsewhereStep
  <2> QED
    BY <1>2, <2>1, <2>2
<1> QED
  BY <1>3, <1>4, <1>5, <1>6, <1>7, <1>8, <1>9, <1>10 DEF Loop

LEMMA StatusStep ==
  ASSUME SupervisorInv, [Next]_vars
  PROVE  StatusIsCurrent'
<1> USE DEF processes, channel, statuses, loop, shutdown, StatusIsCurrent
<1> SUFFICES ASSUME TypeOK, Heard, StatusIsCurrent
             PROVE  StatusIsCurrent'
  BY DEF SupervisorInv
<1>1. CASE Spawn
  BY <1>1 DEF Spawn, TypeOK
<1>2. ASSUME NEW r \in readers, Apply(r)
      PROVE  StatusIsCurrent'
  BY <1>2 DEF Apply, Heard, TypeOK
<1>3. CASE UNCHANGED <<told, gen>>
  BY <1>3
<1>4. Spawn \/ (\E r \in readers : Apply(r)) \/ UNCHANGED <<told, gen>>
  BY DEF Next, Loop, Read, Worker, Over, vars, VisitToStart, VisitToReap, VisitToStop, AllVisited,
         Wake, ReaderGone, Release, TerminateRaises, Joined, JoinTimesOut, Rejoined, NotEnded,
         SpawnFails, Ready, NotReady, Boot, Report, Dies, StopsWorking, BeatExpires, Receive,
         ReaderEnds, Stop
<1> QED
  BY <1>1, <1>2, <1>3, <1>4

\* The strengthening holds in every state of the supervisor.
THEOREM SupervisorInvariant == Spec => []SupervisorInv
<1>1. Init => SupervisorInv
  BY SupervisorInitially
<1>2. SupervisorInv /\ [Next]_vars => SupervisorInv'
  BY TypeStep, VisitsStep, HeardStep, HeldStep, UnvisitedStep, GoneStep, StatusStep DEF SupervisorInv
<1> QED
  BY <1>1, <1>2, PTL DEF Spec

\* Every variable of the supervisor keeps its type.
THEOREM TypeCorrect == Spec => []TypeOK
<1>1. SupervisorInv => TypeOK
  BY DEF SupervisorInv
<1> QED
  BY <1>1, SupervisorInvariant, PTL

\* A heartbeat is never shown as that of a later process (supervisor.py:156-162).
THEOREM StatusStaysCurrent == Spec => []StatusIsCurrent
<1>1. SupervisorInv => StatusIsCurrent
  BY DEF SupervisorInv
<1> QED
  BY <1>1, SupervisorInvariant, PTL

\* When stop() has returned, a process that is left is one that lost its handle alive: _terminate
\* failed to end it, or stop() cancelled the reaper while it joined it (supervisor.py:164-180).
THEOREM NoneLeftAfterStop == Spec => []StoppedMeansGone
<1>1. SupervisorInv => StoppedMeansGone
  <2> SUFFICES ASSUME SupervisorInv, pc = "stopped"
               PROVE  alive \subseteq orphans
    BY DEF StoppedMeansGone
  <2>1. caller = "stop" /\ todo = <<>>
    BY DEF SupervisorInv, Visits
  <2>2. \A c \in Children : Process(c) \in alive => Process(c) \in orphans
    BY <2>1 DEF SupervisorInv, Gone, Lives
  <2> QED
    BY <2>2 DEF SupervisorInv, Held
<1> QED
  BY <1>1, SupervisorInvariant, PTL

\* Each step of the supervisor starts a process beside none of its worker but those it failed to
\* end, ends one or gives it up, or leaves the processes alone.
LEMMA StepOfTerminals ==
  ASSUME SupervisorInv, [Next]_vars
  PROVE  [Terminals!Next]_(Terminals!vars)
<1> USE DEF processes, Terminals!vars
<1>1. CASE Spawn
  <2>1. child \in Children /\ ~handle[child] /\ gen[child] \in Nat
    BY <1>1, ChildInProgress DEF Spawn, SupervisorInv, TypeOK, Held
  <2>2. Process(child) \in alive => Process(child) \in orphans
    BY <1>1, <2>1 DEF Spawn, SupervisorInv, Held, Lives
  <2>3. \A p \in alive \ orphans : p[1] # child
    BY <2>2 DEF SupervisorInv, Held
  <2>4. <<child, gen[child] + 1>> \notin orphans
    BY <2>1 DEF SupervisorInv, Held
  <2>5. alive' \ orphans' = (alive \ orphans) \cup {<<child, gen[child] + 1>>}
    BY <1>1, <2>4 DEF Spawn, shutdown
  <2>6. Terminals!Start(child)
    BY <1>1, <2>3, <2>5 DEF Spawn, Terminals!Start
  <2> QED
    BY <2>1, <2>6 DEF Terminals!Next
<1>2. ASSUME NEW p, alive' \ orphans' = (alive \ orphans) \ {p}, UNCHANGED gen
      PROVE  [Terminals!Next]_(Terminals!vars)
  BY <1>2 DEF Terminals!Next, Terminals!End
<1>3. CASE Joined \/ Rejoined
  <2>1. alive' \ orphans' = (alive \ orphans) \ {Process(child)} /\ UNCHANGED gen
    BY <1>3 DEF Joined, Rejoined, Killed, shutdown
  <2> QED
    BY <1>2, <2>1
<1>4. CASE TerminateRaises \/ NotEnded
  <2>1. alive' \ orphans' = (alive \ orphans) \ {Process(child)} /\ UNCHANGED gen
    BY <1>4 DEF TerminateRaises, NotEnded, LeftAlive
  <2> QED
    BY <1>2, <2>1
<1>5. CASE Stop
  <2>1. UNCHANGED <<alive, gen>>
    BY <1>5 DEF Stop
  <2>2. CASE orphans' = orphans \cup ({Process(child)} \cap alive)
    <3>1. alive' \ orphans' = (alive \ orphans) \ {Process(child)}
      BY <2>1, <2>2
    <3> QED
      BY <1>2, <2>1, <3>1
  <2>3. CASE UNCHANGED orphans
    BY <2>1, <2>3
  <2> QED
    BY <1>5, <2>2, <2>3 DEF Stop
<1>6. ASSUME NEW c \in Children, Dies(c)
      PROVE  [Terminals!Next]_(Terminals!vars)
  <2>1. PICK p \in alive : alive' = alive \ {p} /\ orphans' = orphans \ {p}
    BY <1>6 DEF Dies
  <2>2. alive' \ orphans' = (alive \ orphans) \ {p} /\ UNCHANGED gen
    BY <1>6, <2>1 DEF Dies
  <2> QED
    BY <1>2, <2>2
<1>7. CASE UNCHANGED <<alive, gen, orphans>>
  BY <1>7
<1>8. \/ Spawn \/ Joined \/ Rejoined \/ TerminateRaises \/ NotEnded \/ Stop
      \/ \E c \in Children : Dies(c)
      \/ UNCHANGED <<alive, gen, orphans>>
  BY DEF Next, Loop, Read, Worker, Over, vars, VisitToStart, VisitToReap, VisitToStop, AllVisited,
         Wake, ReaderGone, Release, JoinTimesOut, SpawnFails, Ready, NotReady,
         Boot, Report, StopsWorking, BeatExpires, Receive, ReaderEnds, Apply, shutdown
<1> QED
  BY <1>1, <1>3, <1>4, <1>5, <1>6, <1>7, <1>8

\* A worker is never started beside an earlier process of it, unless _terminate failed to end
\* that one (README.md:18, supervisor.py:172-180): the supervisor implements OneTerminal, for any
\* workers and any faults.
THEOREM RefinesOneTerminal == Spec => ImplementsOneTerminal
<1>1. Init => Terminals!Init
  BY DEF Init, Terminals!Init
<1>2. SupervisorInv /\ [Next]_vars => [Terminals!Next]_(Terminals!vars)
  BY StepOfTerminals
<1> QED
  BY <1>1, <1>2, SupervisorInvariant, PTL DEF Spec, Terminals!Spec, ImplementsOneTerminal
=============================================================================
