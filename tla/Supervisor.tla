----------------------------- MODULE Supervisor -----------------------------
(* The supervisor of src/workers/supervisor.py: the coroutine that starts,    *)
(* reaps and finally stops the children, one reader task per child, the       *)
(* worker processes at the other end of the pipes, and stop() arriving from   *)
(* the shutdown of the application.  The coroutines share one event loop:     *)
(* another one runs only where the loop's pc is at an await.  Durations       *)
(* (heartbeat age, backoff) are reduced to whether they have run out.         *)
EXTENDS Naturals, Sequences, FiniteSets

CONSTANTS
  Registered,   \* worker ids in the order of register()
  MaxQueue,     \* bound: messages in a pipe
  MaxFaults     \* bound: deaths, hangs, late heartbeats, failed spawns and failed attempts
                \*   to end a process, one less for each worker with a terminal

Children == {Registered[i] : i \in 1 .. Len(Registered)}

ASSUME SupervisorAssumption ==
  /\ Registered \in Seq(Children)
  /\ \A i, j \in 1 .. Len(Registered) : Registered[i] = Registered[j] => i = j
  /\ MaxQueue \in Nat \ {0} /\ MaxFaults \in Nat

VARIABLES
  configured, \* the workers with a terminal path; never changes
  alive,      \* <<worker, number>>: worker processes that exist
  stuck,      \* those of them that make no progress
  faults,
  pipe,       \* worker -> messages sent and not received
  booted,     \* worker -> its process has sent its id
  gen,        \* worker -> number of its last process
  handle,     \* child.process and child.connection are not None
  readers,    \* reader tasks: [child, gen, holds]
  status,     \* child.status.state
  beat,       \* age of last_heartbeat_at: none, fresh, old
  told,       \* observed: the process whose heartbeat status shows, 0 for none since its start
  pc,         \* where the coroutine is: visit, spawn, boot, unread, release, join, rejoin,
              \*   backoff, sleep, stopped
  caller,     \* the loop it is in: start, reap, stop
  todo,       \* children that loop has yet to visit
  failed,     \* _spawn of the child in progress has failed
  stopping,
  swallowed,  \* observed: stop() cancelled the reaper while it awaited a reader
  orphans     \* the processes that lost their handle alive: an attempt to end them failed, or
              \*   stop() cancelled the join

processes  == <<configured, alive, stuck, faults>>
channel    == <<pipe, booted>>
statuses   == <<status, beat, told>>
loop       == <<pc, caller, todo, failed>>
shutdown   == <<stopping, swallowed, orphans>>
vars       == <<processes, channel, gen, handle, readers, statuses, loop, shutdown>>

Process(c) == <<c, gen[c]>>
Lives(c)   == Process(c) \in alive
Hangs(c)   == Process(c) \in stuck
Fault      == faults + Cardinality(configured) < MaxFaults /\ faults' = faults + 1
Quiet      == "quiet"   \* a reader task that waits for a message

-----------------------------------------------------------------------------
(* The worker processes *)

Works(c) == Lives(c) /\ ~Hangs(c) /\ handle[c]

Boot(c) ==
  /\ Works(c) /\ ~booted[c]
  /\ booted' = [booted EXCEPT ![c] = TRUE]
  /\ pipe' = [pipe EXCEPT ![c] = Append(@, "id")]
  /\ UNCHANGED <<processes, gen, handle, readers, statuses, loop, shutdown>>

Report(c) ==
  /\ Works(c) /\ booted[c] /\ Len(pipe[c]) < MaxQueue
  /\ \E state \in {"running", "failed"} : pipe' = [pipe EXCEPT ![c] = Append(@, state)]
  /\ UNCHANGED <<processes, booted, gen, handle, readers, statuses, loop, shutdown>>

\* A process that nobody holds any more may end at any time.
Dies(c) ==
  /\ \E p \in alive :
       /\ p[1] = c
       /\ IF p \in orphans THEN UNCHANGED faults ELSE Fault
       /\ alive' = alive \ {p} /\ stuck' = stuck \ {p} /\ orphans' = orphans \ {p}
  /\ UNCHANGED <<configured, channel, gen, handle, readers, statuses, loop, stopping, swallowed>>

StopsWorking(c) ==
  /\ Works(c) /\ Fault
  /\ stuck' = stuck \cup {Process(c)}
  /\ UNCHANGED <<configured, alive, channel, gen, handle, readers, statuses, loop, shutdown>>

\* Too long without a heartbeat: a process that hangs or is gone, or a slow one.
BeatExpires(c) ==
  /\ beat[c] = "fresh"
  /\ IF Works(c) THEN Fault ELSE UNCHANGED faults
  /\ beat' = [beat EXCEPT ![c] = "old"]
  /\ UNCHANGED <<configured, alive, stuck, channel, gen, handle, readers, status, told, loop, shutdown>>

-----------------------------------------------------------------------------
(* _read_loop: a thread receives, then the task applies *)

Reader(c, g, message) == [child |-> c, gen |-> g, holds |-> message]

Receive(r) ==
  /\ r.holds = Quiet /\ r.gen = gen[r.child] /\ handle[r.child] /\ pipe[r.child] # <<>>
  /\ readers' = (readers \ {r}) \cup {Reader(r.child, r.gen, Head(pipe[r.child]))}
  /\ pipe' = [pipe EXCEPT ![r.child] = Tail(@)]
  /\ UNCHANGED <<processes, booted, gen, handle, statuses, loop, shutdown>>

\* EOFError, OSError: the other end is gone, or this one was closed.
ReaderEnds(r) ==
  /\ r.holds = Quiet
  /\ r.gen # gen[r.child] \/ ~handle[r.child] \/ (~Lives(r.child) /\ pipe[r.child] = <<>>)
  /\ readers' = readers \ {r}
  /\ UNCHANGED <<processes, channel, gen, handle, statuses, loop, shutdown>>

Apply(r) ==
  /\ r.holds # Quiet
  /\ status' = [status EXCEPT ![r.child] = r.holds]
  /\ beat' = [beat EXCEPT ![r.child] = "fresh"]
  /\ told' = [told EXCEPT ![r.child] = r.gen]
  /\ readers' = (readers \ {r}) \cup {Reader(r.child, r.gen, Quiet)}
  /\ UNCHANGED <<processes, channel, gen, handle, loop, shutdown>>

-----------------------------------------------------------------------------
(* start(), _reap_loop(), stop(): the loops over the children *)

child == Head(todo)

Alive(c) == status[c] = "running" /\ beat[c] = "fresh"

\* Mistake in Watched: the check of the terminal path dropped.
AnyChild(c) == TRUE

Watched(c) == c \in configured

\* Mistake in Dead: a child that never got a process is taken for a live one.
DiedOnly(c) == handle[c] /\ ~Lives(c)

Dead(c) == ~handle[c] \/ ~Lives(c)

\* Mistake in Stalled: the age of the heartbeat is not looked at.
NeverStalled(c) == FALSE

Stalled(c) == status[c] = "running" /\ ~Alive(c)

Go(to) == pc' = to /\ UNCHANGED <<caller, todo>>

NextChild == pc' = "visit" /\ todo' = Tail(todo) /\ UNCHANGED caller

\* Mistake in Unheard: the reader goes on.
StillHeard(c) == readers

\* child.reader.cancel(): a message its thread already holds is never applied.
Unheard(c) == {r \in readers : r.child # c}

\* The first part of _terminate; without a reader there is no await in it.
Terminate(c) ==
  /\ readers' = Unheard(c)
  /\ Go(IF \E r \in readers : r.child = c THEN "unread" ELSE "release")

VisitToStart ==
  /\ pc = "visit" /\ caller = "start" /\ todo # <<>>
  /\ \/ Watched(child) /\ Go("spawn") /\ UNCHANGED status
     \/ ~Watched(child) /\ NextChild /\ status' = [status EXCEPT ![child] = "stopped"]
  /\ UNCHANGED <<processes, channel, gen, handle, readers, beat, told, failed, shutdown>>

VisitToReap ==
  /\ pc = "visit" /\ caller = "reap" /\ todo # <<>>
  /\ IF Watched(child) /\ (Dead(child) \/ Stalled(child))
     THEN Terminate(child) ELSE NextChild /\ UNCHANGED readers
  /\ UNCHANGED <<processes, channel, gen, handle, statuses, failed, shutdown>>

VisitToStop ==
  /\ pc = "visit" /\ caller = "stop" /\ todo # <<>>
  /\ Terminate(child)
  /\ UNCHANGED <<processes, channel, gen, handle, statuses, failed, shutdown>>

AllVisited ==
  /\ pc = "visit" /\ todo = <<>>
  /\ pc' = IF caller = "stop" THEN "stopped" ELSE "sleep"
  /\ caller' = IF caller = "start" THEN "reap" ELSE caller
  /\ UNCHANGED <<processes, channel, gen, handle, readers, statuses, todo, failed, shutdown>>

\* The reap interval, or the backoff of a failed spawn, has passed.
Wake ==
  /\ \/ pc = "sleep" /\ pc' = "visit" /\ todo' = Registered /\ UNCHANGED caller
     \/ pc = "backoff" /\ NextChild
  /\ UNCHANGED <<processes, channel, gen, handle, readers, statuses, failed, shutdown>>

-----------------------------------------------------------------------------
(* _terminate *)

\* Where _terminate returns to.
Return ==
  /\ \/ caller = "stop" /\ NextChild
     \/ caller = "start" /\ failed /\ NextChild
     \/ caller = "reap" /\ failed /\ Go("backoff")
     \/ caller = "reap" /\ ~failed /\ Go("spawn")
  /\ failed' = FALSE

\* await child.reader returns.
ReaderGone ==
  /\ pc = "unread" /\ Go("release")
  /\ UNCHANGED <<processes, channel, gen, handle, readers, statuses, failed, shutdown>>

\* The child forgets its process, and the connection is closed.
Detached ==
  /\ handle' = [handle EXCEPT ![child] = FALSE]
  /\ pipe' = [pipe EXCEPT ![child] = <<>>]

\* process.terminate() is called, or there is no process.
Release ==
  /\ pc = "release" /\ Detached
  /\ IF handle[child] THEN Go("join") /\ UNCHANGED failed ELSE Return
  /\ UNCHANGED <<processes, booted, gen, readers, statuses, shutdown>>

Ended(c) == [status EXCEPT ![c] = IF stopping THEN "stopped" ELSE "failed"]

\* _terminate returns as if the process were gone.
LeftAlive ==
  /\ orphans' = orphans \cup {Process(child)}
  /\ status' = Ended(child) /\ Return

\* process.terminate() raised: logged, and the process goes on.
TerminateRaises ==
  /\ pc = "release" /\ handle[child] /\ Lives(child) /\ Fault
  /\ Detached /\ LeftAlive
  /\ UNCHANGED <<configured, alive, stuck, booted, gen, readers, beat, told, stopping, swallowed>>

\* The process is gone within the ten seconds of join.
Joined ==
  /\ pc = "join"
  /\ alive' = alive \ {Process(child)} /\ stuck' = stuck \ {Process(child)}
  /\ status' = Ended(child) /\ Return
  /\ UNCHANGED <<configured, faults, channel, gen, handle, readers, beat, told, shutdown>>

\* It is not; process.kill().
JoinTimesOut ==
  /\ pc = "join" /\ Lives(child) /\ Go("rejoin")
  /\ UNCHANGED <<processes, channel, gen, handle, readers, statuses, failed, shutdown>>

\* Mistake in Killed: the join that timed out is the last attempt.
NotKilled(c) == alive

Killed(c) == alive \ {Process(c)}

\* The process is gone within five seconds of kill().
Rejoined ==
  /\ pc = "rejoin"
  /\ alive' = Killed(child) /\ stuck' = stuck \cap alive'
  /\ status' = Ended(child) /\ Return
  /\ UNCHANGED <<configured, faults, channel, gen, handle, readers, beat, told, shutdown>>

\* join() or kill() raised, or the process outlived the five seconds after kill(), which
\* nothing looks at.
NotEnded ==
  /\ pc \in {"join", "rejoin"} /\ Lives(child) /\ Fault
  /\ LeftAlive
  /\ UNCHANGED <<configured, alive, stuck, channel, gen, handle, readers, beat, told, stopping, swallowed>>

-----------------------------------------------------------------------------
(* _spawn *)

SpawnFails ==
  /\ pc = "spawn" /\ Fault
  /\ status' = [status EXCEPT ![child] = "failed"]
  /\ IF caller = "reap" THEN Go("backoff") ELSE NextChild
  /\ UNCHANGED <<configured, alive, stuck, channel, gen, handle, readers, beat, told, failed, shutdown>>

Spawn ==
  /\ pc = "spawn" /\ Go("boot")
  /\ gen' = [gen EXCEPT ![child] = @ + 1]
  /\ alive' = alive \cup {<<child, gen[child] + 1>>}
  /\ handle' = [handle EXCEPT ![child] = TRUE]
  /\ booted' = [booted EXCEPT ![child] = FALSE]
  /\ status' = [status EXCEPT ![child] = "starting"]
  /\ told' = [told EXCEPT ![child] = 0]
  /\ UNCHANGED <<configured, stuck, faults, pipe, readers, beat, failed, shutdown>>

Ready ==
  /\ pc = "boot" /\ pipe[child] # <<>> /\ NextChild
  /\ pipe' = [pipe EXCEPT ![child] = Tail(@)]
  /\ status' = [status EXCEPT ![child] = "running"]
  /\ beat' = [beat EXCEPT ![child] = "fresh"]
  /\ readers' = readers \cup {Reader(child, gen[child], Quiet)}
  /\ UNCHANGED <<processes, booted, gen, handle, told, failed, shutdown>>

\* No id: the process is gone (EOFError), hangs, or is slower than the timeout.
NotReady ==
  /\ pc = "boot" /\ pipe[child] = <<>>
  /\ IF Works(child) THEN Fault ELSE UNCHANGED faults
  /\ status' = [status EXCEPT ![child] = "failed"]
  /\ failed' = TRUE
  /\ Terminate(child)
  /\ UNCHANGED <<configured, alive, stuck, channel, gen, handle, beat, told, shutdown>>

-----------------------------------------------------------------------------
(* stop() *)

\* Mistake in Cancellable: _spawn handles the cancellation like a timeout.
OutsideSpawn == {"sleep", "backoff", "join", "rejoin"}

\* The awaits a CancelledError leaves the reaper from.  The one on the cancelled reader is
\* not among them: _terminate takes the exception for the reader's (supervisor.py:158-161).
Cancellable == {"sleep", "backoff", "join", "rejoin", "boot"}

\* The reaper is cancelled; when it has ended, the children are terminated.
Stop ==
  /\ ~stopping /\ caller = "reap" /\ pc \in {"sleep", "backoff", "join", "rejoin", "boot", "unread"}
  /\ stopping' = TRUE
  /\ swallowed' = (pc = "unread")
  /\ orphans' = orphans \cup IF pc \in {"join", "rejoin"} THEN {Process(child)} \cap alive ELSE {}
  /\ IF pc \in Cancellable
     THEN pc' = "visit" /\ caller' = "stop" /\ todo' = Registered /\ failed' = FALSE
     ELSE UNCHANGED loop
  /\ UNCHANGED <<processes, channel, gen, handle, readers, statuses>>

\* The application has ended.
Over == pc = "stopped" /\ UNCHANGED vars

-----------------------------------------------------------------------------

Init ==
  /\ configured \in SUBSET Children
  /\ alive = {} /\ stuck = {} /\ faults = 0 /\ readers = {}
  /\ pipe = [c \in Children |-> <<>>] /\ booted = [c \in Children |-> FALSE]
  /\ gen = [c \in Children |-> 0] /\ handle = [c \in Children |-> FALSE]
  /\ status = [c \in Children |-> "starting"] /\ beat = [c \in Children |-> "none"]
  /\ told = [c \in Children |-> 0]
  /\ pc = "visit" /\ caller = "start" /\ todo = Registered /\ failed = FALSE
  /\ stopping = FALSE /\ swallowed = FALSE /\ orphans = {}

Loop ==
  \/ VisitToStart \/ VisitToReap \/ VisitToStop \/ AllVisited \/ Wake
  \/ ReaderGone \/ Release \/ TerminateRaises \/ Joined \/ JoinTimesOut \/ Rejoined \/ NotEnded
  \/ SpawnFails \/ Spawn \/ Ready \/ NotReady

Read(c) == \E r \in readers : r.child = c /\ (Receive(r) \/ ReaderEnds(r) \/ Apply(r))

Worker(c) == Boot(c) \/ Report(c) \/ Dies(c) \/ StopsWorking(c) \/ BeatExpires(c)

Next == Loop \/ (\E c \in Children : Read(c) \/ Worker(c)) \/ Stop \/ Over

Spec == Init /\ [][Next]_vars

\* The event loop runs every coroutine that can go on, a process that works comes up, and
\* time passes.  Nothing obliges a process to report, to fail, or stop() to be called.
FairSpec ==
  /\ Spec /\ WF_vars(Loop)
  /\ \A c \in Children : WF_vars(Read(c)) /\ WF_vars(Boot(c)) /\ WF_vars(BeatExpires(c))

-----------------------------------------------------------------------------
(* Properties *)

TypeOK ==
  /\ configured \subseteq Children
  /\ alive \subseteq Children \X Nat /\ stuck \subseteq alive /\ faults \in Nat
  /\ pipe \in [Children -> Seq({"id", "running", "failed"})] /\ booted \in [Children -> BOOLEAN]
  /\ gen \in [Children -> Nat] /\ handle \in [Children -> BOOLEAN]
  /\ \A c \in Children \ configured : gen[c] = 0
  /\ \A r \in readers : r \in [child : Children, gen : Nat, holds : {Quiet, "running", "failed"}]
  /\ status \in [Children -> {"starting", "running", "failed", "stopped"}]
  /\ beat \in [Children -> {"none", "fresh", "old"}] /\ told \in [Children -> Nat]
  /\ pc \in {"visit", "spawn", "boot", "unread", "release", "join", "rejoin", "backoff",
             "sleep", "stopped"}
  /\ caller \in {"start", "reap", "stop"} /\ failed \in BOOLEAN
  /\ (pc \in {"visit", "sleep", "stopped"} \/ todo # <<>>)
  /\ stopping \in BOOLEAN /\ swallowed \in BOOLEAN /\ orphans \subseteq Children \X Nat

\* A worker is never started beside an earlier process of it, however slowly that one dies and
\* whenever stop() comes, unless _terminate failed to end it (README.md:18, supervisor.py:172-180).
Terminals == INSTANCE OneTerminal WITH Workers <- Children, alive <- alive \ orphans, last <- gen
ImplementsOneTerminal == Terminals!Spec

\* When stop() has returned no worker process is left on a terminal, except those that lost
\* their handle before: _terminate failed to end them, or stop() itself cancelled the reaper
\* while it joined one that ignored terminate() (supervisor.py:164-180).
StoppedMeansGone == pc = "stopped" => alive \subseteq orphans

\* The status of a child never shows a heartbeat of one of its earlier processes, which would
\* make a worker that hangs look alive (supervisor.py:156-162).
StatusIsCurrent == \A c \in Children : told[c] \in {0, gen[c]}

Runs(c) == handle[c] /\ Lives(c)

\* A worker without a process of its own gets one, until stop() is called.
DeadIsReplaced ==
  \A c \in Children : c \in configured /\ ~Runs(c) ~> Runs(c) \/ stopping

\* A process that hangs is replaced, unless failed is the last its status says: the reaper
\* looks at the heartbeat of a running child only (supervisor.py:193).
SilentIsReplaced ==
  \A c \in Children : Hangs(c) ~> ~Hangs(c) \/ status[c] = "failed" \/ stopping

\* stop() ends, unless it cancels the reaper exactly while that awaits a cancelled reader.
StopEnds == stopping /\ ~swallowed ~> pc = "stopped"

=============================================================================
