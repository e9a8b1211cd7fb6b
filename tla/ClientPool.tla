----------------------------- MODULE ClientPool -----------------------------
(* The pool of ClickHouse connections that the routes borrow from, ClientPool *)
(* of src/storage/clickhouse.py.  What its lock covers is one step; opening    *)
(* and closing a connection happen outside the lock and are steps of their     *)
(* own.  The order of the idle list is left out.                               *)
EXTENDS Integers, FiniteSets

CONSTANTS Threads,    \* that run the reads of the routes
          Clients,    \* connections
          NoClient,
          Size        \* of the idle list

PoolParameters == Size \in Nat \ {0} /\ NoClient \notin Clients

VARIABLES
  idle,       \* _idle
  doomed,     \* the connections close() took from it and has yet to close
  open,       \* connections that are not closed
  at,         \* thread -> where it is in borrow: out, missed, lent, closing
  lent        \* thread -> its connection

vars == <<idle, doomed, open, at, lent>>

-----------------------------------------------------------------------------

\* Mistake in Without: [-1] for pop().
Peeked(c) == idle

Without(c) == idle \ {c}

\* acquire: a connection of the list.
Take(t) ==
  /\ at[t] = "out"
  /\ \E c \in idle : idle' = Without(c) /\ lent' = [lent EXCEPT ![t] = c]
  /\ at' = [at EXCEPT ![t] = "lent"]
  /\ UNCHANGED <<doomed, open>>

\* acquire: the list is empty ...
Miss(t) ==
  /\ at[t] = "out" /\ idle = {}
  /\ at' = [at EXCEPT ![t] = "missed"]
  /\ UNCHANGED <<idle, doomed, open, lent>>

\* ... and a new connection is opened,
Connect(t) ==
  /\ at[t] = "missed"
  /\ \E c \in Clients \ open : open' = open \cup {c} /\ lent' = [lent EXCEPT ![t] = c]
  /\ at' = [at EXCEPT ![t] = "lent"]
  /\ UNCHANGED <<idle, doomed>>

\* or ClickHouse cannot be reached.
Refuse(t) ==
  /\ at[t] = "missed"
  /\ at' = [at EXCEPT ![t] = "out"]
  /\ UNCHANGED <<idle, doomed, open, lent>>

\* Mistake in HasRoom: off by one.
RoomForOneMore == Cardinality(idle) <= Size

HasRoom == Cardinality(idle) < Size

\* Mistake in GiveBack: it waits for room, as a queue of a fixed length does.
WaitForRoom(t) ==
  /\ at[t] = "lent" /\ HasRoom
  /\ idle' = idle \cup {lent[t]}
  /\ at' = [at EXCEPT ![t] = "out"] /\ lent' = [lent EXCEPT ![t] = NoClient]
  /\ UNCHANGED <<doomed, open>>

\* release: back to the list, or closed when it is full.
GiveBack(t) ==
  /\ at[t] = "lent"
  /\ IF HasRoom
     THEN /\ idle' = idle \cup {lent[t]}
          /\ at' = [at EXCEPT ![t] = "out"] /\ lent' = [lent EXCEPT ![t] = NoClient]
     ELSE at' = [at EXCEPT ![t] = "closing"] /\ UNCHANGED <<idle, lent>>
  /\ UNCHANGED <<doomed, open>>

\* Mistake in Drop: the connection of a read that raised is not closed.
Forget(t) ==
  /\ at[t] = "lent"
  /\ at' = [at EXCEPT ![t] = "out"] /\ lent' = [lent EXCEPT ![t] = NoClient]
  /\ UNCHANGED <<idle, doomed, open>>

\* borrow: the read raised, its connection is not used again.
Drop(t) ==
  /\ at[t] = "lent"
  /\ at' = [at EXCEPT ![t] = "closing"]
  /\ UNCHANGED <<idle, doomed, open, lent>>

CloseClient(t) ==
  /\ at[t] = "closing"
  /\ open' = open \ {lent[t]}
  /\ at' = [at EXCEPT ![t] = "out"] /\ lent' = [lent EXCEPT ![t] = NoClient]
  /\ UNCHANGED <<idle, doomed>>

\* close: the list is emptied under the lock, its connections are closed one by one.
CloseAll ==
  /\ doomed = {}
  /\ doomed' = idle /\ idle' = {}
  /\ UNCHANGED <<open, at, lent>>

CloseOne ==
  /\ \E c \in doomed : doomed' = doomed \ {c} /\ open' = open \ {c}
  /\ UNCHANGED <<idle, at, lent>>

Init ==
  /\ idle = {} /\ doomed = {} /\ open = {}
  /\ at = [t \in Threads |-> "out"] /\ lent = [t \in Threads |-> NoClient]

Next ==
  \/ CloseAll \/ CloseOne
  \/ \E t \in Threads : Take(t) \/ Miss(t) \/ Connect(t) \/ Refuse(t)
                        \/ GiveBack(t) \/ Drop(t) \/ CloseClient(t)

Spec == Init /\ [][Next]_vars

-----------------------------------------------------------------------------

\* Every variable has its type, and a thread holds a connection exactly while it borrows.
PoolTypeOK ==
  /\ idle \subseteq Clients /\ doomed \subseteq Clients /\ open \subseteq Clients
  /\ at \in [Threads -> {"out", "missed", "lent", "closing"}]
  /\ lent \in [Threads -> Clients \cup {NoClient}]
  /\ \A t \in Threads : lent[t] = NoClient <=> at[t] \in {"out", "missed"}

Lent == {lent[t] : t \in Threads} \ {NoClient}

\* The threads of the routes share one pool: a connection that is lent is open, and neither
\* another thread nor the list nor close() has it (clickhouse.py:319-347).
NeverShared ==
  /\ \A t, u \in Threads : lent[t] = lent[u] /\ lent[t] # NoClient => t = u
  /\ Lent \subseteq open /\ Lent \cap (idle \cup doomed) = {}

\* However reads end, and whatever close() meets, every open connection is in the list, in the
\* hands of a thread or about to be closed, and never more than size of them wait in the list
\* (clickhouse.py:325-347).
NothingLeaks ==
  /\ open = idle \cup doomed \cup Lent /\ idle \cap doomed = {}
  /\ Cardinality(idle) <= Size
=============================================================================
