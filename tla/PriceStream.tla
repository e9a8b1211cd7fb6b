---------------------------- MODULE PriceStream ----------------------------
(* Live prices: the poll loop of src/workers/price_worker.py, the Redis keys  *)
(* and channels it writes (src/storage/redis_store.py), and the sockets of    *)
(* src/api/routes/prices.py that read them.  The broker's ticks, the death of *)
(* the terminal, the expiry of keys, errors, restarts of the worker and       *)
(* sockets that come and go fall between any two commands of a pipeline,      *)
(* which is not a transaction.                                                *)
(*                                                                            *)
(* A quote is the number of its tick, so that a newer quote is a larger one.  *)
EXTENDS Naturals, Sequences, FiniteSets, Terminal

CONSTANTS
  Symbols,       \* symbols the broker lists
  Clients,       \* WebSocket connections
  MaxTick,       \* bound: ticks of one symbol
  MaxErrors,     \* bound: pipelines that fail
  MaxCrashes,    \* bound: deaths and errors of the terminal, restarts of the worker
  MaxLeaves      \* bound: sockets that close

ASSUME PriceAssumption ==
  {MaxTick, MaxErrors, MaxCrashes, MaxLeaves} \subseteq Nat /\ Symbols # {}

NoQuote == 0       \* no tick yet, no key, nothing sent
Nowhere == "none"  \* the symbol of a socket that is not open

ASSUME NowhereAssumption == Nowhere \notin Symbols

VARIABLES
  tick,        \* symbol -> the terminal's current tick
  pc,          \* the worker: poll, list, read, execute
  watched,     \* memory of the worker: the subscribed symbols
  seen,        \* memory of the worker: symbol -> fingerprint last published
  todo,        \* symbols the poll has yet to read
  pipeline,    \* commands queued, then those not executed yet
  key,         \* Redis: symbol -> value of price:{SYMBOL}
  socket,      \* client -> away, connected, subscribed, streaming
  topic,       \* client -> the symbol of its path
  inbox,       \* client -> messages of its pubsub connection not delivered yet
  sent,        \* client -> the last quote sent over its socket
  errors, crashes, leaves

worker  == <<terminal, pc, watched, seen, todo, pipeline>>
clients == <<socket, topic, inbox, sent>>
counts  == <<errors, crashes, leaves>>
vars    == <<tick, worker, key, clients, counts>>

-----------------------------------------------------------------------------
(* The terminal and Redis *)

\* A new tick of the broker.
TickMoves(s) ==
  /\ tick[s] < MaxTick
  /\ tick' = [tick EXCEPT ![s] = @ + 1]
  /\ UNCHANGED <<worker, key, clients, counts>>

\* The key lives PRICE_TTL_SECONDS; an unchanged quote is not written again.
Expire(s) ==
  /\ key[s] # NoQuote
  /\ key' = [key EXCEPT ![s] = NoQuote]
  /\ UNCHANGED <<tick, worker, clients, counts>>

-----------------------------------------------------------------------------
(* The worker *)

\* connect(), then the symbols are listed anew when none is watched or the list is 15 minutes
\* old.
Relist == pc = "poll" /\ pc' = "list" /\ Connect /\ UNCHANGED todo

PollOn == pc = "poll" /\ watched # {} /\ pc' = "read" /\ Connect /\ todo' = watched

BeginPoll ==
  /\ Relist \/ PollOn
  /\ UNCHANGED <<tick, watched, seen, pipeline, key, clients, counts>>

\* Mistake in Polled: the list of before the symbols were selected anew.
PolledBefore == watched

Polled == watched'

\* _subscribe: a symbol whose select fails is left out.
ListSymbols ==
  /\ pc = "list"
  /\ \E outcome \in Outcomes :
       /\ ~Raises(outcome)
       /\ watched' \in IF outcome = "answer" THEN SUBSET Symbols ELSE {{}}
  /\ todo' = Polled
  /\ pc' = "read"
  /\ UNCHANGED <<tick, terminal, seen, pipeline, key, clients, counts>>

\* Mistake in Changed: the worker trusts Redis instead of its own memory.
DiffersFromKey(s) == key[s] # tick[s]

Changed(s) == seen[s] # tick[s]

Set(s, quote)     == [op |-> "set", symbol |-> s, quote |-> quote]
Publish(s, quote) == [op |-> "publish", symbol |-> s, quote |-> quote]

\* Mistake in Commands: the channel before the key.
PublishFirst(s, quote) == <<Publish(s, quote), Set(s, quote)>>

Commands(s, quote) == <<Set(s, quote), Publish(s, quote)>>

\* read_tick answers with the current tick, or with none.
ReadTick(s) ==
  /\ pc = "read" /\ s \in todo
  /\ todo' = todo \ {s}
  /\ IF running /\ tick[s] # NoQuote /\ Changed(s)
     THEN /\ seen' = [seen EXCEPT ![s] = tick[s]]
          /\ pipeline' = pipeline \o Commands(s, tick[s])
     ELSE UNCHANGED <<seen, pipeline>>
  /\ UNCHANGED <<tick, terminal, pc, watched, key, clients, counts>>

\* pipeline.execute(), or pipeline.reset() when nothing was published.
EndRead ==
  /\ pc = "read" /\ todo = {}
  /\ pc' = IF pipeline = <<>> THEN "poll" ELSE "execute"
  /\ UNCHANGED <<tick, terminal, watched, seen, todo, pipeline, key, clients, counts>>

Listening(c, s) == topic[c] = s /\ socket[c] \in {"subscribed", "streaming"}

\* Redis executes the next command of the pipeline.
Execute ==
  /\ pc = "execute" /\ pipeline # <<>>
  /\ LET command == Head(pipeline)
     IN  \/ /\ command.op = "set"
            /\ key' = [key EXCEPT ![command.symbol] = command.quote]
            /\ UNCHANGED inbox
         \/ /\ command.op = "publish"
            /\ inbox' = [c \in Clients |-> IF Listening(c, command.symbol)
                                           THEN Append(inbox[c], command.quote) ELSE inbox[c]]
            /\ UNCHANGED key
  /\ pipeline' = Tail(pipeline)
  /\ pc' = IF Len(pipeline) = 1 THEN "poll" ELSE "execute"
  /\ UNCHANGED <<tick, terminal, watched, seen, todo, socket, topic, sent, counts>>

\* execute() raises: what has not reached Redis is gone with the pipeline, the memory of
\* it is not (the generic except of worker_main).
PipelineFails ==
  /\ pc = "execute" /\ errors < MaxErrors
  /\ errors' = errors + 1
  /\ pipeline' = <<>>
  /\ pc' = "poll"
  /\ UNCHANGED <<tick, terminal, watched, seen, todo, key, clients, crashes, leaves>>

Crash == crashes < MaxCrashes /\ crashes' = crashes + 1

\* connect raises TerminalError.
StartFails ==
  /\ pc = "poll" /\ ConnectFails /\ Crash
  /\ watched' = {}
  /\ UNCHANGED <<tick, pc, seen, todo, pipeline, key, clients, errors, leaves>>

\* symbols_get raises it: a terminal that is lost is reset, the symbols are listed anew.
ListFails ==
  /\ pc = "list" /\ pc' = "poll"
  /\ \E outcome \in Outcomes :
       /\ Raises(outcome) /\ AfterError(outcome)
       /\ IF running THEN Crash ELSE UNCHANGED crashes
  /\ watched' = {}
  /\ UNCHANGED <<tick, seen, todo, pipeline, key, clients, errors, leaves>>

TerminalDies ==
  /\ ProgramDies /\ Crash
  /\ UNCHANGED <<tick, pc, watched, seen, todo, pipeline, key, clients, errors, leaves>>

\* Mistake in FreshSeen: the fingerprints outlive the process.
KeptSeen == seen

FreshSeen == [s \in Symbols |-> NoQuote]

\* The process dies, between any two commands, and the supervisor starts another.
Restart ==
  /\ Crash
  /\ handle' = FALSE
  /\ pc' = "poll" /\ watched' = {} /\ todo' = {} /\ pipeline' = <<>>
  /\ seen' = FreshSeen
  /\ UNCHANGED <<tick, running, key, clients, errors, leaves>>

-----------------------------------------------------------------------------
(* stream_price, one coroutine for each socket *)

Accept(c) ==
  /\ socket[c] = "away"
  /\ \E s \in Symbols : topic' = [topic EXCEPT ![c] = s]
  /\ socket' = [socket EXCEPT ![c] = "connected"]
  /\ UNCHANGED <<tick, worker, key, inbox, sent, counts>>

\* pubsub.subscribe: from here on every PUBLISH waits in the connection.
Subscribe(c) ==
  /\ socket[c] = "connected"
  /\ socket' = [socket EXCEPT ![c] = "subscribed"]
  /\ UNCHANGED <<tick, worker, key, topic, inbox, sent, counts>>

\* The snapshot: GET price:{SYMBOL}, sent when there is one.
SendSnapshot(c) ==
  /\ socket[c] = "subscribed"
  /\ sent' = [sent EXCEPT ![c] = key[topic[c]]]
  /\ socket' = [socket EXCEPT ![c] = "streaming"]
  /\ UNCHANGED <<tick, worker, key, topic, inbox, counts>>

SendMessage(c) ==
  /\ socket[c] = "streaming" /\ inbox[c] # <<>>
  /\ sent' = [sent EXCEPT ![c] = Head(inbox[c])]
  /\ inbox' = [inbox EXCEPT ![c] = Tail(@)]
  /\ UNCHANGED <<tick, worker, key, socket, topic, counts>>

\* The socket closes, or an error ends the coroutine: unsubscribe, aclose.
Leave(c) ==
  /\ socket[c] # "away" /\ leaves < MaxLeaves
  /\ leaves' = leaves + 1
  /\ socket' = [socket EXCEPT ![c] = "away"]
  /\ topic' = [topic EXCEPT ![c] = Nowhere]
  /\ inbox' = [inbox EXCEPT ![c] = <<>>]
  /\ sent' = [sent EXCEPT ![c] = NoQuote]
  /\ UNCHANGED <<tick, worker, key, errors, crashes>>

-----------------------------------------------------------------------------

Init ==
  /\ tick = [s \in Symbols |-> NoQuote] /\ key = [s \in Symbols |-> NoQuote]
  /\ running \in BOOLEAN /\ handle = FALSE
  /\ pc = "poll" /\ watched = {} /\ todo = {} /\ pipeline = <<>>
  /\ seen = [s \in Symbols |-> NoQuote]
  /\ socket = [c \in Clients |-> "away"] /\ topic = [c \in Clients |-> Nowhere]
  /\ inbox = [c \in Clients |-> <<>>] /\ sent = [c \in Clients |-> NoQuote]
  /\ errors = 0 /\ crashes = 0 /\ leaves = 0

Poll   == BeginPoll \/ ListSymbols \/ ListFails \/ (\E s \in Symbols : ReadTick(s)) \/ EndRead \/ Execute
Serve(c) == Subscribe(c) \/ SendSnapshot(c) \/ SendMessage(c)

Next ==
  \/ \E s \in Symbols : TickMoves(s) \/ Expire(s)
  \/ Poll \/ PipelineFails \/ StartFails \/ TerminalDies \/ Restart
  \/ \E c \in Clients : Accept(c) \/ Serve(c) \/ Leave(c)

Spec == Init /\ [][Next]_vars

\* The loop polls on, its list of symbols gets old, and every coroutine is scheduled; nothing
\* obliges the broker to move, a key to expire, or anything to fail.
FairSpec ==
  Spec /\ WF_vars(Poll) /\ SF_vars(BeginPoll /\ Relist) /\ \A c \in Clients : WF_vars(Serve(c))

-----------------------------------------------------------------------------
(* Properties *)

TypeOK ==
  /\ tick \in [Symbols -> Nat] /\ key \in [Symbols -> Nat] /\ seen \in [Symbols -> Nat]
  /\ TerminalTypeOK /\ (handle \/ pc = "poll")
  /\ pc \in {"poll", "list", "read", "execute"} /\ watched \subseteq Symbols /\ todo \subseteq watched
  /\ pipeline \in Seq([op : {"set", "publish"}, symbol : Symbols, quote : Nat])
  /\ socket \in [Clients -> {"away", "connected", "subscribed", "streaming"}]
  /\ topic \in [Clients -> Symbols \cup {Nowhere}]
  /\ inbox \in [Clients -> Seq(Nat)] /\ sent \in [Clients -> Nat]
  /\ {errors, crashes, leaves} \subseteq Nat

Pending(s) == \E i \in 1 .. Len(pipeline) : pipeline[i].symbol = s

\* Subscribing before the snapshot is read (prices.py:64-65) and writing the key before the
\* channel (price_worker.py:141-142) leave no gap between the two: a socket that has been
\* served shows the quote in Redis whenever the worker has nothing left to write for it, even
\* when the worker died between the two commands, as long as no pipeline failed between them.
ServedIsCurrent ==
  \A c \in Clients : \A s \in Symbols :
    errors = 0 /\ socket[c] = "streaming" /\ topic[c] = s /\ inbox[c] = <<>>
    /\ key[s] # NoQuote /\ key[s] = seen[s] /\ ~Pending(s)
    => sent[c] = key[s]

\* From some moment on every poll includes the symbol.
StaysWatched(s) == <>[](pc # "poll" => s \in watched)

\* No pipeline fails any more.
RedisHolds == errors = MaxErrors

\* Every tick that stays long enough to be polled reaches the key, restarts of the worker
\* and errors of the terminal included; a pipeline that failed costs nothing beyond the
\* quotes it carried (price_worker.py:66-85).
QuoteIsWritten ==
  \A s \in Symbols : \A quote \in 1 .. MaxTick :
    StaysWatched(s) =>
      (RedisHolds /\ tick[s] = quote /\ seen[s] # quote ~> key[s] = quote \/ tick[s] # quote)

\* Every change reaches a socket that was streaming before the worker saw it ("publishing
\* each change so WebSocket clients see it immediately", README.md:8).
ChangeIsPushed ==
  \A s \in Symbols : \A c \in Clients : \A quote \in 1 .. MaxTick :
    StaysWatched(s) =>
      (RedisHolds /\ tick[s] = quote /\ seen[s] # quote /\ socket[c] = "streaming" /\ topic[c] = s
         ~> sent[c] = quote \/ tick[s] # quote \/ topic[c] # s)

\* A terminal that dies is started again, though the poll itself never notices: it finds no
\* tick and goes on until the symbols are listed anew (price_worker.py:62, terminal.py:145-158).
LostIsRestarted == ~running ~> running
=============================================================================
