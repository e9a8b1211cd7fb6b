------------------------- MODULE PriceStreamProofs -------------------------
(* What a socket has been told is what Redis holds, for any symbols, sockets, *)
(* ticks, restarts and errors of the terminal.                                *)
EXTENDS PriceStream, SequenceTheorems, TLAPS

\* The pipeline is built while the symbols are read and is empty between two polls.
InOrder ==
  /\ pc \in {"poll", "list"} => pipeline = <<>>
  /\ pc # "read" => todo = {}
  /\ \A i \in 1 .. Len(pipeline) : pipeline[i].symbol \notin todo

\* A queued command carries the quote the worker remembers, a SET is followed by its PUBLISH.
Paired ==
  \A i \in 1 .. Len(pipeline) :
    /\ pipeline[i].quote = seen[pipeline[i].symbol]
    /\ pipeline[i].op = "set" => /\ i + 1 \in 1 .. Len(pipeline)
                                 /\ pipeline[i + 1].op = "publish"
                                 /\ pipeline[i + 1].symbol = pipeline[i].symbol

ToPublish(s) == \E i \in 1 .. Len(pipeline) : pipeline[i].op = "publish" /\ pipeline[i].symbol = s

\* The connection of a socket that has not subscribed is empty.
Deaf == \A c \in Clients : socket[c] \in {"away", "connected"} => inbox[c] = <<>>

\* The newest quote a socket has been sent or has waiting; the snapshot is still to come.
Shows(c, quote) ==
  \/ inbox[c] # <<>> /\ inbox[c][Len(inbox[c])] = quote
  \/ inbox[c] = <<>> /\ (socket[c] = "streaming" => sent[c] = quote)

Hears(c) == socket[c] \in {"subscribed", "streaming"}

\* Redis holds what the worker remembers to have written.
Settled(s) == key[s] # NoQuote /\ key[s] = seen[s]

\* What is settled is shown, or its PUBLISH is to come.
Told ==
  errors = 0 => \A c \in Clients :
    Hears(c) /\ Settled(topic[c]) => ToPublish(topic[c]) \/ Shows(c, key[topic[c]])

\* A socket that is open has a symbol.
Homeless == \A c \in Clients : socket[c] # "away" => topic[c] \in Symbols

StreamInv == TypeOK /\ InOrder /\ Paired /\ Deaf /\ Homeless /\ Told

Command == [op : {"set", "publish"}, symbol : Symbols, quote : Nat]

LEMMA StreamInitially ==
  ASSUME Init
  PROVE  StreamInv
<1>1. TypeOK
  <2>1. /\ tick \in [Symbols -> Nat] /\ key \in [Symbols -> Nat] /\ seen \in [Symbols -> Nat]
        /\ inbox \in [Clients -> Seq(Nat)] /\ sent \in [Clients -> Nat]
    BY DEF Init, NoQuote
  <2>2. /\ socket \in [Clients -> {"away", "connected", "subscribed", "streaming"}]
        /\ topic \in [Clients -> Symbols \cup {Nowhere}]
    BY DEF Init
  <2>3. pipeline \in Seq([op : {"set", "publish"}, symbol : Symbols, quote : Nat])
    BY DEF Init
  <2>4. TerminalTypeOK /\ pc = "poll" /\ watched = {} /\ todo = {}
    BY DEF Init, TerminalTypeOK
  <2>5. {errors, crashes, leaves} \subseteq Nat
    BY DEF Init
  <2> QED
    BY <2>1, <2>2, <2>3, <2>4, <2>5 DEF TypeOK
<1>2. InOrder /\ Paired /\ Deaf /\ Homeless /\ Told
  BY DEF Init, InOrder, Paired, Deaf, Homeless, Told, Hears
<1> QED
  BY <1>1, <1>2 DEF StreamInv

\* What the two commands of a quote look like in the pipeline.
LEMMA QueuedCommands ==
  ASSUME TypeOK, NEW s \in Symbols, pipeline' = pipeline \o Commands(s, tick[s])
  PROVE  /\ pipeline' \in Seq(Command) /\ Len(pipeline') = Len(pipeline) + 2
         /\ \A i \in 1 .. Len(pipeline) : pipeline'[i] = pipeline[i]
         /\ pipeline'[Len(pipeline) + 1] = Set(s, tick[s])
         /\ pipeline'[Len(pipeline) + 2] = Publish(s, tick[s])
<1>1. pipeline \in Seq(Command) /\ tick[s] \in Nat
  BY DEF TypeOK, Command
<1>2. Set(s, tick[s]) \in Command /\ Publish(s, tick[s]) \in Command
  BY <1>1 DEF Set, Publish, Command
<1> DEFINE two == Commands(s, tick[s])
<1>3. two \in Seq(Command) /\ Len(two) = 2 /\ two[1] = Set(s, tick[s]) /\ two[2] = Publish(s, tick[s])
  BY <1>2 DEF Commands
<1>4. pipeline' = pipeline \o two
  OBVIOUS
<1> HIDE DEF two
<1>5. /\ pipeline \o two \in Seq(Command)
      /\ Len(pipeline \o two) = Len(pipeline) + Len(two)
      /\ \A i \in 1 .. Len(pipeline) + Len(two) :
           (pipeline \o two)[i] = IF i <= Len(pipeline) THEN pipeline[i] ELSE two[i - Len(pipeline)]
  BY <1>1, <1>3, ConcatProperties, Zenon
<1>6. /\ pipeline' \in Seq(Command) /\ Len(pipeline') = Len(pipeline) + 2
      /\ \A i \in 1 .. Len(pipeline) + 2 :
           pipeline'[i] = IF i <= Len(pipeline) THEN pipeline[i] ELSE two[i - Len(pipeline)]
  BY <1>3, <1>4, <1>5
<1>7. Len(pipeline) \in Nat
  BY <1>1
<1> QED
  BY <1>3, <1>6, <1>7

\* The command executed is the first; the others move up by one.
LEMMA ExecutedCommand ==
  ASSUME TypeOK, pipeline # <<>>
  PROVE  /\ pipeline[1] \in Command /\ Head(pipeline) = pipeline[1]
         /\ Tail(pipeline) \in Seq(Command) /\ Len(Tail(pipeline)) = Len(pipeline) - 1
         /\ \A i \in 1 .. Len(Tail(pipeline)) : Tail(pipeline)[i] = pipeline[i + 1]
<1>1. pipeline \in Seq(Command)
  BY DEF TypeOK, Command
<1> QED
  BY <1>1

LEMMA TypeStep ==
  ASSUME StreamInv, [Next]_vars
  PROVE  TypeOK'
<1> USE DEF worker, clients, counts, terminal, TerminalTypeOK
<1> SUFFICES ASSUME TypeOK, InOrder, Homeless
             PROVE  TypeOK'
  BY DEF StreamInv
<1>1. ASSUME NEW s \in Symbols, TickMoves(s)
      PROVE  TypeOK'
  BY <1>1 DEF TickMoves, TypeOK
<1>2. ASSUME NEW s \in Symbols, Expire(s)
      PROVE  TypeOK'
  BY <1>2 DEF Expire, TypeOK, NoQuote
<1>3. CASE BeginPoll
  BY <1>3 DEF BeginPoll, Relist, PollOn, Connect, TypeOK
<1>4. CASE ListSymbols
  BY <1>4 DEF ListSymbols, Polled, TypeOK
<1>5. CASE ListFails
  <2>1. running' \in BOOLEAN /\ handle' \in BOOLEAN
    BY <1>5 DEF ListFails, AfterError, TypeOK
  <2>2. crashes' \in Nat
    BY <1>5 DEF ListFails, Crash, TypeOK
  <2>3. todo' = {} /\ watched' = {} /\ pc' = "poll"
    BY <1>5 DEF ListFails, InOrder
  <2> QED
    BY <1>5, <2>1, <2>2, <2>3 DEF ListFails, TypeOK
<1>6. ASSUME NEW s \in Symbols, ReadTick(s)
      PROVE  TypeOK'
  <2>1. /\ seen' \in [Symbols -> Nat]
        /\ pipeline' \in Seq([op : {"set", "publish"}, symbol : Symbols, quote : Nat])
    <3>1. CASE UNCHANGED <<seen, pipeline>>
      BY <3>1 DEF TypeOK
    <3>2. CASE seen' = [seen EXCEPT ![s] = tick[s]] /\ pipeline' = pipeline \o Commands(s, tick[s])
      BY <3>2, QueuedCommands DEF TypeOK, Command
    <3> QED
      BY <1>6, <3>1, <3>2 DEF ReadTick
  <2> QED
    BY <1>6, <2>1 DEF ReadTick, TypeOK
<1>7. CASE EndRead
  BY <1>7 DEF EndRead, TypeOK
<1>8. CASE Execute
  <2>1. pipeline # <<>> /\ pipeline[1] \in Command /\ Head(pipeline) = pipeline[1]
    BY <1>8, ExecutedCommand DEF Execute
  <2>2. pipeline' \in Seq([op : {"set", "publish"}, symbol : Symbols, quote : Nat])
    BY <1>8, <2>1, ExecutedCommand DEF Execute, Command
  <2>3. pipeline[1].symbol \in Symbols /\ pipeline[1].quote \in Nat
    BY <2>1 DEF Command
  <2>4. key' \in [Symbols -> Nat]
    BY <1>8, <2>1, <2>3 DEF Execute, TypeOK
  <2>5. inbox' \in [Clients -> Seq(Nat)]
    <3>1. CASE UNCHANGED inbox
      BY <3>1 DEF TypeOK
    <3>2. CASE inbox' = [c \in Clients |-> IF Listening(c, pipeline[1].symbol)
                                          THEN Append(inbox[c], pipeline[1].quote) ELSE inbox[c]]
      BY <2>3, <3>2 DEF TypeOK
    <3> QED
      BY <1>8, <2>1, <3>1, <3>2 DEF Execute
  <2>6. handle /\ pc' \in {"poll", "execute"}
    BY <1>8 DEF Execute, TypeOK
  <2> QED
    BY <1>8, <2>2, <2>4, <2>5, <2>6 DEF Execute, TypeOK
<1>9. CASE PipelineFails
  BY <1>9 DEF PipelineFails, TypeOK
<1>10. CASE StartFails
  <2>1. crashes' \in Nat
    BY <1>10 DEF StartFails, Crash, TypeOK
  <2>2. todo' = {} /\ watched' = {} /\ UNCHANGED <<pc, running, handle>>
    BY <1>10 DEF StartFails, ConnectFails, InOrder
  <2> QED
    BY <1>10, <2>1, <2>2 DEF StartFails, TypeOK
<1>11. CASE TerminalDies
  <2>1. crashes' \in Nat
    BY <1>11 DEF TerminalDies, Crash, TypeOK
  <2>2. running' \in BOOLEAN /\ UNCHANGED handle
    BY <1>11, Zenon DEF TerminalDies, ProgramDies
  <2> QED
    BY <1>11, <2>1, <2>2 DEF TerminalDies, TypeOK
<1>12. CASE Restart
  <2>1. crashes' \in Nat /\ handle' = FALSE /\ running' \in BOOLEAN
    BY <1>12 DEF Restart, Crash, TypeOK
  <2>2. seen' \in [Symbols -> Nat]
    BY <1>12 DEF Restart, FreshSeen, NoQuote
  <2>3. pipeline' \in Seq([op : {"set", "publish"}, symbol : Symbols, quote : Nat])
    BY <1>12 DEF Restart
  <2> QED
    BY <1>12, <2>1, <2>2, <2>3 DEF Restart, TypeOK
<1>13. ASSUME NEW c \in Clients, Accept(c)
       PROVE  TypeOK'
  <2>1. /\ socket' \in [Clients -> {"away", "connected", "subscribed", "streaming"}]
        /\ topic' \in [Clients -> Symbols \cup {Nowhere}]
    BY <1>13 DEF Accept, TypeOK
  <2> QED
    BY <1>13, <2>1 DEF Accept, TypeOK
<1>14. ASSUME NEW c \in Clients, Subscribe(c)
       PROVE  TypeOK'
  BY <1>14 DEF Subscribe, TypeOK
<1>15. ASSUME NEW c \in Clients, SendSnapshot(c)
       PROVE  TypeOK'
  <2>1. topic[c] \in Symbols
    BY <1>15 DEF SendSnapshot, Homeless
  <2> QED
    BY <1>15, <2>1 DEF SendSnapshot, TypeOK
<1>16. ASSUME NEW c \in Clients, SendMessage(c)
       PROVE  TypeOK'
  <2>1. inbox[c] \in Seq(Nat) /\ inbox[c] # <<>>
    BY <1>16 DEF SendMessage, TypeOK
  <2>2. Head(inbox[c]) \in Nat /\ Tail(inbox[c]) \in Seq(Nat)
    BY <2>1
  <2>3. inbox' \in [Clients -> Seq(Nat)] /\ sent' \in [Clients -> Nat]
    BY <1>16, <2>2 DEF SendMessage, TypeOK
  <2> QED
    BY <1>16, <2>3 DEF SendMessage, TypeOK
<1>17. ASSUME NEW c \in Clients, Leave(c)
       PROVE  TypeOK'
  <2>1. /\ socket' \in [Clients -> {"away", "connected", "subscribed", "streaming"}]
        /\ topic' \in [Clients -> Symbols \cup {Nowhere}]
    BY <1>17 DEF Leave, TypeOK
  <2>2. inbox' \in [Clients -> Seq(Nat)] /\ sent' \in [Clients -> Nat]
    BY <1>17 DEF Leave, NoQuote, TypeOK
  <2>3. leaves' \in Nat
    BY <1>17 DEF Leave, TypeOK
  <2> QED
    BY <1>17, <2>1, <2>2, <2>3 DEF Leave, TypeOK
<1>18. CASE UNCHANGED vars
  BY <1>18 DEF vars, TypeOK
<1> QED
  BY <1>1, <1>2, <1>3, <1>4, <1>5, <1>6, <1>7, <1>8, <1>9, <1>10, <1>11, <1>12, <1>13, <1>14,
     <1>15, <1>16, <1>17, <1>18 DEF Next, Poll, Serve

\* The steps of the loop that change what the worker remembers or has queued.
Working == BeginPoll \/ ListSymbols \/ ListFails \/ EndRead \/ Execute \/ PipelineFails \/ Restart

LEMMA BesideTheWorker ==
  ASSUME [Next]_vars, ~Working, \A s \in Symbols : ~ReadTick(s)
  PROVE  UNCHANGED <<pc, seen, todo, pipeline>>
<1> USE DEF worker, clients, counts
<1>1. CASE UNCHANGED vars
  BY <1>1 DEF vars
<1>2. CASE \E s \in Symbols : TickMoves(s) \/ Expire(s)
  BY <1>2 DEF TickMoves, Expire
<1>3. CASE StartFails \/ TerminalDies
  BY <1>3 DEF StartFails, TerminalDies
<1>4. CASE \E c \in Clients : Accept(c) \/ Serve(c) \/ Leave(c)
  BY <1>4 DEF Accept, Serve, Subscribe, SendSnapshot, SendMessage, Leave
<1> QED
  BY <1>1, <1>2, <1>3, <1>4 DEF Next, Poll, Working

LEMMA OrderStep ==
  ASSUME StreamInv, [Next]_vars
  PROVE  InOrder' /\ Paired'
<1> USE DEF worker, clients, counts
<1> SUFFICES ASSUME TypeOK, InOrder, Paired
             PROVE  InOrder' /\ Paired'
  BY DEF StreamInv
<1>0. pipeline \in Seq(Command)
  BY DEF TypeOK, Command
<1>1. CASE BeginPoll
  BY <1>1 DEF BeginPoll, Relist, PollOn, InOrder, Paired
<1>2. CASE ListSymbols
  BY <1>2 DEF ListSymbols, InOrder, Paired
<1>3. CASE ListFails
  BY <1>3 DEF ListFails, InOrder, Paired
<1>4. ASSUME NEW s \in Symbols, ReadTick(s)
      PROVE  InOrder' /\ Paired'
  <2>1. pc = "read" /\ pc' = "read" /\ s \in todo /\ todo' = todo \ {s}
    BY <1>4 DEF ReadTick
  <2>2. CASE UNCHANGED <<seen, pipeline>>
    BY <2>1, <2>2 DEF InOrder, Paired
  <2>3. CASE seen' = [seen EXCEPT ![s] = tick[s]] /\ pipeline' = pipeline \o Commands(s, tick[s])
    <3> DEFINE n == Len(pipeline)
    <3>1. n \in Nat /\ Len(pipeline') = n + 2 /\ \A i \in 1 .. n : pipeline'[i] = pipeline[i]
      BY <1>0, <2>3, QueuedCommands
    <3>2. pipeline'[n + 1] = Set(s, tick[s]) /\ pipeline'[n + 2] = Publish(s, tick[s])
      BY <2>3, QueuedCommands
    <3>3. ASSUME NEW i \in 1 .. n
          PROVE  pipeline[i].symbol \in Symbols \ todo
      <4>1. pipeline[i] \in Command
        BY <1>0
      <4> QED
        BY <4>1 DEF InOrder, Command
    <3>4. /\ pipeline'[n + 1].symbol = s /\ pipeline'[n + 1].quote = tick[s] /\ pipeline'[n + 1].op = "set"
          /\ pipeline'[n + 2].symbol = s /\ pipeline'[n + 2].quote = tick[s]
          /\ pipeline'[n + 2].op = "publish"
      BY <3>2 DEF Set, Publish
    <3>5. seen'[s] = tick[s] /\ \A z \in Symbols : z # s => seen'[z] = seen[z]
      BY <2>3 DEF TypeOK
    <3> HIDE DEF n
    <3>6. \A i \in 1 .. n + 2 : i \in 1 .. n \/ i = n + 1 \/ i = n + 2
      BY <3>1
    <3>7. InOrder'
      <4>1. \A i \in 1 .. n + 2 : pipeline'[i].symbol \notin todo'
        BY <2>1, <3>1, <3>3, <3>4, <3>6
      <4> QED
        BY <2>1, <3>1, <4>1 DEF InOrder
    <3>8. ASSUME NEW i \in 1 .. n
          PROVE  /\ pipeline'[i].quote = seen'[pipeline'[i].symbol]
                 /\ pipeline'[i].op = "set" => /\ i + 1 \in 1 .. n + 2
                                             /\ pipeline'[i + 1].op = "publish"
                                             /\ pipeline'[i + 1].symbol = pipeline'[i].symbol
      <4>1. pipeline'[i].quote = seen'[pipeline'[i].symbol]
        BY <2>1, <3>1, <3>3, <3>5 DEF Paired, n
      <4>2. ASSUME pipeline[i].op = "set"
            PROVE  i + 1 \in 1 .. n /\ pipeline[i + 1].op = "publish"
                   /\ pipeline[i + 1].symbol = pipeline[i].symbol
        BY <4>2 DEF Paired, n
      <4> QED
        BY <3>1, <4>1, <4>2
    <3>9. n + 1 + 1 = n + 2 /\ n + 2 \in 1 .. n + 2
      BY <3>1
    <3> QED
      BY <3>1, <3>4, <3>5, <3>6, <3>7, <3>8, <3>9 DEF Paired
  <2> QED
    BY <1>4, <2>2, <2>3 DEF ReadTick
<1>5. CASE EndRead
  BY <1>5 DEF EndRead, InOrder, Paired
<1>6. CASE Execute
  <2>1. /\ pc = "execute" /\ todo = {} /\ UNCHANGED <<seen, todo>> /\ pipeline # <<>>
        /\ pipeline' = Tail(pipeline) /\ pc' = IF Len(pipeline) = 1 THEN "poll" ELSE "execute"
    BY <1>6 DEF Execute, InOrder
  <2>2. /\ Len(pipeline') = Len(pipeline) - 1 /\ Len(pipeline) \in Nat
        /\ \A i \in 1 .. Len(pipeline') : pipeline'[i] = pipeline[i + 1]
    BY <1>0, <2>1, ExecutedCommand
  <2>3. Len(pipeline) = 1 => pipeline' = <<>>
    BY <1>0, <2>1
  <2>4. InOrder'
    BY <2>1, <2>3 DEF InOrder
  <2>5. ASSUME NEW i \in 1 .. Len(pipeline')
        PROVE  /\ pipeline'[i].quote = seen[pipeline'[i].symbol]
               /\ pipeline'[i].op = "set" => /\ i + 1 \in 1 .. Len(pipeline')
                                           /\ pipeline'[i + 1].op = "publish"
                                           /\ pipeline'[i + 1].symbol = pipeline'[i].symbol
    <3>1. i + 1 \in 1 .. Len(pipeline) /\ pipeline'[i] = pipeline[i + 1]
      BY <2>2
    <3>2. /\ pipeline[i + 1].quote = seen[pipeline[i + 1].symbol]
          /\ pipeline[i + 1].op = "set" => /\ i + 1 + 1 \in 1 .. Len(pipeline)
                                         /\ pipeline[i + 1 + 1].op = "publish"
                                         /\ pipeline[i + 1 + 1].symbol = pipeline[i + 1].symbol
      BY <3>1 DEF Paired
    <3>3. i + 1 + 1 \in 1 .. Len(pipeline) => /\ i + 1 \in 1 .. Len(pipeline')
                                             /\ pipeline'[i + 1] = pipeline[i + 1 + 1]
      BY <2>2
    <3> QED
      BY <3>1, <3>2, <3>3
  <2> QED
    BY <2>1, <2>4, <2>5 DEF Paired
<1>7. CASE PipelineFails
  BY <1>7 DEF PipelineFails, InOrder, Paired
<1>8. CASE Restart
  BY <1>8 DEF Restart, InOrder, Paired
<1>9. CASE ~Working /\ \A s \in Symbols : ~ReadTick(s)
  BY <1>9, BesideTheWorker DEF InOrder, Paired
<1> QED
  BY <1>1, <1>2, <1>3, <1>4, <1>5, <1>6, <1>7, <1>8, <1>9 DEF Working

LEMMA SocketsStep ==
  ASSUME StreamInv, [Next]_vars
  PROVE  Deaf' /\ Homeless'
<1> USE DEF worker, clients, counts
<1> SUFFICES ASSUME TypeOK, Deaf, Homeless
             PROVE  Deaf' /\ Homeless'
  BY DEF StreamInv
<1>1. CASE Execute
  BY <1>1 DEF Execute, Listening, Deaf, Homeless, TypeOK
<1>2. ASSUME NEW c \in Clients, Accept(c) \/ Subscribe(c) \/ SendSnapshot(c) \/ SendMessage(c) \/ Leave(c)
      PROVE  Deaf' /\ Homeless'
  BY <1>2 DEF Accept, Subscribe, SendSnapshot, SendMessage, Leave, Deaf, Homeless, TypeOK
<1>3. CASE UNCHANGED <<socket, topic, inbox>>
  BY <1>3 DEF Deaf, Homeless
<1>4. \/ Execute \/ UNCHANGED <<socket, topic, inbox>>
      \/ \E c \in Clients : Accept(c) \/ Subscribe(c) \/ SendSnapshot(c) \/ SendMessage(c) \/ Leave(c)
  BY DEF Next, vars, Poll, Serve, TickMoves, Expire, BeginPoll, ListSymbols, ListFails, ReadTick,
         EndRead, PipelineFails, StartFails, TerminalDies, Restart
<1> QED
  BY <1>1, <1>2, <1>3, <1>4

\* The newest message of a connection, when one is added and when the oldest is taken.
LEMMA LastOfAppend ==
  ASSUME NEW s \in Seq(Nat), NEW e \in Nat
  PROVE  Append(s, e) # <<>> /\ Append(s, e)[Len(Append(s, e))] = e
BY AppendProperties

LEMMA LastOfTail ==
  ASSUME NEW s \in Seq(Nat), s # <<>>
  PROVE  /\ Tail(s) = <<>> => Head(s) = s[Len(s)]
         /\ Tail(s) # <<>> => Tail(s)[Len(Tail(s))] = s[Len(s)]
<1>1. /\ Tail(s) \in Seq(Nat) /\ Len(Tail(s)) = Len(s) - 1 /\ Len(s) \in Nat
      /\ \A i \in 1 .. Len(Tail(s)) : Tail(s)[i] = s[i + 1]
  OBVIOUS
<1> DEFINE t == Tail(s)
<1>2. Len(s) # 0 /\ (t # <<>> => Len(t) # 0) /\ (t = <<>> => Len(t) = 0)
  BY <1>1, EmptySeq
<1> HIDE DEF t
<1>3. CASE Len(s) = 1
  <2>1. t = <<>>
    BY <1>1, <1>3, <1>2 DEF t
  <2> QED
    BY <1>3, <2>1 DEF t
<1>4. CASE Len(s) # 1
  <2>1. t # <<>> /\ Len(t) \in 1 .. Len(t) /\ Len(t) + 1 = Len(s)
    BY <1>1, <1>4, <1>2 DEF t
  <2>2. t[Len(t)] = s[Len(s)]
    BY <1>1, <2>1 DEF t
  <2> QED
    BY <2>1, <2>2 DEF t
<1> QED
  BY <1>3, <1>4

\* A PUBLISH that is not the first command is still queued after the first is executed.
LEMMA StillToPublish ==
  ASSUME TypeOK, pipeline # <<>>, pipeline' = Tail(pipeline), NEW s, ToPublish(s),
         pipeline[1].op # "publish" \/ pipeline[1].symbol # s
  PROVE  ToPublish(s)'
<1>1. PICK i \in 1 .. Len(pipeline) : pipeline[i].op = "publish" /\ pipeline[i].symbol = s
  BY DEF ToPublish
<1>2. pipeline \in Seq(Command) /\ i # 1
  BY <1>1 DEF TypeOK, Command
<1>3. i - 1 \in 1 .. Len(pipeline') /\ pipeline'[i - 1] = pipeline[i]
  BY <1>1, <1>2, ExecutedCommand
<1> QED
  BY <1>1, <1>3 DEF ToPublish

LEMMA ToldStep ==
  ASSUME StreamInv, [Next]_vars
  PROVE  Told'
<1> USE DEF worker, clients, counts
<1> SUFFICES ASSUME TypeOK, InOrder, Paired, Deaf, Homeless, Told
             PROVE  Told'
  BY DEF StreamInv
<1>1. CASE UNCHANGED <<pipeline, seen, key, clients, errors>>
  BY <1>1 DEF Told, Hears, Settled, ToPublish, Shows
<1>2. ASSUME NEW s \in Symbols, Expire(s)
      PROVE  Told'
  <2>1. /\ \A z \in Symbols : key'[z] = IF z = s THEN NoQuote ELSE key[z]
        /\ UNCHANGED <<pipeline, seen, clients, errors>>
    BY <1>2 DEF Expire, TypeOK
  <2>2. \A c \in Clients : Hears(c) => topic[c] \in Symbols
    BY DEF Homeless, Hears
  <2> QED
    BY <2>1, <2>2 DEF Told, Hears, Settled, ToPublish, Shows
<1>3. ASSUME NEW s \in Symbols, ReadTick(s), seen' = [seen EXCEPT ![s] = tick[s]],
             pipeline' = pipeline \o Commands(s, tick[s])
      PROVE  Told'
  <2> SUFFICES ASSUME errors = 0, NEW c \in Clients, Hears(c), Settled(topic[c])'
               PROVE  ToPublish(topic[c])' \/ Shows(c, key[topic[c]])
    BY <1>3 DEF ReadTick, Told, Hears, Shows
  <2>1. UNCHANGED <<key, topic>> /\ topic[c] \in Symbols
    BY <1>3 DEF ReadTick, Homeless, Hears
  <2>2. Len(pipeline) \in Nat /\ Len(pipeline') = Len(pipeline) + 2
    <3>1. pipeline \in Seq(Command)
      BY DEF TypeOK, Command
    <3> QED
      BY <1>3, <3>1, QueuedCommands
  <2>3. CASE topic[c] = s
    <3>1. pipeline'[Len(pipeline) + 2] = Publish(s, tick[s])
      BY <1>3, QueuedCommands
    <3>2. ToPublish(s)'
      BY <2>2, <3>1 DEF ToPublish, Publish
    <3> QED
      BY <2>1, <2>3, <3>2 DEF ToPublish
  <2>4. CASE topic[c] # s
    <3>1. Settled(topic[c])
      BY <1>3, <2>1, <2>4 DEF Settled, TypeOK
    <3>2. ToPublish(topic[c]) => ToPublish(topic[c])'
      BY <1>3, <2>1, <2>2, QueuedCommands DEF ToPublish
    <3> QED
      BY <3>1, <3>2 DEF Told
  <2> QED
    BY <2>3, <2>4
<1>4. CASE Execute
  <2> DEFINE command == pipeline[1]
  <2>1. /\ pipeline # <<>> /\ command \in Command /\ Head(pipeline) = command
        /\ pipeline' = Tail(pipeline) /\ UNCHANGED <<seen, socket, topic, sent, errors>>
    BY <1>4, ExecutedCommand DEF Execute
  <2>2. Len(pipeline) \in Nat /\ 1 \in 1 .. Len(pipeline)
    <3>1. pipeline \in Seq(Command)
      BY DEF TypeOK, Command
    <3> QED
      BY <2>1, <3>1
  <2>3. command.quote = seen[command.symbol] /\ command.symbol \in Symbols /\ command.quote \in Nat
    BY <2>1, <2>2 DEF Paired, Command
  <2> SUFFICES ASSUME errors = 0, NEW c \in Clients, Hears(c), Settled(topic[c])'
               PROVE  ToPublish(topic[c])' \/ Shows(c, key[topic[c]])'
    BY <2>1 DEF Told, Hears
  <2>4. topic[c] \in Symbols
    BY DEF Homeless, Hears
  <2>5. CASE command.op = "set"
    <3>1. key' = [key EXCEPT ![command.symbol] = command.quote] /\ UNCHANGED inbox
      BY <1>4, <2>1, <2>5 DEF Execute
    <3>2. CASE topic[c] = command.symbol
      <4>1. /\ 2 \in 1 .. Len(pipeline) /\ pipeline[2].op = "publish"
            /\ pipeline[2].symbol = topic[c]
        BY <2>2, <2>5, <3>2 DEF Paired
      <4>2. ToPublish(topic[c])
        BY <4>1 DEF ToPublish
      <4> QED
        BY <2>1, <2>5, <4>2, StillToPublish DEF ToPublish
    <3>3. CASE topic[c] # command.symbol
      <4>1. key'[topic[c]] = key[topic[c]] /\ Settled(topic[c])
        BY <2>1, <2>4, <3>1, <3>3 DEF Settled, TypeOK
      <4>2. ToPublish(topic[c]) \/ Shows(c, key[topic[c]])
        BY <4>1 DEF Told
      <4>3. ToPublish(topic[c]) => ToPublish(topic[c])'
        BY <2>1, <2>5, StillToPublish DEF ToPublish
      <4>4. Shows(c, key[topic[c]]) => Shows(c, key[topic[c]])'
        BY <2>1, <3>1, <4>1 DEF Shows
      <4> QED
        BY <4>2, <4>3, <4>4
    <3> QED
      BY <3>2, <3>3
  <2>6. CASE command.op = "publish"
    <3>1. /\ UNCHANGED key
          /\ inbox' = [d \in Clients |-> IF Listening(d, command.symbol)
                                        THEN Append(inbox[d], command.quote) ELSE inbox[d]]
      BY <1>4, <2>1, <2>6 DEF Execute
    <3>2. Settled(topic[c])
      BY <2>1, <3>1 DEF Settled
    <3>3. CASE topic[c] = command.symbol
      <4>1. inbox'[c] = Append(inbox[c], command.quote) /\ inbox[c] \in Seq(Nat)
        BY <3>1, <3>3 DEF Listening, Hears, TypeOK
      <4>2. inbox'[c] # <<>> /\ inbox'[c][Len(inbox'[c])] = command.quote
        BY <2>3, <4>1, LastOfAppend
      <4>3. command.quote = key[topic[c]]
        BY <2>3, <3>2, <3>3 DEF Settled
      <4> QED
        BY <2>1, <3>1, <4>2, <4>3 DEF Shows
    <3>4. CASE topic[c] # command.symbol
      <4>1. inbox'[c] = inbox[c]
        BY <3>1, <3>4 DEF Listening
      <4>2. ToPublish(topic[c]) \/ Shows(c, key[topic[c]])
        BY <3>2 DEF Told
      <4> QED
        BY <2>1, <3>1, <3>4, <4>1, <4>2, StillToPublish DEF ToPublish, Shows
    <3> QED
      BY <3>3, <3>4
  <2> QED
    BY <2>1, <2>5, <2>6 DEF Command
<1>5. CASE PipelineFails
  BY <1>5 DEF PipelineFails, Told, TypeOK
<1>6. CASE Restart
  <2>1. \A c \in Clients : Hears(c)' => topic'[c] \in Symbols
    BY <1>6 DEF Restart, Homeless, Hears
  <2>2. \A s \in Symbols : ~Settled(s)'
    BY <1>6 DEF Restart, FreshSeen, Settled
  <2> QED
    BY <2>1, <2>2 DEF Told
<1>7. ASSUME NEW d \in Clients, UNCHANGED <<pipeline, seen, key, errors>>,
             \A c \in Clients : c # d => /\ socket'[c] = socket[c] /\ topic'[c] = topic[c]
                                        /\ inbox'[c] = inbox[c] /\ sent'[c] = sent[c],
             Hears(d)' /\ Settled(topic[d])' => ToPublish(topic[d])' \/ Shows(d, key[topic[d]])'
      PROVE  Told'
  BY <1>7 DEF Told, Hears, Settled, ToPublish, Shows
<1>8. ASSUME NEW d \in Clients, Accept(d) \/ Leave(d)
      PROVE  Told'
  <2>1. ~Hears(d)'
    BY <1>8 DEF Accept, Leave, Hears, TypeOK
  <2> QED
    BY <1>7, <1>8, <2>1 DEF Accept, Leave, TypeOK
<1>9. ASSUME NEW d \in Clients, Subscribe(d)
      PROVE  Told'
  <2>1. Shows(d, key[topic[d]])'
    BY <1>9 DEF Subscribe, Deaf, Shows, TypeOK
  <2> QED
    BY <1>7, <1>9, <2>1 DEF Subscribe, TypeOK
<1>10. ASSUME NEW d \in Clients, SendSnapshot(d)
       PROVE  Told'
  <2>1. sent'[d] = key[topic[d]] /\ UNCHANGED <<pipeline, seen, key, topic, inbox, errors>>
    BY <1>10 DEF SendSnapshot, TypeOK
  <2>2. Hears(d) /\ (inbox[d] # <<>> /\ Shows(d, key[topic[d]]) => Shows(d, key[topic[d]])')
    BY <1>10, <2>1 DEF SendSnapshot, Hears, Shows
  <2>3. inbox[d] = <<>> => Shows(d, key[topic[d]])'
    BY <2>1 DEF Shows
  <2>4. errors = 0 /\ Settled(topic[d])' => ToPublish(topic[d])' \/ Shows(d, key[topic[d]])'
    BY <2>1, <2>2, <2>3 DEF Told, Settled, ToPublish
  <2>5. errors # 0 => Told'
    BY <2>1 DEF Told
  <2> QED
    BY <1>7, <1>10, <2>1, <2>4, <2>5 DEF SendSnapshot, TypeOK
<1>11. ASSUME NEW d \in Clients, SendMessage(d)
       PROVE  Told'
  <2>1. /\ sent'[d] = Head(inbox[d]) /\ inbox'[d] = Tail(inbox[d]) /\ inbox[d] \in Seq(Nat)
        /\ inbox[d] # <<>> /\ socket[d] = "streaming"
        /\ UNCHANGED <<pipeline, seen, key, topic, socket, errors>>
    BY <1>11 DEF SendMessage, TypeOK
  <2>2. ASSUME NEW quote, Shows(d, quote)
        PROVE  Shows(d, quote)'
    <3>1. inbox[d][Len(inbox[d])] = quote
      BY <2>1, <2>2 DEF Shows
    <3>2. CASE Tail(inbox[d]) = <<>>
      BY <2>1, <3>1, <3>2, LastOfTail DEF Shows
    <3>3. CASE Tail(inbox[d]) # <<>>
      BY <2>1, <3>1, <3>3, LastOfTail DEF Shows
    <3> QED
      BY <3>2, <3>3
  <2>3. errors = 0 /\ Settled(topic[d])' => ToPublish(topic[d])' \/ Shows(d, key[topic[d]])'
    <3>1. Hears(d) /\ UNCHANGED topic[d]
      BY <2>1 DEF Hears
    <3>2. Shows(d, key[topic[d]]) => Shows(d, key[topic[d]])'
      BY <2>1, <2>2 DEF Shows
    <3> QED
      BY <2>1, <3>1, <3>2 DEF Told, Settled, ToPublish
  <2>4. errors # 0 => Told'
    BY <2>1 DEF Told
  <2> QED
    BY <1>7, <1>11, <2>1, <2>3, <2>4 DEF SendMessage, TypeOK
<1>12. \/ UNCHANGED <<pipeline, seen, key, clients, errors>>
       \/ \E s \in Symbols : Expire(s)
       \/ \E s \in Symbols : /\ ReadTick(s) /\ seen' = [seen EXCEPT ![s] = tick[s]]
                            /\ pipeline' = pipeline \o Commands(s, tick[s])
       \/ Execute \/ PipelineFails \/ Restart
       \/ \E c \in Clients : Accept(c) \/ Subscribe(c) \/ SendSnapshot(c) \/ SendMessage(c) \/ Leave(c)
  BY DEF Next, vars, Poll, Serve, TickMoves, BeginPoll, ListSymbols, ListFails, ReadTick,
         EndRead, StartFails, TerminalDies
<1> QED
  BY <1>1, <1>2, <1>3, <1>4, <1>5, <1>6, <1>8, <1>9, <1>10, <1>11, <1>12

\* The strengthening holds in every state.
THEOREM StreamInvariant == Spec => []StreamInv
<1>1. Init => StreamInv
  BY StreamInitially
<1>2. StreamInv /\ [Next]_vars => StreamInv'
  BY TypeStep, OrderStep, SocketsStep, ToldStep DEF StreamInv
<1> QED
  BY <1>1, <1>2, PTL DEF Spec

\* Every variable of the price worker, Redis and the sockets keeps its type.
THEOREM TypeCorrect == Spec => []TypeOK
<1>1. StreamInv => TypeOK
  BY DEF StreamInv
<1> QED
  BY <1>1, StreamInvariant, PTL

\* There is no gap between the snapshot and the stream, nor between the key and the channel,
\* for any symbols, sockets and restarts (prices.py:64-65, price_worker.py:141-142).
THEOREM SocketsAreCurrent == Spec => []ServedIsCurrent
<1>1. StreamInv => ServedIsCurrent
  <2> SUFFICES ASSUME StreamInv, NEW c \in Clients, NEW s \in Symbols, errors = 0,
                      socket[c] = "streaming", topic[c] = s, inbox[c] = <<>>, key[s] # NoQuote,
                      key[s] = seen[s], ~Pending(s)
               PROVE  sent[c] = key[s]
    BY DEF ServedIsCurrent
  <2>1. ~ToPublish(s)
    BY DEF ToPublish, Pending
  <2>2. Shows(c, key[s])
    BY <2>1 DEF StreamInv, Told, Hears, Settled
  <2> QED
    BY <2>2 DEF Shows
<1> QED
  BY <1>1, StreamInvariant, PTL
=============================================================================
