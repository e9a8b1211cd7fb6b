----------------------------- MODULE CandleLog -----------------------------
(* What the candle store promises its readers, whatever the worker that fills *)
(* it does: minutes are only ever added, only once they are over, and the     *)
(* watermark of a symbol only moves forward, onto a minute that is stored.    *)
(* CandlesWorker is shown to implement this specification.                    *)
EXTENDS Integers

CONSTANTS Symbols, NoTime

VARIABLES now,      \* the minute that is forming
          stored,   \* symbol -> minutes in the candles table
          mark      \* symbol -> sync_state.last_ts, NoTime without a row

vars == <<now, stored, mark>>

Finished == 0 .. now - 1      \* the minutes that are over

Init ==
  /\ now \in Nat
  /\ stored \in [Symbols -> SUBSET Finished]
  /\ mark \in [Symbols -> Nat \cup {NoTime}]
  /\ \A s \in Symbols : mark[s] # NoTime => mark[s] \in stored[s]

Tick ==
  /\ now' = now + 1
  /\ UNCHANGED <<stored, mark>>

Append(s) ==
  /\ \E rows \in SUBSET Finished : stored' = [stored EXCEPT ![s] = @ \cup rows]
  /\ UNCHANGED <<now, mark>>

Advance(s) ==
  /\ \E m \in stored[s] :
       /\ mark[s] = NoTime \/ mark[s] < m
       /\ mark' = [mark EXCEPT ![s] = m]
  /\ UNCHANGED <<now, stored>>

Next == Tick \/ \E s \in Symbols : Append(s) \/ Advance(s)

Spec == Init /\ [][Next]_vars
=============================================================================
