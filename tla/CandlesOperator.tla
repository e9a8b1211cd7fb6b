-------------------------- MODULE CandlesOperator --------------------------
(* The candles worker beside an operator who rewinds a watermark by hand, the *)
(* way README.md:108-114 describes: delete a range of candles, put sync_state *)
(* back to its start, let the next pass refill the range.                     *)
EXTENDS CandlesProperties

CONSTANT RewindWhileRunning   \* the operator does not wait for the loop to rest

ASSUME OperatorAssumption == RewindWhileRunning \in BOOLEAN

VARIABLE rewound   \* symbol -> minutes deleted by the operator and not yet stored again

operatorVars == <<vars, rewound>>

\* DELETE FROM candles WHERE ts > to AND ts < until; INSERT INTO sync_state ... to.
Rewind(s) ==
  /\ RewindWhileRunning \/ pc \in {"top", "rest"}
  /\ \E to \in stored[s], until \in 0 .. now :
       LET range == {m \in stored[s] : to < m /\ m < until}
       IN  /\ to < mark[s] /\ range # {}
           /\ stored' = [stored EXCEPT ![s] = @ \ range]
           /\ mark' = [mark EXCEPT ![s] = to]
           /\ rewound' = [rewound EXCEPT ![s] = @ \cup range]
  /\ UNCHANGED <<env, faults, db, pc, memory, phase, job, received>>

OperatorInit == Init /\ rewound = [s \in Symbols |-> {}]

OperatorNext ==
  \/ Next /\ rewound' = [s \in Symbols |-> rewound[s] \ stored'[s]]
  \/ \E s \in Symbols : Rewind(s)

OperatorSpec == OperatorInit /\ [][OperatorNext]_operatorVars

\* Against a prompt terminal, and with an operator who waits for the loop to rest, no number of
\* errors and crashes, wherever they fall, leaves a hole: of the bars a backfill reaches, none
\* before the newest candle is missing but those the operator deleted and no pass has stored again.
HolesAreRewound ==
  \A s \in Symbols : \A n \in stored[s] : \A m \in Wanted(s) :
    m <= n => m \in stored[s] \cup rewound[s]

\* "An operator can deliberately rewind one and have the next pass refill a gap"
\* (README.md:108): as long as a deleted minute is missing, the watermark is before it, so
\* that the passes, which only move forward from the watermark, still come to it.
RewoundIsAhead == \A s \in Symbols : \A m \in rewound[s] : mark[s] < m
=============================================================================
