-------------------------- MODULE MCCandlesWorker --------------------------
(* Values of the constants of CandlesWorker for TLC. *)
EXTENDS CandlesProperties

Everything(minutes) == [s \in Symbols |-> minutes]

None == Everything({})

\* Bars with a gap for the first symbol, a single late bar for the others.
Sparse == [s \in Symbols |-> IF s = 1 THEN {0, 1, 3} ELSE {1}]

\* Days of two minutes that open one minute before those of UTC.  Both symbols trade on the day
\* of the start date; the day after it is one of trading for the first only.
Closed == [s \in Symbols |-> IF s = 1 THEN {0, 1, 3} ELSE {0, 3}]

\* Trading in every minute.
Busy == Everything(0 .. 3)

\* A bar, then a long silence, then bars again.
Silence == Everything({0, 3})

\* What an earlier version left in the store: for the first symbol only.
FirstOnly == [s \in Symbols |-> IF s = 1 THEN {0} ELSE {}]
=============================================================================
