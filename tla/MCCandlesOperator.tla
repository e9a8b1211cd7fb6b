------------------------- MODULE MCCandlesOperator -------------------------
(* Values of the constants of CandlesOperator for TLC.                        *)
EXTENDS MCCandlesWorker, CandlesOperator

\* The first symbol has a bar in every minute.  Both trade on the day of the start date; the day
\* after it is one of trading for the first only (see Closed).
Traded == [s \in Symbols |-> IF s = 1 THEN 0 .. 3 ELSE Closed[s]]
=============================================================================
