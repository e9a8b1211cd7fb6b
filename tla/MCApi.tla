------------------------------- MODULE MCApi -------------------------------
(* Values of the constants of Api for TLC. *)
EXTENDS Api, TLC

CONSTANTS t1, t2, c1, c2, c3

\* One thread answers for candles, the other for the rest.
TwoThreads == [t \in {t1, t2} |-> IF t = t1 THEN {"candles"} ELSE {"symbols", "status", "healthz"}]

\* One connection in the list, one in each thread.
Connections == {c1, c2, c3}

Alike == Permutations(Connections)
=============================================================================
