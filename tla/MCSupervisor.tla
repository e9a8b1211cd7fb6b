---------------------------- MODULE MCSupervisor ----------------------------
(* The supervisor with the two children build() registers.                    *)
EXTENDS Supervisor

TwoWorkers == <<"candles", "price">>
=============================================================================
