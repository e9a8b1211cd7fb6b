---------------------------- MODULE OneTerminal ----------------------------
(* What the supervisor promises the terminals, however its workers behave:    *)
(* "One terminal per OS process, no exceptions" (README.md:18).  A worker     *)
(* process is started only when none of that worker is left; it may end at    *)
(* any time.  Supervisor is shown to implement this specification, processes  *)
(* it failed to end not counted.                                              *)
EXTENDS Naturals

CONSTANT Workers

VARIABLES alive,    \* <<worker, number>>: the worker processes that exist
          last      \* worker -> number of its last process

vars == <<alive, last>>

Init == alive = {} /\ last = [w \in Workers |-> 0]

\* The numbers tell the processes of a worker apart.
Start(w) ==
  /\ \A p \in alive : p[1] # w
  /\ last' = [last EXCEPT ![w] = @ + 1]
  /\ alive' = alive \cup {<<w, last[w] + 1>>}

End(p) ==
  /\ alive' = alive \ {p}
  /\ UNCHANGED last

Next == (\E w \in Workers : Start(w)) \/ (\E p \in alive : End(p))

Spec == Init /\ [][Next]_vars
=============================================================================
