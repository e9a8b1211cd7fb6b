------------------------------ MODULE Terminal ------------------------------
(* A worker's terminal: MT5Terminal of src/mt5/terminal.py and the terminal   *)
(* program at the other end of its IPC connection.  The module handle a       *)
(* worker holds says nothing of whether the program still runs; only the      *)
(* error of a call, and the probe that follows it, do.  The workers always    *)
(* log in with the same account, so a second login never happens.             *)
EXTENDS Naturals

VARIABLES
  running,    \* the terminal program runs
  handle      \* _mt5 is not None

terminal == <<running, handle>>

\* What a call brings: an answer, None without an error, None with a code of the program's, or
\* None with a code of the IPC (IPC_ERROR_CEILING), which a running program gives on a timeout.
Outcomes == IF running THEN {"answer", "none", "refused", "ipc"} ELSE {"ipc"}

\* connect() trusts the handle it has; without one, initialize starts the program or joins it.
Connect ==
  /\ running' = (running \/ ~handle)
  /\ handle' = TRUE

\* initialize fails: TerminalError, and there is still no handle.
ConnectFails == ~handle /\ UNCHANGED terminal

\* Mistake in Raises: every None is no data.
Never(outcome) == FALSE

\* check_call raises TerminalError.
Raises(outcome) == outcome \in {"refused", "ipc"}

\* terminal_lost of that error.
Lost(outcome) == outcome = "ipc" /\ ~running

\* reset() for a terminal that is lost.
AfterError(outcome) ==
  /\ handle' = (handle /\ ~Lost(outcome))
  /\ UNCHANGED running

ProgramDies ==
  /\ running /\ running' = FALSE
  /\ UNCHANGED handle

TerminalTypeOK == running \in BOOLEAN /\ handle \in BOOLEAN
=============================================================================
