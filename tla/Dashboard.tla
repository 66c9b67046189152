------------------------------ MODULE Dashboard ------------------------------
(***************************************************************************)
(* What the dashboard shows of the agent: the console, and the decisions   *)
(* and the usage that runs leave.  The two share no state.                 *)
(***************************************************************************)
EXTENDS AgentConsole, AgentRecords

vars == <<consoleVars, recordVars>>

TypeOK == ConsoleTypeOK /\ RecordTypeOK

Init == ConsoleInit /\ RecordInit

Next ==
  \/ ConsoleStep /\ UNCHANGED recordVars
  \/ RecordStep /\ UNCHANGED consoleVars

Spec == Init /\ [][Next]_vars
=============================================================================
