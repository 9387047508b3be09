--------------------------- MODULE CheckedWindow ---------------------------
(***************************************************************************)
(* The window at hand: the events that the checker decides over, and that  *)
(* the machine of the reference model runs.                                *)
(***************************************************************************)
EXTENDS MemoryModels

CONSTANTS
  Windows,       \* the sets of events that a window may hold
  NoExecution

ASSUME WindowsAreTraces == \A E \in Windows : IsTrace(E)

ASSUME NoExecutionIsNone == \A E \in Windows : NoExecution \notin Executions(E)

VARIABLE window

=============================================================================
