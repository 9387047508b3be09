------------------------------ MODULE WindowSweep ------------------------------
(***************************************************************************)
(* The last stages of analyze_trace: the conflicts of a trace become       *)
(* windows, check_window is called on one after another, and the statuses  *)
(* make the verdict.                                                       *)
(***************************************************************************)
EXTENDS WindowChecker, WindowConstruction

CONSTANTS
  Traces,            \* sets of events
  MaxWindowEvents    \* max_window_events

ASSUME WindowsOfTraces ==
  \A t \in Traces : IsTrace(t) /\ BuildWindows(t, Conflicts(t)) \subseteq Windows

ASSUME TracesAreFinite == \A t \in Traces : IsFiniteSet(t)

VARIABLES
  trace,
  todo,       \* the windows not yet checked
  statuses,   \* of those that are, and "unknown" for one over the limit
  verdict

sweepVars == <<vars, trace, todo, statuses, verdict>>

TooLarge(w) == Cardinality(w) > MaxWindowEvents

SweepInit ==
  /\ trace \in Traces
  /\ LET built == BuildWindows(trace, Conflicts(trace))
     IN  /\ todo = {w \in built : ~ TooLarge(w)}
         /\ statuses = IF \E w \in built : TooLarge(w) THEN {"unknown"} ELSE {}
  /\ verdict = "none"
  /\ window = {} /\ closed \in BOOLEAN
  /\ phase = "idle" /\ pending = {} /\ examined = 0
  /\ status = "none" /\ witness = NoExecution

Between == phase \in {"idle", "done"} /\ verdict = "none"

Take(w) ==
  /\ Between /\ w \in todo
  /\ window' = w /\ todo' = todo \ {w}
  /\ phase' = "screen" /\ pending' = {} /\ examined' = 0
  /\ status' = "none" /\ witness' = NoExecution
  /\ UNCHANGED <<closed, trace, statuses, verdict>>

Work ==
  /\ Screen \/ Timeout \/ OverBudget \/ Exhaust \/ GiveUp \/ Unsat
     \/ \E x \in Executions(window) : Examine(x) \/ Sat(x)
  /\ statuses' = statuses \cup ({status'} \ {"none"})
  /\ UNCHANGED <<trace, todo, verdict>>

Conclude ==
  /\ Between /\ todo = {}
  /\ verdict' = CASE "unknown" \in statuses -> "UNKNOWN"
                  [] "unknown" \notin statuses /\ "counterexample" \in statuses -> "COUNTEREXAMPLE"
                  [] OTHER -> "TRACE_SAFE"
  /\ UNCHANGED <<vars, trace, todo, statuses>>

Concluded == verdict # "none" /\ UNCHANGED sweepVars

SweepNext == (\E w \in todo : Take(w)) \/ Work \/ Conclude \/ Concluded

SweepSpec == SweepInit /\ [][SweepNext]_sweepVars /\ WF_sweepVars(SweepNext)

-----------------------------------------------------------------------------
(***************************************************************************)
(* docs/dynamic/04-portability-check.md, line 9: when all windows are safe *)
(* the trace is.  No execution of the whole trace is one RVWMO allows and  *)
(* x86-TSO forbids, whichever accesses, fences and threads the windows     *)
(* were parted at.                                                         *)
(***************************************************************************)
SafeWindowsSafeTrace ==
  verdict = "TRACE_SAFE" =>
    \A x \in Executions(trace) : RvwmoAllows(trace, x) => TsoAllows(trace, x)

(***************************************************************************)
(* The sweep ends with a verdict: the budget bounds each enumeration, the  *)
(* solver may be cut off by its timeout, and no window is taken twice.     *)
(***************************************************************************)
SweepEnds == <>(verdict # "none")

=============================================================================
