--------------------------- MODULE WindowChecker ---------------------------
(***************************************************************************)
(* check_window: decide for one window whether RVWMO permits an execution  *)
(* that x86-TSO forbids.  Small windows are enumerated, one execution a    *)
(* step and in any order, under a budget and a deadline; the others, and   *)
(* those that outgrow the budget, go to the solver, which may give up.     *)
(***************************************************************************)
EXTENDS CheckedWindow

CONSTANTS
  MaxExecutions,   \* max_executions
  MaxMemory,       \* 12 in the code: more accesses are not enumerated
  MaxGroup         \* 6 in the code: nor are more writes of one place

ASSUME BudgetIsNatural == MaxExecutions \in Nat

ASSUME ExecutionsAreFinite == \A E \in Windows : IsFiniteSet(Executions(E))

VARIABLES
  closed,     \* control_flow_closed: the trace proves its control skeleton
  phase,      \* "screen", "enumerate", "symbolic" or "done"
  pending,    \* the executions the loops have yet to produce
  examined,
  status,     \* WindowResult.status, "none" before the end
  witness     \* the candidate reported

vars == <<window, closed, phase, pending, examined, status, witness>>

Statuses == {"safe", "unknown", "counterexample"}

TypeOK ==
  /\ window \in Windows
  /\ closed \in BOOLEAN
  /\ phase \in {"screen", "enumerate", "symbolic", "done"}
  /\ pending \subseteq Executions(window)
  /\ examined \in 0 .. MaxExecutions
  /\ status \in Statuses \cup {"none"}
  /\ witness \in Executions(window) \cup {NoExecution}
  /\ phase = "done" <=> status # "none"

Init ==
  /\ window \in Windows
  /\ closed \in BOOLEAN
  /\ phase = "screen"
  /\ pending = {}
  /\ examined = 0
  /\ status = "none"
  /\ witness = NoExecution

-----------------------------------------------------------------------------
MixedWrites(E) ==
  {e \in Writes(E) \X Writes(E) : Overlaps(e[1], e[2]) /\ Location(e[1]) # Location(e[2])}

PartialReads(E) ==
  {r \in Reads(E) : \E w \in Writes(E) : Overlaps(w, r) /\ ~ Covers(w, r)}

\* Mixed-width atomics are refused before anything is enumerated.
Unsupported(E) ==
  \/ \E e \in MixedWrites(E) : IsAtomic(e[1]) \/ IsAtomic(e[2])
  \/ \E r \in PartialReads(E) : IsAtomic(r)

NeedsSolver(E) ==
  \/ MixedWrites(E) # {}
  \/ PartialReads(E) # {}
  \/ Cardinality({e \in E : IsMemory(e)}) > MaxMemory
  \/ \E a \in Writes(E) :
        Cardinality({b \in Writes(E) : Location(b) = Location(a)}) > MaxGroup
  \/ Cardinality(CoherenceOrders(E)) > MaxExecutions

Finish(verdict, x) ==
  /\ phase' = "done"
  /\ status' = verdict
  /\ witness' = x

\* Mutant: the recorded values are not compared.
VerdictAnyValues(x) == IF closed THEN "counterexample" ELSE "unknown"

\* A candidate counts as a counterexample only on a closed control skeleton
\* and with the values the trace recorded.
Verdict(x) ==
  IF closed /\ ValuesMatch(window, x) THEN "counterexample" ELSE "unknown"

-----------------------------------------------------------------------------
Screen ==
  /\ phase = "screen"
  /\ \/ /\ Unsupported(window)
        /\ Finish("unknown", NoExecution)
        /\ UNCHANGED pending
     \/ /\ ~ Unsupported(window) /\ NeedsSolver(window)
        /\ phase' = "symbolic"
        /\ UNCHANGED <<pending, status, witness>>
     \/ /\ ~ Unsupported(window) /\ ~ NeedsSolver(window)
        /\ phase' = "enumerate"
        /\ pending' = Executions(window)
        /\ UNCHANGED <<status, witness>>
  /\ UNCHANGED <<window, closed, examined>>

\* Mutants: out of budget and still safe; the enumeration starts over.
OverBudgetSafe ==
  /\ phase = "enumerate" /\ pending # {} /\ examined = MaxExecutions
  /\ Finish("safe", NoExecution)
  /\ UNCHANGED <<window, closed, pending, examined>>

OverBudgetRestart ==
  /\ phase = "enumerate" /\ pending # {} /\ examined = MaxExecutions
  /\ examined' = 0 /\ pending' = Executions(window)
  /\ UNCHANGED <<window, closed, phase, status, witness>>

\* The deadline is tested before every execution.
Timeout ==
  /\ phase = "enumerate" /\ pending # {}
  /\ Finish("unknown", NoExecution)
  /\ UNCHANGED <<window, closed, pending, examined>>

OverBudget ==
  /\ phase = "enumerate" /\ pending # {}
  /\ examined = MaxExecutions
  /\ phase' = "symbolic"
  /\ UNCHANGED <<window, closed, pending, examined, status, witness>>

Examine(x) ==
  /\ phase = "enumerate" /\ x \in pending
  /\ examined < MaxExecutions
  /\ examined' = examined + 1
  /\ pending' = pending \ {x}
  /\ IF TargetOnly(window, x)
       THEN Finish(Verdict(x), x)
       ELSE UNCHANGED <<phase, status, witness>>
  /\ UNCHANGED <<window, closed>>

\* Both loops ran out.
Exhaust ==
  /\ phase = "enumerate" /\ pending = {}
  /\ Finish("safe", NoExecution)
  /\ UNCHANGED <<window, closed, pending, examined>>

\* _check_symbolic: the formula is too large or late, or the solver says
\* unknown; it is unsatisfiable; or it has a model.
Models(E) == {x \in Executions(E) : SymbolicTargetOnly(E, x)}

GiveUp ==
  /\ phase = "symbolic"
  /\ Finish("unknown", NoExecution)
  /\ UNCHANGED <<window, closed, pending, examined>>

Unsat ==
  /\ phase = "symbolic"
  /\ Models(window) = {}
  /\ Finish("safe", NoExecution)
  /\ UNCHANGED <<window, closed, pending, examined>>

Sat(x) ==
  /\ phase = "symbolic" /\ x \in Models(window)
  /\ Finish(Verdict(x), x)
  /\ UNCHANGED <<window, closed, pending, examined>>

Done == phase = "done" /\ UNCHANGED vars

Next ==
  \/ Screen \/ Timeout \/ OverBudget \/ Exhaust \/ GiveUp \/ Unsat \/ Done
  \/ \E x \in Executions(window) : Examine(x) \/ Sat(x)

Spec == Init /\ [][Next]_vars /\ WF_vars(Next)

-----------------------------------------------------------------------------
(***************************************************************************)
(* "safe" means that nothing was skipped: whichever engine closed the      *)
(* window, after whatever part of the enumeration, no execution of it is   *)
(* target-only (docs/dynamic/04-portability-check.md).                     *)
(***************************************************************************)
SafeLeavesNothing ==
  status = "safe" => \A x \in Executions(window) : ~ TargetOnly(window, x)

(***************************************************************************)
(* What the verdict promises (docs/spec/soundness.md, section 2): in a     *)
(* safe window every execution RVWMO allows is one x86-TSO allows.         *)
(***************************************************************************)
SafeMeansInclusion ==
  status = "safe" =>
     \A x \in Executions(window) : RvwmoAllows(window, x) => TsoAllows(window, x)

(***************************************************************************)
(* The other promise: a counterexample is rejected by x86-TSO and returns  *)
(* to every load the bytes the trace saw it return.                        *)
(***************************************************************************)
CounterexampleIsForbidden ==
  status = "counterexample" =>
     /\ ~ TsoAllows(window, witness)
     /\ \A p \in ReadParts(window) : \A b \in p.addr .. End(p) - 1 :
           \E w \in Writes(window) : /\ w = witness.rf[p]
                                     /\ w.known /\ p.read.known
                                     /\ w.data[b] = p.read.data[b]

(***************************************************************************)
(* And the third: a counterexample is an execution RVWMO allows.           *)
(***************************************************************************)
CounterexampleIsPossible ==
  status = "counterexample" => RvwmoAllows(window, witness)

(***************************************************************************)
(* The verdict is final, and an enumeration that hit its budget or its     *)
(* deadline before the last execution never ends it with "safe" by itself. *)
(***************************************************************************)
NoEarlySafe ==
  [][ (phase = "enumerate" /\ status' = "safe") =>
        examined = Cardinality(Executions(window)) ]_vars

=============================================================================
