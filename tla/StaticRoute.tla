----------------------------- MODULE StaticRoute ------------------------------
(***************************************************************************)
(* The static route from the library up: recover of application.py         *)
(* summarises the pthread library, the program under analysis is bound to  *)
(* the summaries, and the stages of StaticAnalysis follow.  A trial runs a *)
(* function of the library instead, against what was said about it.        *)
(***************************************************************************)
EXTENDS StaticAnalysis, SyncSummary

CONSTANTS
  Cases,       \* pairs of a program and a library
  MaxDepth     \* bound: calls a trial is nested

ASSUME LibrariesAreRecovered == \A c \in Cases : IsLibrary(c[2])
\* Whatever the library turns out to order, the program is one of those under analysis.
ASSUME CasesAreRecovered == \A c \in Cases, b \in BOOLEAN : [c[1] EXCEPT !.synced = b] \in Programs

ASSUME DepthPositive == MaxDepth \in Nat \ {0}

VARIABLES
  lib,
  provided,     \* what the API's events order
  trial,        \* the places of a run of the library, innermost first
  collected     \* what it has ordered so far

library == <<lib, provided, trial, collected>>
routeVars == <<vars, library>>

RouteInit ==
  /\ \E c \in Cases : prog = c[1] /\ lib = c[2]
  /\ application \in BOOLEAN
  /\ stage = "opened" /\ provided = Unknown
  /\ events = {} /\ order = {} /\ open = {} /\ slice = NoSlice
  /\ shared = [proofs |-> {}, locks |-> <<>>, removed |-> {}, unknowns |-> {}]
  /\ verdict = "none"
  /\ threads = [t \in Threads |-> Nobody] /\ held = {}
  /\ trial = <<>> /\ collected = Relaxed

\* Library and roles are recovered before any event is extracted.
RecoverLibrary ==
  /\ stage = "opened" /\ stage' = "recovered"
  /\ provided' = Provided(lib)
  /\ prog' = [prog EXCEPT !.synced = provided' # Unknown]
  /\ UNCHANGED <<application, events, order, shared, slice, open, verdict, run, lib, trial, collected>>

-----------------------------------------------------------------------------
(* A run of the library: a processor that knows no functions.                *)

Try ==
  /\ stage = "recovered" /\ stage' = "trial"
  /\ \E f \in lib.versions : trial' = <<<<f, 1>>>>
  /\ UNCHANGED <<prog, application, events, order, shared, slice, open, verdict, run, lib, provided, collected>>

Top == Head(trial)
Executed == lib.code[Top[1]][Top[2]]

\* Where the instruction leads, as the whole stack.
Continued ==
  LET i    == Executed
      past == <<<<Top[1], Top[2] + 1>>>> \o Tail(trial)
      into == IF i.to \in DOMAIN lib.code THEN <<<<i.to, 1>>>> ELSE <<>>
  IN  CASE i.op = "return" -> {Tail(trial)}
        [] i.op \in {"call", "icall"} -> {into \o past}
        [] i.op \in {"tail", "ijump"} -> {into \o Tail(trial)}
        [] i.op = "tailif" -> {into \o Tail(trial), past}
        [] i.op = "goto" -> {<<<<Top[1], i.to>>>> \o Tail(trial)}
        [] i.op = "jump" -> {<<<<Top[1], i.to>>>> \o Tail(trial), past}
        [] OTHER -> {past}

\* A place outside the function is code that nobody has recovered: the trial is off.
TrialStep ==
  /\ stage = "trial" /\ trial # <<>>
  /\ Top[2] \in DOMAIN lib.code[Top[1]]
  /\ collected' = collected \cup Added(lib, Executed)
  /\ trial' \in {s \in Continued : Len(s) <= MaxDepth}
  /\ UNCHANGED <<vars, lib, provided>>

RouteNext ==
  \/ RecoverLibrary \/ Try \/ TrialStep
  \/ Next /\ UNCHANGED library

RouteSpec == RouteInit /\ [][RouteNext]_routeVars

-----------------------------------------------------------------------------
(***************************************************************************)
(* pthread.py, line 335: the target ordering is what all return paths have *)
(* in common, and no weak path hides behind a stronger one.  Whenever the  *)
(* API counts as an ordering and not as an opaque call, every return of    *)
(* every version of it has collected what is claimed, through calls, tail  *)
(* jumps, loops and system calls, unless the spec overrode the summary for *)
(* this library.                                                           *)
(***************************************************************************)
OrderingIsCollected ==
  /\ stage = "trial" /\ trial = <<>> /\ provided # Unknown
  /\ \A f \in lib.versions : ~ SummaryOf(lib, f).overridden
  => provided \subseteq collected

=============================================================================
