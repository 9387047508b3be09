-------------------------- MODULE MCWindowChecker --------------------------
(***************************************************************************)
(* Traces with few executions, so that every order of the loops is         *)
(* explored; some windows have more executions than the budget, or more    *)
(* accesses, and go to the solver, and some traces fall into windows.      *)
(***************************************************************************)
EXTENDS WindowSweep, MCWindows

\* No two-sided forwarding, no fence that orders loads only, no mixed widths.
OneWindow == {
  << <<W("x"), R("y")>>, <<W("y"), R("x")>> >>,
  << <<W("x"), MF, R("y")>>, <<W("y"), R("x")>> >>,
  << <<W("x"), W("y")>>, <<R("y"), R("x")>> >>,
  << <<W("x"), W("y")>>, <<R("y"), R0("x")>> >>,
  << <<W("x"), SF, W("y")>>, <<R("y"), MF, R("x")>> >>,
  << <<W("x"), SF, W("y")>>, <<R("y"), R("x")>> >>,
  << <<RMW("x")>>, <<R("x"), R("x"), R("x")>> >>,                         \* over the budget
  << <<W("x"), MF, W("y")>>, <<R("y"), MF, R("x"), R("y")>> >>,           \* too many accesses
  << <<W("x")>>, <<R("x"), W("y")>>, <<R("y"), MF, R("x")>> >>,
  << <<W("x"), RMW("y"), R("z")>>, <<W("z"), RMW("v"), R("x")>> >>,
  << <<RMW("xl")>>, <<W("x")>> >>,                                        \* refused
  << <<R("x"), W("y")>>, <<R("y"), W("x")>> >>,
  << <<R0("x"), W("y")>>, <<R("y"), W("x")>> >>,
  << <<R("x"), MF, W("y")>>, <<R("y"), MF, W("x")>> >>,
  << <<W("x")>>, <<R("x"), R("x")>> >>,
  << <<W("x"), W("y")>>, <<W("y"), W("x")>> >>,
  << <<W("x"), MF, W("y")>>, <<Wait("y"), R("x")>> >>,
  << <<RMW("x"), R("y")>>, <<W("y"), R("x")>> >>,
  << <<W("x"), W("x")>>, <<W("x")>> >> }

\* A chain through three threads, fences and atomics across a cut, two places
\* that have no thread in common, an access that nobody meets, one event too many.
Parted == {
  << <<W("x")>>, <<R("x"), W("y")>>, <<R("y")>> >>,
  << <<W("x"), W("y")>>, <<R("x")>>, <<R("y")>> >>,
  << <<W("x"), MF, R("y")>>, <<W("y"), MF, R("x"), R("z")>>, <<W("z")>> >>,
  << <<W("x"), W("z"), MF, R("y")>>, <<W("y"), MF, R("x")>>, <<R("z")>> >>,
  << <<W("x"), RMW("z"), R("y")>>, <<W("y"), MF, R("x")>>, <<R("z")>> >>,
  << <<W("x")>>, <<R("x")>>, <<W("y")>>, <<R("y")>> >>,
  << <<R("x"), W("v"), W("y")>>, <<R("y"), W("x")>> >>,
  << <<R("x"), MF, SF, MF, W("y")>>, <<R("y"), LF, W("x"), MF>>, <<W("z")>> >>,
  << <<W("x"), MF, R("y"), W("x")>>, <<W("y"), MF, R("x")>> >> }

SweptTraces == {Window(p) : p \in OneWindow \cup Parted}
LateStoreTraces == {Window(LateStore)}

WindowsOf(traces) == UNION {BuildWindows(t, Conflicts(t)) : t \in traces}
SweptWindows == WindowsOf(SweptTraces)
LateStoreWindows == WindowsOf(LateStoreTraces)

=============================================================================
