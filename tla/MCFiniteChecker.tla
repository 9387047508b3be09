--------------------------- MODULE MCFiniteChecker ---------------------------
(***************************************************************************)
(* Litmus slices for the static checker.                                   *)
(***************************************************************************)
EXTENDS FiniteChecker, MCWindows, SequencesExt

Orderings ==
  InstructionOrdering @@
  [CREATE |-> <<"Unknown", "Release">>, JOIN |-> <<"Unknown", "Acquire">>,
   ACQUIRE |-> <<"Unknown", "Acquire">>, RELEASE |-> <<"Unknown", "Release">>,
   BARRIER |-> <<"Full", "AcqRel">>, OPAQUE |-> <<"Unknown", "Unknown">>]

Lock == <<"ACQUIRE">>
Unlock == <<"RELEASE">>
Barrier == <<"BARRIER">>
Start == <<"CREATE">>
Join == <<"JOIN">>
Opaque == <<"OPAQUE">>

\* Instruction s of thread t; bases are the names of the places.
StaticEvent(t, s, i) ==
  Event(t, s, i) @@
  [base |-> IF IsFence(i) THEN "none" ELSE IF i[2] \in {"xl", "xh", "xy"} THEN "x" ELSE i[2],
   src |-> Orderings[i[1]][1], tgt |-> Orderings[i[1]][2], deps |-> {}, whole |-> TRUE]

E(program, t, s) == StaticEvent(t, s, program[t][s])

SliceOf(program) ==
  [events |-> UNION {{E(program, t, s) : s \in DOMAIN program[t]} : t \in DOMAIN program},
   order |-> UNION {{<<E(program, t, s - 1), E(program, t, s)>> : s \in 2 .. Len(program[t])} : t \in DOMAIN program},
   sync |-> {}]

Edge(a, b) == [from |-> a, to |-> b, complete |-> TRUE]

\* The second thread is created, joined, or the callback of a region, at place i.
Created(p, i) == [SliceOf(p) EXCEPT !.sync = {Edge(E(p, 1, i), E(p, 2, 1))}]
Joined(p, i)  == [SliceOf(p) EXCEPT !.sync = {Edge(E(p, 2, Len(p[2])), E(p, 1, i))}]
Region(p, i)  == [SliceOf(p) EXCEPT !.sync = {Edge(E(p, 1, i), E(p, 2, 1)), Edge(E(p, 2, Len(p[2])), E(p, 1, i))}]

\* Dependencies are not recovered, or the last instruction depends on the first.
Unresolved(p) ==
  LET open(e) == [e EXCEPT !.whole = FALSE]
      s == SliceOf(p)
  IN  [s EXCEPT !.events = {open(e) : e \in s.events}, !.order = {<<open(o[1]), open(o[2])>> : o \in s.order}]
Depending(p) ==
  LET tied(e) == IF e.seq = 2 THEN [e EXCEPT !.deps = {1}] ELSE e
      s == SliceOf(p)
  IN  [s EXCEPT !.events = {tied(e) : e \in s.events}, !.order = {<<tied(o[1]), tied(o[2])>> : o \in s.order}]

LB == << <<R("x"), W("y")>>, <<R("y"), W("x")>> >>
Publish == << <<W("y"), Start, R("z")>>, <<R("y")>> >>
Collects == << <<Join, R("x")>>, <<W("x")>> >>
MP == << <<W("x"), W("y")>>, <<R("y"), R("x")>> >>
Rewritten == << <<W("x"), R("x"), W("y")>>, <<R("y"), W("x"), R("x")>> >>
Twice == << <<Barrier>>, <<W("x"), W("y")>> >>

\* A worker is joined, another created.
Successive ==
  LET p == << <<Join, Start>>, <<R("y")>>, <<W("y")>> >>
  IN  [SliceOf(p) EXCEPT !.sync = {Edge(E(p, 2, 1), E(p, 1, 1)), Edge(E(p, 1, 2), E(p, 3, 1))}]

LitmusSlices ==
  {SliceOf(p) : p \in SmallPrograms(<<R("x"), R("y"), W("x"), W("y")>>)}

OddSlices ==
  {Unresolved(LB), Unresolved(Rewritten), Unresolved(MP), Depending(LB), Created(Publish, 2), Joined(Collects, 1),
   Created(<< <<W("x"), Start>>, <<W("y"), R("x")>> >>, 2),
   Region(<< <<W("x"), Barrier, R("y")>>, <<W("y")>> >>, 2),
   [Created(Publish, 2) EXCEPT !.sync = {[o EXCEPT !.complete = FALSE] : o \in @}],
   [SliceOf(LB) EXCEPT !.order = {}],
   [SliceOf(LB) EXCEPT !.order = @ \cup {<<o[2], o[1]>> : o \in @}],
   [SliceOf(LB) EXCEPT !.order = @ \cup {<<E(LB, 1, 1), E(<< <<W("z")>> >>, 1, 1)>>}],
   SliceOf(<< <<Opaque, W("x")>>, <<R("x")>> >>),
   SliceOf(<< <<W("xl"), W("x")>>, <<R("x")>> >>),
   SliceOf(<< <<W("xy")>>, <<R("x")>> >>),
   SliceOf(<< <<Lock, W("x"), W("y"), Unlock>>, <<Lock, R("y"), R("x"), Unlock>> >>),
   SliceOf(<< <<W("x"), Lock, R("y"), Unlock>>, <<W("y"), Lock, R("x"), Unlock>> >>),
   Created(<< <<W("x"), W("y"), Start>>, <<MF, R("y"), R("x")>> >>, 3),
   Created(<< <<R("y"), W("x"), Start, W("x")>>, <<RMW("y"), R("x")>> >>, 3),
   Joined(<< <<W("x"), Join, R("x"), R("y")>>, <<W("x"), W("y"), MF>> >>, 2),
   Successive}

RegionSlices == {Region(Twice, 1)}
CheckedSlices == LitmusSlices \cup OddSlices
  \cup {SliceOf(p) : p \in {q \in Litmus : \A t \in DOMAIN q : \A i \in DOMAIN q[t] : q[t][i][1] # "FUTEX_WAIT"} \cup Forwarding \cup LoadFenced}

=============================================================================
