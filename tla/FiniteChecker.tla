---------------------------- MODULE FiniteChecker ----------------------------
(***************************************************************************)
(* check_finite_portability of encoding.py: for a slice that conflicts     *)
(* remain in, one solver proposes executions that the target model accepts,*)
(* each once, another says whether x86-TSO accepts the same one.  The      *)
(* ranks of a formula exist exactly when its edges form no cycle.          *)
(*                                                                         *)
(* A slice is a record [events, order, sync].  An event has, besides the   *)
(* fields of an event of a trace, the base of its address ("none" when it  *)
(* is not a known global), its orderings src and tgt, the events deps it   *)
(* depends on, by number, and whole: whether these are all.                *)
(***************************************************************************)
EXTENDS MemoryModels

CONSTANTS
  Slices,
  MaxEvents, MaxThreads, MaxExecutions,   \* CheckerLimits
  NoExecution

ASSUME InitialIsNoEvent == \A s \in Slices : Initial \notin s.events

ASSUME LimitsAreNatural == {MaxEvents, MaxThreads, MaxExecutions} \subseteq Nat

VARIABLES
  slice,
  phase,        \* "validate", "solve" or "done"
  excluded,     \* the executions that blocking clauses rule out
  examined,
  conclusion,   \* CheckerConclusion, "none" before the end
  witness

vars == <<slice, phase, excluded, examined, conclusion, witness>>

Init ==
  /\ slice \in Slices
  /\ phase = "validate" /\ conclusion = "none"
  /\ excluded = {} /\ examined = 0 /\ witness = NoExecution

-----------------------------------------------------------------------------
(* _validate_supported_slice                                                 *)

SyncKinds == {"CREATE", "JOIN", "ACQUIRE", "RELEASE", "BARRIER"}

ThreadsOf(s) == {e.thread : e \in s.events}

\* _program_order_closure
Closure(s) ==
  LET upto[k \in Nat] ==
        IF k = 0 THEN s.order
        ELSE LET r == upto[k - 1]
             IN  r \cup {<<p[1][1], p[2][2]>> : p \in {q \in r \X s.order : q[1][2] = q[2][1]}}
  IN  upto[Cardinality(s.events)]

\* An aligned global of one, two, four or eight bytes.
Exact(e) == e.base # "none" /\ e.size \in {1, 2, 4, 8} /\ e.addr % e.size = 0

UnsupportedSlice(s) ==
  LET po == Closure(s) IN
  \/ Cardinality(s.events) > MaxEvents \/ Cardinality(ThreadsOf(s)) > MaxThreads
  \/ \E e \in s.events : IF IsMemory(e) THEN ~ Exact(e)
                         ELSE e.kind \notin SyncKinds \cup {"LFENCE", "SFENCE", "MFENCE"}
  \/ \E a, b \in {e \in s.events : IsMemory(e)} :
       a.base = b.base /\ Overlaps(a, b) /\ Location(a) # Location(b)
  \/ \E o \in s.order : ~ {o[1], o[2]} \subseteq s.events
  \/ \E o \in s.sync : ~ o.complete \/ ~ {o.from, o.to} \subseteq s.events
  \/ \E e \in s.events : <<e, e>> \in po
  \/ \E a, b \in s.events : a # b /\ a.thread = b.thread /\ {<<a, b>>, <<b, a>>} \cap po = {}

\* _event_ordering: what an instruction orders, on x86 and once translated.
InstructionOrdering ==
  [LOAD |-> <<"Tso", "Relaxed">>, STORE |-> <<"Tso", "Relaxed">>, ATOMIC_RMW |-> <<"Full", "AcqRel">>,
   LFENCE |-> <<"FenceRR", "FenceRR">>, SFENCE |-> <<"FenceWW", "FenceWW">>, MFENCE |-> <<"Full", "Full">>]

\* What the extraction makes: the events of a thread are numbered along its
\* order, distinct globals are apart, and an edge of a creation or a join is
\* complete only where the library was found to order enough.
Extracted(s) ==
  /\ IsFiniteSet(s.events) /\ IsTrace(s.events)
  /\ s.order \subseteq {p \in s.events \X s.events : Before(p[1], p[2])}
  /\ \A a, b \in s.events : IsMemory(a) /\ IsMemory(b) /\ Overlaps(a, b) => a.base = b.base
  /\ \A e \in s.events :
       /\ e.kind # "FUTEX_WAIT"
       /\ e.kind \in DOMAIN InstructionOrdering => <<e.src, e.tgt>> = InstructionOrdering[e.kind]
  /\ \A o \in s.sync :
       /\ o.from.kind = "CREATE" => o.from.tgt \in {"Release", "AcqRel", "Full"}
       /\ o.to.kind = "JOIN" => o.to.tgt \in {"Acquire", "AcqRel", "Full"}

ASSUME SlicesAreExtracted == \A s \in Slices : UnsupportedSlice(s) \/ Extracted(s)

-----------------------------------------------------------------------------
(* _ordering_edges                                                           *)

SameObject(a, b) == a.base = b.base /\ Location(a) = Location(b)

Strength(e, model) ==
  LET given == IF model = "x86" THEN e.src ELSE e.tgt
  IN  CASE e.kind = "BARRIER" \/ (e.kind = "ATOMIC_RMW" /\ model = "x86") -> "Full"
        [] e.kind = "ACQUIRE" /\ given = "Unknown" -> "Acquire"
        [] e.kind = "RELEASE" /\ given = "Unknown" -> "Release"
        [] OTHER -> given

\* Mutant: a full fence waits for loads only.
OrdersBeforeLoads(strength, e) ==
  \/ strength \in {"Release", "AcqRel"} /\ IsMemory(e)
  \/ strength \in {"FenceRR", "FenceRW", "Full"} /\ IsRead(e)
  \/ strength \in {"FenceWW", "FenceWR"} /\ IsWrite(e)

OrdersBefore(strength, e) ==
  \/ strength \in {"Release", "AcqRel", "Full"} /\ IsMemory(e)
  \/ strength \in {"FenceRR", "FenceRW"} /\ IsRead(e)
  \/ strength \in {"FenceWW", "FenceWR"} /\ IsWrite(e)

OrdersAfter(strength, e) ==
  \/ strength \in {"Acquire", "AcqRel", "Full"} /\ IsMemory(e)
  \/ strength \in {"FenceRR", "FenceWR"} /\ IsRead(e)
  \/ strength \in {"FenceRW", "FenceWW"} /\ IsWrite(e)

PureStore(e) == IsWrite(e) /\ ~ IsRead(e)
PureLoad(e)  == IsRead(e) /\ ~ IsWrite(e)

\* Mutants: a load may pass a load; nothing passes anything.
X86KeepsLoose(a, b) == ~ (PureStore(a) /\ PureLoad(b)) /\ ~ (PureLoad(a) /\ PureLoad(b))

X86KeepsAll(a, b) == IsMemory(a) \/ IsMemory(b)

\* Everything but a store and a later load, the fences included.
X86Keeps(a, b) == ~ (PureStore(a) /\ PureLoad(b))

\* A load and a later store may depend on each other as long as nobody has
\* recovered the dependencies of the store.
RvwmoKeeps(a, b) ==
  /\ IsMemory(a) /\ IsMemory(b)
  /\ SameObject(a, b) \/ (IsRead(a) /\ IsWrite(b) /\ ~ b.whole)

FixedEdges(s, model) ==
  LET po == Closure(s)
      bound == {p \in po : \/ OrdersBefore(Strength(p[2], model), p[1])
                           \/ OrdersAfter(Strength(p[1], model), p[2])}
  IN  bound \cup {<<o.from, o.to>> : o \in s.sync}
      \cup (IF model = "x86" THEN {p \in po : X86Keeps(p[1], p[2])}
            ELSE {p \in po : RvwmoKeeps(p[1], p[2])}
                 \cup {p \in po : p[1].seq \in p[2].deps})

-----------------------------------------------------------------------------
(* _build_encoding: the choices of the solver, and what a model asks of them.*)

StoresOf(s, r) == {w \in Writes(s.events) : SameObject(w, r) /\ w # r}

Assignments(s) ==
  LET reads == Reads(s.events)
      pairs == {p \in Writes(s.events) \X Writes(s.events) : p[1] # p[2] /\ SameObject(p[1], p[2])}
  IN  [rf : {f \in [reads -> Writes(s.events) \cup {Initial}] :
               \A r \in reads : f[r] \in StoresOf(s, r) \cup {Initial}},
       co : {c \in SUBSET pairs : \A p \in pairs : p \in c <=> <<p[2], p[1]>> \notin c}]

Reading(s, x) == {<<x.rf[r], r>> : r \in {q \in Reads(s.events) : x.rf[q] # Initial}}

Overwriting(s, x) ==
  UNION {{<<r, w>> : w \in {v \in StoresOf(s, r) : x.rf[r] = Initial \/ <<x.rf[r], v>> \in x.co}} :
           r \in Reads(s.events)}

\* Nothing comes between an atomic and the store it reads.
AtomicAdjacent(s, x) ==
  \A r \in {q \in Reads(s.events) : IsAtomic(q) /\ x.rf[q] # Initial} :
    ~ \E w \in StoresOf(s, r) : <<x.rf[r], w>> \in x.co /\ <<w, r>> \in x.co

Solves(s, model, x) ==
  /\ AtomicAdjacent(s, x)
  /\ Acyclic(s.events, FixedEdges(s, model) \cup Reading(s, x) \cup x.co \cup Overwriting(s, x))

-----------------------------------------------------------------------------
(* find_publication_risks of risk.py, which screens every slice whatever the *)
(* checker concludes.                                                        *)

\* Mutant of RiskBarriers: fences do not count.
AtomicsAndLocks == {"ATOMIC_RMW", "ACQUIRE", "RELEASE", "BARRIER"}

RiskBarriers == {"ATOMIC_RMW", "ACQUIRE", "RELEASE", "BARRIER", "LFENCE", "SFENCE", "MFENCE"}

\* Pairs of one role, to two objects, with no barrier on a path between them.
Unblocked(s, E) ==
  LET po == Closure(s)
  IN  {p \in E \X E :
         /\ p[1].thread = p[2].thread /\ p \in po /\ ~ SameObject(p[1], p[2])
         /\ {p[1].base, p[2].base} \cap {"none"} = {}
         /\ ~ \E e \in s.events :
              e.kind \in RiskBarriers /\ <<p[1], e>> \in po /\ <<e, p[2]>> \in po}

\* W(payload), W(flag) in one role, R(flag), R(payload) in another.
PublicationRisks(s) ==
  {p \in Unblocked(s, {e \in s.events : PureStore(e)}) \X
         Unblocked(s, {e \in s.events : PureLoad(e)}) :
     /\ p[1][1].thread # p[2][1].thread
     /\ SameObject(p[1][1], p[2][2]) /\ SameObject(p[1][2], p[2][1])}

-----------------------------------------------------------------------------
Conclude(c, x) == phase' = "done" /\ conclusion' = c /\ witness' = x

Validate ==
  /\ phase = "validate"
  /\ IF UnsupportedSlice(slice) THEN Conclude("Incomplete", NoExecution)
     ELSE phase' = "solve" /\ UNCHANGED <<conclusion, witness>>
  /\ UNCHANGED <<slice, excluded, examined>>

\* What the target solver may still propose.
Proposals == {x \in Assignments(slice) \ excluded : Solves(slice, "rvwmo", x)}

\* The limit, the deadline, or a solver that gives up on the next execution.
GiveUp ==
  /\ phase = "solve"
  /\ Conclude("Incomplete", NoExecution)
  /\ UNCHANGED <<slice, excluded, examined>>

\* The source solver gives up on an execution that the target accepts.
GiveUpOnSource ==
  /\ phase = "solve" /\ examined < MaxExecutions /\ Proposals # {}
  /\ examined' = examined + 1
  /\ Conclude("Incomplete", NoExecution)
  /\ UNCHANGED <<slice, excluded>>

Exhaust ==
  /\ phase = "solve" /\ examined < MaxExecutions /\ Proposals = {}
  /\ Conclude("BoundedExhausted", NoExecution)
  /\ UNCHANGED <<slice, excluded, examined>>

\* Mutant: the blocking clause names the reads only.
BlockedByReads(x) == {y \in Assignments(slice) : y.rf = x.rf}

\* The blocking clause: the next execution differs in some choice.
Blocked(x) == {x}

Examine(x) ==
  /\ phase = "solve" /\ examined < MaxExecutions
  /\ examined' = examined + 1
  /\ IF Solves(slice, "x86", x)
       THEN excluded' = excluded \cup Blocked(x) /\ UNCHANGED <<phase, conclusion, witness>>
       ELSE Conclude("TargetOnly", x) /\ UNCHANGED excluded
  /\ UNCHANGED slice

Done == phase = "done" /\ UNCHANGED vars

Next ==
  \/ Validate \/ GiveUp \/ GiveUpOnSource \/ Exhaust \/ Done
  \/ phase = "solve" /\ \E x \in Proposals : Examine(x)

Spec == Init /\ [][Next]_vars

-----------------------------------------------------------------------------
\* An assignment as an execution of the window of a trace.
Execution(s, x) == [rf |-> [p \in ReadParts(s.events) |-> x.rf[p.read]], co |-> x.co]

Upto(a, b) == a = b \/ Before(a, b)

\* What creation, join and the barrier of a region order, in any memory model.
Ordered(s) ==
  LET within == {e \in s.events : e.kind # "BARRIER"}
  IN  {p \in within \X within : \E o \in s.sync : Upto(p[1], o.from) /\ Upto(o.to, p[2])}

\* On x86 a call into the thread library is a full fence: it executes a locked
\* instruction.
Waits(s) ==
  {p \in s.events \X s.events :
     /\ Before(p[1], p[2])
     /\ {p[1].kind, p[2].kind} \cap {"CREATE", "JOIN", "ACQUIRE", "RELEASE", "MFENCE"} # {}}

SourceAllows(s, x) ==
  LET e == Execution(s, x) IN
  /\ TsoAllows(s.events, e)
  /\ Acyclic(s.events, TsoOrder(s.events) \cup Waits(s) \cup Ordered(s) \cup AllCommunication(s.events, e))

TargetAllows(s, x) ==
  LET e == Execution(s, x) IN
  /\ RvwmoAllows(s.events, e)
  /\ Acyclic(s.events, RvwmoOrder(s.events, e) \cup Ordered(s) \cup AllCommunication(s.events, e))

\* A load after a store of its own thread to the same object.
Forwards(s) ==
  \E w, r \in s.events : PureStore(w) /\ PureLoad(r) /\ Before(w, r) /\ SameObject(w, r)

LightFences(s) == \E e \in s.events : e.kind \in {"LFENCE", "SFENCE"}

Locks(s) == \E e \in s.events : e.kind \in {"ACQUIRE", "RELEASE"}

\* What orders every access after it, or every access before it.
Acquires(e) == e.kind \in {"JOIN", "BARRIER", "MFENCE", "ATOMIC_RMW"}
Releases(e) == e.kind \in {"CREATE", "BARRIER", "MFENCE", "ATOMIC_RMW"}

\* Creation reaches the first event of the thread only, join the last one; what
\* this event does not order itself is loose.  So is a creation after a join,
\* which the target is not told to keep in order.
LooseEnds(s) ==
  \/ \E o \in s.sync, e \in s.events :
       /\ IsMemory(e)
       /\ \/ Before(o.to, e) /\ ~ Acquires(o.to)
          \/ Before(e, o.from) /\ ~ Releases(o.from)
  \/ \E o, q \in s.sync : ~ IsMemory(o.to) /\ Before(o.to, q.from)

(***************************************************************************)
(* verdict.py: COUNTEREXAMPLE carries an execution that the source does    *)
(* not allow.  The reference is x86-TSO with store buffers, and the order  *)
(* that thread creation, join and parallel regions give.                   *)
(***************************************************************************)
CounterexampleIsForbidden == conclusion = "TargetOnly" => ~ SourceAllows(slice, witness)

(***************************************************************************)
(* The same outside the places where the encoding is stricter than x86-TSO:*)
(* a load that its own thread's store is forwarded to, a fence that orders *)
(* loads or stores only and counts as full, and a barrier that is at once  *)
(* before and after the workers.                                           *)
(***************************************************************************)
PlainIsForbidden ==
  Forwards(slice) \/ LightFences(slice) \/ (\E e \in slice.events : e.kind = "BARRIER")
  \/ CounterexampleIsForbidden

(***************************************************************************)
(* verdict.py: and that execution is one the target allows.  Loads and     *)
(* stores that may depend on each other, and loads of one place, are kept  *)
(* in order as far as nobody knows better; locks exclude no execution, and *)
(* creation and join reach one access of the thread only, so slices with   *)
(* these are left out.                                                     *)
(***************************************************************************)
CounterexampleIsPossible ==
  conclusion = "TargetOnly" /\ ~ Locks(slice) /\ ~ LooseEnds(slice) => TargetAllows(slice, witness)

\* What both routes of the package can be asked: accesses and full fences, no
\* load and later store that only an open dependency keeps in order, no load of
\* a place that the thread accessed before.
Common(s) ==
  /\ s.sync = {} /\ \A e \in s.events : IsMemory(e) \/ e.kind = "MFENCE"
  /\ \A e \in s.events : e.deps = {}
  /\ \A a, b \in s.events : IsRead(a) /\ IsWrite(b) /\ Before(a, b) => b.whole \/ SameObject(a, b)
  /\ \A a, b \in s.events :
       IsMemory(a) /\ PureLoad(b) /\ Before(a, b) /\ Overlaps(a, b) => ~ SameObject(a, b)

(***************************************************************************)
(* The static and the dynamic checker compare the same two models: what    *)
(* one finds in a slice that both can be given, the other finds too.       *)
(***************************************************************************)
RoutesAgree ==
  Common(slice) =>
    /\ conclusion = "TargetOnly" => TargetOnly(slice.events, Execution(slice, witness))
    /\ conclusion = "BoundedExhausted" =>
         \A x \in Executions(slice.events) : ~ TargetOnly(slice.events, x)

(***************************************************************************)
(* BOUNDED_EXHAUSTED says that all executions of the finite model were     *)
(* checked: then the target model accepts none that x86-TSO rejects,       *)
(* though the solver is asked for one at a time.                           *)
(***************************************************************************)
ExhaustedMeansContained ==
  conclusion = "BoundedExhausted" =>
    \A x \in Assignments(slice) : Solves(slice, "rvwmo", x) => Solves(slice, "x86", x)

\* Between the two loads stands nothing that keeps them in order and that
\* risk.py overlooks: a creation or a join, a store to the payload that may
\* depend on the flag.
Apart(s, p) ==
  LET flag == p[2][1]  payload == p[2][2] IN
  \A e \in s.events : Before(flag, e) /\ Before(e, payload) =>
    /\ e.kind \notin {"CREATE", "JOIN"}
    /\ IsWrite(e) /\ SameObject(e, payload) => e.whole

(***************************************************************************)
(* risk.py reports a store-publication window without asking a solver: the *)
(* target lacks both edges that x86 keeps.  So the checker, where it may   *)
(* examine all executions, no creation or join orders the threads and no   *)
(* dependency was recovered, never contains a slice with such a window.    *)
(***************************************************************************)
RiskIsReal ==
  /\ conclusion = "BoundedExhausted" /\ slice.sync = {}
  /\ \A e \in slice.events : e.deps = {}
  => \A p \in PublicationRisks(slice) : ~ Apart(slice, p)

=============================================================================
