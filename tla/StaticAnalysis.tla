---------------------------- MODULE StaticAnalysis ----------------------------
(***************************************************************************)
(* The static route of application.py and verify_portability, stage after  *)
(* stage, and the program it judges, which runs after the verdict is out:  *)
(* main and the threads it starts, with calls, joins and locks.  The       *)
(* runtime is what the verdict is about; a run checks the one against the  *)
(* other.                                                                  *)
(***************************************************************************)
EXTENDS SharedSlice

CONSTANTS
  Programs,    \* the programs under analysis
  Workers      \* threads besides main that may exist in a run, 1..n

ASSUME ProgramsAreRecovered == \A p \in Programs : IsProgram(p)

\* An object is in one region and made by one function, and has a name of its own.
ObjectsNamed(p) ==
  /\ \A i \in Code(p) :
       LET c == p.code[i]
       IN  /\ c.region \in {"Global", "Heap", "Stack", "TLS"} /\ c.known \in {"exact", "index", "none"}
           /\ c.obj \notin {"none", "runtime"} /\ c.size \in Nat
  /\ \A i, j \in Code(p) :
       p.code[i].obj = p.code[j].obj => p.code[i].region = p.code[j].region /\ p.code[i].made = p.code[j].made
  /\ "none" \notin p.split \cup {p.lifecycle.arg}

(***************************************************************************)
(* What the other provers contribute is so: a thread has objects of its own*)
(* where they say that each gets an argument of its own, that the accesses *)
(* by index are split, that no address of thread-local storage or of the   *)
(* frame of a function leaves it, and where it accesses, not through a     *)
(* loaded pointer, what a function of the workers allocated.               *)
(***************************************************************************)
FactsHold(p) ==
  \A i \in Code(p) :
    LET c == p.code[i]
    IN  \/ /\ c.fn \in WorkerFunctions(p)
           /\ \/ p.lifecycle.proven /\ c.obj = p.lifecycle.arg
              \/ c.obj \in p.split /\ c.known = "index"
              \/ c.region = "Heap" /\ c.made \in WorkerFunctions(p) /\ c.direct /\ c.known # "none"
        \/ c.region = "TLS" /\ ~ p.tlsEscapes
        \/ /\ c.region = "Stack"
           /\ \E j \in Code(p) : /\ p.code[j].obj = c.obj /\ p.code[j].known # "none"
                                 /\ p.code[j].fn \notin p.escapes
        => c.own

ASSUME ProversAreRight == \A p \in Programs : ObjectsNamed(p) /\ FactsHold(p)
ASSUME WorkersAreNumbered == 0 \notin Workers /\ Workers \subseteq Nat

VARIABLES
  prog,
  application,    \* scope: application or full
  stage,
  events, order,  \* MemoryEventReport
  shared,         \* SharedStateReport
  slice,
  open,           \* relevant_unknowns
  verdict,
  threads,        \* a stack of instructions, and the place of the latest event
  held            \* which thread holds which lock

static == <<prog, application, stage, events, order, shared, slice, open, verdict>>
run    == <<threads, held>>
vars   == <<static, run>>

Threads == {0} \cup Workers
Nobody == [state |-> "none", role |-> 0, stack |-> <<>>, last |-> 0]
NoSlice == [events |-> {}, order |-> {}, conflicts |-> {}, sync |-> {}, removed |-> {},
            phases |-> {}, unknowns |-> {}]

Init ==
  /\ prog \in Programs /\ application \in BOOLEAN
  /\ stage = "recovered"
  /\ events = {} /\ order = {} /\ open = {} /\ slice = NoSlice
  /\ shared = [proofs |-> {}, locks |-> <<>>, removed |-> {}, unknowns |-> {}]
  /\ verdict = "none"
  /\ threads = [t \in Threads |-> Nobody]
  /\ held = {}

-----------------------------------------------------------------------------
(* The stages.                                                               *)

Extract ==
  /\ stage = "recovered" /\ stage' = "extracted"
  /\ events' = Extracted(prog)
  /\ order' = ProgramOrder(prog, events')
  /\ UNCHANGED <<prog, application, shared, slice, open, verdict, run>>

\* Any error during extraction leaves one event that may do anything.
ExtractionFails ==
  /\ stage = "recovered" /\ stage' = "sliced"
  /\ slice' = [NoSlice EXCEPT !.unknowns = {[kind |-> "failure", pc |-> 0, events |-> {}]}]
  /\ UNCHANGED <<prog, application, events, order, shared, open, verdict, run>>

Share ==
  /\ stage = "extracted" /\ stage' = "shared"
  /\ shared' = SharedStateOf(prog, events, order)
  /\ UNCHANGED <<prog, application, events, order, slice, open, verdict, run>>

Slice ==
  /\ stage = "shared" /\ stage' = "sliced"
  /\ slice' = LET s == SliceOf(prog, events, order, shared)
              IN  IF application THEN ToApplication(s) ELSE s
  /\ UNCHANGED <<prog, application, events, order, shared, open, verdict, run>>

\* The finite checker of a slice with conflicts finds an execution or nothing;
\* it never makes the program safe.
Verify ==
  /\ stage = "sliced" /\ stage' = "judged"
  /\ open' = OpenUnknowns(prog, slice, application)
  /\ verdict' \in CASE open' # {} -> {"UNKNOWN"}
                    [] open' = {} /\ slice.conflicts = {} -> {"SAFE"}
                    [] OTHER -> {"COUNTEREXAMPLE", "UNKNOWN"}
  /\ UNCHANGED <<prog, application, events, order, shared, slice, run>>

-----------------------------------------------------------------------------
(* The run.                                                                  *)

At(t) == Head(threads[t].stack)
Instr(t) == prog.code[At(t)]
Running(t) == threads[t].state = "running"
Alive == {t \in Threads : threads[t].state \in {"running", "waiting"}}

EventsAt(t) == {e \in Placed(prog, events) : e.role = threads[t].role /\ e.pc = At(t)}

\* A failing path is outside the scope of a certificate for normal executions.
InScope == prog.normal => \A t \in Alive : ~ Fails(prog, At(t))

Begin(r, f) == [state |-> "running", role |-> r, stack |-> <<prog.entry[f]>>, last |-> 0]

Start ==
  /\ stage = "judged" /\ events # {} /\ stage' = "running"
  /\ threads' = [threads EXCEPT ![0] = Begin(0, "main")]
  /\ UNCHANGED <<prog, application, events, order, shared, slice, open, verdict, held>>

\* The thread goes on at the instructions of s, its event behind it.
Past(t, s) ==
  [threads[t] EXCEPT !.stack = s \o Tail(@), !.last = IF EventsAt(t) = {} THEN @ ELSE At(t)]

Goto(t, i) == [threads EXCEPT ![t] = Past(t, <<i>>)]

\* Everything that only moves the thread on.
Plain(t) ==
  /\ Instr(t).op \notin {"call", "indirect", "return", "create", "join", "region", "acquire", "release", "exit"}
  /\ \E i \in Instr(t).next : threads' = Goto(t, i)
  /\ UNCHANGED held

Call(t) ==
  /\ Instr(t).op \in {"call", "indirect"}
  /\ \E i \in Instr(t).next :
       threads' = IF Instr(t).goes = "none" THEN Goto(t, i)
                  ELSE [threads EXCEPT ![t] = Past(t, <<prog.entry[Instr(t).goes], i>>)]
  /\ UNCHANGED held

\* A thread ends with the function it was started for; the process with main.
Return(t) ==
  /\ Instr(t).op = "return"
  /\ threads' = [threads EXCEPT ![t] =
       IF Len(@.stack) > 1 THEN Past(t, <<>>) ELSE [@ EXCEPT !.state = "ended"]]
  /\ UNCHANGED held

Exit(t) ==
  /\ Instr(t).op = "exit"
  /\ threads' = [u \in Threads |-> Nobody]
  /\ UNCHANGED held

\* pthread_create starts a thread, or fails when there is none left.
Create(t) ==
  /\ Instr(t).op = "create"
  /\ LET free == {u \in Workers : threads[u].state = "none"}
     IN  \E i \in Instr(t).next :
           threads' = IF free = {} THEN Goto(t, i)
                      ELSE [Goto(t, i) EXCEPT ![Min(free)] = Begin(At(t), Instr(t).goes)]
  /\ UNCHANGED held

\* The loop of pthread_join over the threads started.
Join(t) ==
  /\ Instr(t).op = "join" /\ \A u \in Workers : threads[u].state # "running"
  /\ \E i \in Instr(t).next :
       threads' = [u \in Threads |-> IF u \in Workers THEN Nobody ELSE Goto(t, i)[u]]
  /\ UNCHANGED held

\* GOMP_parallel: the callback in every thread of the team, then a barrier.
Region(t) ==
  /\ Instr(t).op = "region" /\ \A u \in Workers : threads[u].state = "none"
  /\ threads' = [u \in Threads |->
       IF u = t THEN [threads[t] EXCEPT !.state = "waiting"]
       ELSE IF u \in Workers THEN Begin(At(t), Instr(t).goes) ELSE threads[u]]
  /\ UNCHANGED held

RegionEnds(t) ==
  /\ threads[t].state = "waiting" /\ \A u \in Workers : threads[u].state = "ended"
  /\ \E i \in Instr(t).next :
       threads' = [u \in Threads |->
         IF u = t THEN [Past(t, <<i>>) EXCEPT !.state = "running"]
         ELSE IF u \in Workers THEN Nobody ELSE threads[u]]
  /\ UNCHANGED held

Lock(t) == <<Instr(t).obj, Instr(t).at, IF Instr(t).own THEN {t} ELSE {}>>

Acquire(t) ==
  /\ Instr(t).op = "acquire" /\ \A h \in held : h[1] # Lock(t)
  /\ held' = held \cup {<<Lock(t), t>>}
  /\ \E i \in Instr(t).next : threads' = Goto(t, i)

Release(t) ==
  /\ Instr(t).op = "release"
  /\ held' = held \ {<<Lock(t), t>>}
  /\ \E i \in Instr(t).next : threads' = Goto(t, i)

Move(t) ==
  \/ RegionEnds(t)
  \/ /\ Running(t)
     /\ \/ Plain(t) \/ Call(t) \/ Return(t) \/ Exit(t) \/ Create(t)
        \/ Join(t) \/ Region(t) \/ Acquire(t) \/ Release(t)

\* The process ends with main, and may end up in a deadlock of its own.
Run ==
  /\ stage = "running" /\ InScope /\ threads[0].state \in {"running", "waiting"}
  /\ \E t \in Threads : Move(t)
  /\ UNCHANGED static

Next == Extract \/ ExtractionFails \/ Share \/ Slice \/ Verify \/ Start \/ Run

Spec == Init /\ [][Next]_vars

-----------------------------------------------------------------------------
Reads  == {"load", "rmw", "update", "opaque", "syscall"}
Writes == {"store", "copy", "rmw", "update", "opaque", "syscall"}

Accesses(p) == {i \in Code(p) : p.code[i].op \in Reads \cup Writes}

\* An access whose width is not recovered may be as wide as a register.
Width(i) == IF i.size = 0 THEN 8 ELSE i.size

\* The bytes an instruction of a thread touches.
Touches(t) ==
  LET i == Instr(t) IN
  {<<i.obj, u, b>> : u \in IF i.own THEN {t} ELSE Threads, b \in i.at .. i.at + Width(i) - 1}

\* Two threads about to touch one byte, one of them to write it.
Race ==
  /\ stage = "running" /\ InScope
  /\ \E t, u \in Threads :
       /\ t # u /\ Running(t) /\ Running(u) /\ 0 \in Alive
       /\ Instr(t).op \in Writes /\ Instr(u).op \in Reads \cup Writes
       /\ Touches(t) \cap Touches(u) # {}

\* What main does at these places after a creation does not lead to a creation
\* again, by a loop or by a function that is called before and after.
NoWayBack(p, places) ==
  \A i \in places, c \in Creates(p) :
    /\ p.code[i].fn \in RoleFunctions(p, 0)
    /\ \E j \in Successors(p)[c] : Path(p, j, i)
    => ~ Path(p, i, c)

PhasesApart(p) == NoWayBack(p, Accesses(p))
OpenCallsApart(p) == NoWayBack(p, {i \in Calls(p) : ~ p.code[i].closed})

\* All threads are created in one function, which main is known to call.
CreatesTogether(p) ==
  /\ \A c, d \in Creates(p) : p.code[c].fn = p.code[d].fn
  /\ \A c \in Creates(p) \cup Regions(p) : p.code[c].fn \in RoleFunctions(p, 0)

\* From a creation one comes to the end of the lifecycle through a join only,
\* and in the function it is in nothing behind it creates any more.
JoinedForGood(p) ==
  p.lifecycle.proven =>
    LET post   == p.lifecycle.post
        until  == [i \in Code(p) |-> IF i \in Joins(p) THEN {} ELSE Successors(p)[i]]
        behind == Reach(Inside(p, p.code[post].fn), {post})
        called == Reach(CallGraph(p, Calls(p)), UNION {p.code[i].callees : i \in behind \cap Calls(p)})
    IN  \A c \in Creates(p) : post \notin Reach(until, Successors(p)[c]) /\ c \notin behind
                              /\ p.code[c].fn \notin called

\* A call of main has one target, if any is known.
SingleTargets(p) ==
  \A i \in Calls(p) : p.code[i].fn \in RoleFunctions(p, 0) => Cardinality(p.code[i].callees) <= 1

\* What runs behind the calls of a role that nobody could follow.
Hidden(p, r) ==
  LET goes(f) == {p.code[i].goes : i \in Calls(p) \cap NodesOf(p, f)} \ {"none"}
      lost(f) == {p.code[i].goes : i \in {j \in Calls(p) \cap NodesOf(p, f) : p.code[j].goes \notin p.code[j].callees}}
  IN  Reach([f \in Functions(p) |-> goes(f)], (UNION {lost(f) : f \in RoleFunctions(p, r)}) \ {"none"})

\* It is not code that the role is also known to call.
HiddenApart(p) == \A r \in Roles(p) : Hidden(p, r) \cap RoleFunctions(p, r) = {}
MainNotCalledBack(p) == Hidden(p, 0) \cap RoleFunctions(p, 0) = {}

\* A role that takes locks starts with an event, and the lock analysis there.
StartsFirst(r) ==
  (\E e \in events : e.role = r /\ e.kind = "Acquire") =>
    \A f \in Starts(prog, r) :
      LET here == {e \in Placed(prog, events) : e.role = r /\ e.pc = prog.entry[f]}
      IN  here # {} /\ {e \in here : ~ \E g \in here : Before(g, e)} \subseteq FirstEvents(events, order)

\* A lock is the same for every thread that names it.
LocksShared(p) == \A i \in Code(p) : p.code[i].op \in {"acquire", "release"} => ~ p.code[i].own

\* Accesses that share a byte start at the same byte.
SameStart(p) ==
  \A i, j \in Accesses(p) :
    LET a == p.code[i]
        b == p.code[j]
    IN  a.obj = b.obj /\ a.at < b.at => a.at + Width(a) <= b.at

\* What is accessed by index is nowhere accessed at a fixed place.
IndexedAlone(p) ==
  \A i, j \in Accesses(p) :
    p.code[i].obj = p.code[j].obj => {p.code[i].known, p.code[j].known} # {"index", "exact"}

\* No rule that compares the accesses of one object removed an access that may
\* be to any object.
BlindKept ==
  \A q \in shared.proofs :
    q.reason \in {"ReadOnlyAfterCreate", "AtomicCovered"} => \A e \in q.events : e.address.kind # "Unknown"

(***************************************************************************)
(* docs/static/10-portability-check.md: SAFE is given without conflicts    *)
(* only when the proofs removed every ordinary communication.  Then no two *)
(* threads are ever at one byte with one of them writing, whatever rule    *)
(* removed the accesses, through whichever calls and paths.                *)
(***************************************************************************)
SafeMeansNoRace == verdict = "SAFE" => ~ Race

(***************************************************************************)
(* The same for the programs whose threads are created in one function,    *)
(* with no access and no open call after a creation that leads to a        *)
(* creation, joined for good where the lifecycle ends, whose main calls one*)
(* function at a place, whose roles are not called back and start where the*)
(* lock analysis does and take locks they share, whose accesses overlap    *)
(* only when they start together and are by index or at fixed places, and  *)
(* where no access of unknown address went as read-only or locked.         *)
(***************************************************************************)
PlainSafeMeansNoRace ==
  /\ PhasesApart(prog) /\ OpenCallsApart(prog) /\ CreatesTogether(prog) /\ JoinedForGood(prog)
  /\ SingleTargets(prog) /\ HiddenApart(prog) /\ LocksShared(prog) /\ \A r \in Roles(prog) : StartsFirst(r)
  /\ SameStart(prog) /\ IndexedAlone(prog) /\ BlindKept
  => SafeMeansNoRace

MainPhases == {"SequentialBeforeCreate", "SequentialAfterJoin", "SequentialMainCallee"}

(***************************************************************************)
(* sharing.py:49: SEQUENTIAL_BEFORE_CREATE says that no worker can run     *)
(* concurrently yet when the event happens; SEQUENTIAL_AFTER_JOIN that all *)
(* have ended; SEQUENTIAL_MAIN_CALLEE that main comes to the function only *)
(* then.  No thread is alive when main is at an access removed for one of  *)
(* them, in a program that creates in one function, with no access after a *)
(* creation that leads to a creation, joined for good where the lifecycle  *)
(* ends, whose main calls one function at a place and is not called back.  *)
(***************************************************************************)
SequentialRanAlone ==
  \A q \in shared.proofs :
    /\ q.reason \in MainPhases /\ stage = "running" /\ InScope /\ Running(0)
    /\ \E e \in q.events : e.role = 0 /\ e.pc = At(0) /\ Instr(0).op \in Reads \cup Writes
    /\ PhasesApart(prog) /\ CreatesTogether(prog) /\ JoinedForGood(prog)
    /\ SingleTargets(prog) /\ MainNotCalledBack(prog)
    => Alive = {0}

(***************************************************************************)
(* lockset.py: the analysis may only miss a proof, never take a section    *)
(* for locked that is not.  A thread that is at an access at which a lock  *)
(* counts as held on every path holds it, if its role starts where the     *)
(* analysis begins and no call that is not followed leads back into it.    *)
(***************************************************************************)
DefiniteLocksHeld ==
  \A l \in DOMAIN shared.locks, t \in Threads :
    /\ stage = "running" /\ Running(t) /\ EventsAt(t) \cap shared.locks[l] # {}
    /\ StartsFirst(threads[t].role) /\ HiddenApart(prog)
    => \E h \in held : h[2] = t /\ h[1][1] = l[2][1] /\ h[1][2] = l[2][2] + l[3]

(***************************************************************************)
(* The order that the lock and phase proofs read covers every execution:   *)
(* from the latest event of a thread the edges lead to the event it is at, *)
(* through calls, returns and blocks without events, and through code that *)
(* nobody has recovered, unless it calls back into the role.               *)
(***************************************************************************)
OrderCoversExecution ==
  \A t \in Threads :
    stage = "running" /\ Running(t) /\ threads[t].last # 0 /\ EventsAt(t) # {} /\ HiddenApart(prog) =>
      \E e \in events : /\ e.pc = threads[t].last /\ e.role = threads[t].role
                        /\ \E f \in EventsAt(t) : <<e, f>> \in order

\* The pairs of a set of events that conflict, each compared with each.
AllConflicts(E) ==
  {{x[1], x[2]} : x \in {y \in E \X E : /\ {y[1].kind, y[2].kind} \subseteq MemoryKinds
                                        /\ IsConflict(y[1], y[2])}}

(***************************************************************************)
(* Comparing events bucket by bucket finds every pair that conflicts: an   *)
(* event that may be anywhere meets all the others, also when the scope    *)
(* leaves events of the runtime out.                                       *)
(***************************************************************************)
BucketsLoseNoPair == stage = "sliced" => slice.conflicts = AllConflicts(slice.events)

=============================================================================
