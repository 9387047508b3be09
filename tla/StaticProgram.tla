---------------------------- MODULE StaticProgram ----------------------------
(***************************************************************************)
(* What the static analysis recovers of a binary before it reasons about   *)
(* sharing: the control-flow graph, the thread roles, the memory events of *)
(* each role and their program order.                                      *)
(*                                                                         *)
(* A program is a record:                                                  *)
(*   code     a sequence of instructions, each a basic block of its own    *)
(*   entry    the first instruction of each function                       *)
(*   synced   the pthread library yields complete ordering summaries       *)
(*   facts that other provers of the package contribute:                   *)
(*   lifecycle  [proven, start, post, arg]: at post every thread created   *)
(*            since start is joined; arg is the object each thread gets of *)
(*            its own, or "nothing"                                         *)
(*   split    objects whose accesses by index are partitioned by thread    *)
(*   escapes  functions with a stack address that leaves the frame;        *)
(*   tlsEscapes  whether an address of thread-local storage leaves         *)
(*   normal   only executions that end normally are in scope               *)
(*                                                                         *)
(* An instruction is a record:                                             *)
(*   fn, op, next       function, operation, successors in the function    *)
(*   callees, closed    the targets recovered, and whether they are all    *)
(*   goes               where a call really goes: "none" for a library     *)
(*   region, obj, at, size, own, made    the bytes it touches: own when    *)
(*            each thread has an object of its own, made: the function that*)
(*            allocates the object                                         *)
(*   known, direct      the kind of address recovered for it: "exact",     *)
(*            "index" (affine) or "none"; not through a loaded pointer     *)
(***************************************************************************)
EXTENDS Naturals, Sequences, FiniteSetsExt

\* What can be reached from s along succ: at most |D| steps for a graph on D.
Reach(succ, s) ==
  LET upto[k \in Nat] ==
        IF k = 0 THEN s ELSE LET r == upto[k - 1] IN r \cup UNION {succ[x] : x \in r}
  IN  upto[Cardinality(DOMAIN succ)]

Code(p) == DOMAIN p.code
NodesOf(p, f) == {i \in Code(p) : p.code[i].fn = f}
Functions(p) == DOMAIN p.entry

Calls(p) == {i \in Code(p) : p.code[i].op \in {"call", "indirect"}}
Creates(p) == {i \in Code(p) : p.code[i].op = "create"}
Regions(p) == {i \in Code(p) : p.code[i].op = "region"}
Joins(p) == {i \in Code(p) : p.code[i].op = "join"}

\* successor_pcs: the edges of angr's whole graph, so a call leads into the
\* callee and past it, and a return to every place its function is called from.
Successors(p) ==
  [i \in Code(p) |->
     p.code[i].next
     \cup (IF i \in Calls(p) THEN {p.entry[f] : f \in p.code[i].callees} ELSE {})
     \cup (IF p.code[i].op = "return"
             THEN UNION {p.code[j].next : j \in {c \in Calls(p) : p.code[i].fn \in p.code[c].callees}}
             ELSE {})]

\* The graph inside one function.
Inside(p, f) == [i \in NodesOf(p, f) |-> Successors(p)[i] \cap NodesOf(p, f)]

\* What recovery makes of any binary: code leads on inside its function, a call
\* of closed targets goes to one of them or to a library, a direct call is closed,
\* and a lock lives in one region.
IsProgram(p) ==
  /\ IsFiniteSet(Code(p)) /\ 0 \notin Code(p)
  /\ IsFiniteSet(Functions(p)) /\ "main" \in Functions(p) /\ "none" \notin Functions(p)
  /\ \A f \in Functions(p) : p.entry[f] \in NodesOf(p, f)
  /\ p.lifecycle.proven => p.lifecycle.post \in Code(p)
  /\ \A i \in Code(p) :
       LET c == p.code[i]
       IN  /\ c.fn \in Functions(p) /\ c.next \subseteq NodesOf(p, c.fn) /\ c.at \in Nat
           /\ c.callees \subseteq Functions(p)
           /\ c.op = "call" => c.closed
           /\ i \in Calls(p) => c.goes \in Functions(p) \cup {"none"}
           /\ i \in Creates(p) \cup Regions(p) => c.goes \in Functions(p)
           /\ i \in Calls(p) \cup Creates(p) \cup Regions(p) /\ c.closed => c.goes \in c.callees \cup {"none"}
  /\ \A i, j \in Code(p) :
       {p.code[i].op, p.code[j].op} \subseteq {"acquire", "release"} /\ p.code[i].obj = p.code[j].obj
       => p.code[i].region = p.code[j].region

CallGraph(p, sites) ==
  [f \in Functions(p) |-> UNION {p.code[i].callees : i \in sites \cap NodesOf(p, f)}]

-----------------------------------------------------------------------------
(* Thread roles: 0 is main, another role is the place that starts it.        *)

MainReach(p) == Reach(CallGraph(p, {i \in Calls(p) : p.code[i].closed}), {"main"})

MainClosed(p) == \A i \in Calls(p) : p.code[i].fn \in MainReach(p) => p.code[i].closed

\* Places in code that main cannot reach start no role, if main's calls are closed.
Considered(p, sites) ==
  {i \in sites : MainClosed(p) => p.code[i].fn \in MainReach(p)}

Roles(p) == {0} \cup Considered(p, Creates(p) \cup Regions(p))

Starts(p, r) ==
  IF r = 0 THEN {"main"} ELSE IF p.code[r].closed THEN p.code[r].callees ELSE {}

RoleFunctions(p, r) == Reach(CallGraph(p, Calls(p)), Starts(p, r))

\* _containing_role
ParentKnown(p, i) == Cardinality({r \in Roles(p) : p.code[i].fn \in RoleFunctions(p, r)}) = 1

RoleComplete(p, r) == r = 0 \/ (p.code[r].closed /\ ParentKnown(p, r))

JoinComplete(p, i) == ParentKnown(p, i) /\ Cardinality(Roles(p) \cap Creates(p)) = 1

ThreadUnknowns(p) ==
  {[kind |-> "entry", pc |-> r, events |-> {}] : r \in {q \in Roles(p) \ {0} : ~ p.code[q].closed}}
  \cup {[kind |-> "parent", pc |-> r, events |-> {}] : r \in {q \in Roles(p) \ {0} : ~ ParentKnown(p, q)}}
  \cup {[kind |-> "join", pc |-> i, events |-> {}] :
          i \in {j \in Considered(p, Joins(p)) : ~ JoinComplete(p, j)}}

-----------------------------------------------------------------------------
(* Memory events: [role, pc, kind, ...] as the handlers of instructions and  *)
(* of library calls make them.                                               *)

Nowhere == [kind |-> "Unknown", base |-> <<"none", 0>>, offset |-> 0, size |-> 0, heap |-> FALSE,
            direct |-> FALSE, made |-> "none"]

\* _address: a global is named by the address of the access itself.
Address(i) ==
  LET kind == IF i.known = "index" THEN "Affine" ELSE i.region
  IN  IF i.known = "none" THEN Nowhere
      ELSE [kind |-> kind,
            base |-> IF kind = "Global" THEN <<i.obj, i.at>> ELSE <<i.obj, 0>>,
            offset |-> IF kind = "Global" THEN 0 ELSE i.at,
            size |-> i.size, heap |-> i.region = "Heap",
            direct |-> i.direct, made |-> i.made]

\* A library's own object, named by its contract.
RuntimeState(i) == [Nowhere EXCEPT !.kind = "Global", !.base = <<"runtime", i.at>>]

SyncKinds == {"Create", "Join", "Acquire", "Release", "Barrier"}
OpaqueKinds == {"Opaque", "Syscall", "Effect"}
ReadKinds == {"Load", "Rmw"} \cup OpaqueKinds
WriteKinds == {"Store", "Rmw"} \cup OpaqueKinds

\* Without a complete summary of the library a lock is an opaque call.
KindOf(p, i) ==
  CASE i.op = "load" -> {"Load"}
    [] i.op \in {"store", "copy"} -> {"Store"}
    [] i.op = "rmw" -> {"Rmw"}
    [] i.op = "update" -> {"Load", "Store"}
    [] i.op = "fence" -> {"Fence"}
    [] i.op = "create" -> {"Create"}
    [] i.op = "join" -> {"Join"}
    [] i.op = "region" -> {"Barrier"}
    [] i.op = "acquire" -> {IF p.synced THEN "Acquire" ELSE "Opaque"}
    [] i.op = "release" -> {IF p.synced THEN "Release" ELSE "Opaque"}
    [] i.op \in {"opaque", "runtime"} -> {"Opaque"}
    [] i.op = "syscall" -> {"Syscall"}
    [] i.op = "indirect" /\ ~ i.closed -> {"Opaque"}
    [] i.op = "jump" /\ ~ i.closed -> {"Effect"}
    [] OTHER -> {}

AddressOf(i, kind) ==
  CASE kind \in {"Create", "Join", "Barrier", "Fence", "Syscall", "Effect"} -> Nowhere
    [] kind = "Opaque" -> IF i.op = "runtime" THEN RuntimeState(i) ELSE Nowhere
    [] OTHER -> Address(i)

Event(r, pc, kind, address) == [role |-> r, pc |-> pc, kind |-> kind, address |-> address]

\* A role whose entry is unknown may do anything, at the place of its creation.
Sentinels(p) ==
  {Event(r, r, "Effect", Nowhere) : r \in {q \in Roles(p) : Starts(p, q) = {}}}

Extracted(p) ==
  Sentinels(p) \cup
  UNION {{Event(x[1], x[2], k, AddressOf(p.code[x[2]], k)) : k \in KindOf(p, p.code[x[2]])} :
           x \in {y \in Roles(p) \X Code(p) : p.code[y[2]].fn \in RoleFunctions(p, y[1])}}

\* What each event without a fact leaves open, as extraction notes it.
EventUnknowns(p, events) ==
  {[kind |-> IF e.kind \in OpaqueKinds THEN "effect" ELSE "address", pc |-> e.pc, events |-> {e}] :
     e \in {f \in events : \/ f.kind \in OpaqueKinds
                           \/ f.kind \in {"Load", "Store", "Rmw"} /\ f.address.kind = "Unknown"}}

\* Events that are placed in a block; an indirect jump and an unknown entry are not.
Placed(p, events) == {e \in events : e.kind # "Effect"}

\* The load of an update comes first.
Before(e, f) == e.pc = f.pc /\ e.kind = "Load" /\ f.kind = "Store"

\* Mutant: a call continues in the callee only when the callee holds an event.
NextEventsBeside(p, here, e) ==
  LET past == p.code[e.pc].next
  IN  IF \E f \in here : Before(e, f) THEN {f \in here : Before(e, f)}
      ELSE {f \in here : f.pc \in past /\ ~ \E g \in here : Before(g, f)}

\* _program_order_edges: through blocks that hold no event of the role.
NextEvents(p, here, e) ==
  LET busy  == {f.pc : f \in here}
      empty == [i \in Code(p) |-> IF i \in busy THEN {} ELSE Successors(p)[i]]
      ahead == Reach(empty, Successors(p)[e.pc])
  IN  IF \E f \in here : Before(e, f) THEN {f \in here : Before(e, f)}
      ELSE {f \in here : f.pc \in ahead /\ ~ \E g \in here : Before(g, f)}

ProgramOrder(p, events) ==
  UNION {LET here == {e \in Placed(p, events) : e.role = r}
         IN  UNION {{<<e, f>> : f \in NextEvents(p, here, e)} : e \in here} : r \in Roles(p)}

-----------------------------------------------------------------------------
(* Paths that do not return.                                                 *)

\* _blocks_reaching_return
ReachReturn(p) ==
  {i \in Code(p) :
     \E j \in Reach(Inside(p, p.code[i].fn), {i}) : p.code[j].op = "return"}

HasReturn(p) == {f \in Functions(p) : \E i \in NodesOf(p, f) : p.code[i].op = "return"}

Roots(p) == UNION {Starts(p, r) : r \in Roles(p)}

\* Functions called from failing paths only.
OnlyFailing(p) ==
  LET sites(f) == {i \in Calls(p) : p.code[i].callees = {f}}
      failing[k \in Nat] ==
        IF k = 0 THEN {}
        ELSE {f \in Functions(p) \ Roots(p) :
                /\ sites(f) # {}
                /\ \A i \in sites(f) : p.code[i].fn \in failing[k - 1] \/ i \notin ReachReturn(p)}
      open == \E i \in Code(p) : /\ p.code[i].op \in {"indirect", "jump"} /\ ~ p.code[i].closed
                                 /\ \E r \in Roles(p) : p.code[i].fn \in RoleFunctions(p, r)
  IN  IF open THEN {} ELSE failing[Cardinality(Functions(p))]

\* append_event: a thread may end the process in a function of its own that
\* does not return, another function that does not return fails.
Fails(p, i) ==
  LET f == p.code[i].fn
  IN  f \in OnlyFailing(p) \/ (IF f \in HasReturn(p) THEN i \notin ReachReturn(p) ELSE f \notin Roots(p))

NonReturning(p, events) == {e \in events \ Sentinels(p) : p.normal /\ Fails(p, e.pc)}

=============================================================================
