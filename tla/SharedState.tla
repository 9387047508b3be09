----------------------------- MODULE SharedState -----------------------------
(***************************************************************************)
(* analyze_shared_state: which events of a program cannot take part in a   *)
(* race, and by which proof.  Events are grouped into objects by the       *)
(* address recovered for them; a first rule that applies to the object     *)
(* removes all its events, and what the order of creations and joins       *)
(* separates is removed event by event.                                    *)
(***************************************************************************)
EXTENDS StaticProgram

After(order) == [e \in {o[1] : o \in order} \cup {o[2] : o \in order} |->
                   {o[2] : o \in {x \in order : x[1] = e}}]

\* The events from which every creation can be reached.
LeadsTo(order, e, f) ==
  e = f \/ LET succ == After(order) IN e \in DOMAIN succ /\ f \in Reach(succ, {e})

CreateEvents(events) == {e \in events : e.kind = "Create"}

\* _cfg_path_exists
Path(p, i, j) == j \in Reach(Successors(p), {i})

-----------------------------------------------------------------------------
(* The phases of main in which no thread of its making runs.                 *)

\* _terminates_before_first_create: no creation of the same function leads here.
NeverAfterCreate(p, events, e) ==
  LET f == p.code[e.pc].fn
      creates == {c \in CreateEvents(events) : p.code[c.pc].fn = f}
  IN  /\ \A i \in NodesOf(p, f) : p.code[i].op \in {"indirect", "jump"} => p.code[i].closed
      /\ creates # {}
      /\ \A c \in creates : ~ Path(p, c.pc, e.pc)

\* Mutant: a later creation is enough.
BeforeAnyCreate(p, events, order) ==
  {e \in events : e.role = 0 /\ \E c \in CreateEvents(events) : LeadsTo(order, e, c)}

BeforeCreate(p, events, order) ==
  LET creates == CreateEvents(events)
  IN  {e \in events :
         /\ e.role = 0 /\ creates # {}
         /\ \/ \A c \in creates : LeadsTo(order, e, c)
            \/ (e.kind # "Effect" /\ NeverAfterCreate(p, events, e))}

\* Mutant: reachable from the join is enough.
PostJoinReached(p, i) ==
  /\ p.lifecycle.proven /\ p.code[p.lifecycle.post].fn = p.code[i].fn
  /\ i \in Reach(Inside(p, p.code[i].fn), {p.lifecycle.post})

\* _post_join_covers_pc: every path to i inside the function leads through post.
PostJoin(p, i) ==
  LET post == p.lifecycle.post
      f    == p.code[i].fn
      skip == [j \in NodesOf(p, f) |-> IF j = post THEN {} ELSE Inside(p, f)[j] \ {post}]
  IN  /\ p.lifecycle.proven /\ p.code[post].fn = f
      /\ i \in Reach(Inside(p, f), {post})
      /\ i = post \/ i \notin Reach(skip, {p.entry[f]} \ {post})

AfterJoin(p, events) == {e \in events : e.role = 0 /\ PostJoin(p, e.pc)}

\* Functions from which a creation can be reached by calls with one target.
SingleCalls(p) == {i \in Calls(p) : Cardinality(p.code[i].callees) = 1}

CallsOfMain(p) ==
  {i \in SingleCalls(p) : p.code[i].fn \in Reach(CallGraph(p, SingleCalls(p)), {"main"})}

Concurrent(p) ==
  LET graph == CallGraph(p, SingleCalls(p))
      made  == {p.code[i].fn : i \in {j \in Creates(p) : p.code[j].fn \in Reach(graph, {"main"})}}
  IN  {f \in Functions(p) : Reach(graph, {f}) \cap made # {}}

\* main_site_is_nonconcurrent
SiteApart(p, i) ==
  LET entries == {j \in Creates(p) \cup SingleCalls(p) :
                    /\ p.code[j].fn = "main"
                    /\ j \in Creates(p) \/ p.code[j].callees \subseteq Concurrent(p)}
  IN  \/ PostJoin(p, i)
      \/ /\ entries # {} /\ i \notin entries
         /\ \A j \in entries : ~ Path(p, j, i) /\ Path(p, i, j)

\* _main_functions_outside_concurrent_phase
ApartFunctions(p) ==
  LET sites(f) == {i \in CallsOfMain(p) : p.code[i].callees = {f}}
      open == {p.code[i].fn : i \in {j \in Code(p) :
                 /\ p.code[j].op \in {"indirect", "jump"} /\ ~ p.code[j].closed
                 /\ p.code[j].fn \in Reach(CallGraph(p, SingleCalls(p)), {"main"})}}
      apart[k \in Nat] ==
        IF k = 0 THEN {}
        ELSE {f \in Functions(p) \ ({"main"} \cup Concurrent(p)) :
                /\ sites(f) # {} /\ open \subseteq apart[k - 1]
                /\ \A i \in sites(f) : \/ p.code[i].fn \in apart[k - 1]
                                       \/ p.code[i].fn = "main" /\ SiteApart(p, i)}
  IN  IF p.lifecycle.proven /\ Concurrent(p) # {} THEN apart[Cardinality(Functions(p))] ELSE {}

MainCallee(p, events) == {e \in events : e.role = 0 /\ p.code[e.pc].fn \in ApartFunctions(p)}

-----------------------------------------------------------------------------
(* Locks held on every path (prove_definite_locksets).                       *)

\* A lock that different paths name alike; through a loaded pointer it is none.
LockOf(e) == IF e.address.kind \in {"Global", "Heap", "Stack", "TLS"} /\ e.address.direct
               THEN {<<e.address.kind, e.address.base, e.address.offset>>} ELSE {}

Takes(e, l) == e.kind = "Acquire" /\ LockOf(e) = {l}

\* Mutant: a call of unknown effect leaves the locks as they are.
DropsOnRelease(e, l) == e.kind = "Release" /\ LockOf(e) = {l}

Drops(e, l) ==
  \/ e.kind \in OpaqueKinds
  \/ e.kind \in {"Acquire", "Release"} /\ LockOf(e) = {}
  \/ e.kind = "Release" /\ LockOf(e) = {l}

Locks(events) == UNION {LockOf(e) : e \in {f \in events : f.kind = "Acquire"}}

\* Where the analysis of a role begins: at the events nothing leads to, in a
\* loop without such events at all of them.
FirstEvents(events, order) ==
  LET roots(r) == {e \in events : e.role = r /\ \A o \in order : o[2] # e}
      whole(r) == {e \in events : e.role = r}
  IN  UNION {IF roots(r) = {} THEN whole(r) ELSE roots(r) : r \in {e.role : e \in events}}

\* Events that some path from a first event of the role reaches without the lock.
Unlocked(events, order, l) ==
  LET first == FirstEvents(events, order)
      next  == [e \in events |-> {o[2] : o \in {x \in order : x[1] = e}}]
      seen  == Reach(next, first)
      loses == {f \in events : \E e \in seen : f \in next[e] /\ Drops(e, l)}
      bare  == Reach([e \in events |-> IF Takes(e, l) THEN {} ELSE next[e]], first \cup loses)
  IN  bare \cup (events \ seen)

\* prove_definite_locksets, as the events each lock is held at
DefiniteLocks(events, order) == [l \in Locks(events) |-> events \ Unlocked(events, order, l)]

\* lock_protection_candidates
Protected(locks, group) ==
  /\ group # {} /\ \A e \in group : e.kind \in {"Load", "Store", "Rmw"}
  /\ \E l \in DOMAIN locks : group \subseteq locks[l]

-----------------------------------------------------------------------------
(* Objects.                                                                  *)

\* _object_key: an address that is not known is one object; a lock whose
\* address is not recovered has no address at all.
Key(e) == IF e.address.kind = "Unknown" THEN <<"Unknown">>
          ELSE <<e.address.kind, e.address.base, e.address.offset>>

HasAddress(e) == ~ (e.kind \in SyncKinds \cup {"Fence"} /\ e.address = Nowhere)

Objects(events) ==
  {{e \in events : HasAddress(e) /\ Key(e) = k} : k \in {Key(f) : f \in {g \in events : HasAddress(g)}}}

\* _addresses_may_alias, without the unions of allocation sites
MayAlias(a, b) ==
  CASE a.base[1] = "none" \/ b.base[1] = "none" -> TRUE
    [] a.base[1] # "none" /\ b.base[1] # "none" /\ "runtime" \in {a.base[1], b.base[1]} -> a.base = b.base
    [] OTHER -> IF a.heap /\ b.heap THEN a.base = b.base
                ELSE IF (a.heap /\ b.direct) \/ (b.heap /\ a.direct) THEN FALSE
                ELSE IF (a.direct /\ b.direct) \/ {a.kind, b.kind} = {"Global"} THEN a.base = b.base
                ELSE TRUE

IsWild(e) == e.kind \in OpaqueKinds \/ (HasAddress(e) /\ e.address.kind \in {"Unknown", "Affine"})

WorkerFunctions(p) == UNION {RoleFunctions(p, r) : r \in Roles(p) \ {0}}

\* _fresh_worker_event: straight at what a worker's own function allocated
Fresh(p, e) == /\ e.role # 0 /\ e.address.direct
               /\ e.address.heap /\ e.address.made \in WorkerFunctions(p)

\* _readonly_after_create
PublishedReadOnly(p, events, order, apart, object) ==
  LET writers == {e \in object : e.kind \in WriteKinds}
  IN  /\ writers # {} /\ \E e \in object : e.kind \in ReadKinds /\ e.role # 0
      /\ \A e \in writers : e.role = 0
      /\ \A e \in events \ apart : ~ IsWild(e)
      /\ CreateEvents(events) # {} /\ p.synced
      /\ \A e \in writers, c \in CreateEvents(events) : LeadsTo(order, e, c)

\* What the rules ask of an object: its accesses while threads run, and the
\* accesses elsewhere that may be to it.
View(p, events, apart, object) ==
  LET some    == CHOOSE e \in object : TRUE
      running == object \ apart
      strange == {w \in events \ (apart \cup object) :
                    /\ IsWild(w) /\ HasAddress(w) /\ MayAlias(some.address, w.address)
                    /\ ~ (Fresh(p, w) /\ \A e \in running : Fresh(p, e))}
  IN  [address |-> some.address, object |-> object, running |-> running, strange |-> strange,
       writers |-> {e \in (IF p.lifecycle.proven THEN running ELSE object) : e.kind \in WriteKinds},
       workers |-> \A e \in running : e.role # 0]

\* The rules, each with the reason it gives; the first that applies decides.  A
\* reason in lower case removes nothing, "open" is noted as an unknown.
SharingRules(p, locks, v) ==
  << <<"idle", v.running = {}>>,
     <<"SingleMainRole", /\ \A e \in v.object : e.role = 0 /\ e.kind \notin OpaqueKinds
                         /\ v.address.kind \in {"Global", "Affine", "Heap"} /\ v.strange = {}>>,
     <<"ReadOnlyAfterCreate", v.writers = {} /\ v.strange = {}>>,
     <<"AtomicCovered", v.strange = {} /\ Protected(locks, v.running)>>,
     <<"DisjointAffine", /\ p.lifecycle.proven /\ v.address.base[1] = p.lifecycle.arg
                         /\ \A e \in v.object : e.role # 0>> >>

FreshObject(p, v) ==
  /\ v.address.heap /\ v.address.made \in WorkerFunctions(p)
  /\ v.workers /\ v.strange = {} /\ \A e \in v.running : e.address.direct

StorageRules(p, v) ==
  LET kind == v.address.kind IN
  << <<"open", kind = "TLS" /\ p.tlsEscapes>>,
     <<"TLSStorage", kind = "TLS">>,
     <<"FreshAllocation", kind = "Heap" /\ FreshObject(p, v)>>,
     <<"UnescapedStack", kind = "Stack" /\ v.strange = {} /\ \A e \in v.running : e.role = 0>>,
     <<"UnescapedStack", kind = "Stack" /\ {p.code[e.pc].fn : e \in v.object} \cap p.escapes = {}>>,
     <<"open", kind = "Stack">> >>

\* The partition covers other accesses of the workers to the same object.
AffineRules(p, v) ==
  LET split  == v.address.base[1] \in p.split /\ v.workers
      beyond == {w \in v.strange : w.role = 0 \/ w.address.base # v.address.base}
      affine == v.address.kind = "Affine"
  IN  << <<"FreshAllocation", affine /\ FreshObject(p, v)>>,
         <<"DisjointAffine", affine /\ split /\ v.writers # {} /\ beyond = {}>>,
         <<"open", affine>>,
         <<"shared", TRUE>> >>

Reason(p, events, order, locks, apart, object) ==
  LET v     == View(p, events, apart, object)
      read  == <<"ReadOnlyAfterCreate",
                 v.address.kind = "Global" /\ PublishedReadOnly(p, events, order, apart, object)>>
      rules == SharingRules(p, locks, v) \o StorageRules(p, v) \o <<read>> \o AffineRules(p, v)
  IN  rules[Min({k \in DOMAIN rules : rules[k][2]})][1]

-----------------------------------------------------------------------------
\* analyze_shared_state: [removed, proofs, unknowns, locks]
SharedStateOf(p, events, order) ==
  LET locks  == DefiniteLocks(events, order)
      before == BeforeCreate(p, events, order)
      after  == AfterJoin(p, events)
      callee == MainCallee(p, events)
      never  == NonReturning(p, events)
      reasons == [o \in Objects(events) |->
                    Reason(p, events, order, locks, before \cup after \cup callee \cup never, o)]
      proven == {o \in DOMAIN reasons : reasons[o] \notin {"idle", "open", "shared"}}
      gone   == never \cup UNION proven
      phases == {[reason |-> "NonReturningPath", events |-> never],
                 [reason |-> "SequentialAfterJoin", events |-> after \ gone],
                 [reason |-> "SequentialMainCallee", events |-> callee \ (gone \cup after)],
                 [reason |-> "SequentialBeforeCreate",
                  events |-> before \ (gone \cup after \cup callee)]}
  IN  [proofs |-> {[reason |-> reasons[o], events |-> o] : o \in proven}
                    \cup {q \in phases : q.events # {}},
       locks |-> locks,
       removed |-> gone \cup after \cup callee \cup before,
       unknowns |-> {[kind |-> "open", pc |-> Min({e.pc : e \in o}), events |-> o] :
                       o \in {x \in DOMAIN reasons : reasons[x] = "open"}}]

=============================================================================
