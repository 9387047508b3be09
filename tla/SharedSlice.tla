----------------------------- MODULE SharedSlice -----------------------------
(***************************************************************************)
(* The slice of the events that are kept: their conflicts, the edges of    *)
(* thread creation and join, the restriction to the application, and the   *)
(* facts that stay unknown (slice_builder.py, application_scope.py and     *)
(* _collect_unknowns of verifier.py).                                      *)
(***************************************************************************)
EXTENDS SharedState

MemoryKinds == ReadKinds \cup WriteKinds

\* _alias
Overlap(a, b) ==
  \/ {a.kind, b.kind} \cap {"Unknown", "Affine"} # {}
  \/ /\ a.kind = b.kind /\ a.base = b.base
     /\ \/ 0 \in {a.size, b.size}
        \/ a.offset < b.offset + b.size /\ b.offset < a.offset + a.size

\* _can_run_concurrently: there is one main, and any number of each other role.
Concurrently(e, f) == e.role # f.role \/ e.role # 0

IsConflict(e, f) ==
  /\ Concurrently(e, f)
  /\ e.kind \in WriteKinds \/ f.kind \in WriteKinds
  /\ Overlap(e.address, f.address)

\* No base, no offset or no size: to be compared with every event.
Uncertain(e) == e.address.kind \in {"Unknown", "Affine"} \/ e.address.size = 0

Bucket(e) == <<e.address.kind, e.address.base>>

\* Mutant: an uncertain event is compared with the other uncertain ones only.
ConflictsByBucket(events) ==
  LET memory == {e \in events : e.kind \in MemoryKinds}
      pairs  == {x \in memory \X memory :
                   \/ x[1] = x[2]
                   \/ Uncertain(x[1]) /\ Uncertain(x[2])
                   \/ Bucket(x[1]) = Bucket(x[2])}
  IN  {{x[1], x[2]} : x \in {y \in pairs : IsConflict(y[1], y[2])}}

\* _conflicts: each event with itself, the uncertain ones with all, the others
\* in their bucket.
Conflicts(events) ==
  LET memory == {e \in events : e.kind \in MemoryKinds}
      pairs  == {x \in memory \X memory :
                   \/ x[1] = x[2]
                   \/ Uncertain(x[1]) \/ Uncertain(x[2])
                   \/ Bucket(x[1]) = Bucket(x[2])}
  IN  {{x[1], x[2]} : x \in {y \in pairs : IsConflict(y[1], y[2])}}

\* _lifecycle_edges, by the events they join and whether the order is known.
\* First and last events of a worker are those that no kept edge enters or leaves.
LifecycleEdges(p, events, order) ==
  LET of(r)      == {e \in events : e.role = r}
      entries(r) == {e \in of(r) : \A o \in order : o[2] # e}
      exits(r)   == {e \in of(r) : \A o \in order : o[1] # e}
      at(i, k)   == {e \in events : e.pc = i /\ e.kind = k}
      workers    == Roles(p) \cap Creates(p)
      regions    == {r \in Roles(p) \cap Regions(p) : RoleComplete(p, r)}
      edges(s, t, whole) == {[from |-> e, to |-> f, complete |-> whole] : e \in s, f \in t}
  IN  (UNION {edges(at(r, "Create"), entries(r), p.synced) : r \in workers})
      \cup (UNION {edges(exits(r), at(j, "Join"), p.synced /\ JoinComplete(p, j)) :
                     r \in workers, j \in Considered(p, Joins(p))})
      \cup (UNION {edges(at(r, "Barrier"), entries(r), TRUE)
                   \cup edges(exits(r), at(r, "Barrier"), TRUE) : r \in regions})

\* build_shared_memory_slice
SliceOf(p, events, order, shared) ==
  LET kept == events \ shared.removed
      inside == {o \in order : o[1] \in kept /\ o[2] \in kept}
  IN  [events |-> kept, order |-> inside, conflicts |-> Conflicts(kept),
       sync |-> LifecycleEdges(p, kept, inside),
       removed |-> shared.removed, phases |-> shared.proofs,
       unknowns |-> EventUnknowns(p, events) \cup shared.unknowns \cup ThreadUnknowns(p)]

\* _is_runtime_boundary, within one module
RuntimeBoundary(e) == e.kind = "Opaque" /\ e.address.base[1] = "runtime"

\* restrict_to_application_scope
ToApplication(slice) ==
  LET gone == {e \in slice.events : RuntimeBoundary(e)}
  IN  [slice EXCEPT !.events = @ \ gone,
         !.order = {o \in @ : {o[1], o[2]} \cap gone = {}},
         !.sync = {s \in @ : {s.from, s.to} \cap gone = {}},
         !.conflicts = {c \in @ : c \cap gone = {}},
         !.removed = @ \cup gone,
         !.unknowns = {u \in @ : u.events = {} \/ ~ u.events \subseteq gone}]

-----------------------------------------------------------------------------
SequentialReasons ==
  {"SequentialBeforeCreate", "SequentialAfterJoin", "SequentialMainCallee", "NonReturningPath"}

\* _collect_unknowns: what no proof answers.  A local fact of a place that only a
\* sequential phase of main reaches is dropped, the events at that place of
\* other roles are looked at again.
OpenUnknowns(p, slice, application) ==
  LET phased == {e.pc : e \in UNION {q.events : q \in {x \in slice.phases : x.reason \in SequentialReasons}}}
      local  == {"effect", "address", "open"}
      facts  == {u \in slice.unknowns :
                   /\ ~ (u.kind \in local /\ u.pc \in phased)
                   /\ u.events = {} \/ ~ u.events \subseteq slice.removed}
      told   == UNION {u.events : u \in facts}
      mute   == {e \in slice.events : e.kind \in OpaqueKinds} \ told
      loose  == IF application /\ slice.conflicts = {} THEN {}
                ELSE {s \in slice.sync : ~ s.complete}
  IN  facts \cup {[kind |-> "effect", pc |-> e.pc, events |-> {e}] : e \in mute}
      \cup {[kind |-> "sync", pc |-> s.from.pc, events |-> {s.from, s.to}] : s \in loose}
      \cup {[kind |-> "role", pc |-> r, events |-> {}] : r \in {q \in Roles(p) : ~ RoleComplete(p, q)}}

=============================================================================
