---------------------------- MODULE MemoryModels ----------------------------
(***************************************************************************)
(* The two memory models the checker compares, stated on their own: x86-TSO*)
(* with store forwarding, and RVWMO with the fences the DBT emits but no   *)
(* dependencies.  They are the reference; nothing here is read off         *)
(* relations.py.  Reads and writes of a window either coincide or are      *)
(* disjoint.                                                               *)
(***************************************************************************)
EXTENDS MemoryRelations

IsOrdered(e) == e.kind \in {"ATOMIC_RMW", "FUTEX_WAIT"}

\* A fence between a and b that the predicate's kind of event cannot pass.
Fenced(E, a, b) ==
  \E f \in E : /\ Before(a, f) /\ Before(f, b)
               /\ \/ f.kind = "MFENCE"
                  \/ f.kind = "LFENCE" /\ IsRead(a) /\ IsRead(b)
                  \/ f.kind = "SFENCE" /\ IsWrite(a) /\ IsWrite(b)

SamePlace(E) ==
  {e \in {m \in E : IsMemory(m)} \X {m \in E : IsMemory(m)} :
     Before(e[1], e[2]) /\ Overlaps(e[1], e[2])}

Forwarded(E, x) ==
  {<<x.rf[p], p.read>> : p \in {q \in ReadParts(E) : x.rf[q] # Initial}}

\* Each place by itself behaves like one memory cell.
CoherentPerPlace(E, x) ==
  Acyclic(E, SamePlace(E) \cup Forwarded(E, x) \cup x.co \cup FromRead(E, x))

\* x86-TSO: a thread's accesses stay in order except a store and a later load.
TsoEdge(E, a, b) ==
  /\ IsMemory(a) /\ IsMemory(b) /\ Before(a, b)
  /\ IsRead(a) \/ IsWrite(b) \/ IsOrdered(a) \/ IsOrdered(b) \/ Fenced(E, a, b)

TsoOrder(E) == {e \in E \X E : TsoEdge(E, e[1], e[2])}

TsoAllows(E, x) ==
  /\ AtomicsValid(E, x)
  /\ CoherentPerPlace(E, x)
  /\ Acyclic(E, TsoOrder(E) \cup AllCommunication(E, x))

\* RVWMO: a later store to the same place, two loads of one place that return
\* different stores, fences and ordered atomics.
SourcesOf(E, x, r) == {x.rf[p] : p \in Parts(E, r)}

RvwmoEdge(E, x, a, b) ==
  /\ IsMemory(a) /\ IsMemory(b) /\ Before(a, b)
  /\ \/ IsWrite(b) /\ Overlaps(a, b)
     \/ /\ IsRead(a) /\ IsRead(b) /\ Overlaps(a, b)
        /\ ~ \E w \in Writes(E) : Before(a, w) /\ Before(w, b) /\ Overlaps(w, b)
        /\ SourcesOf(E, x, a) # SourcesOf(E, x, b)
     \/ IsOrdered(a) \/ IsOrdered(b) \/ Fenced(E, a, b)

RvwmoOrder(E, x) == {e \in E \X E : RvwmoEdge(E, x, e[1], e[2])}

RvwmoAllows(E, x) ==
  /\ AtomicsValid(E, x)
  /\ CoherentPerPlace(E, x)
  /\ Acyclic(E, RvwmoOrder(E, x) \cup AllCommunication(E, x))

-----------------------------------------------------------------------------
\* Every pair of one thread that x86-TSO keeps in order by the code's rules,
\* with no predecessor skipped.
DenseSourceEdge(E, a, b) ==
  \/ BoundaryEdge(a, b)
  \/ Before(a, b) /\ IsRead(a) /\ IsMemory(b)
  \/ Before(a, b) /\ IsWrite(a) /\ IsWrite(b)
  \/ IsRead(b) /\ a \in NearestOwnStore(E, b)

DenseSourceOrder(E) == {e \in E \X E : DenseSourceEdge(E, e[1], e[2])}

-----------------------------------------------------------------------------
(* Windows in which the code's relations and the models are comparable.      *)

\* Accesses coincide or are disjoint.
Uniform(E) ==
  \A a, b \in E : IsMemory(a) /\ IsMemory(b) /\ Overlaps(a, b) => Location(a) = Location(b)

\* A read of a place the thread has written.
ReadsOwn(a, b) == IsWrite(a) /\ IsRead(b) /\ Before(a, b) /\ Overlaps(a, b)

\* No load fence comes after such a read.
LoadFencesClear(E) ==
  \A w, r, f \in E : ReadsOwn(w, r) /\ Before(r, f) => f.kind # "LFENCE"

\* Where there is such a read, x86-TSO keeps the two in order anyway.
NeverForwards(E) == \A w, r \in E : ReadsOwn(w, r) => TsoEdge(E, w, r)

\* Two reads of one place are kept in order by what stands between them.
RereadsOrdered(E) ==
  \A a, b \in E : IsRead(a) /\ IsRead(b) /\ Before(a, b) /\ Overlaps(a, b) =>
     IsOrdered(a) \/ IsOrdered(b) \/ Fenced(E, a, b)

=============================================================================
