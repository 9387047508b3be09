-------------------------- MODULE MemoryRelations --------------------------
(***************************************************************************)
(* The relational models of proof/relations.py and proof/checker.py.  A    *)
(* window is a set of trace events; an execution of it is a read-from      *)
(* choice for every part of every read and a coherence order of the        *)
(* overlapping writes.  A model accepts the execution when its preserved   *)
(* program order and the communication edges form no cycle.                *)
(***************************************************************************)
EXTENDS Integers, FiniteSets

\* The read-from source of a read that sees the memory before the window.
CONSTANT Initial

-----------------------------------------------------------------------------
IsRead(e)   == e.kind \in {"LOAD", "ATOMIC_RMW", "FUTEX_WAIT"}
IsWrite(e)  == e.kind \in {"STORE", "ATOMIC_RMW"}
IsMemory(e) == IsRead(e) \/ IsWrite(e)
IsAtomic(e) == e.kind = "ATOMIC_RMW"

Reads(E)  == {e \in E : IsRead(e)}
Writes(E) == {e \in E : IsWrite(e)}

End(e)         == e.addr + e.size
Overlaps(a, b) == a.addr < End(b) /\ b.addr < End(a)
Covers(w, r)   == w.addr <= r.addr /\ End(w) >= End(r)
Location(e)    == <<e.addr, e.size>>

\* The trace reader gives every event of a thread its own sequence number, and
\* addresses and sizes without a sign.
IsTrace(E) ==
  /\ \A a \in E : a.seq \in Nat /\ a.addr \in Nat /\ a.size \in Nat
  /\ \A a, b \in E : a.thread = b.thread /\ a.seq = b.seq => a = b

\* Program order within a thread.
Before(a, b) == a.thread = b.thread /\ a.seq < b.seq

\* The last event of S that precedes b, as a set of at most one.
Nearest(S, b) == {a \in S : Before(a, b) /\ \A c \in S : Before(c, b) => c.seq <= a.seq}

NearestOwnStore(E, b) == Nearest({w \in Writes(E) : Overlaps(w, b)}, b)

-----------------------------------------------------------------------------
\* Mutants of Bounds: a store fence that orders all, no full fence.
BoundsStoreFenceAll(boundary, e) ==
  \/ boundary.kind = "LFENCE" /\ IsRead(e)
  \/ boundary.kind \in {"SFENCE", "MFENCE", "ATOMIC_RMW", "FUTEX_WAIT"} /\ IsMemory(e)

BoundsNoFullFence(boundary, e) ==
  \/ boundary.kind = "LFENCE" /\ IsRead(e)
  \/ boundary.kind = "SFENCE" /\ IsWrite(e)
  \/ boundary.kind \in {"ATOMIC_RMW", "FUTEX_WAIT"} /\ IsMemory(e)

\* _boundary_edges: what a fence, an atomic or a futex wait orders.
Bounds(boundary, e) ==
  \/ boundary.kind = "LFENCE" /\ IsRead(e)
  \/ boundary.kind = "SFENCE" /\ IsWrite(e)
  \/ boundary.kind \in {"MFENCE", "ATOMIC_RMW", "FUTEX_WAIT"} /\ IsMemory(e)

BoundaryEdge(a, b) == Before(a, b) /\ (Bounds(a, b) \/ Bounds(b, a))

\* Mutants of SourceEdge: a load and a later store, or two stores, are not tied.
SourceEdgeNoLoadStore(E, a, b) ==
  \/ BoundaryEdge(a, b)
  \/ IsRead(b) /\ a \in Nearest(Reads(E), b)
  \/ IsWrite(b) /\ a \in Nearest(Writes(E), b)
  \/ IsRead(b) /\ a \in NearestOwnStore(E, b)

SourceEdgeNoStoreStore(E, a, b) ==
  \/ BoundaryEdge(a, b)
  \/ IsMemory(b) /\ a \in Nearest(Reads(E), b)
  \/ IsRead(b) /\ a \in NearestOwnStore(E, b)

\* source_preserved_order: only the nearest predecessor of each class is tied.
SourceEdge(E, a, b) ==
  \/ BoundaryEdge(a, b)
  \/ IsMemory(b) /\ a \in Nearest(Reads(E), b)
  \/ IsWrite(b) /\ a \in Nearest(Writes(E), b)
  \/ IsRead(b) /\ a \in NearestOwnStore(E, b)

SourceOrder(E) == {e \in E \X E : SourceEdge(E, e[1], e[2])}

\* Mutants of TargetEdge: a load waits for every own store, loads stay in
\* order, a load does not see its own store.
TargetEdgeStoreLoad(E, a, b) ==
  \/ BoundaryEdge(a, b)
  \/ IsWrite(b) /\ IsMemory(a) /\ Before(a, b) /\ Overlaps(a, b)
  \/ IsRead(b) /\ a \in Nearest(Writes(E), b)

TargetEdgeLoadLoad(E, a, b) ==
  \/ BoundaryEdge(a, b)
  \/ IsWrite(b) /\ IsMemory(a) /\ Before(a, b) /\ Overlaps(a, b)
  \/ IsRead(b) /\ a \in NearestOwnStore(E, b) \cup Nearest(Reads(E), b)

\* target_preserved_order: overlapping accesses before a write, and the
\* nearest own overlapping write before a read.
TargetEdge(E, a, b) ==
  \/ BoundaryEdge(a, b)
  \/ IsWrite(b) /\ IsMemory(a) /\ Before(a, b) /\ Overlaps(a, b)
  \/ IsRead(b) /\ a \in NearestOwnStore(E, b)

TargetOrder(E) == {e \in E \X E : TargetEdge(E, e[1], e[2])}

-----------------------------------------------------------------------------
\* _read_parts: a read is cut where an overlapping write begins or ends.
Cuts(E, r) ==
  {r.addr, End(r)} \cup
  {c \in r.addr .. End(r) : \E w \in Writes(E) : Overlaps(w, r) /\ c \in {w.addr, End(w)}}

Parts(E, r) ==
  LET cuts == Cuts(E, r)
  IN  {[read |-> r, addr |-> c[1], size |-> c[2] - c[1]] :
         c \in {d \in cuts \X cuts : d[1] < d[2] /\ \A m \in cuts : m <= d[1] \/ d[2] <= m}}

ReadParts(E) == UNION {Parts(E, r) : r \in Reads(E)}

\* The writes a part may read from: they cover it and are not its own later ones.
Sources(E, p) ==
  {w \in Writes(E) : Covers(w, p) /\ ~ (w.thread = p.read.thread /\ w.seq >= p.read.seq)}

\* _valid_coherence_orders: a total order of the writes of each place that
\* keeps the program order of every thread.
CoherenceOrders(E) ==
  LET pairs == {e \in Writes(E) \X Writes(E) : e[1] # e[2] /\ Overlaps(e[1], e[2])}
      fixed == {e \in pairs : Before(e[1], e[2])}
      free  == {e \in pairs : e[1].thread # e[2].thread}
  IN  {co \in {fixed \cup s : s \in SUBSET free} :
         /\ \A e \in pairs : e \in co <=> <<e[2], e[1]>> \notin co
         /\ \A S \in SUBSET Writes(E) :
               S # {} => \E last \in S : \A w \in S : <<last, w>> \notin co}

ReadFroms(E) ==
  LET parts  == ReadParts(E)
      choice == [p \in parts |-> Sources(E, p) \cup {Initial}]
  IN  {f \in [parts -> Writes(E) \cup {Initial}] : \A p \in parts : f[p] \in choice[p]}

Executions(E) == [rf : ReadFroms(E), co : CoherenceOrders(E)]

-----------------------------------------------------------------------------
\* The coherence pairs with no write in between.
Adjacent(co) ==
  {e \in co : ~ \E w \in {p[2] : p \in co} : <<e[1], w>> \in co /\ <<w, e[2]>> \in co}

\* A read that forwards its own thread's store gets no edge from it; a read
\* precedes the writes that overwrite its source.
ReadFrom(E, x) ==
  {<<x.rf[p], p.read>> : p \in {q \in ReadParts(E) :
      x.rf[q] # Initial /\ x.rf[q].thread # q.read.thread}}

FromRead(E, x) ==
  UNION {{<<p.read, w>> : w \in {v \in Writes(E) \ {p.read} :
      Overlaps(v, p) /\ (x.rf[p] = Initial \/ <<x.rf[p], v>> \in x.co)}} : p \in ReadParts(E)}

\* Mutant of Communication: the order of writes is not tied at all.
CommunicationNoCoherence(E, x) == ReadFrom(E, x) \cup FromRead(E, x)

\* _communication_relations of the enumeration ties adjacent writes only; the
\* formula of _check_symbolic ties every overlapping pair.
Communication(E, x)    == Adjacent(x.co) \cup ReadFrom(E, x) \cup FromRead(E, x)
AllCommunication(E, x) == x.co \cup ReadFrom(E, x) \cup FromRead(E, x)

\* _atomic_read_from_valid: an atomic reads its immediate coherence predecessor.
AtomicsValid(E, x) ==
  \A p \in ReadParts(E) : IsAtomic(p.read) =>
     {w \in Writes(E) : <<w, p.read>> \in Adjacent(x.co)} = {x.rf[p]} \ {Initial}

\* find_cycle finds nothing: every set of events has one that none precedes.
Acyclic(E, edges) ==
  \A S \in SUBSET E : S # {} => \E b \in S : \A a \in S : <<a, b>> \notin edges

SourceAccepts(E, x) == Acyclic(E, SourceOrder(E) \cup Communication(E, x))
TargetAccepts(E, x) == Acyclic(E, TargetOrder(E) \cup Communication(E, x))

\* What the enumeration looks for, and what the formula asks the solver for.
TargetOnly(E, x) == AtomicsValid(E, x) /\ TargetAccepts(E, x) /\ ~ SourceAccepts(E, x)

SymbolicTargetOnly(E, x) ==
  /\ AtomicsValid(E, x)
  /\ Acyclic(E, TargetOrder(E) \cup AllCommunication(E, x))
  /\ ~ Acyclic(E, SourceOrder(E) \cup AllCommunication(E, x))

\* _values_match: each part's recorded bytes are those its source recorded.
ValuesMatch(E, x) ==
  \A p \in ReadParts(E) :
     /\ ~ IsAtomic(p.read)
     /\ x.rf[p] # Initial
     /\ ~ IsAtomic(x.rf[p])
     /\ p.read.known /\ x.rf[p].known
     /\ \A b \in p.addr .. End(p) - 1 : p.read.data[b] = x.rf[p].data[b]

=============================================================================
