-------------------------- MODULE WindowConstruction --------------------------
(***************************************************************************)
(* build_windows: the conflicts of a trace are divided so that a cycle of  *)
(* relations lies in one part, and each part becomes a window with the     *)
(* fences and atomics that it needs.                                       *)
(*                                                                         *)
(* A trace is a set of events, as a window is, and an edge is the set of   *)
(* its two ends.                                                           *)
(***************************************************************************)
EXTENDS MemoryRelations

\* communication_edges of a trace whose objects live throughout.
Conflicts(E) ==
  {{c[1], c[2]} : c \in {d \in E \X E :
     /\ d[1].thread # d[2].thread /\ IsMemory(d[1]) /\ IsMemory(d[2])
     /\ Overlaps(d[1], d[2]) /\ (IsWrite(d[1]) \/ IsWrite(d[2]))}}

\* _boundary_category and _boundary_accepts
Category(b) ==
  CASE b.kind \in {"ATOMIC_RMW", "FUTEX_WAIT", "MFENCE"} -> "full"
    [] b.kind = "LFENCE" -> "read"
    [] OTHER -> "write"

Accepts(category, e) ==
  CASE category = "full" -> IsMemory(e)
    [] category = "read" -> IsRead(e)
    [] OTHER -> IsWrite(e)

\* boundaries_between the first and the last of some events of a thread.
Boundaries(E, ends) ==
  {b \in E : /\ b.kind \in {"ATOMIC_RMW", "LFENCE", "SFENCE", "MFENCE", "FUTEX_WAIT"}
             /\ \E first, last \in ends : /\ first.thread = b.thread /\ last.thread = b.thread
                                          /\ first.seq <= b.seq /\ b.seq <= last.seq}

-----------------------------------------------------------------------------
\* Mutant: every place is a graph of its own.
ThreadLinksNone(ends) == {}

\* Through its thread an end meets the next one, at another place or not.
ThreadLinks(ends) == {{l[1], l[2]} : l \in {m \in ends \X ends : m[1] \in Nearest(ends, m[2])}}

\* A boundary is the centre of what it orders.
Stars(E, ends) ==
  {{l[1], l[2]} : l \in {m \in Boundaries(E, ends) \X ends :
     LET centre == m[1]
         before == {e \in ends : Before(e, centre) /\ Accepts(Category(centre), e)}
         after  == {e \in ends : Before(centre, e) /\ Accepts(Category(centre), e)}
     IN  m[2] \in before \cup after /\ before # {} /\ after # {}}}

Graph(E, edges) == edges \cup ThreadLinks(UNION edges) \cup Stars(E, UNION edges)

\* What is connected to s in a graph without the vertex x.
Around(graph, x, s) ==
  LET left == {g \in graph : x \notin g}
      upto[k \in Nat] ==
        IF k = 0 THEN s ELSE LET r == upto[k - 1] IN r \cup UNION {g \in left : g \cap r # {}}
  IN  upto[Cardinality(UNION graph)]

\* _biconnected_components, by what it finds: edges belong together when no
\* single vertex parts them.
Together(graph, e, f) ==
  e = f \/ \A x \in UNION graph : (f \ {x}) \cap Around(graph, x, e \ {x}) # {}

Components(graph) == {UNION {f \in graph : Together(graph, e, f)} : e \in graph}

Groups(E, edges) ==
  {{d \in edges : d \subseteq c} : c \in Components(Graph(E, edges))} \ {{}}

\* _minimal_boundaries: the first of each category in a gap between two ends, and
\* in a gap with a full one no other.
MinimalBoundaries(E, ends) ==
  LET found == Boundaries(E, ends) \ ends
      sameGap(b, c) == b.thread = c.thread /\ \A e \in ends : Before(e, b) <=> Before(e, c)
      full == {b \in found : Category(b) = "full"}
  IN  {b \in found :
         /\ ~ \E c \in found : Before(c, b) /\ sameGap(c, b) /\ Category(c) = Category(b)
         /\ Category(b) = "full" \/ ~ \E c \in full : sameGap(c, b)}

BuildWindows(E, edges) ==
  {(UNION group) \cup MinimalBoundaries(E, UNION group) : group \in Groups(E, edges)}

=============================================================================
