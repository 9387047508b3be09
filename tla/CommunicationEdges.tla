-------------------------- MODULE CommunicationEdges --------------------------
(***************************************************************************)
(* From a recorded trace to the communication edges that windows are built *)
(* of: analyze_trace chooses how far the communication has to be           *)
(* enumerated, find_communication_edges sweeps each page in address order  *)
(* with a set of active intervals, and analyze_trace decides whether what  *)
(* came out may be used.                                                   *)
(***************************************************************************)
EXTENDS ThreadHandoff

CONSTANTS
  PageSize,    \* 4096 in the code
  MaxEdges,    \* max_communication_edges
  MaxActive,   \* max_communication_active_events
  Scopes       \* subset of {"full", "application"}: --application-only or not

ASSUME ScopesAreKnown == Scopes \subseteq {"full", "application"}

ASSUME LimitsArePositive ==
  PageSize \in Nat \ {0} /\ MaxEdges \in Nat \ {0} /\ MaxActive \in Nat \ {0}

VARIABLES
  scope,
  phase,      \* "record", "sweep" or "done"
  mode,       \* how the edges are enumerated, once that is decided
  pruned,     \* the pairs that a thread handoff orders
  pages,      \* pages still to be swept
  rows,       \* rows of the current page still to be taken, in address order
  page,       \* the current page
  active,     \* rows whose interval may still overlap the next one
  emitted,    \* the edges found, in order
  outcome     \* "none", "refused", "skipped" or "edges"

sweepVars == <<pages, rows, page, active, emitted>>

vars == <<handoffVars, scope, phase, mode, pruned, sweepVars, outcome>>

Init ==
  /\ HandoffInit
  /\ scope \in Scopes
  /\ phase = "record" /\ mode = "none" /\ outcome = "none"
  /\ pruned = {} /\ pages = {} /\ rows = <<>> /\ page = 0 /\ active = {}
  /\ emitted = <<>>

-----------------------------------------------------------------------------
Event(i) == trace[i]
Last(e)  == e.addr + e.size
Overlap(a, b) == {x \in a.addr .. Last(a) - 1 : b.addr <= x /\ x < Last(b)}
IsWrite(e) == e.kind \in {"STORE", "ATOMIC_RMW"}

\* Two lives of one heap block or mapping.
Reincarnated(a, b) ==
  /\ a.object # NoObject /\ b.object # NoObject
  /\ a.object.base = b.object.base /\ a.object.generation # b.object.generation

\* Two accesses that may have to do with each other.
Meet(i, j) ==
  /\ Event(i).thread # Event(j).thread
  /\ IsWrite(Event(i)) \/ IsWrite(Event(j))
  /\ ~ Reincarnated(Event(i), Event(j))
  /\ Overlap(Event(i), Event(j)) # {}

(***************************************************************************)
(* analyze_application_partition: the plain accesses of the main ELF.      *)
(***************************************************************************)
AppPlain == {i \in Accesses : Event(i).app /\ Event(i).kind \in {"LOAD", "STORE"}}

LivesOverlap(v, w) ==
  EndTicket(v) >= StartTicket(w) /\ EndTicket(w) >= StartTicket(v)

\* Mutant: off by one where a life ends.
DuringLifeShort(i, w) ==
  StartTicket(w) <= Event(i).ticket /\ Event(i).ticket < EndTicket(w)

DuringLife(i, w) ==
  StartTicket(w) <= Event(i).ticket /\ Event(i).ticket <= EndTicket(w)

PartitionSafe ==
  \A i, j \in AppPlain :
    Event(j).thread \in Workers /\ Meet(i, j) =>
      IF Event(i).thread = Main
        THEN ~ DuringLife(i, Event(j).thread)
        ELSE ~ LivesOverlap(Event(i).thread, Event(j).thread)

\* In application scope a failed partition ends the analysis, and complete
\* handoffs make the enumeration superfluous unless the main ELF has atomics.
ModeOfTrace ==
  CASE scope = "full" -> "full"
    [] scope = "application" /\ ~ PartitionSafe -> "failed"
    [] scope = "application" /\ PartitionSafe /\ ~ HandoffsComplete -> "filtered"
    [] OTHER -> IF \E i \in Accesses : Event(i).app /\ Event(i).kind = "ATOMIC_RMW"
                  THEN "atomics" ELSE "skip"

-----------------------------------------------------------------------------
\* event_pages: the pages an access reaches into.
PagesOf(e) == (e.addr \div PageSize) .. ((Last(e) - 1) \div PageSize)

OnPage(g) == {i \in Accesses : g \in PagesOf(Event(i))}

\* Pages of several threads with a write; where edges will be filtered also
\* with an access of the main ELF, unless that makes none at all.
Eligible(m) ==
  {g \in UNION {PagesOf(Event(i)) : i \in Accesses} :
     /\ Cardinality({Event(i).thread : i \in OnPage(g)}) > 1
     /\ \E i \in OnPage(g) : IsWrite(Event(i))
     /\ m = "filtered" /\ (\E i \in Accesses : Event(i).kind \in MemoryKinds /\ Event(i).app)
          => \E i \in OnPage(g) : Event(i).app}

TooCrowded(m) ==
  m \in {"full", "filtered"} /\ \E g \in Eligible(m) : Cardinality(OnPage(g)) > MaxActive

\* ORDER BY address, event_id.
Before(i, j) ==
  \/ Event(i).addr < Event(j).addr
  \/ Event(i).addr = Event(j).addr /\ i < j

Sorted(ids) ==
  [k \in 1 .. Cardinality(ids) |->
     CHOOSE i \in ids : Cardinality({j \in ids : Before(j, i)}) = k - 1]

Pair(i, j) == {i, j}

HandedOff(i, j) == <<i, j>> \in pruned \/ <<j, i>> \in pruned

Yields(i, j) == Meet(i, j) /\ ~ HandedOff(i, j)

\* The page that has to report the pair, if both are on it.
Home(i, j) ==
  LET common == Overlap(Event(i), Event(j))
  IN  (CHOOSE x \in common : \A y \in common : x <= y) \div PageSize

-----------------------------------------------------------------------------
Record ==
  /\ phase = "record" /\ HandoffNext
  /\ UNCHANGED <<scope, phase, mode, pruned, sweepVars, outcome>>

Begin ==
  /\ phase = "record" /\ Recorded
  /\ mode' = ModeOfTrace
  /\ pruned' = Pruned
  /\ outcome' = CASE mode' = "skip" -> "skipped"
                  [] mode' = "failed" \/ TooCrowded(mode') -> "refused"
                  [] OTHER -> "none"
  /\ phase' = IF outcome' = "none" THEN "sweep" ELSE "done"
  /\ pages' = IF outcome' = "none" THEN Eligible(mode') ELSE {}
  /\ UNCHANGED <<handoffVars, scope, rows, page, active, emitted>>

Room == Len(emitted) <= MaxEdges

TakePage ==
  /\ phase = "sweep" /\ rows = <<>> /\ Room
  /\ \E g \in pages :
       /\ page' = g
       /\ pages' = pages \ {g}
       /\ rows' = Sorted(OnPage(g))
  /\ active' = {}
  /\ UNCHANGED <<handoffVars, scope, phase, mode, pruned, emitted, outcome>>

\* Mutant: an interval is dropped a byte early.
AliveShort(i) == {j \in active : Last(Event(j)) > Event(i).addr + 1}

\* One row: drop the intervals that ended, compare with the rest, stop at one
\* edge more than MaxEdges, become active.
Alive(i) == {j \in active : Last(Event(j)) > Event(i).addr}

Found(i) == {j \in Alive(i) : Yields(i, j) /\ Home(i, j) = page}

\* The edges so far and those of row i, in the order of the active list.
EdgesAfter(i) ==
  LET found == Sorted(Found(i))
      all   == emitted \o [k \in DOMAIN found |-> Pair(i, found[k])]
  IN  SubSeq(all, 1, IF Len(all) <= MaxEdges THEN Len(all) ELSE MaxEdges + 1)

Crowded(i) == Len(EdgesAfter(i)) <= MaxEdges /\ Cardinality(Alive(i)) >= MaxActive

TakeRow ==
  /\ phase = "sweep" /\ rows # <<>> /\ Room /\ ~ Crowded(Head(rows))
  /\ emitted' = EdgesAfter(Head(rows))
  /\ active' = Alive(Head(rows)) \cup {Head(rows)}
  /\ rows' = Tail(rows)
  /\ UNCHANGED <<handoffVars, scope, phase, mode, pruned, pages, page, outcome>>

\* CommunicationLimitError: the edges found are dropped.
GiveUp ==
  /\ phase = "sweep" /\ rows # <<>> /\ Room /\ Crowded(Head(rows))
  /\ emitted' = <<>>
  /\ phase' = "done" /\ outcome' = "refused"
  /\ UNCHANGED <<handoffVars, scope, mode, pruned, pages, rows, page, active>>

\* _application_edges keeps the edges with an end in the main ELF.
Counted(e) == mode = "filtered" => \E i \in e : Event(i).app

Kept == {e \in {emitted[k] : k \in DOMAIN emitted} : Counted(e)}

\* The sweep is through, or its generator stopped at the limit; the limit is
\* held against what the filter left.
End ==
  /\ phase = "sweep"
  /\ (rows = <<>> /\ pages = {}) \/ ~ Room
  /\ phase' = "done"
  /\ outcome' = IF Cardinality(Kept) > MaxEdges THEN "refused" ELSE "edges"
  /\ UNCHANGED <<handoffVars, scope, mode, pruned, sweepVars>>

Done == phase = "done" /\ UNCHANGED vars

Next == Record \/ Begin \/ TakePage \/ TakeRow \/ GiveUp \/ End \/ Done

Spec == Init /\ [][Next]_vars

-----------------------------------------------------------------------------
\* The pairs that conflict, found without a sweep.
Conflicts == {Pair(e[1], e[2]) : e \in {d \in Accesses \X Accesses : Yields(d[1], d[2])}}

ConflictsAreKept == \A e \in Conflicts : Counted(e) => e \in Kept

(***************************************************************************)
(* docs/dynamic/06-streaming-and-limits.md, line 5: whichever limit is     *)
(* hit, the answer is UNKNOWN.  So edges are used only when every conflict *)
(* of two threads in the analyzed scope is among them, unless a handoff or *)
(* a new life of the object excludes it.  The code falls short of it: the  *)
(* generator stops at the limit before the filter drops runtime edges.     *)
(***************************************************************************)
LimitsAreRefusals == outcome = "edges" => ConflictsAreKept

(***************************************************************************)
(* Apart from that no conflict is lost: not to the order of the sweep, the *)
(* active set or the page filter, nor to the limit where nothing is        *)
(* filtered after it.                                                      *)
(***************************************************************************)
NoConflictLost ==
  outcome = "edges" /\ (mode = "filtered" => Room) => ConflictsAreKept

(***************************************************************************)
(* The fast path of docs/dynamic/10-application-scope.md, lines 10-14:     *)
(* where no edge is enumerated, conflicting accesses of the main ELF were  *)
(* recorded apart, the one while the other's thread was not alive.         *)
(***************************************************************************)
SkippedIsApart ==
  outcome = "skipped" =>
    \A i, j \in {k \in Accesses : Event(k).app /\ Event(k).kind \in MemoryKinds} :
      Meet(i, j) /\ i < j =>
        \/ \E k \in OfKind("THREAD_END", Event(i).thread) : k < j
        \/ \E k \in OfKind("THREAD_START", Event(j).thread) : i < k

=============================================================================
