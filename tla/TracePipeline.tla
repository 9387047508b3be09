---------------------------- MODULE TracePipeline ----------------------------
(***************************************************************************)
(* analyze_trace: from a trace directory to a DynamicCertificate.  The     *)
(* stages of other modules (validation, communication sweep, windows,      *)
(* window checker) appear by what they may return; this module is about    *)
(* the order of the stages, the early ends, and what becomes of the        *)
(* reasons each stage reports.                                             *)
(*                                                                         *)
(* A trace is a record of facts about the directory:                       *)
(*   threads, events  as validation counts them                            *)
(*   waits      futex waits that the import adds to the events             *)
(*   reasons    what validation reports; whole: none of it is structural   *)
(*   readable   the manifest can be loaded                                 *)
(*   edges      the conflicts of two threads left to check                 *)
(*   wide       those with an end on too many pages to be indexed          *)
(*   app        those with an end in the main ELF; inner: with both        *)
(*   cycles     sets of conflicts that close a cycle only the target allows*)
(*   crowd      accesses on the hottest page; it may hold none of the main *)
(*              ELF                                                        *)
(*   partition  the main ELF's plain accesses are found apart              *)
(*   handoffs   creations and joins pair up                                *)
(*   atomics    the main ELF has some                                      *)
(*   closed     control_flow_closed                                        *)
(***************************************************************************)
EXTENDS Naturals, FiniteSetsExt

CONSTANTS
  Traces,           \* the traces a directory may hold
  Scopes,           \* subset of {"full", "application"}
  Databases,        \* subset of {"temporary", "named"}: --database given or not
  MaxObjectEvents, MaxEdges, MaxActive, MaxWindow   \* limits of DynamicConfig

ASSUME LimitsArePositive ==
  {MaxObjectEvents, MaxEdges, MaxActive, MaxWindow} \subseteq Nat \ {0}

ASSUME ScopesAreKnown == Scopes \subseteq {"full", "application"}

\* What sweeping, pairing and partitioning establish of a trace.
ASSUME TracesAreConsistent ==
  \A t \in Traces :
    /\ t.inner \subseteq t.app /\ t.app \cup t.wide \subseteq t.edges
    /\ {} \notin t.cycles
    /\ t.threads = 1 => t.edges = {}
    /\ t.partition /\ t.handoffs /\ ~ t.atomics => t.inner = {}

VARIABLES
  trace,
  scope, database, supported,   \* the configuration, and whether the contract is one the models fit
  phase,
  store,       \* the traces whose events the database holds
  unknowns,    \* the stages that gave a reason for UNKNOWN
  mode,        \* how far communication is enumerated
  raw,         \* raw_edge_sample
  kept,        \* edge_sample: what the scope leaves of it
  windows,     \* sets of edges
  results,     \* status of each window
  certificate

inputs == <<trace, scope, database, supported>>
found  == <<raw, kept>>
pipelineVars == <<inputs, phase, store, unknowns, mode, found, windows, results, certificate>>

NoCertificate == [verdict |-> "none"]
Statuses == {"safe", "unknown", "counterexample"}

\* analyze_trace is called on a trace; a named database keeps what it holds.
Idle(t) ==
  /\ trace = t /\ phase = "load" /\ unknowns = {} /\ mode = "none"
  /\ raw = {} /\ kept = {} /\ windows = {} /\ results = <<>>
  /\ certificate = NoCertificate

PipelineInit ==
  /\ \E t \in Traces : Idle(t)
  /\ scope \in Scopes /\ database \in Databases /\ supported \in BOOLEAN
  /\ store = {}

-----------------------------------------------------------------------------
(* The certificate and its validator.                                        *)

\* keep_verdict_strict
Strict(c) ==
  /\ c.verdict = "TRACE_SAFE" =>
       c.complete /\ c.unknowns = {} /\ c.statuses \subseteq {"safe"}
  /\ c.verdict = "COUNTEREXAMPLE" =>
       c.complete /\ c.unknowns = {} /\ "counterexample" \in c.statuses

\* A certificate that the validator refuses is an exception, not an answer.
Issue(verdict, reasons) ==
  LET c == [verdict |-> verdict, complete |-> trace.whole, unknowns |-> reasons,
            statuses |-> {results[w] : w \in DOMAIN results},
            enumerated |-> mode # "skip", count |-> Cardinality(raw)]
  IN  IF Strict(c) THEN phase' = "answered" /\ certificate' = c
      ELSE phase' = "raised" /\ certificate' = [NoCertificate EXCEPT !.verdict = "refused"]

\* _unknown_certificate and _single_thread_certificate
UnknownCertificate(reasons) == Issue("UNKNOWN", reasons)
SingleThreadCertificate == Issue("TRACE_SAFE", {})

\* An error that is not one of resources leaves without a certificate.
Raise ==
  /\ phase' = "raised"
  /\ certificate' = [NoCertificate EXCEPT !.verdict = "error"]

-----------------------------------------------------------------------------
LoadFails ==
  /\ phase = "load" /\ ~ trace.readable
  /\ Raise
  /\ UNCHANGED <<inputs, store, unknowns, mode, found, windows, results>>

Preflight ==
  /\ phase = "load" /\ trace.readable
  /\ unknowns' = {<<"validation", r>> : r \in trace.reasons}
                   \cup (IF supported THEN {} ELSE {<<"contract", "unsupported">>})
  /\ phase' = "preflight"
  /\ UNCHANGED <<inputs, store, mode, found, windows, results, certificate>>

StopAtPreflight ==
  /\ phase = "preflight" /\ unknowns # {}
  /\ Issue("UNKNOWN", unknowns)
  /\ UNCHANGED <<inputs, store, unknowns, mode, found, windows, results>>

SingleThread ==
  /\ phase = "preflight" /\ unknowns = {} /\ trace.threads = 1
  /\ SingleThreadCertificate
  /\ UNCHANGED <<inputs, store, unknowns, mode, found, windows, results>>

OverBudget ==
  /\ phase = "preflight" /\ unknowns = {} /\ trace.threads > 1
  /\ trace.events > MaxObjectEvents
  /\ unknowns' = {<<"budget", "events">>}
  /\ UnknownCertificate(unknowns')
  /\ UNCHANGED <<inputs, store, mode, found, windows, results>>

EventsIn(s) == MapThenSumSet(LAMBDA t : t.events + t.waits, s)

\* add_events: the tables are created unless they exist, so a named database
\* still holds the events of the traces analyzed before.
Import ==
  /\ phase = "preflight" /\ unknowns = {} /\ trace.threads > 1
  /\ trace.events <= MaxObjectEvents
  /\ store' = (IF database = "named" THEN store ELSE {}) \cup {trace}
  /\ LET lost == IF trace.wide = {} THEN {} ELSE {<<"storage", "pages">>}
     IN  IF EventsIn(store') > MaxObjectEvents
           THEN /\ unknowns' = lost \cup {<<"budget", "stored">>}
                /\ UnknownCertificate(unknowns')
           ELSE /\ unknowns' = lost
                /\ phase' = "objects"
                /\ UNCHANGED certificate
  /\ UNCHANGED <<inputs, mode, found, windows, results>>

\* The ids of two traces meet, or the disk is full.
ImportFails ==
  /\ phase = "preflight" /\ unknowns = {} /\ trace.threads > 1
  /\ trace.events <= MaxObjectEvents
  /\ Raise
  /\ UNCHANGED <<inputs, store, unknowns, mode, found, windows, results>>

ObjectsExhausted ==
  /\ phase = "objects"
  /\ unknowns' = unknowns \cup {<<"budget", "objects">>}
  /\ UnknownCertificate(unknowns')
  /\ UNCHANGED <<inputs, store, mode, found, windows, results>>

ObjectsFail ==
  /\ phase = "objects"
  /\ Raise
  /\ UNCHANGED <<inputs, store, unknowns, mode, found, windows, results>>

\* How far communication has to be enumerated.
ModeOf ==
  CASE scope = "full" -> "full"
    [] scope = "application" /\ ~ trace.partition -> "failed"
    [] scope = "application" /\ trace.partition /\ ~ trace.handoffs -> "filtered"
    [] OTHER -> IF trace.atomics THEN "atomics" ELSE "skip"

MaterializeObjects ==
  /\ phase = "objects"
  /\ mode' = ModeOf
  /\ unknowns' = unknowns \cup
       (IF ModeOf = "failed" THEN {<<"partition", "unsafe">>} ELSE {})
  /\ phase' = IF ModeOf \in {"failed", "skip"} THEN "windows" ELSE "sweep"
  /\ UNCHANGED <<inputs, store, found, windows, results, certificate>>

-----------------------------------------------------------------------------
\* What the sweep may come upon.  The pages of the filter hold an access of the
\* main ELF; among the events of two traces any conflict may seem one of two
\* lives of an object and be passed over.
Reachable ==
  {s \ trace.wide : s \in {r \in SUBSET trace.edges :
      /\ mode = "filtered" => trace.app \subseteq r
      /\ mode # "filtered" /\ Cardinality(store) = 1 => r = trace.edges}}

\* The generator stops after limit + 1 edges.
Samples(s) ==
  IF Cardinality(s) <= MaxEdges THEN {s}
  ELSE {r \in SUBSET s : Cardinality(r) = MaxEdges + 1}

\* _application_edges
InScope(s) == IF mode = "filtered" THEN s \cap trace.app ELSE s

\* A page is counted before the sweep, except where the main ELF has atomics.
CrowdRefused ==
  /\ phase = "sweep" /\ trace.crowd > MaxActive
  /\ unknowns' = unknowns \cup {<<"budget", "active">>}
  /\ phase' = "windows"
  /\ UNCHANGED <<inputs, store, mode, found, windows, results, certificate>>

\* Too many edges leave none, and no window is built.
Sweep ==
  /\ phase = "sweep" /\ (trace.crowd <= MaxActive \/ mode # "full")
  /\ \E s \in Reachable : \E r \in Samples(s) :
       /\ raw' = r
       /\ IF Cardinality(InScope(r)) > MaxEdges
            THEN kept' = {} /\ unknowns' = unknowns \cup {<<"budget", "edges">>}
            ELSE kept' = InScope(r) /\ UNCHANGED unknowns
  /\ phase' = "windows"
  /\ UNCHANGED <<inputs, store, mode, windows, results, certificate>>

\* build_windows leaves no cycle spread over two windows.
Divisions(s) ==
  {p \in SUBSET ((SUBSET s) \ {{}}) :
     /\ UNION p = s
     /\ \A v, w \in p : v = w \/ v \cap w = {}
     /\ \A c \in trace.cycles : c \subseteq s => \E w \in p : c \subseteq w}

TooLarge(p) == {w \in p : Cardinality(w) > MaxWindow}

\* Mutant: a window over the limit is left out without a word.
BuildWindowsQuietly ==
  /\ phase = "windows"
  /\ \E p \in Divisions(kept) : windows' = p \ TooLarge(p)
  /\ phase' = "check"
  /\ UNCHANGED <<inputs, store, unknowns, mode, found, results, certificate>>

BuildWindows ==
  /\ phase = "windows"
  /\ \E p \in Divisions(kept) :
       /\ windows' = p \ TooLarge(p)
       /\ unknowns' = unknowns \cup {<<"window", w>> : w \in TooLarge(p)}
  /\ phase' = "check"
  /\ UNCHANGED <<inputs, store, mode, found, results, certificate>>

\* check_window: a witness counts on a closed control skeleton only.
Possible(w) ==
  {"unknown"} \cup
  (IF \E c \in trace.cycles : c \subseteq w
     THEN IF trace.closed THEN {"counterexample"} ELSE {}
     ELSE {"safe"})

Check ==
  /\ phase = "check"
  /\ results' \in {f \in [windows -> Statuses] : \A w \in windows : f[w] \in Possible(w)}
  /\ unknowns' = unknowns \cup {<<"check", w>> : w \in {v \in windows : results'[v] = "unknown"}}
  /\ phase' = "judge"
  /\ UNCHANGED <<inputs, store, mode, found, windows, certificate>>

Verdict ==
  CASE unknowns # {} -> "UNKNOWN"
    [] unknowns = {} /\ (\E w \in windows : results[w] = "counterexample") -> "COUNTEREXAMPLE"
    [] OTHER -> "TRACE_SAFE"

Judge ==
  /\ phase = "judge"
  /\ Issue(Verdict, unknowns)
  /\ UNCHANGED <<inputs, store, unknowns, mode, found, windows, results>>

PipelineNext ==
  \/ LoadFails \/ Preflight \/ StopAtPreflight \/ SingleThread \/ OverBudget
  \/ Import \/ ImportFails \/ ObjectsExhausted \/ ObjectsFail \/ MaterializeObjects
  \/ CrowdRefused \/ Sweep \/ BuildWindows \/ Check \/ Judge

-----------------------------------------------------------------------------
(***************************************************************************)
(* The refinement: what each obligation means of the trace itself, so that *)
(* it does not depend on which reasons the code chose to report.           *)
(***************************************************************************)

\* The conflicts a certificate speaks of.  In application scope: with an end in
\* the main ELF, or, if it says that edges were not enumerated, with both.  A
\* count over the limit shows that the sweep was cut short.
Claimed ==
  CASE scope = "full" -> trace.edges
    [] scope = "application" /\ mode = "skip" -> trace.inner
    [] scope = "application" /\ Cardinality(raw) > MaxEdges -> {}
    [] OTHER -> trace.app

Obligations == {"whole", "supported", "covered", "decided"}

Met ==
  {o \in Obligations :
     CASE o = "whole" -> trace.reasons = {}
       [] o = "supported" -> supported
       [] o = "covered" -> /\ phase \in {"check", "judge", "answered"} \/ trace.threads = 1
                           /\ Claimed \subseteq UNION windows
       [] o = "decided" -> /\ phase \in {"judge", "answered"}
                           /\ \A w \in DOMAIN results : results[w] # "unknown"}

\* A cycle among those conflicts, or among others that were looked at as well.
Refuted ==
  phase = "answered" /\ \E c \in trace.cycles : c \subseteq Claimed \cup UNION windows

Promise == INSTANCE VerdictPromise WITH
  met <- Met, doubted <- (unknowns # {}), refuted <- Refuted,
  answer <- CASE phase = "answered" -> certificate.verdict
              [] phase = "raised" -> "error"
              [] OTHER -> "none"

(***************************************************************************)
(* Strictness of docs/dynamic/05-verdict-and-certificate.md, lines 10-12:  *)
(* every path through the stages keeps what a verdict promises.            *)
(***************************************************************************)
KeepsPromise == Promise!Spec

=============================================================================
