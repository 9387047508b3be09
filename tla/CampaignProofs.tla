---------------------------- MODULE CampaignProofs ----------------------------
(***************************************************************************)
(* Every campaign keeps what VerdictPromise says of a verdict, for any     *)
(* traces, limits and plans, as long as each trace is analyzed in a        *)
(* database of its own.  In a named database the conflicts of a trace may  *)
(* be passed over among the events of another, so the theorem excludes it. *)
(*                                                                         *)
(* The invariant says, phase by phase, what an analysis that has noted no  *)
(* reason for UNKNOWN has established of the trace.                        *)
(***************************************************************************)
EXTENDS Campaign, FiniteSetTheorems, TLAPS

\* Nothing has been found before the sweep.
Untouched == raw = {} /\ kept = {} /\ windows = {} /\ results = <<>>

InputsOK ==
  /\ trace \in Traces /\ scope \in Scopes /\ database \in Databases
  /\ supported \in BOOLEAN

Working == {"preflight", "objects", "sweep", "windows", "check", "judge"}

\* What validation and the contract object to is noted.
Noted == unknowns = {} => trace.reasons = {} /\ supported

\* The database holds this trace alone, and all conflicts are indexed.
Stored == store = {trace} /\ (unknowns = {} => trace.wide = {})

Sweepable == mode = ModeOf /\ mode \in {"full", "filtered", "atomics"}

Closed(s) == \A c \in trace.cycles : c \subseteq s => \E w \in windows : c \subseteq w

Judged ==
  \A w \in windows : results[w] \in Possible(w) /\ results[w] # "unknown"

PhaseInv ==
  /\ phase \in Working \cup {"load", "answered", "raised"}
  /\ phase = "load" => unknowns = {}
  /\ phase \in {"load", "preflight", "objects", "sweep"} => Untouched
  /\ phase \in Working => Noted
  /\ phase \in {"objects", "sweep"} => Stored
  /\ phase = "sweep" => Sweepable
  /\ phase = "windows" => windows = {} /\ (unknowns = {} => Claimed \subseteq kept)
  /\ phase \in {"windows", "check"} => results = <<>>
  /\ phase \in {"check", "judge"} /\ unknowns = {} =>
       Claimed \subseteq UNION windows /\ Closed(UNION windows)
  /\ phase = "judge" => DOMAIN results = windows /\ (unknowns = {} => Judged)
  /\ phase = "answered" => certificate.verdict \in {"UNKNOWN", "TRACE_SAFE", "COUNTEREXAMPLE"}

Inv == InputsOK /\ PhaseInv

-----------------------------------------------------------------------------
(* The stages keep the invariant.                                            *)

LEMMA PreflightKeeps ==
  ASSUME Inv, Preflight PROVE Inv'
<1>1. /\ phase = "load" /\ phase' = "preflight"
      /\ UNCHANGED <<inputs, store, mode, found, windows, results, certificate>>
      /\ unknowns' = {<<"validation", r>> : r \in trace.reasons}
                       \cup (IF supported THEN {} ELSE {<<"contract", "unsupported">>})
  BY DEF Preflight
<1>2. Noted'
  BY <1>1 DEF Noted, inputs
<1>3. InputsOK' /\ Untouched'
  BY <1>1 DEF Inv, InputsOK, PhaseInv, Untouched, inputs, found
<1> QED
  BY <1>1, <1>2, <1>3 DEF Inv, PhaseInv, Working

\* A step that ends the analysis.
Ends ==
  /\ phase' \in {"answered", "raised"} /\ UNCHANGED inputs
  /\ phase' = "answered" => certificate'.verdict \in {"UNKNOWN", "TRACE_SAFE", "COUNTEREXAMPLE"}

LEMMA EndKeeps ==
  ASSUME Inv, Ends PROVE Inv'
BY DEF Inv, InputsOK, PhaseInv, Ends, inputs, Working

LEMMA IssueEnds ==
  ASSUME NEW v \in {"UNKNOWN", "TRACE_SAFE", "COUNTEREXAMPLE"}, NEW u, Issue(v, u), UNCHANGED inputs
  PROVE  Ends
BY DEF Issue, Ends, inputs

LEMMA RaiseEnds ==
  ASSUME Raise, UNCHANGED inputs
  PROVE  Ends
BY DEF Raise, Ends, inputs

LEMMA StoreKeeps ==
  ASSUME Inv, Databases \subseteq {"temporary"}, Import PROVE Inv'
<1>1. database = "temporary" /\ UNCHANGED inputs /\ store' = {trace}
  BY DEF Inv, InputsOK, Import, inputs
<1>2. CASE phase' = "objects"
  <2>1. /\ phase = "preflight" /\ unknowns = {} /\ UNCHANGED <<found, windows, results>>
        /\ unknowns' = IF trace.wide = {} THEN {} ELSE {<<"storage", "pages">>}
    BY <1>2 DEF Import, UnknownCertificate, Issue, found
  <2>2. Untouched'
    BY <2>1 DEF Inv, PhaseInv, Untouched, found
  <2>3. Noted' /\ Stored'
    BY <1>1, <2>1 DEF Inv, PhaseInv, Noted, Stored, inputs, Working
  <2> QED
    BY <1>1, <1>2, <2>1, <2>2, <2>3 DEF Inv, InputsOK, PhaseInv, inputs, Working
<1>3. CASE phase' # "objects"
  <2>1. PICK u : UnknownCertificate(u)
    BY <1>3 DEF Import
  <2>2. Ends
    BY <1>1, <2>1, IssueEnds DEF UnknownCertificate
  <2> QED
    BY <2>2, EndKeeps
<1> QED
  BY <1>2, <1>3

(***************************************************************************)
(* Where nothing is swept, there is nothing to find or a reason is noted.  *)
(***************************************************************************)
LEMMA ModeKeeps ==
  ASSUME Inv, MaterializeObjects PROVE Inv'
<1>1. /\ phase = "objects" /\ mode' = ModeOf /\ UNCHANGED <<inputs, store, found, windows, results>>
      /\ unknowns' = unknowns \cup (IF ModeOf = "failed" THEN {<<"partition", "unsafe">>} ELSE {})
      /\ phase' = IF ModeOf \in {"failed", "skip"} THEN "windows" ELSE "sweep"
  BY DEF MaterializeObjects
<1>2. Untouched /\ Stored /\ Noted /\ trace \in Traces /\ scope \in {"full", "application"}
  BY <1>1, ScopesAreKnown DEF Inv, InputsOK, PhaseInv, Working
<1>3. InputsOK' /\ Noted' /\ Stored' /\ Untouched'
  BY <1>1, <1>2 DEF Inv, InputsOK, Noted, Stored, Untouched, inputs, found
<1>4. ModeOf' = ModeOf /\ ModeOf \in {"full", "failed", "filtered", "atomics", "skip"}
  BY <1>1, <1>2 DEF ModeOf, inputs
<1>5. ASSUME phase' = "windows", unknowns' = {} PROVE Claimed' \subseteq kept'
  <2>1. ModeOf = "skip"
    BY <1>1, <1>5
  <2>2. scope = "application" /\ trace.partition /\ trace.handoffs /\ ~ trace.atomics
    BY <1>2, <2>1 DEF ModeOf
  <2>3. trace.inner = {}
    BY <1>2, <2>2, TracesAreConsistent
  <2> QED
    BY <1>1, <2>1, <2>2, <2>3 DEF Claimed, inputs
<1> QED
  BY <1>1, <1>2, <1>3, <1>4, <1>5 DEF Inv, PhaseInv, Sweepable, Untouched, Working

(***************************************************************************)
(* A sweep that notes nothing keeps all conflicts the certificate will     *)
(* speak of: it was not cut short, unless what was cut is not claimed.     *)
(***************************************************************************)
LEMMA SweepKeeps ==
  ASSUME Inv, Sweep PROVE Inv'
<1>1. /\ phase = "sweep" /\ phase' = "windows"
      /\ UNCHANGED <<inputs, store, mode, windows, results>>
      /\ Untouched /\ Stored /\ Noted /\ Sweepable /\ InputsOK
  BY DEF Sweep, Inv, PhaseInv, Working
<1>0. PICK s \in Reachable : \E r \in Samples(s) :
        /\ raw' = r
        /\ IF Cardinality(InScope(r)) > MaxEdges
             THEN kept' = {} /\ unknowns' = unknowns \cup {<<"budget", "edges">>}
             ELSE kept' = InScope(r) /\ UNCHANGED unknowns
  BY DEF Sweep
<1>2. PICK r \in Samples(s) :
        /\ raw' = r
        /\ IF Cardinality(InScope(r)) > MaxEdges
             THEN kept' = {} /\ unknowns' = unknowns \cup {<<"budget", "edges">>}
             ELSE kept' = InScope(r) /\ UNCHANGED unknowns
  BY <1>0
<1>3. ASSUME unknowns' = {} PROVE Claimed' \subseteq kept'
  <2>1. unknowns = {} /\ trace.wide = {} /\ store = {trace} /\ kept' = InScope(r)
        /\ ~ (Cardinality(InScope(r)) > MaxEdges)
    BY <1>1, <1>2, <1>3 DEF Stored
  <2>2. Cardinality(store) = 1
    BY <2>1, FS_Singleton
  <2>3. mode = "filtered" => trace.app \subseteq s
    BY <2>1 DEF Reachable
  <2>4. mode # "filtered" => s = trace.edges
    BY <2>1, <2>2 DEF Reachable
  <2>5. r = s \/ Cardinality(r) = MaxEdges + 1
    BY <1>2 DEF Samples
  <2>6. MaxEdges \in Nat
    BY LimitsArePositive
  <2>7. CASE mode = "filtered"
    <3>1. scope = "application"
      BY <1>1, <2>7, ScopesAreKnown DEF InputsOK, Sweepable, ModeOf
    <3>2. CASE Cardinality(r) > MaxEdges
      BY <1>1, <1>2, <2>7, <3>1, <3>2 DEF Claimed, inputs
    <3>3. CASE ~ (Cardinality(r) > MaxEdges)
      <4>1. r = s
        BY <2>5, <2>6, <3>3
      <4>2. kept' = s \cap trace.app
        BY <2>1, <2>7, <4>1 DEF InScope
      <4>3. Claimed' \in {trace.app, {}}
        BY <1>1, <2>7, <3>1 DEF Claimed, inputs
      <4> QED
        BY <2>3, <2>7, <4>2, <4>3
    <3> QED
      BY <3>2, <3>3
  <2>8. CASE mode # "filtered"
    <3>1. InScope(r) = r
      BY <2>8 DEF InScope
    <3>2. r = trace.edges
      BY <2>1, <2>4, <2>5, <2>6, <2>8, <3>1
    <3>3. trace.app \subseteq trace.edges /\ trace.inner \subseteq trace.edges
      BY <1>1, TracesAreConsistent DEF InputsOK
    <3>4. Claimed' \in {trace.app, trace.inner, trace.edges, {}}
      BY <1>1 DEF Claimed, inputs
    <3> QED
      BY <2>1, <3>1, <3>2, <3>3, <3>4
  <2> QED
    BY <2>7, <2>8
<1>4. InputsOK' /\ Noted' /\ windows' = {} /\ results' = <<>>
  BY <1>1, <1>2 DEF InputsOK, Noted, Untouched, inputs
<1> QED
  BY <1>1, <1>3, <1>4 DEF Inv, PhaseInv, Working

LEMMA CrowdKeeps ==
  ASSUME Inv, CrowdRefused PROVE Inv'
<1>1. /\ phase = "sweep" /\ phase' = "windows" /\ unknowns' # {}
      /\ UNCHANGED <<inputs, store, mode, found, windows, results>>
  BY DEF CrowdRefused
<1>2. InputsOK' /\ Noted' /\ windows' = {} /\ results' = <<>>
  BY <1>1 DEF Inv, PhaseInv, InputsOK, Noted, Untouched, inputs
<1> QED
  BY <1>1, <1>2 DEF Inv, PhaseInv, Working

(***************************************************************************)
(* If no window is too large, the windows hold all that was kept, and each *)
(* cycle of it in one.                                                     *)
(***************************************************************************)
LEMMA WindowsKeep ==
  ASSUME Inv, BuildWindows PROVE Inv'
<1>1. /\ phase = "windows" /\ phase' = "check"
      /\ UNCHANGED <<inputs, store, mode, found, results, certificate>>
      /\ InputsOK /\ Noted /\ results = <<>> /\ (unknowns = {} => Claimed \subseteq kept)
  BY DEF BuildWindows, Inv, PhaseInv, Working
<1>2. PICK p \in Divisions(kept) :
        /\ windows' = p \ TooLarge(p)
        /\ unknowns' = unknowns \cup {<<"window", w>> : w \in TooLarge(p)}
  BY DEF BuildWindows
<1>3. UNION p = kept /\ \A c \in trace.cycles : c \subseteq kept => \E w \in p : c \subseteq w
  BY <1>2 DEF Divisions
<1>4. ASSUME unknowns' = {}
      PROVE  Claimed' \subseteq UNION windows' /\ Closed(UNION windows)'
  <2>1. unknowns = {} /\ TooLarge(p) = {} /\ windows' = p
    BY <1>2, <1>4
  <2>2. Claimed' = Claimed
    BY <1>1 DEF Claimed, inputs, found
  <2> QED
    BY <1>1, <1>3, <2>1, <2>2 DEF Closed, inputs
<1>5. InputsOK' /\ Noted'
  BY <1>1, <1>2 DEF InputsOK, Noted, inputs
<1> QED
  BY <1>1, <1>4, <1>5 DEF Inv, PhaseInv, Working

LEMMA CheckKeeps ==
  ASSUME Inv, Check PROVE Inv'
<1>1. /\ phase = "check" /\ phase' = "judge"
      /\ UNCHANGED <<inputs, store, mode, found, windows, certificate>>
      /\ InputsOK /\ Noted
      /\ unknowns = {} => Claimed \subseteq UNION windows /\ Closed(UNION windows)
      /\ results' \in [windows -> Statuses] /\ \A w \in windows : results'[w] \in Possible(w)
      /\ unknowns' = unknowns \cup {<<"check", w>> : w \in {v \in windows : results'[v] = "unknown"}}
  BY DEF Check, Inv, PhaseInv, Working
<1>2. \A w : Possible(w)' = Possible(w)
  BY <1>1 DEF Possible, inputs
<1>3. unknowns' = {} => Judged'
  BY <1>1, <1>2 DEF Judged
<1>4. Claimed' = Claimed /\ InputsOK' /\ Noted' /\ (Closed(UNION windows)' <=> Closed(UNION windows))
  BY <1>1 DEF Claimed, InputsOK, Noted, Closed, inputs, found
<1> QED
  BY <1>1, <1>3, <1>4 DEF Inv, PhaseInv, Working

(***************************************************************************)
(* Each stage keeps the invariant.                                         *)
(***************************************************************************)
LEMMA StageKeeps ==
  ASSUME Inv, Databases \subseteq {"temporary"}, PipelineNext PROVE Inv'
<1>1. CASE LoadFails
  BY <1>1, RaiseEnds, EndKeeps DEF LoadFails
<1>2. CASE Preflight
  BY <1>2, PreflightKeeps
<1>3. CASE StopAtPreflight
  BY <1>3, IssueEnds, EndKeeps DEF StopAtPreflight
<1>4. CASE SingleThread
  BY <1>4, IssueEnds, EndKeeps DEF SingleThread, SingleThreadCertificate
<1>5. CASE OverBudget
  BY <1>5, IssueEnds, EndKeeps DEF OverBudget, UnknownCertificate
<1>6. CASE Import
  BY <1>6, StoreKeeps
<1>7. CASE ImportFails
  BY <1>7, RaiseEnds, EndKeeps DEF ImportFails
<1>8. CASE ObjectsExhausted
  BY <1>8, IssueEnds, EndKeeps DEF ObjectsExhausted, UnknownCertificate
<1>9. CASE ObjectsFail
  BY <1>9, RaiseEnds, EndKeeps DEF ObjectsFail
<1>10. CASE MaterializeObjects
  BY <1>10, ModeKeeps
<1>11. CASE CrowdRefused
  BY <1>11, CrowdKeeps
<1>12. CASE Sweep
  BY <1>12, SweepKeeps
<1>13. CASE BuildWindows
  BY <1>13, WindowsKeep
<1>14. CASE Check
  BY <1>14, CheckKeeps
<1>15. CASE Judge
  <2>1. Verdict \in {"UNKNOWN", "TRACE_SAFE", "COUNTEREXAMPLE"}
    BY DEF Verdict
  <2> QED
    BY <1>15, <2>1, IssueEnds, EndKeeps DEF Judge
<1> QED
  BY <1>1, <1>2, <1>3, <1>4, <1>5, <1>6, <1>7, <1>8, <1>9, <1>10, <1>11, <1>12, <1>13,
     <1>14, <1>15 DEF PipelineNext

-----------------------------------------------------------------------------
(* Each step is one of the promise.                                          *)

\* No answer has been given.
Open == phase \in Working \cup {"load"}

LEMMA MetIsPossible == Met \subseteq Obligations
BY DEF Met

(***************************************************************************)
(* A stage that gives no answer meets more, and keeps its doubts.          *)
(***************************************************************************)
LEMMA StageWorks ==
  ASSUME Open, Open', Met \subseteq Met', unknowns # {} => unknowns' # {}
  PROVE  Promise!Work
<1>1. Met' \subseteq Obligations
  BY MetIsPossible DEF Met
<1>2. phase \notin {"answered", "raised"} /\ phase' \notin {"answered", "raised"}
  BY DEF Open, Working
<1>3. ~ Refuted'
  BY <1>2 DEF Refuted
<1> QED
  BY <1>1, <1>2, <1>3 DEF Promise!Work

(***************************************************************************)
(* An error and UNKNOWN promise nothing but that doubts are kept.          *)
(***************************************************************************)
LEMMA ErrorAnswers ==
  ASSUME Open, phase' = "raised", unknowns # {} => unknowns' # {}
  PROVE  Promise!Answer
<1>1. Met' \subseteq Obligations
  BY DEF Met
<1> QED
  BY <1>1 DEF Promise!Answer, Open, Working

LEMMA UnknownAnswers ==
  ASSUME Open, Issue("UNKNOWN", unknowns'), unknowns' # {}
  PROVE  Promise!Answer
<1>1. Met' \subseteq Obligations
  BY DEF Met
<1>2. phase' = "answered" /\ certificate'.verdict = "UNKNOWN"
  BY DEF Issue, Strict
<1> QED
  BY <1>1, <1>2 DEF Promise!Answer, Open, Working

(***************************************************************************)
(* The other verdicts are given when all is met, with a cycle or without.  *)
(***************************************************************************)
LEMMA VerdictAnswers ==
  ASSUME Open, phase' = "answered", unknowns' = {}, unknowns = {}, Met' = Obligations,
         \/ certificate'.verdict = "TRACE_SAFE" /\ ~ Refuted'
         \/ certificate'.verdict = "COUNTEREXAMPLE" /\ Refuted'
  PROVE  Promise!Answer
BY DEF Promise!Answer, Open, Working

LEMMA TraceBegins ==
  ASSUME Inv, phase = "answered", phase' = "load", unknowns' = {}
  PROVE  Promise!Begin
<1>1. Met' \subseteq Obligations /\ ~ Refuted'
  BY DEF Met, Refuted
<1>2. certificate.verdict # "none"
  BY DEF Inv, PhaseInv
<1> QED
  BY <1>1, <1>2 DEF Promise!Begin, Promise!Fresh

\* A single thread has nothing to cover.
LEMMA LoneThreadClaimsNothing ==
  ASSUME InputsOK, trace.threads = 1
  PROVE  Claimed = {}
<1>1. trace.edges = {} /\ trace.app = {} /\ trace.inner = {}
  BY TracesAreConsistent DEF InputsOK
<1> QED
  BY <1>1 DEF Claimed

LEMMA MetGrows ==
  ASSUME Inv, Open, UNCHANGED inputs, phase \notin {"check", "judge"}
  PROVE  Met \subseteq Met'
<1>1. InputsOK /\ InputsOK'
  BY DEF Inv, InputsOK, inputs
<1>2. ASSUME trace.threads = 1 PROVE Claimed' = {}
  <2>1. Claimed' \in {trace.edges, trace.app, trace.inner, {}}
    BY DEF Claimed, inputs
  <2> QED
    BY <1>1, <1>2, <2>1, TracesAreConsistent DEF InputsOK
<1>3. "decided" \notin Met /\ ("covered" \in Met => trace.threads = 1)
  BY DEF Met, Open, Working
<1>4. "covered" \in Met => "covered" \in Met'
  BY <1>2, <1>3 DEF Met, inputs, Obligations
<1>5. \A o \in {"whole", "supported"} : o \in Met => o \in Met'
  BY DEF Met, inputs, Obligations
<1> QED
  BY <1>3, <1>4, <1>5, MetIsPossible DEF Obligations

LEMMA CheckMeets ==
  ASSUME Inv, Check PROVE Met \subseteq Met'
<1>1. /\ phase = "check" /\ phase' = "judge" /\ InputsOK
      /\ UNCHANGED <<inputs, mode, found, windows>>
  BY DEF Check, Inv
<1>2. Claimed' = Claimed
  BY <1>1 DEF Claimed, inputs, found
<1>3. "decided" \notin Met
  BY <1>1 DEF Met
<1>4. "covered" \in Met => "covered" \in Met'
  BY <1>1, <1>2 DEF Met, inputs, Obligations
<1>5. \A o \in {"whole", "supported"} : o \in Met => o \in Met'
  BY <1>1 DEF Met, inputs, Obligations
<1> QED
  BY <1>3, <1>4, <1>5, MetIsPossible DEF Obligations

(***************************************************************************)
(* One thread, recorded without objection, has run alone.                  *)
(***************************************************************************)
LEMMA SingleThreadAnswers ==
  ASSUME Inv, SingleThread PROVE Promise!Answer
<1>1. /\ phase = "preflight" /\ unknowns = {} /\ trace.threads = 1
      /\ UNCHANGED <<inputs, store, unknowns, mode, found, windows, results>>
      /\ Issue("TRACE_SAFE", {}) /\ InputsOK /\ Noted /\ Untouched
  BY DEF SingleThread, SingleThreadCertificate, Inv, PhaseInv, Working
<1>2. Open /\ unknowns' = unknowns
  BY <1>1 DEF Open, Working
<1>3. CASE phase' = "raised"
  BY <1>2, <1>3, ErrorAnswers
<1>4. CASE phase' # "raised"
  <2>1. phase' = "answered" /\ certificate'.verdict = "TRACE_SAFE"
    BY <1>1, <1>4 DEF Issue
  <2>2. Claimed = {} /\ Claimed' = Claimed
    BY <1>1, LoneThreadClaimsNothing DEF Claimed, inputs, found
  <2>3. windows' = {} /\ results' = <<>> /\ trace' = trace /\ supported' = supported
    BY <1>1 DEF Untouched, inputs
  <2>4. ~ Refuted'
    BY <1>1, <2>2, <2>3, TracesAreConsistent DEF Refuted, InputsOK
  <2>5. trace.reasons = {} /\ supported
    BY <1>1 DEF Noted
  <2>6. Met' = Obligations
    <3>1. \A w \in DOMAIN results' : results'[w] # "unknown"
      BY <2>3
    <3>2. "decided" \in Met' /\ "covered" \in Met'
      BY <2>1, <2>2, <3>1 DEF Met, Obligations
    <3>3. "whole" \in Met' /\ "supported" \in Met'
      BY <2>3, <2>5 DEF Met, Obligations
    <3>4. Met' \subseteq Obligations
      BY DEF Met
    <3> QED
      BY <3>2, <3>3, <3>4 DEF Obligations
  <2> QED
    BY <1>1, <1>2, <2>1, <2>4, <2>6, VerdictAnswers
<1> QED
  BY <1>3, <1>4

(***************************************************************************)
(* Without a doubt the windows hold all that is claimed, each is decided,  *)
(* and a cycle among what they hold is one of a window.                    *)
(***************************************************************************)
LEMMA JudgeAnswers ==
  ASSUME Inv, Judge PROVE Promise!Answer
<1>1. /\ phase = "judge" /\ Issue(Verdict, unknowns) /\ InputsOK /\ Noted
      /\ UNCHANGED <<inputs, store, unknowns, mode, found, windows, results>>
      /\ unknowns = {} => Claimed \subseteq UNION windows /\ Closed(UNION windows)
      /\ DOMAIN results = windows /\ (unknowns = {} => Judged)
  BY DEF Judge, Inv, PhaseInv, Working
<1>2. Open /\ unknowns' = unknowns
  BY <1>1 DEF Open, Working
<1>3. CASE phase' = "raised"
  BY <1>2, <1>3, ErrorAnswers
<1>4. CASE phase' # "raised" /\ unknowns # {}
  <2>1. Issue("UNKNOWN", unknowns')
    BY <1>1, <1>2, <1>4 DEF Verdict
  <2> QED
    BY <1>2, <1>4, <2>1, UnknownAnswers
<1>5. CASE phase' # "raised" /\ unknowns = {}
  <2>1. phase' = "answered" /\ certificate'.verdict = Verdict
    BY <1>1, <1>5 DEF Issue
  <2>2. /\ Claimed' = Claimed /\ windows' = windows /\ results' = results /\ trace' = trace
        /\ supported' = supported
    BY <1>1 DEF Claimed, inputs, found
  <2>3. Claimed \subseteq UNION windows /\ Closed(UNION windows) /\ Judged /\ DOMAIN results = windows
    BY <1>1, <1>5
  <2>4. Met' = Obligations
    <3>1. "decided" \in Met' /\ "covered" \in Met'
      BY <2>1, <2>2, <2>3 DEF Met, Obligations, Judged
    <3>2. "whole" \in Met' /\ "supported" \in Met'
      BY <1>1, <1>5, <2>2 DEF Met, Obligations, Noted
    <3>3. Met' \subseteq Obligations
      BY DEF Met
    <3> QED
      BY <3>1, <3>2, <3>3 DEF Obligations
  <2>5. CASE \E w \in windows : results[w] = "counterexample"
    <3>1. PICK w \in windows : results[w] = "counterexample"
      BY <2>5
    <3>2. \E c \in trace.cycles : c \subseteq w
      BY <2>3, <3>1 DEF Judged, Possible
    <3>3. Refuted'
      BY <2>1, <2>2, <3>2 DEF Refuted
    <3>4. certificate'.verdict = "COUNTEREXAMPLE"
      BY <1>5, <2>1, <2>5 DEF Verdict
    <3> QED
      BY <1>2, <1>5, <2>1, <2>4, <3>3, <3>4, VerdictAnswers
  <2>6. CASE ~ \E w \in windows : results[w] = "counterexample"
    <3>1. \A w \in windows, c \in trace.cycles : ~ (c \subseteq w)
      BY <2>3, <2>6 DEF Judged, Possible
    <3>2. ~ Refuted'
      BY <2>2, <2>3, <3>1 DEF Refuted, Closed
    <3>3. certificate'.verdict = "TRACE_SAFE"
      BY <1>5, <2>1, <2>6 DEF Verdict
    <3> QED
      BY <1>2, <1>5, <2>1, <2>4, <3>2, <3>3, VerdictAnswers
  <2> QED
    BY <2>5, <2>6
<1> QED
  BY <1>3, <1>4, <1>5

LEMMA StageRefines ==
  ASSUME Inv, PipelineNext PROVE Promise!Next
<1> USE DEF Promise!Next
<1>1. CASE LoadFails
  <2>1. Open /\ phase' = "raised" /\ unknowns' = unknowns
    BY <1>1 DEF LoadFails, Raise, Open
  <2> QED
    BY <2>1, ErrorAnswers
<1>2. CASE Preflight
  <2>1. Open /\ Open' /\ UNCHANGED inputs /\ phase \notin {"check", "judge"} /\ unknowns = {}
    BY <1>2 DEF Preflight, Open, Working, Inv, PhaseInv
  <2> QED
    BY <2>1, MetGrows, StageWorks
<1>3. CASE StopAtPreflight
  <2>1. Open /\ Issue("UNKNOWN", unknowns') /\ unknowns' # {}
    BY <1>3 DEF StopAtPreflight, Open, Working
  <2> QED
    BY <2>1, UnknownAnswers
<1>4. CASE SingleThread
  BY <1>4, SingleThreadAnswers
<1>5. CASE OverBudget
  <2>1. Open /\ Issue("UNKNOWN", unknowns') /\ unknowns' # {}
    BY <1>5 DEF OverBudget, UnknownCertificate, Open, Working
  <2> QED
    BY <2>1, UnknownAnswers
<1>6. CASE Import
  <2>1. CASE EventsIn(store') > MaxObjectEvents
    <3>1. Open /\ Issue("UNKNOWN", unknowns') /\ unknowns' # {}
      BY <1>6, <2>1 DEF Import, UnknownCertificate, Open, Working
    <3> QED
      BY <3>1, UnknownAnswers
  <2>2. CASE ~ (EventsIn(store') > MaxObjectEvents)
    <3>1. Open /\ Open' /\ UNCHANGED inputs /\ phase \notin {"check", "judge"} /\ unknowns = {}
      BY <1>6, <2>2 DEF Import, Open, Working
    <3> QED
      BY <3>1, MetGrows, StageWorks
  <2> QED
    BY <2>1, <2>2
<1>7. CASE ImportFails
  <2>1. Open /\ phase' = "raised" /\ unknowns' = unknowns
    BY <1>7 DEF ImportFails, Raise, Open, Working
  <2> QED
    BY <2>1, ErrorAnswers
<1>8. CASE ObjectsExhausted
  <2>1. Open /\ Issue("UNKNOWN", unknowns') /\ unknowns' # {}
    BY <1>8 DEF ObjectsExhausted, UnknownCertificate, Open, Working
  <2> QED
    BY <2>1, UnknownAnswers
<1>9. CASE ObjectsFail
  <2>1. Open /\ phase' = "raised" /\ unknowns' = unknowns
    BY <1>9 DEF ObjectsFail, Raise, Open, Working
  <2> QED
    BY <2>1, ErrorAnswers
<1>10. CASE MaterializeObjects
  <2>1. /\ Open /\ Open' /\ UNCHANGED inputs /\ phase \notin {"check", "judge"}
        /\ unknowns \subseteq unknowns'
    BY <1>10 DEF MaterializeObjects, Open, Working
  <2> QED
    BY <2>1, MetGrows, StageWorks
<1>11. CASE CrowdRefused
  <2>1. Open /\ Open' /\ UNCHANGED inputs /\ phase \notin {"check", "judge"} /\ unknowns' # {}
    BY <1>11 DEF CrowdRefused, Open, Working
  <2> QED
    BY <2>1, MetGrows, StageWorks
<1>12. CASE Sweep
  <2>1. /\ Open /\ Open' /\ UNCHANGED inputs /\ phase \notin {"check", "judge"}
        /\ unknowns \subseteq unknowns'
    BY <1>12 DEF Sweep, Open, Working
  <2> QED
    BY <2>1, MetGrows, StageWorks
<1>13. CASE BuildWindows
  <2>1. /\ Open /\ Open' /\ UNCHANGED inputs /\ phase \notin {"check", "judge"}
        /\ unknowns \subseteq unknowns'
    BY <1>13 DEF BuildWindows, Open, Working
  <2> QED
    BY <2>1, MetGrows, StageWorks
<1>14. CASE Check
  <2>1. Open /\ Open' /\ unknowns \subseteq unknowns'
    BY <1>14 DEF Check, Open, Working
  <2> QED
    BY <1>14, <2>1, CheckMeets, StageWorks
<1>15. CASE Judge
  BY <1>15, JudgeAnswers
<1> QED
  BY <1>1, <1>2, <1>3, <1>4, <1>5, <1>6, <1>7, <1>8, <1>9, <1>10, <1>11, <1>12, <1>13,
     <1>14, <1>15 DEF PipelineNext

LEMMA PromiseStutters ==
  ASSUME UNCHANGED pipelineVars PROVE UNCHANGED Promise!vars
<1>1. Claimed' = Claimed
  BY DEF pipelineVars, inputs, found, Claimed
<1>2. Met' = Met /\ (Refuted' <=> Refuted)
  BY <1>1 DEF Met, Refuted, pipelineVars, inputs
<1> QED
  BY <1>2 DEF Promise!vars, pipelineVars

LEMMA InvStutters ==
  ASSUME Inv, UNCHANGED pipelineVars PROVE Inv'
<1>1. UNCHANGED <<trace, scope, database, supported, phase, store, unknowns, mode, raw, kept,
                  windows, results, certificate>>
  BY DEF pipelineVars, inputs, found
<1>2. Claimed' = Claimed /\ (\A s : Closed(s)' <=> Closed(s)) /\ (\A w : Possible(w)' = Possible(w))
  BY <1>1 DEF Claimed, Closed, Possible
<1>3. (Closed(UNION windows)' <=> Closed(UNION windows)) /\ (Judged' <=> Judged)
  BY <1>1, <1>2 DEF Closed, Judged
<1>4. ModeOf' = ModeOf
  BY <1>1 DEF ModeOf
<1> QED
  BY <1>1, <1>2, <1>3, <1>4 DEF Inv, InputsOK, PhaseInv, Noted, Stored, Sweepable, Untouched

(***************************************************************************)
(* The next recording of a campaign is analyzed from the start.            *)
(***************************************************************************)
LEMMA CollectBegins ==
  ASSUME Inv, Collect PROVE Inv' /\ Promise!Begin
<1>1. /\ phase = "answered" /\ phase' = "load" /\ unknowns' = {} /\ trace' \in Traces
      /\ raw' = {} /\ kept' = {} /\ windows' = {} /\ results' = <<>>
      /\ UNCHANGED <<scope, database, supported>>
  BY DEF Collect
<1>2. Inv'
  BY <1>1 DEF Inv, InputsOK, PhaseInv, Untouched, Working
<1> QED
  BY <1>1, <1>2, TraceBegins

LEMMA InvStarts ==
  ASSUME Init PROVE Inv /\ Promise!Init
<1>1. /\ phase = "load" /\ unknowns = {} /\ Untouched /\ InputsOK
  BY DEF Init, PipelineInit, Idle, Untouched, InputsOK
<1>2. Inv
  BY <1>1 DEF Inv, PhaseInv, Working
<1>3. Promise!Init
  <2>1. ~ Refuted
    BY <1>1 DEF Refuted
  <2> QED
    BY <1>1, <2>1, MetIsPossible DEF Promise!Init, Promise!Fresh
<1> QED
  BY <1>2, <1>3

LEMMA CampaignRefines ==
  ASSUME Inv, Databases \subseteq {"temporary"}, [Next]_vars
  PROVE  Inv' /\ [Promise!Next]_(Promise!vars)
<1>1. CASE Analyze
  BY <1>1, StageKeeps, StageRefines DEF Analyze
<1>2. CASE Collect
  BY <1>2, CollectBegins DEF Promise!Next
<1>3. CASE CaptureFails \/ Abort \/ Summarize \/ Over \/ UNCHANGED vars
  <2>1. UNCHANGED pipelineVars
    BY <1>3 DEF CaptureFails, Abort, Summarize, Over, vars
  <2> QED
    BY <2>1, InvStutters, PromiseStutters
<1> QED
  BY <1>1, <1>2, <1>3 DEF Next

(***************************************************************************)
(* Whatever way an analysis takes, TRACE_SAFE and COUNTEREXAMPLE are       *)
(* answered only of a recording that is whole and supported, with every    *)
(* claimed conflict in a decided window, and without or with a cycle.      *)
(***************************************************************************)
THEOREM CampaignKeepsPromise ==
  ASSUME Databases \subseteq {"temporary"}
  PROVE  Spec => KeepsPromise
<1>1. Init => Inv /\ Promise!Init
  BY InvStarts
<1>2. Inv /\ [Next]_vars => Inv' /\ [Promise!Next]_(Promise!vars)
  BY CampaignRefines
<1> QED
  BY <1>1, <1>2, PTL DEF Spec, KeepsPromise, Promise!Spec

=============================================================================
