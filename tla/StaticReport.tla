---------------------------- MODULE StaticReport ----------------------------
(***************************************************************************)
(* The last part of analyze_with_evidence: the report of the analyzers and *)
(* the verdict of the verifier become one evidence graph and one sealed    *)
(* certificate.  adapt_static_report gives each event, question and proof  *)
(* its id; build_static_certificate_from_report binds what was removed to  *)
(* proofs, answers the questions that a proof covers, adds what the        *)
(* verifier asked beyond the report, and calls the bridge.                 *)
(*                                                                         *)
(* The id of a node is the hash of what the adapter puts into it, so a     *)
(* question of the report is its id, and a proof of the report names the   *)
(* id of its node beside its own.  Several proofs may share a node.        *)
(***************************************************************************)
EXTENDS StaticCertificate

CONSTANTS
  Reports,    \* what analyzers and verifier hand over
  NoReport    \* nobody does: any producer fills the ledger, anyone replays

VARIABLES
  report,
  stage,      \* how far the report is, "none" without one
  decisions   \* the RemovalDecisions made for it

reportVars == <<vars, report, stage, decisions>>

\* The parts of a report that hold questions.
Layers == {"recovery", "events", "sharing", "slice"}

Stages == {"none", "adapt", "answer", "sealed", "unbound", "refused"}

-----------------------------------------------------------------------------
\* Mutant: the last analysis keeps its questions to itself.
QuestionsOfEarlyLayers(r) == UNION {r.questions[l] : l \in Layers \ {"slice"}}

QuestionsOf(r) == UNION {r.questions[l] : l \in Layers}

\* listed: the events of the extraction and of the slice.
EventsOf(r) == {e.id : e \in r.listed}

ProofNodes(r) == {p.node : p \in r.proofs}

ASSUME ReportsAreReports ==
  /\ NoReport \notin Reports
  /\ \A r \in Reports : /\ QuestionsOf(r) \cup r.relevant \subseteq UnknownFacts
                       /\ ProofNodes(r) \subseteq ProofFacts

Covered(p) == content[p].covers

\* An id stands for one event and one proof, wherever the report lists it, and
\* no proof is about nothing or about an event the report does not have.
Adaptable(r) ==
  /\ \A d, e \in r.listed : d.id = e.id => d = e
  /\ \A p, q \in r.proofs : p.id = q.id => p = q
  /\ \A p \in r.proofs : Covered(p.node) # {} /\ Covered(p.node) \subseteq EventsOf(r)

\* _unknown_subject: the one event the question names, or the only event of the
\* instruction it names; otherwise no event.
SubjectEvent(r, u) ==
  LET here == {e.id : e \in {d \in r.listed : d.at = r.place[u]}}
  IN  IF Cardinality(r.names[u]) = 1 /\ r.names[u] \subseteq EventsOf(r)
        THEN r.names[u]
        ELSE IF Cardinality(here) = 1 THEN here ELSE {}

Named(r, u) == (r.names[u] \cap EventsOf(r)) \cup SubjectEvent(r, u)

\* Mutant: a proof about one of the events will do.
SettlesInPart(r, p, u) == Named(r, u) \cap Covered(p) # {}

Settles(r, p, u) == Named(r, u) # {} /\ Named(r, u) \subseteq Covered(p)

\* The questions that the verifier left out and a proof of the report covers.
Answerable(r) ==
  {u \in QuestionsOf(r) \ r.relevant : \E p \in ProofNodes(r) : Settles(r, p, u)}

-----------------------------------------------------------------------------
\* What the adapter makes has no premises and one scope; a proof is about an
\* event when it covers no other.
Plain(r) ==
  /\ \A n \in ProofFacts \cup UnknownFacts :
        content[n].scope = r.scope /\ content[n].parents = {}
  /\ \A p \in ProofFacts :
        content[p].subject = IF Cardinality(Covered(p)) = 1 THEN Covered(p) ELSE {}

ReportInit ==
  /\ Init
  /\ decisions = {}
  /\ \/ report = NoReport /\ stage = "none"
     \/ report \in Reports /\ Plain(report) /\ stage = "adapt"

\* Without a revision there is no binding: the legacy certificate goes out alone.
Unbound ==
  /\ stage = "adapt" /\ ~ report.revision
  /\ stage' = "unbound"
  /\ UNCHANGED <<vars, report, decisions>>

Adapting == stage = "adapt" /\ report.revision /\ report.executable /\ Adaptable(report)

\* One node of the report's questions and proofs.
Adapt(n) ==
  /\ Adapting
  /\ n \in QuestionsOf(report) \cup ProofNodes(report) /\ n \notin nodes
  /\ Add(n)
  /\ UNCHANGED <<verified, route, report, stage, decisions>>

Adapted == Adapting /\ QuestionsOf(report) \cup ProofNodes(report) \subseteq nodes

\* Each removed event gets a proof that covers it.
CanDecide ==
  report.removed \subseteq EventsOf(report) \cap UNION {Covered(p) : p \in ProofNodes(report)}

Decide ==
  /\ Adapted /\ CanDecide
  /\ \E by \in [report.removed -> ProofNodes(report)] :
        /\ \A e \in report.removed : e \in Covered(by[e])
        /\ decisions' = {[event |-> e, proof |-> by[e], scope |-> report.scope] : e \in report.removed}
  /\ stage' = "answer"
  /\ UNCHANGED <<vars, report>>

Answer(u, p) ==
  /\ stage = "answer"
  /\ u \in Answerable(report) /\ discharges[u] = NoProof
  /\ p \in ProofNodes(report) /\ Settles(report, p, u)
  /\ AddDischarge(u, p)
  /\ UNCHANGED <<verified, route, report, stage, decisions>>

Answered == stage = "answer" /\ \A u \in Answerable(report) : discharges[u] # NoProof

\* A question of the verifier that the report does not hold.
Ask(u) ==
  /\ Answered
  /\ u \in report.relevant \ (QuestionsOf(report) \cup nodes)
  /\ Add(u)
  /\ UNCHANGED <<verified, route, report, stage, decisions>>

Complete == Answered /\ report.relevant \subseteq nodes

Composed ==
  [verdict  |-> report.verdict,
   scope    |-> report.scope,
   roots    |-> ProofNodes(report),
   removals |-> decisions,
   unknowns |-> Unresolved(report.scope, nodes),
   bounded  |-> report.bounded]

Seal ==
  /\ Complete
  /\ Composed \in Certificates /\ Bridge(Composed)
  /\ stage' = "sealed"
  /\ UNCHANGED <<report, decisions>>

\* The binding, the adapter, the decisions or the replay raise, and the command
\* fails whatever the legacy verdict was.
Refuse ==
  /\ \/ stage = "adapt" /\ report.revision /\ ~ (report.executable /\ Adaptable(report))
     \/ Adapted /\ ~ CanDecide
     \/ Complete /\ ~ BridgeTakes(Composed)
  /\ stage' = "refused"
  /\ UNCHANGED <<vars, report, decisions>>

Over == stage \in {"sealed", "unbound", "refused"} /\ UNCHANGED reportVars

ReportNext ==
  \/ stage = "none" /\ Next /\ UNCHANGED <<report, stage, decisions>>
  \/ Unbound \/ Decide \/ Seal \/ Refuse \/ Over
  \/ \E n \in Evidence : Adapt(n)
  \/ \E u \in UnknownFacts : Ask(u) \/ \E p \in ProofFacts : Answer(u, p)

ReportSpec == ReportInit /\ [][ReportNext]_reportVars

-----------------------------------------------------------------------------
(***************************************************************************)
(* docs/architecture/repository-audit.md, lines 264-269: a report loses no *)
(* question on its way into a certificate.  Whatever the verifier found    *)
(* relevant is open in it; any other question, of whichever analysis, is   *)
(* open too or was answered by a proof of the closure that covers all the  *)
(* events of the report it is about; and just what the analyzers removed   *)
(* is accounted for as removed.                                            *)
(***************************************************************************)
QuestionsAreKept ==
  stage = "sealed" =>
    /\ report.relevant \subseteq verified.unknowns
    /\ \A u \in (UNION {report.questions[l] : l \in Layers}) \ verified.unknowns :
          \E p \in Reach(verified.roots) :
             p = discharges[u] /\ Named(report, u) # {} /\ Named(report, u) \subseteq Covered(p)
    /\ {d.event : d \in verified.removals} = report.removed

=============================================================================
