-------------------------- MODULE StaticCertificate --------------------------
(***************************************************************************)
(* The two places that turn a ledger into an accepted static certificate:  *)
(* verify_static_certificate, which replays a certificate somebody hands   *)
(* it, and the certificate bridge, which builds the certificate from the   *)
(* evidence of one analysis and replays it before it is returned.  The     *)
(* ledger may keep growing after a certificate was accepted.               *)
(***************************************************************************)
EXTENDS EvidenceLedger

CONSTANTS
  Certificates,   \* the certificates handed to the verifier
  NoCertificate,
  AnyBinding      \* the caller names no binding

Verdicts == {"SAFE", "COUNTEREXAMPLE", "UNKNOWN"}

Removal == [event : Events, proof : Evidence, scope : Scopes]

Certificate == [verdict  : Verdicts,
                scope    : Scopes,
                roots    : SUBSET Evidence,
                removals : SUBSET Removal,
                unknowns : SUBSET Evidence,
                bounded  : BOOLEAN]

ASSUME CertificatesAreCertificates == Certificates \subseteq Certificate

ASSUME NoCertificateIsNone == NoCertificate \notin Certificate

VARIABLES
  verified,   \* the certificate accepted last
  route       \* who accepted it: "replay" or "bridge"

vars == <<content, nodes, discharges, verified, route>>

TypeOK ==
  /\ LedgerTypeOK
  /\ verified \in Certificate \cup {NoCertificate}
  /\ route \in {"none", "replay", "bridge"}
  /\ verified = NoCertificate <=> route = "none"

Init ==
  /\ LedgerInit
  /\ verified = NoCertificate
  /\ route = "none"

-----------------------------------------------------------------------------
\* _proof_covers_event
CoversEvent(p, e) == e \in content[p].covers \cup content[p].subject

\* Mutant: the covering proof only has to be in the ledger.
RemovalsCoveredAnywhere(c) ==
  \A d \in c.removals : d.scope = c.scope /\ d.proof \in nodes /\ CoversEvent(d.proof, d.event)

\* Every removed event is covered by a proof that the walk from the roots met.
RemovalsCovered(c) ==
  \A d \in c.removals :
     /\ d.scope = c.scope
     /\ d.proof \in Reach(c.roots)
     /\ CoversEvent(d.proof, d.event)

\* Mutant: only the listed questions are looked at.
UnknownsAccountedIfListed(c, known) ==
  \A u \in c.unknowns :
     /\ u \in known \cap UnknownFacts
     /\ Scope(u) = c.scope
     /\ IF discharges[u] = NoProof THEN c.verdict # "SAFE" ELSE discharges[u] \in Reach(c.roots)

\* No open question of the scope is left out, and each listed one is of the
\* scope and either still open or closed by a proof of the closure.
UnknownsAccounted(c, known) ==
  /\ Unresolved(c.scope, known) \subseteq c.unknowns
  /\ \A u \in c.unknowns :
        /\ u \in known \cap UnknownFacts
        /\ Scope(u) = c.scope
        /\ IF discharges[u] = NoProof
             THEN c.verdict # "SAFE"
             ELSE discharges[u] \in Reach(c.roots)

\* verify_static_certificate against the nodes `known`, without a binding.
AcceptsOver(c, known) ==
  /\ ClosureHolds(c.roots, known)
  /\ RemovalsCovered(c)
  /\ UnknownsAccounted(c, known)
  /\ c.verdict = "SAFE" => ~ c.bounded
  /\ c.verdict = "COUNTEREXAMPLE" => c.unknowns = {}

Accepts(c) == AcceptsOver(c, nodes)

\* A binding (closure, binaries, DBT revision, scope) is told apart by its
\* scope; it is compared only when the caller names one.
Replay(c, expected) ==
  /\ expected \in {AnyBinding, c.scope}
  /\ Accepts(c)
  /\ verified' = c
  /\ route' = "replay"
  /\ UNCHANGED ledgerVars

\* build_static_certificate_with_evidence over the merged ledger: only static
\* nodes of the scope, and the open questions are read off the ledger.
BridgeTakes(c) ==
  /\ nodes \cap Dynamic = {}
  /\ \A n \in nodes : Scope(n) = c.scope
  /\ c.unknowns = Unresolved(c.scope, nodes)
  /\ Accepts(c)

Bridge(c) ==
  /\ BridgeTakes(c)
  /\ verified' = c
  /\ route' = "bridge"
  /\ UNCHANGED ledgerVars

Grow == LedgerNext /\ UNCHANGED <<verified, route>>

Next ==
  \/ Grow
  \/ \E c \in Certificates, expected \in Scopes \cup {AnyBinding} : Replay(c, expected)
  \/ \E c \in Certificates : Bridge(c)

Spec == Init /\ [][Next]_vars

-----------------------------------------------------------------------------
(***************************************************************************)
(* What stands behind an accepted certificate, however the ledger grew     *)
(* since: everything its roots lead to is a ProofFact of the ledger, and   *)
(* each event it dropped is covered by one of them (SC-001, SC-016).       *)
(***************************************************************************)
AcceptedRestsOnProofs ==
  verified # NoCertificate =>
     /\ Reach(verified.roots) \subseteq nodes \cap ProofFacts
     /\ \A d \in verified.removals : \E p \in Reach(verified.roots) :
           p \in nodes \cap ProofFacts /\ CoversEvent(p, d.event)

(***************************************************************************)
(* At the moment SAFE is accepted, every UnknownFact the ledger holds for  *)
(* that scope, listed in the certificate or not, has been closed by a      *)
(* ProofFact of that very scope (SC-005, SC-017).                          *)
(***************************************************************************)
SafeOwesNothing ==
  [][ (verified' # verified /\ verified' # NoCertificate /\ verified'.verdict = "SAFE")
        => \A u \in nodes \cap UnknownFacts : Scope(u) = verified'.scope =>
              discharges[u] \in {p \in nodes \cap ProofFacts : Scope(p) = Scope(u)} ]_vars

(***************************************************************************)
(* An accepted SAFE certificate keeps passing replay while the ledger      *)
(* grows; the one thing that may stop it is a new question of its scope.   *)
(***************************************************************************)
SafeStaysReplayable ==
  [][ (/\ verified # NoCertificate
       /\ verified' = verified
       /\ verified.verdict = "SAFE"
       /\ Accepts(verified))
        => \/ Accepts(verified)'
           \/ \E u \in (nodes' \ nodes) \cap UnknownFacts : Scope(u) = verified.scope ]_vars

(***************************************************************************)
(* Observations and hints have no vote: the verifier answers the same with *)
(* and without them in the ledger (SC-003, SC-004).                        *)
(***************************************************************************)
DynamicEvidenceIsInert ==
  verified # NoCertificate =>
     (Accepts(verified) <=> AcceptsOver(verified, nodes \ Dynamic))

(***************************************************************************)
(* A certificate the bridge issued was made inside one scope: its whole    *)
(* proof closure and the proofs that closed questions of that scope have   *)
(* the certificate's scope (SC-001).                                       *)
(***************************************************************************)
BridgeStaysInScope ==
  route = "bridge" =>
     \A n \in Reach(verified.roots) : Scope(n) = verified.scope

=============================================================================
