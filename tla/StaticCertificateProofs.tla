---------------------- MODULE StaticCertificateProofs ----------------------
(***************************************************************************)
(* The ledger's rules and what an accepted certificate means, proved for   *)
(* any set of evidence, payloads and certificates.                         *)
(*                                                                         *)
(* The walk of proof_closure is a least closed set, so what it can reach   *)
(* is bounded by exhibiting a closed set that holds its start: the proofs  *)
(* of the ledger, and the proofs and unknowns of the ledger.  An action of *)
(* the verifier leaves the ledger alone, so its invariant is reused.       *)
(***************************************************************************)
EXTENDS StaticReport, TLAPS

\* Each edge of a node in the ledger ends in the ledger, in an allowed category.
EdgesStayInside ==
  /\ \A p \in nodes \cap ProofFacts : Parents(p) \subseteq nodes \cap ProofFacts
  /\ \A u \in nodes \cap UnknownFacts :
        Parents(u) \subseteq nodes \cap (ProofFacts \cup UnknownFacts)

\* The ends of a discharge are in the ledger and have one scope.
DischargesMatch ==
  \A u \in UnknownFacts : discharges[u] # NoProof =>
     /\ u \in nodes
     /\ discharges[u] \in nodes \cap ProofFacts
     /\ Scope(u) = Scope(discharges[u])

LedgerInv == LedgerTypeOK /\ EdgesStayInside /\ DischargesMatch

-----------------------------------------------------------------------------
(***************************************************************************)
(* The walk from a node stays inside every closed set that holds the node. *)
(***************************************************************************)
LEMMA WalkStaysInside ==
  ASSUME LedgerTypeOK, NEW n \in Evidence, NEW S \in SUBSET Evidence,
         n \in S, \A m \in S : Parents(m) \subseteq S
  PROVE  Reach({n}) \subseteq S
<1>1. content \in Contents
  BY DEF LedgerTypeOK
<1>2. Closed(content, S)
  BY DEF Closed, Parents
<1>3. Ancestry[content][n] \subseteq S
  BY <1>1, <1>2 DEF Ancestry
<1> QED
  BY <1>3 DEF Reach

(***************************************************************************)
(* The same for the walk from several roots.                               *)
(***************************************************************************)
LEMMA WalksStayInside ==
  ASSUME LedgerTypeOK, NEW S \in SUBSET Evidence, NEW R \in SUBSET S,
         \A m \in S : Parents(m) \subseteq S
  PROVE  Reach(R) \subseteq S
<1>1. content \in Contents
  BY DEF LedgerTypeOK
<1>2. Closed(content, S)
  BY DEF Closed, Parents
<1>3. ASSUME NEW r \in R PROVE Ancestry[content][r] \subseteq S
  BY <1>1, <1>2 DEF Ancestry
<1> QED
  BY <1>3 DEF Reach

-----------------------------------------------------------------------------
(***************************************************************************)
(* Adding a node or a discharge keeps edges and discharges well-formed:    *)
(* the checks of add and add_discharge are enough, whatever is added and   *)
(* in whatever order.                                                      *)
(***************************************************************************)
LEMMA LedgerInvInductive ==
  /\ LedgerInit => LedgerInv
  /\ LedgerInv /\ [LedgerNext]_ledgerVars => LedgerInv'
<1>1. LedgerInit => LedgerInv
  BY DEF LedgerInit, LedgerInv, LedgerTypeOK, EdgesStayInside, DischargesMatch
<1>2. ASSUME LedgerInv, NEW n \in Evidence, Add(n)
      PROVE  LedgerInv'
  <2>1. LedgerTypeOK'
    BY <1>2 DEF LedgerInv, LedgerTypeOK, Add
  <2>2. EdgesStayInside'
    <3>1. Parents(n) \in SUBSET nodes
      BY <1>2 DEF Add, ValidEdges
    <3>2. Parents(n)' = Parents(n) /\ \A m : Parents(m)' = Parents(m)
      BY <1>2 DEF Add, Parents
    <3>3. n \in ProofFacts => Parents(n) \subseteq nodes \cap ProofFacts
      BY <1>2 DEF Add, ValidEdges
    <3>4. n \in UnknownFacts => Parents(n) \subseteq nodes \cap (ProofFacts \cup UnknownFacts)
      BY <1>2, <3>1 DEF Add, ValidEdges, LedgerInv, LedgerTypeOK, Evidence, Dynamic
    <3>5. nodes' = nodes \cup {n}
      BY <1>2 DEF Add
    <3> QED
      BY <1>2, <3>2, <3>3, <3>4, <3>5 DEF LedgerInv, EdgesStayInside
  <2>3. DischargesMatch'
    BY <1>2 DEF LedgerInv, DischargesMatch, Add, Scope
  <2> QED
    BY <2>1, <2>2, <2>3 DEF LedgerInv
<1>3. ASSUME LedgerInv, NEW u \in UnknownFacts, NEW p \in ProofFacts, AddDischarge(u, p)
      PROVE  LedgerInv'
  <2>1. LedgerTypeOK'
    BY <1>3 DEF LedgerInv, LedgerTypeOK, AddDischarge
  <2>2. EdgesStayInside'
    BY <1>3 DEF LedgerInv, EdgesStayInside, AddDischarge, Parents
  <2>3. DischargesMatch'
    BY <1>3 DEF LedgerInv, LedgerTypeOK, DischargesMatch, AddDischarge, ValidDischarge, Scope
  <2> QED
    BY <2>1, <2>2, <2>3 DEF LedgerInv
<1>4. LedgerInv /\ UNCHANGED ledgerVars => LedgerInv'
  BY DEF LedgerInv, LedgerTypeOK, EdgesStayInside, DischargesMatch, Parents, Scope, ledgerVars
<1> QED
  BY <1>1, <1>2, <1>3, <1>4 DEF LedgerNext

(***************************************************************************)
(* The local rules imply the global ones, which speak of whole walks.      *)
(***************************************************************************)
LEMMA LedgerInvImplies ==
  LedgerInv => ProofsRestOnProofs /\ UnknownsAreStatic /\ DischargesJustified
<1> SUFFICES ASSUME LedgerInv
             PROVE  ProofsRestOnProofs /\ UnknownsAreStatic /\ DischargesJustified
  OBVIOUS
<1>1. LedgerTypeOK /\ nodes \in SUBSET Evidence
  BY DEF LedgerInv, LedgerTypeOK
<1>2. ProofsRestOnProofs
  <2> SUFFICES ASSUME NEW p \in nodes \cap ProofFacts
               PROVE  Reach({p}) \subseteq nodes \cap ProofFacts
    BY DEF ProofsRestOnProofs
  <2> QED
    BY <1>1, WalkStaysInside DEF LedgerInv, EdgesStayInside
<1>3. UnknownsAreStatic
  <2> SUFFICES ASSUME NEW u \in nodes \cap UnknownFacts
               PROVE  Reach({u}) \cap Dynamic = {}
    BY DEF UnknownsAreStatic
  <2> DEFINE static == nodes \cap (ProofFacts \cup UnknownFacts)
  <2>1. \A m \in static : Parents(m) \subseteq static
    BY DEF LedgerInv, EdgesStayInside
  <2>2. Reach({u}) \subseteq static
    BY <1>1, <2>1, WalkStaysInside
  <2> QED
    BY <2>2, CategoriesAreDisjoint DEF Dynamic
<1>4. DischargesJustified
  <2> SUFFICES ASSUME NEW u \in UnknownFacts, discharges[u] # NoProof
               PROVE  /\ u \in nodes
                      /\ Scope(u) = Scope(discharges[u])
                      /\ ClosureHolds({discharges[u]}, nodes)
    BY DEF DischargesJustified
  <2>1. discharges[u] \in nodes \cap ProofFacts
    BY DEF LedgerInv, DischargesMatch
  <2> QED
    BY <1>2, <2>1 DEF LedgerInv, DischargesMatch, ProofsRestOnProofs, ClosureHolds
<1> QED
  BY <1>2, <1>3, <1>4

-----------------------------------------------------------------------------
(***************************************************************************)
(* The inductive invariant holds throughout.                               *)
(***************************************************************************)
THEOREM LedgerInvariance == LedgerSpec => []LedgerInv
  BY LedgerInvInductive, PTL DEF LedgerSpec

(***************************************************************************)
(* The ledger's variables keep their types.                                *)
(***************************************************************************)
THEOREM LedgerTypeCorrect == LedgerSpec => []LedgerTypeOK
<1>1. LedgerInv => LedgerTypeOK
  BY DEF LedgerInv
<1> QED
  BY <1>1, LedgerInvariance, PTL

(***************************************************************************)
(* From a proof in the ledger no chain of premises leaves the proofs, and  *)
(* from an unknown none reaches dynamic evidence; a discharge keeps a      *)
(* proof whose whole closure is in the ledger.                             *)
(***************************************************************************)
THEOREM LedgerIsSound ==
  LedgerSpec => [](ProofsRestOnProofs /\ UnknownsAreStatic /\ DischargesJustified)
  BY LedgerInvariance, LedgerInvImplies, PTL

(***************************************************************************)
(* No step removes a node, reopens an unknown or re-targets its discharge. *)
(***************************************************************************)
THEOREM LedgerOnlyGrows == LedgerSpec => OnlyGrows
<1> DEFINE Growth == /\ nodes \subseteq nodes'
                     /\ \A u \in UnknownFacts :
                          discharges[u] # NoProof => discharges'[u] = discharges[u]
<1>1. ASSUME LedgerInv, [LedgerNext]_ledgerVars
      PROVE  [Growth]_ledgerVars
  <2>1. ASSUME NEW n \in Evidence, Add(n) PROVE Growth
    BY <2>1 DEF Add
  <2>2. ASSUME NEW u \in UnknownFacts, NEW p \in ProofFacts, AddDischarge(u, p)
        PROVE  Growth
    BY <1>1, <2>2 DEF AddDischarge, ValidDischarge, LedgerInv, LedgerTypeOK
  <2> QED
    BY <1>1, <2>1, <2>2 DEF LedgerNext
<1> QED
  BY <1>1, LedgerInvariance, PTL DEF LedgerSpec, OnlyGrows

-----------------------------------------------------------------------------
Inv == /\ TypeOK
       /\ LedgerInv
       /\ AcceptedRestsOnProofs
       /\ BridgeStaysInScope

(***************************************************************************)
(* Acceptance, by either route, establishes what stands behind it.         *)
(***************************************************************************)
LEMMA AcceptanceRests ==
  ASSUME NEW c \in Certificates, Accepts(c), verified' = c, UNCHANGED ledgerVars
  PROVE  AcceptedRestsOnProofs'
<1>1. Reach(c.roots)' = Reach(c.roots)
  BY DEF Reach, ledgerVars
<1>2. Reach(c.roots) \subseteq nodes \cap ProofFacts
  BY DEF Accepts, AcceptsOver, ClosureHolds
<1>3. \A d \in c.removals : d.proof \in Reach(c.roots) /\ CoversEvent(d.proof, d.event)
  BY DEF Accepts, AcceptsOver, RemovalsCovered
<1> QED
  BY <1>1, <1>2, <1>3 DEF AcceptedRestsOnProofs, CoversEvent, ledgerVars

(***************************************************************************)
(* The combined invariant: acceptance establishes it, growth keeps it.     *)
(***************************************************************************)
LEMMA InvInductive ==
  /\ Init => Inv
  /\ Inv /\ [Next]_vars => Inv'
<1>1. Init => Inv
  BY LedgerInvInductive
     DEF Init, Inv, TypeOK, LedgerInv, AcceptedRestsOnProofs, BridgeStaysInScope
<1>2. ASSUME Inv, Grow PROVE Inv'
  <2>1. LedgerInv'
    BY <1>2, LedgerInvInductive DEF Inv, Grow
  <2>2. TypeOK'
    BY <1>2, <2>1 DEF Inv, TypeOK, Grow, LedgerInv
  <2>3. nodes \subseteq nodes' /\ content' = content
    BY <1>2 DEF Grow, LedgerNext, Add, AddDischarge
  <2>4. \A R : Reach(R)' = Reach(R)
    BY <2>3 DEF Reach
  <2>5. AcceptedRestsOnProofs'
    BY <1>2, <2>3, <2>4 DEF Inv, Grow, AcceptedRestsOnProofs, CoversEvent
  <2>6. BridgeStaysInScope'
    BY <1>2, <2>3, <2>4 DEF Inv, Grow, BridgeStaysInScope, Scope
  <2> QED
    BY <2>1, <2>2, <2>5, <2>6 DEF Inv
<1>3. ASSUME Inv, NEW c \in Certificates, NEW e \in Scopes \cup {AnyBinding}, Replay(c, e)
      PROVE  Inv'
  <2>1. LedgerInv' /\ LedgerTypeOK'
    BY <1>3, LedgerInvInductive DEF Inv, Replay, LedgerInv
  <2>2. TypeOK'
    BY <1>3, <2>1, CertificatesAreCertificates, NoCertificateIsNone DEF TypeOK, Replay
  <2>3. AcceptedRestsOnProofs'
    BY <1>3, AcceptanceRests DEF Replay
  <2>4. BridgeStaysInScope'
    BY <1>3 DEF Replay, BridgeStaysInScope
  <2> QED
    BY <2>1, <2>2, <2>3, <2>4 DEF Inv
<1>4. ASSUME Inv, NEW c \in Certificates, Bridge(c) PROVE Inv'
  <2>1. LedgerInv' /\ LedgerTypeOK'
    BY <1>4, LedgerInvInductive DEF Inv, Bridge, LedgerInv
  <2>2. TypeOK'
    BY <1>4, <2>1, CertificatesAreCertificates, NoCertificateIsNone DEF TypeOK, Bridge
  <2>3. AcceptedRestsOnProofs'
    BY <1>4, AcceptanceRests DEF Bridge, BridgeTakes
  <2>4. Reach(c.roots) \subseteq nodes
    BY <1>4 DEF Bridge, BridgeTakes, Accepts, AcceptsOver, ClosureHolds
  <2>5. Reach(c.roots)' = Reach(c.roots) /\ \A n : Scope(n)' = Scope(n)
    BY <1>4 DEF Bridge, ledgerVars, Reach, Scope
  <2>6. BridgeStaysInScope'
    BY <1>4, <2>4, <2>5 DEF Bridge, BridgeTakes, BridgeStaysInScope
  <2> QED
    BY <2>1, <2>2, <2>3, <2>6 DEF Inv
<1>5. ASSUME Inv, UNCHANGED vars PROVE Inv'
  <2>1. LedgerInv'
    BY <1>5, LedgerInvInductive DEF Inv, vars, ledgerVars
  <2>2. TypeOK'
    BY <1>5, <2>1 DEF Inv, TypeOK, LedgerInv, vars
  <2>3. \A R : Reach(R)' = Reach(R)
    BY <1>5 DEF vars, Reach
  <2>4. AcceptedRestsOnProofs' /\ BridgeStaysInScope'
    BY <1>5, <2>3 DEF Inv, vars, AcceptedRestsOnProofs, CoversEvent, BridgeStaysInScope, Scope
  <2> QED
    BY <2>1, <2>2, <2>4 DEF Inv
<1> QED
  BY <1>1, <1>2, <1>3, <1>4, <1>5 DEF Next

(***************************************************************************)
(* The invariant holds throughout, whoever adds evidence in between.       *)
(***************************************************************************)
THEOREM CertificateInvariance == Spec => []Inv
  BY InvInductive, PTL DEF Spec

(***************************************************************************)
(* Behind an accepted certificate stand only proofs of the ledger, and     *)
(* each removed event is covered by one of them.                           *)
(***************************************************************************)
THEOREM AcceptedIsProved == Spec => [](TypeOK /\ AcceptedRestsOnProofs)
<1>1. Inv => TypeOK /\ AcceptedRestsOnProofs
  BY DEF Inv
<1> QED
  BY <1>1, CertificateInvariance, PTL

(***************************************************************************)
(* A certificate the bridge issued rests on proofs of its own scope only.  *)
(***************************************************************************)
THEOREM BridgeIsScoped == Spec => []BridgeStaysInScope
<1>1. Inv => BridgeStaysInScope
  BY DEF Inv
<1> QED
  BY <1>1, CertificateInvariance, PTL

-----------------------------------------------------------------------------
(***************************************************************************)
(* A SAFE certificate that is accepted leaves no unknown of its scope      *)
(* without a discharge by a proof of that scope.                           *)
(***************************************************************************)
LEMMA SafeAcceptanceOwesNothing ==
  ASSUME Inv, NEW c \in Certificates, Accepts(c), c.verdict = "SAFE"
  PROVE  \A u \in nodes \cap UnknownFacts : Scope(u) = c.scope =>
            discharges[u] \in {p \in nodes \cap ProofFacts : Scope(p) = Scope(u)}
<1> SUFFICES ASSUME NEW u \in nodes \cap UnknownFacts, Scope(u) = c.scope
             PROVE  discharges[u] \in {p \in nodes \cap ProofFacts : Scope(p) = Scope(u)}
  OBVIOUS
<1>1. discharges[u] # NoProof
  <2> SUFFICES ASSUME discharges[u] = NoProof PROVE FALSE
    OBVIOUS
  <2>1. u \in Unresolved(c.scope, nodes)
    BY DEF Unresolved
  <2>2. u \in c.unknowns
    BY <2>1 DEF Accepts, AcceptsOver, UnknownsAccounted
  <2> QED
    BY <2>2 DEF Accepts, AcceptsOver, UnknownsAccounted
<1> QED
  BY <1>1 DEF Inv, LedgerInv, DischargesMatch

(***************************************************************************)
(* So it is of every behaviour of the specification.                       *)
(***************************************************************************)
THEOREM SafeIsDebtFree == Spec => SafeOwesNothing
<1> DEFINE Debtless ==
      (verified' # verified /\ verified' # NoCertificate /\ verified'.verdict = "SAFE")
        => \A u \in nodes \cap UnknownFacts : Scope(u) = verified'.scope =>
              discharges[u] \in {p \in nodes \cap ProofFacts : Scope(p) = Scope(u)}
<1>1. ASSUME Inv, [Next]_vars PROVE [Debtless]_vars
  <2>1. ASSUME NEW c \in Certificates, Accepts(c), verified' = c PROVE Debtless
    BY <1>1, <2>1, SafeAcceptanceOwesNothing
  <2>2. ASSUME verified' = verified PROVE Debtless
    BY <2>2
  <2> HIDE DEF Debtless
  <2> QED
    BY <1>1, <2>1, <2>2 DEF Next, Grow, Replay, Bridge, BridgeTakes
<1> QED
  BY <1>1, CertificateInvariance, PTL DEF Spec, SafeOwesNothing

(***************************************************************************)
(* The verifier's answer depends on proofs and unknowns only.              *)
(***************************************************************************)
THEOREM DynamicEvidenceHasNoVote == Spec => []DynamicEvidenceIsInert
<1> DEFINE static == nodes \ Dynamic
<1>1. static \cap ProofFacts = nodes \cap ProofFacts
      /\ static \cap UnknownFacts = nodes \cap UnknownFacts
  BY CategoriesAreDisjoint DEF Dynamic
<1>2. \A R : ClosureHolds(R, static) <=> ClosureHolds(R, nodes)
  BY <1>1 DEF ClosureHolds
<1>3. \A s : Unresolved(s, static) = Unresolved(s, nodes)
  BY <1>1 DEF Unresolved
<1>4. \A c : UnknownsAccounted(c, static) <=> UnknownsAccounted(c, nodes)
  BY <1>1, <1>3 DEF UnknownsAccounted
<1>5. DynamicEvidenceIsInert
  BY <1>2, <1>4 DEF DynamicEvidenceIsInert, Accepts, AcceptsOver
<1> QED
  BY <1>5, PTL

(***************************************************************************)
(* Nothing that is added later, but a new question of its scope, takes an  *)
(* accepted SAFE certificate its standing: its questions are all answered, *)
(* and an answer is never changed.                                         *)
(***************************************************************************)
THEOREM SafeKeepsItsStanding == Spec => SafeStaysReplayable
<1> DEFINE Standing ==
      (/\ verified # NoCertificate /\ verified' = verified
       /\ verified.verdict = "SAFE" /\ Accepts(verified))
        => \/ Accepts(verified)'
           \/ \E u \in (nodes' \ nodes) \cap UnknownFacts : Scope(u) = verified.scope
<1>1. ASSUME Inv, [Next]_vars PROVE Standing
  <2> SUFFICES ASSUME verified' = verified, verified.verdict = "SAFE", Accepts(verified),
                      \A u \in (nodes' \ nodes) \cap UnknownFacts : Scope(u) # verified.scope
               PROVE  Accepts(verified)'
    OBVIOUS
  <2> DEFINE c == verified
  <2>1. /\ content' = content /\ nodes \subseteq nodes'
        /\ \A u \in UnknownFacts : discharges[u] # NoProof => discharges'[u] = discharges[u]
    <3>1. CASE \E n \in Evidence : Add(n)
      BY <3>1 DEF Add
    <3>2. CASE \E u \in UnknownFacts, p \in ProofFacts : AddDischarge(u, p)
      BY <1>1, <3>2 DEF AddDischarge, ValidDischarge, Inv, LedgerInv, LedgerTypeOK
    <3>3. CASE UNCHANGED ledgerVars
      BY <3>3 DEF ledgerVars
    <3> QED
      BY <1>1, <3>1, <3>2, <3>3 DEF Next, Grow, Replay, Bridge, LedgerNext, vars, ledgerVars
  <2>2. \A R : Reach(R)' = Reach(R)
    BY <2>1 DEF Reach
  <2>3. ClosureHolds(c.roots, nodes)' /\ RemovalsCovered(c)'
    BY <2>1, <2>2 DEF Accepts, AcceptsOver, ClosureHolds, RemovalsCovered, CoversEvent
  <2>4. \A u \in c.unknowns : u \in nodes \cap UnknownFacts /\ Scope(u) = c.scope
                              /\ discharges[u] # NoProof /\ discharges[u] \in Reach(c.roots)
    BY DEF Accepts, AcceptsOver, UnknownsAccounted
  <2>5. Unresolved(c.scope, nodes)' \subseteq Unresolved(c.scope, nodes)
    BY <2>1 DEF Unresolved, Scope
  <2>6. UnknownsAccounted(c, nodes)'
    <3>1. Unresolved(c.scope, nodes)' \subseteq c.unknowns
      BY <2>5 DEF Accepts, AcceptsOver, UnknownsAccounted
    <3>2. ASSUME NEW u \in c.unknowns
          PROVE  u \in nodes' \cap UnknownFacts /\ Scope(u)' = c.scope
                 /\ discharges'[u] # NoProof /\ discharges'[u] \in Reach(c.roots)
      BY <2>1, <2>4, <3>2 DEF Scope
    <3> QED
      BY <2>2, <3>1, <3>2 DEF UnknownsAccounted
  <2> QED
    BY <2>3, <2>6 DEF Accepts, AcceptsOver
<1>2. ASSUME Inv, [Next]_vars PROVE [Standing]_vars
  BY <1>1, <1>2
<1> HIDE DEF Standing
<1>3. [][Standing]_vars => SafeStaysReplayable
  BY PTL DEF SafeStaysReplayable, Standing
<1> QED
  BY <1>2, <1>3, CertificateInvariance, PTL DEF Spec

-----------------------------------------------------------------------------
(* From a report to a certificate.                                           *)

(***************************************************************************)
(* Whatever happens to a report is something that may happen to any ledger *)
(* and certificate, so all that is proved of those holds of it.            *)
(***************************************************************************)
LEMMA ReportSteps == [ReportNext]_reportVars => [Next]_vars
<1> SUFFICES ASSUME [ReportNext]_reportVars PROVE [Next]_vars
  OBVIOUS
<1>1. ASSUME NEW n \in Evidence, Adapt(n) PROVE Next
  BY <1>1 DEF Adapt, Next, Grow, LedgerNext
<1>2. ASSUME NEW u \in UnknownFacts, Ask(u) PROVE Next
  BY <1>2 DEF Ask, Next, Grow, LedgerNext, Evidence
<1>3. ASSUME NEW u \in UnknownFacts, NEW p \in ProofFacts, Answer(u, p) PROVE Next
  BY <1>3 DEF Answer, Next, Grow, LedgerNext
<1>4. CASE Seal
  BY <1>4 DEF Seal, Next
<1>5. CASE Unbound \/ Decide \/ Refuse \/ Over \/ UNCHANGED reportVars
  BY <1>5 DEF Unbound, Decide, Refuse, Over, reportVars
<1> QED
  BY <1>1, <1>2, <1>3, <1>4, <1>5 DEF ReportNext

THEOREM ReportsAreCertified == ReportSpec => Spec
<1>1. ReportInit => Init
  BY DEF ReportInit
<1> QED
  BY <1>1, ReportSteps, PTL DEF ReportSpec, Spec

\* How far a report has come shows in the ledger: all its nodes are there before
\* anything is answered, only what may be answered is, and a sealed certificate
\* is what was composed.
ReportInv ==
  stage # "none" =>
    /\ report \in Reports
    /\ \A u \in UnknownFacts : discharges[u] # NoProof =>
          /\ u \notin report.relevant
          /\ discharges[u] \in ProofNodes(report) /\ Settles(report, discharges[u], u)
    /\ stage \in {"answer", "sealed"} =>
          /\ QuestionsOf(report) \cup ProofNodes(report) \subseteq nodes
          /\ {d.event : d \in decisions} = report.removed
    /\ stage = "sealed" =>
          /\ verified = Composed
          /\ report.relevant \subseteq nodes
          /\ \A n \in nodes : Scope(n) = report.scope

LEMMA ReportStays == Inv /\ ReportInv /\ [ReportNext]_reportVars => ReportInv'
<1> SUFFICES ASSUME Inv, ReportInv, [ReportNext]_reportVars, stage' # "none" PROVE ReportInv'
  BY DEF ReportInv
<1>1. ASSUME NEW n \in Evidence, Add(n), stage \in {"adapt", "answer"},
             UNCHANGED <<report, stage, decisions>>
      PROVE  ReportInv'
  <2>1. /\ content' = content /\ discharges' = discharges /\ nodes \subseteq nodes'
    BY <1>1 DEF Add
  <2>2. \A p, u : Settles(report, p, u)' <=> Settles(report, p, u)
    BY <1>1, <2>1 DEF Settles, Named, SubjectEvent, EventsOf, Covered
  <2> QED
    BY <1>1, <2>1, <2>2 DEF ReportInv, QuestionsOf, ProofNodes
<1>2. ASSUME NEW n \in Evidence, Adapt(n) PROVE ReportInv'
  BY <1>1, <1>2 DEF Adapt, Adapting
<1>3. ASSUME NEW u \in UnknownFacts, Ask(u) PROVE ReportInv'
  BY <1>1, <1>3 DEF Ask, Answered, Evidence
<1>4. ASSUME NEW u \in UnknownFacts, NEW p \in ProofFacts, Answer(u, p) PROVE ReportInv'
  <2>1. /\ content' = content /\ nodes' = nodes /\ UNCHANGED <<report, stage, decisions>>
        /\ stage = "answer"
        /\ discharges'[u] = p /\ \A v \in UnknownFacts \ {u} : discharges'[v] = discharges[v]
    BY <1>4 DEF Answer, AddDischarge, Inv, LedgerInv, LedgerTypeOK
  <2>2. u \notin report.relevant /\ p \in ProofNodes(report) /\ Settles(report, p, u)
    BY <1>4 DEF Answer, Answerable
  <2>3. \A q, v : Settles(report, q, v)' <=> Settles(report, q, v)
    BY <2>1 DEF Settles, Named, SubjectEvent, EventsOf, Covered
  <2>4. ASSUME NEW v \in UnknownFacts, NEW q, q = discharges'[v], q # NoProof
        PROVE  v \notin report.relevant /\ q \in ProofNodes(report) /\ Settles(report, q, v)
    <3>1. CASE v = u
      BY <2>1, <2>2, <2>4, <3>1
    <3>2. CASE v # u
      BY <2>1, <2>4, <3>2 DEF ReportInv
    <3> QED
      BY <3>1, <3>2
  <2>5. \A v \in UnknownFacts : discharges'[v] # NoProof =>
          /\ v \notin report.relevant
          /\ discharges'[v] \in ProofNodes(report) /\ Settles(report, discharges'[v], v)
    BY <2>4
  <2>6. /\ report \in Reports /\ QuestionsOf(report) \cup ProofNodes(report) \subseteq nodes
        /\ {d.event : d \in decisions} = report.removed
    BY <2>1 DEF ReportInv
  <2>7. ASSUME NEW v \in UnknownFacts, (discharges[v] # NoProof)'
        PROVE  (Settles(report, discharges[v], v))'
    <3>1. Settles(report, discharges'[v], v)
      BY <2>5, <2>7
    <3> QED
      BY <2>1, <3>1 DEF Settles, Named, SubjectEvent, EventsOf, Covered
  <2>8. \A v \in UnknownFacts : (discharges[v] # NoProof)' => (Settles(report, discharges[v], v))'
    BY <2>7
  <2>9. \A v \in UnknownFacts : (discharges[v] # NoProof)' =>
           (v \notin report.relevant /\ discharges[v] \in ProofNodes(report))'
    BY <2>1, <2>5 DEF ProofNodes
  <2>10. (stage # "sealed" /\ report \in Reports
          /\ QuestionsOf(report) \cup ProofNodes(report) \subseteq nodes
          /\ {d.event : d \in decisions} = report.removed)'
    BY <2>1, <2>6 DEF QuestionsOf, ProofNodes
  <2> HIDE DEF Settles, ProofNodes, QuestionsOf
  <2> QED
    BY <2>8, <2>9, <2>10 DEF ReportInv
<1>5. CASE Decide
  <2>1. PICK by \in [report.removed -> ProofNodes(report)] :
           decisions' = {[event |-> e, proof |-> by[e], scope |-> report.scope] : e \in report.removed}
    BY <1>5 DEF Decide
  <2>2. {d.event : d \in decisions'} = report.removed
    <3>1. \A d \in decisions' : d.event \in report.removed
      BY <2>1
    <3>2. ASSUME NEW e \in report.removed PROVE \E d \in decisions' : d.event = e
      <4>1. [event |-> e, proof |-> by[e], scope |-> report.scope] \in decisions'
        BY <2>1
      <4> QED
        BY <4>1
    <3> QED
      BY <3>1, <3>2
  <2>3. /\ UNCHANGED vars /\ report' = report /\ stage = "adapt" /\ stage' = "answer"
        /\ QuestionsOf(report) \cup ProofNodes(report) \subseteq nodes
    BY <1>5 DEF Decide, Adapted, Adapting
  <2>4. \A p, u : Settles(report, p, u)' <=> Settles(report, p, u)
    BY <2>3 DEF vars, Settles, Named, SubjectEvent, EventsOf, Covered
  <2> QED
    BY <2>2, <2>3, <2>4 DEF ReportInv, vars, QuestionsOf, ProofNodes
<1>6. CASE Seal
  <2>1. /\ UNCHANGED ledgerVars /\ report' = report /\ decisions' = decisions
        /\ stage = "answer" /\ stage' = "sealed" /\ verified' = Composed
        /\ report.relevant \subseteq nodes /\ \A n \in nodes : Scope(n) = report.scope
    BY <1>6 DEF Seal, Complete, Answered, Bridge, BridgeTakes, Composed
  <2>2. \A p, u : Settles(report, p, u)' <=> Settles(report, p, u)
    BY <2>1 DEF ledgerVars, Settles, Named, SubjectEvent, EventsOf, Covered
  <2>3. Composed' = Composed
    BY <2>1 DEF Composed, ProofNodes, Unresolved, Scope, ledgerVars
  <2> QED
    BY <2>1, <2>2, <2>3 DEF ReportInv, ledgerVars, QuestionsOf, ProofNodes, Scope
<1>7. CASE (Unbound \/ Refuse \/ Over \/ UNCHANGED reportVars)
  <2>1. UNCHANGED <<vars, report, decisions>> /\ (stage' = stage \/ stage' \in {"unbound", "refused"})
        /\ stage # "none"
    BY <1>7 DEF Unbound, Refuse, Over, reportVars, Complete, Answered, Adapted, Adapting
  <2>2. \A p, u : Settles(report, p, u)' <=> Settles(report, p, u)
    BY <2>1 DEF vars, Settles, Named, SubjectEvent, EventsOf, Covered
  <2>3. Composed' = Composed
    BY <2>1 DEF Composed, ProofNodes, Unresolved, Scope, vars
  <2> QED
    BY <2>1, <2>2, <2>3 DEF ReportInv, vars, QuestionsOf, ProofNodes, Scope
<1>8. CASE stage = "none" /\ Next /\ UNCHANGED <<report, stage, decisions>>
  BY <1>8
<1> QED
  BY <1>2, <1>3, <1>4, <1>5, <1>6, <1>7, <1>8 DEF ReportNext

(***************************************************************************)
(* A report loses no question on its way into a certificate, whatever its  *)
(* events, proofs and questions are.                                       *)
(***************************************************************************)
THEOREM ReportKeepsItsQuestions == ReportSpec => []QuestionsAreKept
<1>1. ReportInit => ReportInv
  BY DEF ReportInit, Init, LedgerInit, ReportInv
<1>2. Inv /\ ReportInv => QuestionsAreKept
  <2> SUFFICES ASSUME Inv, ReportInv, stage = "sealed" PROVE QuestionsAreKept
    BY DEF QuestionsAreKept
  <2>1. /\ verified = Composed /\ report \in Reports
        /\ verified.unknowns = Unresolved(report.scope, nodes)
        /\ verified.roots = ProofNodes(report) /\ verified.removals = decisions
    BY DEF ReportInv, Composed
  <2>2. \A u \in (QuestionsOf(report) \cup report.relevant) :
           /\ u \in nodes /\ u \in UnknownFacts
           /\ discharges[u] = NoProof => u \in verified.unknowns
    BY <2>1, ReportsAreReports DEF ReportInv, Unresolved
  <2>3. report.relevant \subseteq verified.unknowns
    BY <2>2 DEF ReportInv
  <2>4. ASSUME NEW u \in QuestionsOf(report) \ verified.unknowns
        PROVE  \E p \in Reach(verified.roots) :
                  p = discharges[u] /\ Named(report, u) # {} /\ Named(report, u) \subseteq Covered(p)
    <3>1. discharges[u] \in ProofNodes(report) /\ Settles(report, discharges[u], u)
      BY <2>2, <2>4 DEF ReportInv
    <3>2. discharges[u] \in Evidence /\ content \in Contents
      BY <2>1, <3>1, ReportsAreReports DEF Evidence, Inv, LedgerInv, LedgerTypeOK
    <3>3. discharges[u] \in Reach(verified.roots)
      BY <2>1, <3>1, <3>2 DEF Reach, Ancestry
    <3> QED
      BY <3>1, <3>3 DEF Settles
  <2>5. {d.event : d \in verified.removals} = report.removed
    BY <2>1 DEF ReportInv
  <2>6. \A u \in QuestionsOf(report) \ verified.unknowns :
          \E p \in Reach(verified.roots) :
             p = discharges[u] /\ Named(report, u) # {} /\ Named(report, u) \subseteq Covered(p)
    BY <2>4
  <2> HIDE DEF Named, Covered
  <2> QED
    BY <2>3, <2>5, <2>6, Zenon DEF QuestionsAreKept, QuestionsOf
<1> QED
  BY <1>1, <1>2, ReportStays, ReportsAreCertified, CertificateInvariance, PTL DEF ReportSpec

=============================================================================
