--------------------------- MODULE EvidenceLedger ---------------------------
(***************************************************************************)
(* The append-only evidence graph of bmo_check_core.evidence.  A node's id *)
(* is the hash of its content, so an id stands for its payload: `content`  *)
(* is fixed for a whole behaviour and gives, for every id that producers   *)
(* may offer, the scope it was made for and the ids it refers to.  Adding  *)
(* a node twice, or two nodes with one id, is therefore a stuttering step. *)
(* A call that raises LedgerError leaves the ledger unchanged; callers see *)
(* it as ~ValidEdges or ~ValidDischarge.                                   *)
(***************************************************************************)
EXTENDS FiniteSets

CONSTANTS
  ProofFacts,       \* ids of ProofFact nodes
  ObservedFacts,    \* ids of ObservedFact nodes
  DiagnosticHints,  \* ids of DiagnosticHint nodes
  UnknownFacts,     \* ids of UnknownFact nodes
  Scopes,           \* analysis scopes
  Events,           \* ids of static memory events
  Contents,         \* the payload assignments producers may come up with
  NoProof           \* marks an UnknownFact that has no discharge

Evidence == ProofFacts \cup ObservedFacts \cup DiagnosticHints \cup UnknownFacts
Dynamic  == ObservedFacts \cup DiagnosticHints

\* parents: the premises of a ProofFact, the provenance of an UnknownFact or
\* the unknown_ids of a DiagnosticHint; observed: the observed_ids of a hint;
\* covers: the covered_events of a ProofFact; subject: the event it is about,
\* {} when it is about no event or about several.
Payload == [scope    : Scopes,
            parents  : SUBSET Evidence,
            observed : SUBSET Evidence,
            covers   : SUBSET Events,
            subject  : {{}} \cup {{e} : e \in Events}]

ASSUME CategoriesAreDisjoint ==
  /\ ProofFacts \cap (ObservedFacts \cup DiagnosticHints \cup UnknownFacts) = {}
  /\ UnknownFacts \cap (ObservedFacts \cup DiagnosticHints) = {}
  /\ ObservedFacts \cap DiagnosticHints = {}

ASSUME NoProofIsNoNode == NoProof \notin Evidence

ASSUME ContentsArePayloads == Contents \subseteq [Evidence -> Payload]

\* An ObservedFact refers to a trace and to events, never to other evidence.
ASSUME ObservationsStandAlone ==
  \A c \in Contents : \A o \in ObservedFacts : c[o].parents = {}

\* What the depth-first walk of proof_closure visits from one node, for each
\* payload assignment: the least set that holds the node and the parents of
\* its own members.
Closed(c, S) == \A m \in S : c[m].parents \subseteq S

Ancestry ==
  [c \in Contents |-> [n \in Evidence |->
     {m \in Evidence : \A S \in SUBSET Evidence : (n \in S /\ Closed(c, S)) => m \in S}]]

VARIABLES
  content,     \* what each id is the hash of
  nodes,       \* EvidenceLedger._nodes
  discharges   \* EvidenceLedger._discharges

ledgerVars == <<content, nodes, discharges>>

Scope(n)   == content[n].scope
Parents(n) == content[n].parents

LedgerTypeOK ==
  /\ content \in Contents
  /\ nodes \subseteq Evidence
  /\ discharges \in [UnknownFacts -> ProofFacts \cup {NoProof}]

LedgerInit ==
  /\ content \in Contents
  /\ nodes = {}
  /\ discharges = [u \in UnknownFacts |-> NoProof]

-----------------------------------------------------------------------------
\* Mutant of ValidEdges: a proof may rest on anything.
ValidEdgesAnyPremise(n, known) ==
  /\ Parents(n) \subseteq known
  /\ n \in UnknownFacts    => Parents(n) \cap Dynamic = {}
  /\ n \in DiagnosticHints => Parents(n) \subseteq UnknownFacts

\* _validate_edges: which ids of `known` a node of each category may refer to.
ValidEdges(n, known) ==
  /\ Parents(n) \subseteq known
  /\ n \in ProofFacts      => Parents(n) \subseteq ProofFacts
  /\ n \in UnknownFacts    => Parents(n) \cap Dynamic = {}
  /\ n \in DiagnosticHints => /\ Parents(n) \subseteq UnknownFacts
                              /\ content[n].observed \subseteq known \cap ObservedFacts

\* Mutants of ValidDischarge: a foreign scope, a second discharge.
ValidDischargeAnyScope(u, p) ==
  u \in nodes /\ p \in nodes /\ discharges[u] \in {NoProof, p}

ValidDischargeAgain(u, p) ==
  u \in nodes /\ p \in nodes /\ Scope(u) = Scope(p)

\* A discharge is a triple of an unknown, a proof and one scope that is both's.
ValidDischarge(u, p) ==
  /\ u \in nodes \cap UnknownFacts
  /\ p \in nodes \cap ProofFacts
  /\ Scope(u) = Scope(p)
  /\ discharges[u] \in {NoProof, p}

Add(n) ==
  /\ ValidEdges(n, nodes)
  /\ nodes' = nodes \cup {n}
  /\ UNCHANGED <<content, discharges>>

AddDischarge(u, p) ==
  /\ ValidDischarge(u, p)
  /\ discharges' = [discharges EXCEPT ![u] = p]
  /\ UNCHANGED <<content, nodes>>

LedgerNext ==
  \/ \E n \in Evidence : Add(n)
  \/ \E u \in UnknownFacts, p \in ProofFacts : AddDischarge(u, p)

LedgerSpec == LedgerInit /\ [][LedgerNext]_ledgerVars

-----------------------------------------------------------------------------
\* unresolved_unknowns(scope), over the nodes of `known`.
Unresolved(scope, known) ==
  {u \in UnknownFacts \cap known : Scope(u) = scope /\ discharges[u] = NoProof}

\* The ids the walk visits from all of `roots`.
Reach(roots) == UNION {Ancestry[content][r] : r \in roots}

\* Mutant: the walk does not look at the category of what it meets.
ClosureHoldsAnyCategory(roots, known) == Reach(roots) \subseteq known

\* proof_closure succeeds: the walk meets only ProofFacts that `known` holds.
ClosureHolds(roots, known) == Reach(roots) \subseteq known \cap ProofFacts

-----------------------------------------------------------------------------
(***************************************************************************)
(* No premise chain leaves the proofs: from a ProofFact in the ledger the  *)
(* walk never meets an observation, a hint, an open question or a missing  *)
(* node (soundness rules SC-001, SC-003), so proof_closure can fail only   *)
(* at its roots.                                                           *)
(***************************************************************************)
ProofsRestOnProofs ==
  \A p \in nodes \cap ProofFacts : Reach({p}) \subseteq nodes \cap ProofFacts

(***************************************************************************)
(* No dynamic evidence is reachable from a static question either: an      *)
(* UnknownFact's provenance, followed to the end, stays among proofs and   *)
(* unknowns (SC-004, SC-005).                                              *)
(***************************************************************************)
UnknownsAreStatic ==
  \A u \in nodes \cap UnknownFacts : Reach({u}) \cap Dynamic = {}

(***************************************************************************)
(* A discharge keeps its justification: the unknown and the proof are both *)
(* still in the ledger, for one scope, and the proof's whole premise chain *)
(* is proofs (SC-005).                                                     *)
(***************************************************************************)
DischargesJustified ==
  \A u \in UnknownFacts : discharges[u] # NoProof =>
     /\ u \in nodes
     /\ Scope(u) = Scope(discharges[u])
     /\ ClosureHolds({discharges[u]}, nodes)

(***************************************************************************)
(* The ledger is an audit trail: no step removes a node or reopens or      *)
(* re-targets a discharge (soundness section 7).                           *)
(***************************************************************************)
OnlyGrows ==
  [][ /\ nodes \subseteq nodes'
      /\ \A u \in UnknownFacts :
            discharges[u] # NoProof => discharges'[u] = discharges[u] ]_ledgerVars

=============================================================================
