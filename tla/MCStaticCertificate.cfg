SPECIFICATION ReportSpec
CONSTANTS
  p1 = p1
  p2 = p2
  p3 = p3
  u1 = u1
  u2 = u2
  o1 = o1
  h1 = h1
  s1 = s1
  s2 = s2
  e1 = e1
  e2 = e2
  pc1 = pc1
  pc2 = pc2
  nowhere = nowhere
  ProofFacts = {p1, p2, p3}
  ObservedFacts = {o1}
  DiagnosticHints = {h1}
  UnknownFacts = {u1, u2}
  Scopes = {s1, s2}
  Events = {e1, e2}
  Contents <- AllEdges
  NoProof = NoProof
  AnyBinding = AnyBinding
  Certificates <- AllCertificates
  Reports <- MCReports
  NoReport = NoReport
  NoCertificate = NoCertificate
INVARIANTS
  ProofsRestOnProofs
  AcceptedRestsOnProofs
  DynamicEvidenceIsInert
  QuestionsAreKept
PROPERTIES
  SafeOwesNothing
  SafeStaysReplayable
