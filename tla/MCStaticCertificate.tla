------------------------ MODULE MCStaticCertificate ------------------------
(***************************************************************************)
(* Three proofs, two open questions, one observation and one hint in two   *)
(* scopes.  The payloads let every edge be right or wrong: a premise that  *)
(* is foreign, an unknown, an observation or a hint; a proof names the     *)
(* event it covers in its list or as its subject; and the certificates are *)
(* right or wrong in every field.  Beside that, the reports of one         *)
(* analysis over two events.                                               *)
(***************************************************************************)
EXTENDS StaticReport

CONSTANTS p1, p2, p3, u1, u2, o1, h1, s1, s2, e1, e2, pc1, pc2, nowhere

Bare(s) == [scope |-> s, parents |-> {}, observed |-> {}, covers |-> {}, subject |-> {}]

Ids == {p1, p2, p3, u1, u2, o1, h1}

Payloads(scopes2, premises2, origins) ==
  { [n \in Ids |->
      CASE n = p1 -> [Bare(s1) EXCEPT !.covers = {e1}]
        [] n = p2 -> [Bare(scope2) EXCEPT !.parents = parents2, !.subject = {e2}]
        [] n = p3 -> [Bare(s1) EXCEPT !.parents = {p2}]
        [] n = u1 -> Bare(s1)
        [] n = u2 -> [Bare(scope2) EXCEPT !.parents = origin]
        [] n = o1 -> Bare(s1)
        [] n = h1 -> [Bare(s1) EXCEPT !.parents = {u1}, !.observed = {o1}]] :
    scope2 \in scopes2, parents2 \in premises2, origin \in origins }

RightEdges == Payloads({s1, s2}, {{p1}}, {{}})

WrongEdges ==
  Payloads({s1}, {{o1}, {u1}, {h1}}, {{o1}}) \cup Payloads({s2}, {{p1}}, {{h1}, {u1, p2}})

\* Payloads as the adapter makes them: p1 and p2 cover an event each, p3 both.
\* The hint is none that a ledger takes.
AdaptedEdges ==
  { [n \in Ids |->
      CASE n = p1 -> [Bare(s1) EXCEPT !.covers = {e1}, !.subject = {e1}]
        [] n = p2 -> [Bare(s1) EXCEPT !.covers = {e2}, !.subject = {e2}]
        [] n = p3 -> [Bare(s1) EXCEPT !.covers = {e1, e2}]
        [] n = h1 -> [Bare(s1) EXCEPT !.parents = {o1}]
        [] OTHER  -> Bare(s1)] }

AllEdges == RightEdges \cup WrongEdges \cup AdaptedEdges

-----------------------------------------------------------------------------
\* Two events, of one instruction or of two; the second list of events is the slice's.
Event(e, pc) == [id |-> e, at |-> pc]
Listings == {
  {Event(e1, pc1)},                                      \* not e2, whatever is said of it
  {Event(e1, pc1), Event(e2, pc2)},
  {Event(e1, pc1), Event(e2, pc1)},
  {Event(e1, pc1), Event(e2, pc2), Event(e2, pc1)} }     \* an id with two payloads

\* A proof has an id of its own; two may have one node, or one id two contents.
Proof(q, p, f) == [id |-> q, node |-> p, facts |-> f]
ProofLists == {
  {},
  {Proof(1, p1, 1)},
  {Proof(1, p1, 1), Proof(2, p2, 1)},
  {Proof(1, p3, 1), Proof(2, p3, 2)},
  {Proof(1, p1, 1), Proof(1, p1, 2)} }

\* u1 is about events, u2 about an instruction; each comes from one analysis or two.
Asking(a, b) ==
  [l \in Layers |-> IF l \in a THEN (IF l \in b THEN {u1, u2} ELSE {u1})
                    ELSE IF l \in b THEN {u2} ELSE {}]
Askings == {Asking(a, b) : a \in {{}, {"slice"}, {"events", "sharing"}}, b \in {{}, {"recovery"}}}

\* With questions the verifier says UNKNOWN, without it may say anything.
Answers ==
  {[verdict |-> "SAFE", relevant |-> {}, bounded |-> FALSE],
   [verdict |-> "COUNTEREXAMPLE", relevant |-> {}, bounded |-> TRUE]}
    \cup {[verdict |-> "UNKNOWN", relevant |-> q, bounded |-> TRUE] : q \in {{u1}, {u2}}}

\* Nothing could be recovered.
NoExecutable ==
  [scope |-> s1, revision |-> TRUE, executable |-> FALSE, listed |-> {}, questions |-> Asking({}, {"recovery"}),
   names |-> [u \in {u1, u2} |-> {}], place |-> [u \in {u1, u2} |-> nowhere], proofs |-> {}, removed |-> {},
   verdict |-> "UNKNOWN", relevant |-> {u2}, bounded |-> TRUE]

MCReports ==
  { NoExecutable } \cup
  { [scope |-> s1, revision |-> a.verdict # "UNKNOWN" \/ place = pc1, executable |-> TRUE,
     listed |-> l, questions |-> q, names |-> [u \in {u1, u2} |-> IF u = u1 THEN names ELSE {}],
     place |-> [u \in {u1, u2} |-> IF u = u1 THEN nowhere ELSE place],
     proofs |-> p, removed |-> d,
     verdict |-> a.verdict, relevant |-> a.relevant, bounded |-> a.bounded] :
    l \in Listings, q \in Askings, names \in {{e1}, {e1, e2}}, place \in {pc1, nowhere},
    p \in ProofLists, d \in {{}, {e1}, {e2}}, a \in Answers }

MCCertificates ==
  { [verdict |-> v, scope |-> s1, roots |-> r, removals |-> d, unknowns |-> q, bounded |-> b] :
    v \in {"SAFE", "COUNTEREXAMPLE", "UNKNOWN"},
    r \in {{p1}, {p3}, {o1}},
    d \in {{}, {[event |-> e1, proof |-> p1, scope |-> s1]}, {[event |-> e2, proof |-> p2, scope |-> s1]}},
    q \in {{}, {u1}, {u1, u2}},
    b \in BOOLEAN }

\* Those and what may be composed for a report.
Removals(ps) ==
  {{}} \cup {{[event |-> e, proof |-> p, scope |-> s1]} : <<e, p>> \in
              {<<e1, p1>>, <<e2, p2>>, <<e1, p3>>, <<e2, p3>>} \cap ({e1, e2} \X ps)}

ComposedOf(ps) ==
  { [verdict |-> a.verdict, scope |-> s1, roots |-> ps, removals |-> d, unknowns |-> q, bounded |-> a.bounded] :
    a \in Answers, d \in Removals(ps), q \in SUBSET {u1, u2} }

AllCertificates == MCCertificates \cup UNION {ComposedOf({p.node : p \in ps}) : ps \in ProofLists}

=============================================================================
