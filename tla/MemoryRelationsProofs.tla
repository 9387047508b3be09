----------------------- MODULE MemoryRelationsProofs -----------------------
(***************************************************************************)
(* Two compactions of the checker, proved for any window and any other     *)
(* edges.  Both follow one pattern: a graph has a cycle when some set of   *)
(* events leaves none of its members without a predecessor in the set; if  *)
(* the dense graph has such a set, adding to it the events that lie on the *)
(* way of a dropped edge gives one of the compact graph.                   *)
(***************************************************************************)
EXTENDS MemoryModels, FiniteSetTheorems, TLAPS

\* A set of events none of which is first.
Headless(S, edges) == S # {} /\ \A b \in S : \E a \in S : <<a, b>> \in edges

(***************************************************************************)
(* Acyclic, told by the sets it excludes.                                  *)
(***************************************************************************)
LEMMA CyclicIffHeadless ==
  ASSUME NEW E, NEW edges
  PROVE  Acyclic(E, edges) <=> \A S \in SUBSET E : ~ Headless(S, edges)
BY DEF Acyclic, Headless

(***************************************************************************)
(* A graph with fewer edges has no more cycles.                            *)
(***************************************************************************)
LEMMA FewerEdges ==
  ASSUME NEW E, NEW few, NEW many, few \subseteq many, Acyclic(E, many)
  PROVE  Acyclic(E, few)
BY DEF Acyclic

-----------------------------------------------------------------------------
(***************************************************************************)
(* A nonempty set of naturals has a least member.                          *)
(***************************************************************************)
LEMMA LeastNatural ==
  ASSUME NEW T \in SUBSET Nat, T # {}
  PROVE  \E x \in T : \A y \in T : x <= y
<1> DEFINE F == {0 .. n : n \in T}
<1>1. F \subseteq FiniteSubsetsOf(Nat)
  <2> SUFFICES ASSUME NEW n \in T PROVE 0 .. n \in FiniteSubsetsOf(Nat)
    OBVIOUS
  <2> QED
    BY FS_Interval DEF FiniteSubsetsOf
<1>2. F # {}
  OBVIOUS
<1>3. PICK X \in F : \A Y \in F : ~ (<<Y, X>> \in StrictSubsetOrdering(Nat))
  <2> HIDE DEF F
  <2> QED
    BY <1>1, <1>2, FS_StrictSubsetOrderingWellFounded, WFMin
<1>4. PICK x \in T : X = 0 .. x
  OBVIOUS
<1>5. ASSUME NEW y \in T, y < x PROVE FALSE
  <2>1. 0 .. y \subseteq 0 .. x /\ x \notin 0 .. y /\ x \in 0 .. x
    BY <1>5
  <2>2. <<0 .. y, X>> \in StrictSubsetOrdering(Nat)
    BY <2>1, <1>4 DEF StrictSubsetOrdering
  <2> QED
    BY <2>2, <1>3
<1> QED
  BY <1>5

(***************************************************************************)
(* What is before an event has a nearest member, which is not before the   *)
(* one we know of.                                                         *)
(***************************************************************************)
LEMMA NearestExists ==
  ASSUME NEW E, IsTrace(E), NEW S \in SUBSET E, NEW b \in E, NEW c \in S, Before(c, b)
  PROVE  \E a \in Nearest(S, b) : a = c \/ Before(c, a)
<1> DEFINE P == {a \in S : Before(a, b)}
<1> DEFINE T == {b.seq - a.seq : a \in P}
<1>1. \A a \in E : a.seq \in Nat
  BY DEF IsTrace
<1>2. T \in SUBSET Nat /\ T # {}
  BY <1>1 DEF Before
<1>3. PICK x \in T : \A y \in T : x <= y
  BY <1>2, LeastNatural
<1>4. PICK a \in P : x = b.seq - a.seq
  OBVIOUS
<1>5. \A d \in P : d.seq <= a.seq
  <2> SUFFICES ASSUME NEW d \in P PROVE d.seq <= a.seq
    OBVIOUS
  <2>1. x <= b.seq - d.seq
    BY <1>3
  <2>2. b.seq \in Nat /\ d.seq \in Nat /\ a.seq \in Nat
    BY <1>1
  <2> QED
    BY <2>1, <2>2, <1>4
<1>6. a \in Nearest(S, b)
  BY <1>5 DEF Nearest
<1>7. c.seq <= a.seq /\ c.thread = a.thread
  BY <1>5 DEF Before
<1>8. a = c \/ Before(c, a)
  BY <1>1, <1>7 DEF IsTrace, Before
<1> QED
  BY <1>6, <1>8

-----------------------------------------------------------------------------
(***************************************************************************)
(* A coherence order relates writes of the window, and every set of them   *)
(* has a last one.                                                         *)
(***************************************************************************)
LEMMA CoherenceFacts ==
  ASSUME NEW E, NEW co \in CoherenceOrders(E)
  PROVE  /\ co \subseteq Writes(E) \X Writes(E)
         /\ \A S \in SUBSET Writes(E) :
               S # {} => \E last \in S : \A w \in S : <<last, w>> \notin co
BY DEF CoherenceOrders

(***************************************************************************)
(* _communication_relations ties only writes that are next to each other   *)
(* in coherence order, and this finds the same cycles as tying them all.   *)
(***************************************************************************)
LEMMA AdjacentIsEnough ==
  ASSUME NEW E, NEW co \in CoherenceOrders(E), NEW others
  PROVE  Acyclic(E, others \cup Adjacent(co)) <=> Acyclic(E, others \cup co)
<1>1. ASSUME Acyclic(E, others \cup co) PROVE Acyclic(E, others \cup Adjacent(co))
  <2>1. others \cup Adjacent(co) \subseteq others \cup co
    BY DEF Adjacent
  <2> QED
    BY <1>1, <2>1, FewerEdges
<1>2. ASSUME NEW S \in SUBSET E, Headless(S, others \cup co)
      PROVE  \E S2 \in SUBSET E : Headless(S2, others \cup Adjacent(co))
  <2> DEFINE V == Writes(E)
             Grown(T) == S \cap V \subseteq T
                         /\ \A a \in T, b \in V : <<a, b>> \in co => b \in T
             D == {w \in V : \A T \in SUBSET V : Grown(T) => w \in T}
  <2>0. co \subseteq V \X V /\ V \subseteq E
    BY CoherenceFacts DEF Writes
  <2>1. S \cap V \subseteq D
    OBVIOUS
  <2>2. \A a \in D, b \in V : <<a, b>> \in co => b \in D
    OBVIOUS
  <2>3. ASSUME NEW w \in D, w \notin S PROVE \E a \in D : <<a, w>> \in co
    <3> SUFFICES ASSUME \A a \in D : <<a, w>> \notin co PROVE FALSE
      OBVIOUS
    <3>1. Grown(D \ {w})
      BY <2>1, <2>2, <2>3
    <3>2. D \ {w} \in SUBSET V
      OBVIOUS
    <3> QED
      BY <3>1, <3>2
  <2>4. ASSUME NEW w \in V, NEW a \in D, <<a, w>> \in co
        PROVE  \E c \in D : <<c, w>> \in Adjacent(co)
    <3> DEFINE P == {c \in D : <<c, w>> \in co}
    <3>1. P \in SUBSET V /\ P # {}
      BY <2>4
    <3>2. PICK last \in P : \A c \in P : <<last, c>> \notin co
      BY <3>1, CoherenceFacts
    <3>3. ASSUME NEW v, <<last, v>> \in co, <<v, w>> \in co PROVE FALSE
      <4>1. v \in V
        BY <3>3, <2>0
      <4>2. v \in P
        BY <4>1, <3>3, <2>2
      <4> QED
        BY <4>2, <3>2, <3>3
    <3>4. <<last, w>> \in Adjacent(co)
      BY <3>3 DEF Adjacent
    <3> QED
      BY <3>4
  <2>5. S \cup D \in SUBSET E
    BY <2>0
  <2>6. ASSUME NEW b \in S \cup D
        PROVE  \E a \in S \cup D : <<a, b>> \in others \cup Adjacent(co)
    <3>1. CASE b \in S
      <4>1. PICK a \in S : <<a, b>> \in others \cup co
        BY <1>2, <3>1 DEF Headless
      <4>2. CASE <<a, b>> \in co
        <5>1. a \in V /\ b \in V
          BY <4>2, <2>0
        <5>2. a \in D
          BY <5>1, <2>1
        <5> QED
          BY <5>1, <5>2, <4>2, <2>4
      <4> QED
        BY <4>1, <4>2
    <3>2. CASE b \notin S
      <4>1. b \in D /\ b \in V
        BY <3>2
      <4>2. PICK a \in D : <<a, b>> \in co
        BY <4>1, <3>2, <2>3
      <4> QED
        BY <4>1, <4>2, <2>4
    <3> QED
      BY <3>1, <3>2
  <2>7. S \cup D # {}
    BY <1>2 DEF Headless
  <2> HIDE DEF D
  <2> QED
    BY <2>5, <2>6, <2>7 DEF Headless
<1> QED
  BY <1>1, <1>2, CyclicIffHeadless

(***************************************************************************)
(* The formula's graphs and the enumeration's have cycles together.        *)
(***************************************************************************)
LEMMA SameCandidates ==
  ASSUME NEW E, NEW x \in Executions(E)
  PROVE  TargetOnly(E, x) <=> SymbolicTargetOnly(E, x)
<1>1. x.co \in CoherenceOrders(E)
  BY DEF Executions
<1>2. \A order : Acyclic(E, order \cup Communication(E, x))
                   <=> Acyclic(E, order \cup AllCommunication(E, x))
  <2> SUFFICES ASSUME NEW order
               PROVE  Acyclic(E, order \cup Communication(E, x))
                        <=> Acyclic(E, order \cup AllCommunication(E, x))
    OBVIOUS
  <2> DEFINE others == order \cup ReadFrom(E, x) \cup FromRead(E, x)
  <2>1. order \cup Communication(E, x) = others \cup Adjacent(x.co)
    BY DEF Communication
  <2>2. order \cup AllCommunication(E, x) = others \cup x.co
    BY DEF AllCommunication
  <2> HIDE DEF others
  <2> QED
    BY <1>1, <2>1, <2>2, AdjacentIsEnough
<1> QED
  BY <1>2 DEF TargetOnly, SymbolicTargetOnly, TargetAccepts, SourceAccepts

(***************************************************************************)
(* Linking only the nearest read and the nearest write finds every cycle   *)
(* that linking all of them finds: a headless set of the dense graph grows *)
(* by the reads and writes after its own reads and writes.                 *)
(***************************************************************************)
LEMMA CompactSourceOrder ==
  ASSUME NEW E, IsTrace(E), NEW others
  PROVE  Acyclic(E, SourceOrder(E) \cup others) <=> Acyclic(E, DenseSourceOrder(E) \cup others)
<1>1. ASSUME Acyclic(E, DenseSourceOrder(E) \cup others)
      PROVE  Acyclic(E, SourceOrder(E) \cup others)
  <2>1. SourceOrder(E) \subseteq DenseSourceOrder(E)
    BY DEF SourceOrder, SourceEdge, DenseSourceOrder, DenseSourceEdge, Nearest, Reads, Writes
  <2> QED
    BY <1>1, <2>1, FewerEdges
<1>2. ASSUME NEW S \in SUBSET E, Headless(S, DenseSourceOrder(E) \cup others)
      PROVE  \E S2 \in SUBSET E : Headless(S2, SourceOrder(E) \cup others)
  <2> DEFINE LateReads  == {r \in Reads(E) : \E a \in S : IsRead(a) /\ Before(a, r)}
             LateWrites == {w \in Writes(E) : \E a \in S : IsWrite(a) /\ Before(a, w)}
             S2 == S \cup LateReads \cup LateWrites
  <2>1. S2 \in SUBSET E
    BY DEF Reads, Writes
  <2>2. ASSUME NEW a \in S, NEW b \in E, Before(a, b), IsRead(a), IsMemory(b)
        PROVE  \E r \in S2 : <<r, b>> \in SourceOrder(E)
    <3>1. Reads(E) \in SUBSET E /\ a \in Reads(E)
      BY <2>2 DEF Reads
    <3>2. PICK r \in Nearest(Reads(E), b) : r = a \/ Before(a, r)
      BY <2>2, <3>1, NearestExists
    <3>3. r \in S2 /\ r \in E
      BY <2>2, <3>1, <3>2 DEF Nearest
    <3> QED
      BY <2>2, <3>2, <3>3 DEF SourceOrder, SourceEdge
  <2>3. ASSUME NEW a \in S, NEW b \in E, Before(a, b), IsWrite(a), IsWrite(b)
        PROVE  \E w \in S2 : <<w, b>> \in SourceOrder(E)
    <3>1. Writes(E) \in SUBSET E /\ a \in Writes(E)
      BY <2>3 DEF Writes
    <3>2. PICK w \in Nearest(Writes(E), b) : w = a \/ Before(a, w)
      BY <2>3, <3>1, NearestExists
    <3>3. w \in S2 /\ w \in E
      BY <2>3, <3>1, <3>2 DEF Nearest
    <3> QED
      BY <2>3, <3>2, <3>3 DEF SourceOrder, SourceEdge
  <2>4. ASSUME NEW b \in S2 PROVE \E a \in S2 : <<a, b>> \in SourceOrder(E) \cup others
    <3>1. CASE b \in S
      <4>1. PICK a \in S : <<a, b>> \in DenseSourceOrder(E) \cup others
        BY <1>2, <3>1 DEF Headless
      <4>2. a \in E /\ b \in E /\ a \in S2
        BY <3>1
      <4>3. CASE <<a, b>> \in others
        BY <4>2, <4>3
      <4>4. CASE DenseSourceEdge(E, a, b)
        <5>1. CASE Before(a, b) /\ IsRead(a) /\ IsMemory(b)
          BY <5>1, <4>2, <2>2
        <5>2. CASE Before(a, b) /\ IsWrite(a) /\ IsWrite(b)
          BY <5>2, <4>2, <2>3
        <5>3. CASE BoundaryEdge(a, b) \/ (IsRead(b) /\ a \in NearestOwnStore(E, b))
          BY <5>3, <4>2 DEF SourceOrder, SourceEdge
        <5> QED
          BY <4>4, <5>1, <5>2, <5>3 DEF DenseSourceEdge
      <4> QED
        BY <4>1, <4>3, <4>4 DEF DenseSourceOrder
    <3>2. CASE b \in LateReads
      <4>1. PICK a \in S : IsRead(a) /\ Before(a, b)
        BY <3>2
      <4>2. b \in E /\ IsMemory(b)
        BY <3>2 DEF Reads, IsMemory
      <4> QED
        BY <4>1, <4>2, <2>2
    <3>3. CASE b \in LateWrites
      <4>1. PICK a \in S : IsWrite(a) /\ Before(a, b)
        BY <3>3
      <4>2. b \in E /\ IsWrite(b)
        BY <3>3 DEF Writes
      <4> QED
        BY <4>1, <4>2, <2>3
    <3> QED
      BY <3>1, <3>2, <3>3
  <2>5. S2 # {}
    BY <1>2 DEF Headless
  <2> HIDE DEF S2
  <2> QED
    BY <2>1, <2>4, <2>5 DEF Headless
<1> QED
  BY <1>1, <1>2, CyclicIffHeadless

(***************************************************************************)
(* Every target edge is an edge of the dense source order.                 *)
(***************************************************************************)
LEMMA TargetInsideDense ==
  ASSUME NEW E PROVE TargetOrder(E) \subseteq DenseSourceOrder(E)
BY DEF TargetOrder, TargetEdge, DenseSourceOrder, DenseSourceEdge, IsMemory

-----------------------------------------------------------------------------
(* From the code's relations to the models, and back.  In each direction a   *)
(* headless set of the one graph is turned into one of the other: events on  *)
(* the way of an edge that the other graph only has as a path are added, or  *)
(* events that the other graph steps over are removed.                       *)

\* What every execution has, its source choice and its coherence order.
IsExecution(E, x) ==
  /\ \A p \in ReadParts(E) : x.rf[p] = Initial \/ x.rf[p] \in Sources(E, p)
  /\ x.co \in CoherenceOrders(E)

LEMMA ExecutionsAre ==
  ASSUME NEW E, NEW x \in Executions(E)
  PROVE  IsExecution(E, x)
BY DEF Executions, ReadFroms, IsExecution

(***************************************************************************)
(* A part lies in its read, and a write that meets it covers it: a read is *)
(* cut wherever a write begins or ends.                                    *)
(***************************************************************************)
LEMMA PartFacts ==
  ASSUME NEW E, IsTrace(E), NEW p \in ReadParts(E)
  PROVE  /\ p.read \in Reads(E) /\ p.addr \in Nat /\ p.size \in Nat /\ p.size > 0
         /\ p.read.addr <= p.addr /\ End(p) <= End(p.read)
         /\ \A w \in Writes(E) : Overlaps(w, p) => Covers(w, p)
<1>1. PICK r \in Reads(E) : p \in Parts(E, r)
  BY DEF ReadParts
<1>2. r \in E /\ r.addr \in Nat /\ r.size \in Nat /\ End(r) \in Nat /\ r.addr <= End(r)
  BY DEF IsTrace, Reads, End
<1>3. PICK c \in Cuts(E, r) \X Cuts(E, r) :
        /\ p = [read |-> r, addr |-> c[1], size |-> c[2] - c[1]]
        /\ c[1] < c[2] /\ \A m \in Cuts(E, r) : m <= c[1] \/ c[2] <= m
  BY <1>1 DEF Parts
<1>4. \A m \in Cuts(E, r) : m \in Nat /\ r.addr <= m /\ m <= End(r)
  BY <1>2 DEF Cuts
<1>5. /\ c[1] \in Nat /\ c[2] \in Nat /\ r.addr <= c[1] /\ c[2] <= End(r) /\ c[1] < c[2]
  BY <1>3, <1>4
<1>6. p.read = r /\ p.addr = c[1] /\ p.size = c[2] - c[1] /\ End(p) = c[2]
  BY <1>3, <1>5 DEF End
<1>7. ASSUME NEW w \in Writes(E), Overlaps(w, p) PROVE Covers(w, p)
  <2>1. w \in E /\ w.addr \in Nat /\ End(w) \in Nat
    BY DEF IsTrace, Writes, End
  <2>2. w.addr < c[2] /\ c[1] < End(w)
    BY <1>6, <1>7 DEF Overlaps
  <2>3. Overlaps(w, r)
    BY <1>2, <1>5, <2>1, <2>2 DEF Overlaps
  <2>4. ~ (c[1] < w.addr)
    <3> SUFFICES ASSUME c[1] < w.addr PROVE FALSE
      OBVIOUS
    <3>1. w.addr \in r.addr .. End(r)
      BY <1>2, <1>5, <2>1, <2>2
    <3>2. w.addr \in Cuts(E, r)
      BY <2>3, <3>1 DEF Cuts
    <3> QED
      BY <1>3, <1>5, <2>1, <2>2, <3>2
  <2>5. ~ (End(w) < c[2])
    <3> SUFFICES ASSUME End(w) < c[2] PROVE FALSE
      OBVIOUS
    <3>1. End(w) \in r.addr .. End(r)
      BY <1>2, <1>5, <2>1, <2>2
    <3>2. End(w) \in Cuts(E, r)
      BY <2>3, <3>1 DEF Cuts
    <3> QED
      BY <1>3, <1>5, <2>1, <2>2, <3>2
  <2> QED
    BY <1>5, <1>6, <2>1, <2>4, <2>5 DEF Covers
<1> QED
  BY <1>1, <1>5, <1>6, <1>7

(***************************************************************************)
(* A source overlaps the read, and stands before it if it is of its thread.*)
(***************************************************************************)
LEMMA SourceFacts ==
  ASSUME NEW E, IsTrace(E), NEW x, IsExecution(E, x), NEW p \in ReadParts(E), x.rf[p] # Initial
  PROVE  /\ x.rf[p] \in Writes(E) /\ Overlaps(x.rf[p], p.read)
         /\ x.rf[p].thread = p.read.thread => Before(x.rf[p], p.read)
<1> DEFINE w == x.rf[p]
<1>1. w \in Writes(E) /\ Covers(w, p) /\ ~ (w.thread = p.read.thread /\ w.seq >= p.read.seq)
  BY DEF IsExecution, Sources
<1>2. /\ p.read \in E /\ p.addr \in Nat /\ p.size \in Nat /\ p.size > 0
      /\ p.read.addr <= p.addr /\ End(p) <= End(p.read)
  BY PartFacts DEF Reads
<1>3. /\ w \in E /\ w.addr \in Nat /\ w.size \in Nat /\ w.seq \in Nat
      /\ p.read.addr \in Nat /\ p.read.size \in Nat /\ p.read.seq \in Nat
  BY <1>1, <1>2 DEF IsTrace, Writes
<1> HIDE DEF w
<1>4. Overlaps(w, p.read)
  BY <1>1, <1>2, <1>3 DEF Overlaps, Covers, End
<1>5. w.thread = p.read.thread => Before(w, p.read)
  BY <1>1, <1>3 DEF Before
<1> QED
  BY <1>1, <1>4, <1>5 DEF w

(***************************************************************************)
(* A read precedes what overwrites one of its sources.                     *)
(***************************************************************************)
LEMMA FromReadFacts ==
  ASSUME NEW E, NEW x, NEW a, NEW b
  PROVE  <<a, b>> \in FromRead(E, x) <=>
           \E p \in ReadParts(E) :
             /\ a = p.read /\ b \in Writes(E) \ {p.read} /\ Overlaps(b, p)
             /\ x.rf[p] = Initial \/ <<x.rf[p], b>> \in x.co
<1> DEFINE Late(p) == {v \in Writes(E) \ {p.read} :
             Overlaps(v, p) /\ (x.rf[p] = Initial \/ <<x.rf[p], v>> \in x.co)}
           Piece(p) == {<<p.read, w>> : w \in Late(p)}
<1>1. FromRead(E, x) = UNION {Piece(p) : p \in ReadParts(E)}
  BY DEF FromRead
<1>2. <<a, b>> \in FromRead(E, x) <=> \E p \in ReadParts(E) : <<a, b>> \in Piece(p)
  <2> HIDE DEF Piece
  <2> QED
    BY <1>1
<1>3. \A p : <<a, b>> \in Piece(p) <=> a = p.read /\ b \in Late(p)
  <2> HIDE DEF Late
  <2> QED
    OBVIOUS
<1> QED
  BY <1>2, <1>3

(***************************************************************************)
(* Communication relates accesses of the window.                           *)
(***************************************************************************)
LEMMA CommunicationFacts ==
  ASSUME NEW E, IsTrace(E), NEW x, IsExecution(E, x), NEW a, NEW b,
         <<a, b>> \in AllCommunication(E, x)
  PROVE  /\ a \in E /\ b \in E /\ IsMemory(a) /\ IsMemory(b)
         /\ \/ <<a, b>> \in x.co
            \/ IsWrite(a) /\ IsRead(b)
            \/ <<a, b>> \in FromRead(E, x) /\ IsRead(a) /\ IsWrite(b)
<1>1. CASE <<a, b>> \in x.co
  <2>1. a \in Writes(E) /\ b \in Writes(E)
    BY <1>1, CoherenceFacts DEF IsExecution
  <2> QED
    BY <1>1, <2>1 DEF Writes, IsMemory
<1>2. CASE <<a, b>> \in ReadFrom(E, x)
  <2>1. PICK p \in ReadParts(E) : x.rf[p] # Initial /\ a = x.rf[p] /\ b = p.read
    BY <1>2 DEF ReadFrom
  <2>2. a \in Writes(E) /\ b \in Reads(E)
    BY <2>1, SourceFacts, PartFacts
  <2> QED
    BY <2>2 DEF Writes, Reads, IsMemory
<1>3. CASE <<a, b>> \in FromRead(E, x)
  <2>1. PICK p \in ReadParts(E) :
          /\ a = p.read /\ b \in Writes(E) \ {p.read} /\ Overlaps(b, p)
          /\ x.rf[p] = Initial \/ <<x.rf[p], b>> \in x.co
    BY <1>3, FromReadFacts, Zenon
  <2>2. a \in Reads(E)
    BY <2>1, PartFacts
  <2> QED
    BY <1>3, <2>1, <2>2 DEF Writes, Reads, IsMemory
<1> QED
  BY <1>1, <1>2, <1>3 DEF AllCommunication

(***************************************************************************)
(* What x86-TSO keeps in order, the dense source order does, if need be by *)
(* way of the fence in between.                                            *)
(***************************************************************************)
LEMMA TsoInsideDense ==
  ASSUME NEW E, NEW others, Acyclic(E, DenseSourceOrder(E) \cup others)
  PROVE  Acyclic(E, TsoOrder(E) \cup others)
<1> DEFINE G == DenseSourceOrder(E) \cup others
<1>1. ASSUME NEW S \in SUBSET E, Headless(S, TsoOrder(E) \cup others) PROVE FALSE
  <2> DEFINE S2 == S \cup {f \in E : \E a \in S : <<a, f>> \in G}
  <2>1. ASSUME NEW b \in S PROVE \E a \in S2 : <<a, b>> \in G
    <3>1. PICK a \in S : <<a, b>> \in TsoOrder(E) \cup others
      BY <1>1 DEF Headless
    <3>2. CASE <<a, b>> \in others
      BY <3>2
    <3>3. CASE TsoEdge(E, a, b)
      <4>0. a \in E /\ b \in E /\ IsMemory(a) /\ IsMemory(b) /\ Before(a, b)
        BY <3>3 DEF TsoEdge
      <4>1. CASE ~ Fenced(E, a, b)
        <5>1. DenseSourceEdge(E, a, b)
          BY <3>3, <4>0, <4>1 DEF TsoEdge, DenseSourceEdge, IsMemory, BoundaryEdge, Bounds, IsOrdered
        <5> QED
          BY <4>0, <5>1 DEF DenseSourceOrder
      <4>2. CASE Fenced(E, a, b)
        <5>1. PICK f \in E : /\ Before(a, f) /\ Before(f, b)
                             /\ \/ f.kind = "MFENCE"
                                \/ f.kind = "LFENCE" /\ IsRead(a) /\ IsRead(b)
                                \/ f.kind = "SFENCE" /\ IsWrite(a) /\ IsWrite(b)
          BY <4>2 DEF Fenced
        <5>2. BoundaryEdge(a, f) /\ BoundaryEdge(f, b)
          BY <4>0, <5>1 DEF BoundaryEdge, Bounds
        <5>3. <<a, f>> \in G /\ <<f, b>> \in G
          BY <4>0, <5>1, <5>2 DEF DenseSourceOrder, DenseSourceEdge
        <5> QED
          BY <5>1, <5>3
      <4> QED
        BY <4>1, <4>2
    <3> QED
      BY <3>1, <3>2, <3>3 DEF TsoOrder
  <2>2. Headless(S2, G)
    <3> HIDE DEF G
    <3> QED
      BY <1>1, <2>1 DEF Headless
  <2>3. S2 \in SUBSET E
    OBVIOUS
  <2> HIDE DEF S2
  <2> QED
    BY <2>2, <2>3, CyclicIffHeadless
<1> QED
  BY <1>1, CyclicIffHeadless

(***************************************************************************)
(* The dense source order keeps each place coherent: a store reaches a     *)
(* later own read of its place by way of the nearest one.                  *)
(***************************************************************************)
LEMMA DenseIsCoherent ==
  ASSUME NEW E, IsTrace(E), NEW x, IsExecution(E, x),
         Acyclic(E, DenseSourceOrder(E) \cup AllCommunication(E, x))
  PROVE  CoherentPerPlace(E, x)
<1> DEFINE G == DenseSourceOrder(E) \cup AllCommunication(E, x)
           C == SamePlace(E) \cup Forwarded(E, x) \cup x.co \cup FromRead(E, x)
<1>1. ASSUME NEW S \in SUBSET E, Headless(S, C) PROVE FALSE
  <2> DEFINE S2 == S \cup {f \in E : \E a \in S : <<a, f>> \in G}
  <2>1. ASSUME NEW a \in S, NEW b \in S, Before(a, b), Overlaps(a, b), IsMemory(a), IsMemory(b)
        PROVE  \E c \in S2 : <<c, b>> \in G
    <3>1. CASE IsRead(a) \/ IsWrite(b)
      <4>1. DenseSourceEdge(E, a, b)
        BY <2>1, <3>1 DEF DenseSourceEdge, IsMemory
      <4> QED
        BY <4>1 DEF DenseSourceOrder
    <3>2. CASE IsWrite(a) /\ IsRead(b)
      <4> DEFINE W == {w \in Writes(E) : Overlaps(w, b)}
      <4>1. W \in SUBSET E /\ a \in W
        BY <2>1, <3>2 DEF Writes
      <4>2. PICK w \in Nearest(W, b) : w = a \/ Before(a, w)
        BY <2>1, <4>1, NearestExists
      <4>3. w \in E /\ IsWrite(w) /\ <<w, b>> \in G
        BY <3>2, <4>2 DEF Nearest, Writes, DenseSourceOrder, DenseSourceEdge, NearestOwnStore
      <4>4. w = a \/ <<a, w>> \in G
        BY <3>2, <4>2, <4>3 DEF DenseSourceOrder, DenseSourceEdge
      <4> HIDE DEF G
      <4> QED
        BY <4>3, <4>4
    <3> QED
      BY <2>1, <3>1, <3>2 DEF IsMemory
  <2>2. ASSUME NEW b \in S PROVE \E a \in S2 : <<a, b>> \in G
    <3>1. PICK a \in S : <<a, b>> \in C
      BY <1>1 DEF Headless
    <3>2. CASE <<a, b>> \in SamePlace(E)
      BY <2>1, <3>2 DEF SamePlace
    <3>3. CASE <<a, b>> \in Forwarded(E, x)
      <4>1. PICK p \in ReadParts(E) : x.rf[p] # Initial /\ a = x.rf[p] /\ b = p.read
        BY <3>3 DEF Forwarded
      <4>2. CASE a.thread = b.thread
        <5>1. Before(a, b) /\ Overlaps(a, b) /\ a \in Writes(E) /\ b \in Reads(E)
          BY <4>1, <4>2, SourceFacts, PartFacts
        <5> QED
          BY <2>1, <5>1 DEF IsMemory, Writes, Reads
      <4>3. CASE a.thread # b.thread
        <5>1. <<a, b>> \in ReadFrom(E, x)
          BY <4>1, <4>3 DEF ReadFrom
        <5> QED
          BY <5>1 DEF AllCommunication
      <4> QED
        BY <4>2, <4>3
    <3>4. CASE <<a, b>> \in x.co \cup FromRead(E, x)
      BY <3>4 DEF AllCommunication
    <3> QED
      BY <3>1, <3>2, <3>3, <3>4
  <2>3. Headless(S2, G)
    <3> HIDE DEF G
    <3> QED
      BY <1>1, <2>2 DEF Headless
  <2>4. S2 \in SUBSET E
    OBVIOUS
  <2> HIDE DEF S2
  <2> QED
    BY <2>3, <2>4, CyclicIffHeadless
<1> QED
  BY <1>1, CyclicIffHeadless DEF CoherentPerPlace

(***************************************************************************)
(* Together: what the source relation accepts, x86-TSO allows.             *)
(***************************************************************************)
LEMMA SourceInsideTso ==
  ASSUME NEW E, IsTrace(E), NEW x, IsExecution(E, x), AtomicsValid(E, x), SourceAccepts(E, x)
  PROVE  TsoAllows(E, x)
<1> DEFINE others == ReadFrom(E, x) \cup FromRead(E, x)
<1>1. Acyclic(E, DenseSourceOrder(E) \cup Communication(E, x))
  BY CompactSourceOrder DEF SourceAccepts
<1>2. /\ DenseSourceOrder(E) \cup Communication(E, x) = (DenseSourceOrder(E) \cup others) \cup Adjacent(x.co)
      /\ DenseSourceOrder(E) \cup AllCommunication(E, x) = (DenseSourceOrder(E) \cup others) \cup x.co
  BY DEF Communication, AllCommunication
<1> HIDE DEF others
<1>3. Acyclic(E, DenseSourceOrder(E) \cup AllCommunication(E, x))
  BY <1>1, <1>2, AdjacentIsEnough DEF IsExecution
<1> QED
  BY <1>3, TsoInsideDense, DenseIsCoherent DEF TsoAllows

-----------------------------------------------------------------------------
(***************************************************************************)
(* Fences communicate nothing: where an edge comes from a fence, the fence *)
(* stands between two accesses that it keeps apart.                        *)
(***************************************************************************)
LEMMA ThroughFences ==
  ASSUME NEW E, IsTrace(E), NEW x, IsExecution(E, x), NEW order \in SUBSET DenseSourceOrder(E),
         NEW S \in SUBSET E, Headless(S, order \cup AllCommunication(E, x))
  PROVE  /\ \A b \in S : IsMemory(b) =>
              \E c \in S : /\ IsMemory(c)
                           /\ \/ <<c, b>> \in order \cup AllCommunication(E, x)
                              \/ Before(c, b) /\ Fenced(E, c, b)
         /\ \E b \in S : IsMemory(b)
<1> DEFINE G == order \cup AllCommunication(E, x)
<1>1. ASSUME NEW a \in S, NEW b \in S, <<a, b>> \in G, ~ IsMemory(a) \/ ~ IsMemory(b)
      PROVE  BoundaryEdge(a, b)
  <2>1. <<a, b>> \notin AllCommunication(E, x)
    BY <1>1, CommunicationFacts
  <2>2. DenseSourceEdge(E, a, b)
    BY <1>1, <2>1 DEF DenseSourceOrder
  <2> QED
    BY <1>1, <2>2 DEF DenseSourceEdge, IsMemory, NearestOwnStore, Nearest, Writes
<1>2. \A b \in S : \E a \in S : <<a, b>> \in G
  BY DEF Headless
<1> HIDE DEF G
<1>3. ASSUME NEW f \in S, ~ IsMemory(f)
      PROVE  \E c \in S : IsMemory(c) /\ Before(c, f) /\ Bounds(f, c)
  BY <1>1, <1>2, <1>3 DEF BoundaryEdge, Bounds, IsMemory, IsRead, IsWrite
<1>4. ASSUME NEW b \in S, IsMemory(b)
      PROVE  \E c \in S : IsMemory(c) /\ (<<c, b>> \in G \/ (Before(c, b) /\ Fenced(E, c, b)))
  <2>1. PICK a \in S : <<a, b>> \in G
    BY <1>2
  <2>2. CASE IsMemory(a)
    BY <2>1, <2>2
  <2>3. CASE ~ IsMemory(a)
    <3>1. Before(a, b) /\ Bounds(a, b)
      BY <1>1, <2>1, <2>3 DEF BoundaryEdge, Bounds, IsMemory
    <3>2. PICK c \in S : IsMemory(c) /\ Before(c, a) /\ Bounds(a, c)
      BY <1>3, <2>3
    <3>3. Fenced(E, c, b)
      <4>1. \/ a.kind = "MFENCE"
            \/ a.kind = "LFENCE" /\ IsRead(c) /\ IsRead(b)
            \/ a.kind = "SFENCE" /\ IsWrite(c) /\ IsWrite(b)
        BY <2>3, <3>1, <3>2 DEF Bounds, IsMemory, IsRead, IsWrite
      <4>2. a \in E
        OBVIOUS
      <4> QED
        BY <3>1, <3>2, <4>1, <4>2 DEF Fenced
    <3>4. Before(c, b)
      <4>1. a \in E /\ b \in E /\ c \in E
        OBVIOUS
      <4> QED
        BY <3>1, <3>2, <4>1 DEF Before, IsTrace
    <3> QED
      BY <3>2, <3>3, <3>4
  <2> QED
    BY <2>2, <2>3
<1>5. \E b \in S : IsMemory(b)
  BY <1>3 DEF Headless
<1> QED
  BY <1>4, <1>5 DEF G

(***************************************************************************)
(* A thread that reads a place it has written before reads that write or a *)
(* later one, so what overwrites the read's source overwrites the write.   *)
(***************************************************************************)
LEMMA OwnReadIsLate ==
  ASSUME NEW E, IsTrace(E), Uniform(E), NEW x, IsExecution(E, x), CoherentPerPlace(E, x),
         NEW w \in E, NEW r \in E, ReadsOwn(w, r), NEW b, <<r, b>> \in FromRead(E, x)
  PROVE  <<w, b>> \in x.co
<1> DEFINE C == SamePlace(E) \cup Forwarded(E, x) \cup x.co \cup FromRead(E, x)
<1>1. PICK p \in ReadParts(E) :
        /\ r = p.read /\ b \in Writes(E) \ {p.read} /\ Overlaps(b, p)
        /\ x.rf[p] = Initial \/ <<x.rf[p], b>> \in x.co
  BY FromReadFacts, Zenon
<1>2. /\ p.addr \in Nat /\ p.size \in Nat /\ p.size > 0
      /\ r.addr <= p.addr /\ End(p) <= End(r) /\ r \in Reads(E)
  BY <1>1, PartFacts
<1>3. /\ b \in E /\ IsWrite(b) /\ IsWrite(w) /\ IsRead(r) /\ Overlaps(w, r) /\ Before(w, r)
      /\ IsMemory(b) /\ IsMemory(w) /\ IsMemory(r)
  BY <1>1 DEF ReadsOwn, Writes, IsMemory
<1>4. /\ r.addr \in Nat /\ r.size \in Nat /\ b.addr \in Nat /\ b.size \in Nat
      /\ w.addr \in Nat /\ w.size \in Nat
  BY <1>3 DEF IsTrace
<1>5. Overlaps(b, r)
  BY <1>1, <1>2, <1>4 DEF Overlaps, End
<1>6. w.addr = r.addr /\ w.size = r.size /\ b.addr = r.addr /\ b.size = r.size
  BY <1>3, <1>5 DEF Uniform, Location
<1>7. Overlaps(w, b) /\ Overlaps(b, w)
  BY <1>1, <1>2, <1>4, <1>6 DEF Overlaps, End
<1>8. <<w, r>> \in C /\ <<r, b>> \in C
  BY <1>3 DEF SamePlace
<1>9. Acyclic(E, C)
  BY DEF CoherentPerPlace
<1>10. <<b, w>> \notin x.co
  <2> SUFFICES ASSUME <<b, w>> \in x.co PROVE FALSE
    OBVIOUS
  <2>1. <<b, w>> \in C
    BY DEF C
  <2> HIDE DEF C
  <2>2. Headless({w, r, b}, C)
    BY <1>8, <2>1 DEF Headless
  <2>3. {w, r, b} \in SUBSET E
    BY <1>3
  <2> QED
    BY <1>9, <2>2, <2>3, CyclicIffHeadless
<1>11. b # w
  <2> SUFFICES ASSUME b = w PROVE FALSE
    OBVIOUS
  <2> HIDE DEF C
  <2>2. Headless({w, r}, C)
    BY <1>8 DEF Headless
  <2>3. {w, r} \in SUBSET E
    OBVIOUS
  <2> QED
    BY <1>9, <2>2, <2>3, CyclicIffHeadless
<1>12. <<w, b>> \in x.co <=> <<b, w>> \notin x.co
  <2> DEFINE pairs == {e \in Writes(E) \X Writes(E) : e[1] # e[2] /\ Overlaps(e[1], e[2])}
  <2>1. <<w, b>> \in pairs
    BY <1>3, <1>7, <1>11 DEF Writes
  <2>2. \A e \in pairs : e \in x.co <=> <<e[2], e[1]>> \notin x.co
    BY DEF IsExecution, CoherenceOrders
  <2> HIDE DEF pairs
  <2> QED
    BY <2>1, <2>2
<1> QED
  BY <1>10, <1>12

(***************************************************************************)
(* The target relation's one edge that RVWMO lacks runs from a store to a  *)
(* load of the same thread that sees it.  Such a load can be stepped over: *)
(* whatever is after it in the target order or in communication is after   *)
(* the store as well, unless a load fence comes next.                      *)
(***************************************************************************)
LEMMA RvwmoInsideTarget ==
  ASSUME NEW E, IsTrace(E), Uniform(E), LoadFencesClear(E),
         NEW x, IsExecution(E, x), RvwmoAllows(E, x)
  PROVE  TargetAccepts(E, x)
<1> DEFINE all == AllCommunication(E, x)
           G == TargetOrder(E) \cup all
           R == RvwmoOrder(E, x) \cup all
<1>1. ASSUME NEW S \in SUBSET E, Headless(S, G) PROVE FALSE
  <2> DEFINE Linked(c, b) ==
        \/ <<c, b>> \in all
        \/ /\ Before(c, b)
           /\ \/ IsOrdered(c) \/ IsOrdered(b) \/ Fenced(E, c, b)
              \/ IsWrite(b) /\ Overlaps(c, b)
  <2> DEFINE Late == {b \in S : IsMemory(b) /\ ~ \E c \in S : IsMemory(c) /\ Linked(c, b)}
             S2 == {b \in S : IsMemory(b)} \ Late
  <2>1. ASSUME NEW b \in S, NEW c \in S, IsMemory(b), IsMemory(c), Linked(c, b)
        PROVE  <<c, b>> \in R
    BY <2>1 DEF RvwmoOrder, RvwmoEdge
  <2>2. TargetOrder(E) \in SUBSET DenseSourceOrder(E)
    BY TargetInsideDense
  <2>3. /\ \A b \in S : IsMemory(b) =>
             \E c \in S : IsMemory(c) /\ (<<c, b>> \in G \/ (Before(c, b) /\ Fenced(E, c, b)))
        /\ \E b \in S : IsMemory(b)
    BY <1>1, <2>2, ThroughFences
  <2>4. ASSUME NEW b \in Late
        PROVE  b.kind = "LOAD" /\ \E w \in S : IsWrite(w) /\ ReadsOwn(w, b)
    <3>1. PICK c \in S : IsMemory(c) /\ (<<c, b>> \in G \/ (Before(c, b) /\ Fenced(E, c, b)))
      BY <2>3
    <3>2. ~ Linked(c, b) /\ IsMemory(b)
      BY <3>1
    <3>3. TargetEdge(E, c, b)
      BY <3>1, <3>2 DEF TargetOrder
    <3>4. ~ BoundaryEdge(c, b)
      BY <3>1, <3>2 DEF BoundaryEdge, Bounds, IsOrdered, IsMemory, IsRead, IsWrite
    <3>5. IsRead(b) /\ c \in NearestOwnStore(E, b)
      BY <3>2, <3>3, <3>4 DEF TargetEdge
    <3>6. IsWrite(c) /\ Overlaps(c, b) /\ Before(c, b)
      BY <3>5 DEF NearestOwnStore, Nearest, Writes
    <3>7. b.kind = "LOAD"
      BY <3>2, <3>5, <3>6 DEF IsRead, IsOrdered
    <3> QED
      BY <3>5, <3>6, <3>7 DEF ReadsOwn
  <2>5. ASSUME NEW w \in S, IsWrite(w) PROVE w \in S2
    BY <2>4, <2>5 DEF IsWrite, IsMemory
  <2>6. ASSUME NEW b \in S2 PROVE \E c \in S2 : <<c, b>> \in R
    <3>1. PICK c \in S : IsMemory(c) /\ Linked(c, b)
      OBVIOUS
    <3>2. CASE c \in S2
      BY <2>1, <3>1, <3>2
    <3>3. CASE c \in Late
      <4>1. c.kind = "LOAD"
        BY <2>4, <3>3
      <4>2. PICK w \in S : IsWrite(w) /\ ReadsOwn(w, c)
        BY <2>4, <3>3
      <4>3. /\ w \in E /\ c \in E /\ b \in E /\ IsMemory(w) /\ IsMemory(b)
            /\ Before(w, c) /\ Overlaps(w, c) /\ ~ IsOrdered(c)
        BY <4>1, <4>2 DEF ReadsOwn, IsMemory, IsOrdered
      <4>4. Before(c, b) => Before(w, b)
        BY <4>3 DEF Before, IsTrace
      <4>5. Linked(w, b)
        <5>1. CASE <<c, b>> \in all
          <6>1. <<c, b>> \in FromRead(E, x)
            <7>1. ~ IsWrite(c)
              BY <4>1 DEF IsWrite
            <7>2. <<c, b>> \notin x.co
              BY <7>1, CoherenceFacts DEF IsExecution, Writes
            <7> QED
              BY <5>1, <7>1, <7>2, CommunicationFacts
          <6>2. <<w, b>> \in x.co
            BY <4>2, <4>3, <6>1, OwnReadIsLate DEF RvwmoAllows
          <6> QED
            BY <6>2 DEF AllCommunication
        <5>2. CASE Before(c, b) /\ IsOrdered(b)
          BY <4>4, <5>2
        <5>3. CASE Before(c, b) /\ Fenced(E, c, b)
          <6>1. PICK f \in E : /\ Before(c, f) /\ Before(f, b)
                               /\ \/ f.kind = "MFENCE"
                                  \/ f.kind = "LFENCE" /\ IsRead(c) /\ IsRead(b)
                                  \/ f.kind = "SFENCE" /\ IsWrite(c) /\ IsWrite(b)
            BY <5>3 DEF Fenced
          <6>2. f.kind = "MFENCE"
            BY <4>1, <4>2, <4>3, <6>1 DEF LoadFencesClear, IsWrite
          <6>3. Before(w, f)
            BY <4>3, <6>1 DEF Before, IsTrace
          <6>4. Fenced(E, w, b)
            BY <6>1, <6>2, <6>3 DEF Fenced
          <6> QED
            BY <4>4, <5>3, <6>4
        <5>4. CASE Before(c, b) /\ IsWrite(b) /\ Overlaps(c, b)
          <6>1. w.addr = c.addr /\ w.size = c.size
            BY <3>1, <4>3 DEF Uniform, Location
          <6>2. Overlaps(w, b)
            BY <5>4, <6>1 DEF Overlaps, End
          <6> QED
            BY <4>4, <5>4, <6>2
        <5> QED
          BY <3>1, <4>3, <5>1, <5>2, <5>3, <5>4
      <4>6. w \in S2
        BY <2>5, <4>2
      <4> QED
        BY <2>1, <4>2, <4>3, <4>5, <4>6
    <3> QED
      BY <3>1, <3>2, <3>3
  <2>7. S2 # {}
    <3>1. PICK b \in S : IsMemory(b)
      BY <2>3
    <3>2. CASE b \in Late
      <4>1. PICK w \in S : IsWrite(w) /\ ReadsOwn(w, b)
        BY <2>4, <3>2
      <4>2. w \in S2
        BY <2>5, <4>1
      <4> QED
        BY <4>2
    <3> QED
      BY <3>1, <3>2
  <2>8. Headless(S2, R) /\ S2 \in SUBSET E
    <3> HIDE DEF R, Late
    <3> QED
      BY <2>6, <2>7 DEF Headless
  <2>9. Acyclic(E, R)
    BY DEF RvwmoAllows
  <2> HIDE DEF S2, R
  <2> QED
    BY <2>8, <2>9, CyclicIffHeadless
<1>2. Acyclic(E, G)
  BY <1>1, CyclicIffHeadless
<1>3. TargetOrder(E) \cup Communication(E, x) \subseteq G
  BY DEF Communication, AllCommunication, Adjacent
<1> QED
  BY <1>2, <1>3, FewerEdges DEF TargetAccepts

(***************************************************************************)
(* A thread that never reads its own pending store has no more order in    *)
(* the dense source relation than x86-TSO gives it: what the source        *)
(* relation rejects is no execution of x86-TSO.                            *)
(***************************************************************************)
LEMMA TsoInsideSource ==
  ASSUME NEW E, IsTrace(E), NeverForwards(E), NEW x, IsExecution(E, x), TsoAllows(E, x)
  PROVE  SourceAccepts(E, x)
<1> DEFINE all == AllCommunication(E, x)
           G == DenseSourceOrder(E) \cup all
           T == TsoOrder(E) \cup all
<1>1. ASSUME NEW S \in SUBSET E, Headless(S, G) PROVE FALSE
  <2> DEFINE S2 == {b \in S : IsMemory(b)}
  <2>1. /\ \A b \in S : IsMemory(b) =>
             \E c \in S : IsMemory(c) /\ (<<c, b>> \in G \/ (Before(c, b) /\ Fenced(E, c, b)))
        /\ \E b \in S : IsMemory(b)
    BY <1>1, ThroughFences
  <2>2. ASSUME NEW b \in S2 PROVE \E c \in S2 : <<c, b>> \in T
    <3>1. PICK c \in S : IsMemory(c) /\ (<<c, b>> \in G \/ (Before(c, b) /\ Fenced(E, c, b)))
      BY <2>1
    <3>2. c \in S2 /\ c \in E /\ b \in E /\ IsMemory(b)
      BY <3>1
    <3>3. <<c, b>> \in all \/ TsoEdge(E, c, b)
      <4>1. CASE DenseSourceEdge(E, c, b) /\ ~ (IsRead(b) /\ c \in NearestOwnStore(E, b))
        BY <3>1, <3>2, <4>1
        DEF DenseSourceEdge, TsoEdge, BoundaryEdge, Bounds, IsOrdered, IsMemory, IsRead, IsWrite
      <4>2. CASE IsRead(b) /\ c \in NearestOwnStore(E, b)
        <5>1. ReadsOwn(c, b)
          BY <4>2 DEF ReadsOwn, NearestOwnStore, Nearest, Writes
        <5> QED
          BY <3>2, <5>1 DEF NeverForwards
      <4>3. CASE Before(c, b) /\ Fenced(E, c, b)
        BY <3>1, <3>2, <4>3 DEF TsoEdge
      <4> QED
        BY <3>1, <4>1, <4>2, <4>3 DEF DenseSourceOrder
    <3> QED
      BY <3>2, <3>3 DEF TsoOrder
  <2>3. S2 # {} /\ S2 \in SUBSET E
    BY <2>1
  <2> HIDE DEF S2, T
  <2>4. Headless(S2, T)
    BY <2>2, <2>3 DEF Headless
  <2>5. Acyclic(E, T)
    BY DEF TsoAllows, T
  <2> QED
    BY <2>3, <2>4, <2>5, CyclicIffHeadless
<1>2. Acyclic(E, G)
  BY <1>1, CyclicIffHeadless
<1>3. DenseSourceOrder(E) \cup Communication(E, x) \subseteq G
  BY DEF Communication, AllCommunication, Adjacent
<1> QED
  BY <1>2, <1>3, FewerEdges, CompactSourceOrder DEF SourceAccepts

(***************************************************************************)
(* If two reads of one place never stand side by side, the target relation *)
(* has all the order RVWMO asks for.                                       *)
(***************************************************************************)
LEMMA TargetInsideRvwmo ==
  ASSUME NEW E, IsTrace(E), Uniform(E), RereadsOrdered(E),
         NEW x, IsExecution(E, x), AtomicsValid(E, x), TargetAccepts(E, x)
  PROVE  RvwmoAllows(E, x)
<1> DEFINE others == ReadFrom(E, x) \cup FromRead(E, x)
           G == TargetOrder(E) \cup AllCommunication(E, x)
           C == SamePlace(E) \cup Forwarded(E, x) \cup x.co \cup FromRead(E, x)
           R == RvwmoOrder(E, x) \cup AllCommunication(E, x)
<1>1. Acyclic(E, G)
  <2>1. /\ TargetOrder(E) \cup Communication(E, x) = (TargetOrder(E) \cup others) \cup Adjacent(x.co)
        /\ G = (TargetOrder(E) \cup others) \cup x.co
    BY DEF Communication, AllCommunication
  <2> HIDE DEF others, G
  <2> QED
    BY <2>1, AdjacentIsEnough DEF IsExecution, TargetAccepts
\* A pair that is ordered for one of these reasons is ordered in the target relation, 
\* perhaps by way of a fence.
<1>2. ASSUME NEW S \in SUBSET E, NEW a \in S, NEW b \in S, Before(a, b), IsMemory(a), IsMemory(b),
             \/ IsOrdered(a) \/ IsOrdered(b) \/ Fenced(E, a, b)
             \/ IsWrite(b) /\ Overlaps(a, b)
      PROVE  \E c \in S \cup {f \in E : \E d \in S : <<d, f>> \in G} : <<c, b>> \in G
  <2>1. CASE ~ Fenced(E, a, b)
    <3>1. TargetEdge(E, a, b)
      BY <1>2, <2>1 DEF TargetEdge, BoundaryEdge, Bounds, IsOrdered
    <3> QED
      BY <3>1 DEF TargetOrder
  <2>2. CASE Fenced(E, a, b)
    <3>1. PICK f \in E : /\ Before(a, f) /\ Before(f, b)
                         /\ \/ f.kind = "MFENCE"
                            \/ f.kind = "LFENCE" /\ IsRead(a) /\ IsRead(b)
                            \/ f.kind = "SFENCE" /\ IsWrite(a) /\ IsWrite(b)
      BY <2>2 DEF Fenced
    <3>2. BoundaryEdge(a, f) /\ BoundaryEdge(f, b)
      BY <1>2, <3>1 DEF BoundaryEdge, Bounds
    <3>3. <<a, f>> \in G /\ <<f, b>> \in G
      BY <3>1, <3>2 DEF TargetOrder, TargetEdge
    <3> QED
      BY <3>1, <3>3
  <2> QED
    BY <2>1, <2>2
<1>3. ASSUME NEW S \in SUBSET E, NEW a \in S, NEW b \in S, Before(a, b), IsMemory(a), IsMemory(b),
             Overlaps(a, b)
      PROVE  \E c \in S \cup {f \in E : \E d \in S : <<d, f>> \in G} : <<c, b>> \in G
  <2>1. CASE IsWrite(b)
    BY <1>2, <1>3, <2>1
  <2>2. CASE IsRead(a) /\ IsRead(b)
    <3>1. IsOrdered(a) \/ IsOrdered(b) \/ Fenced(E, a, b)
      BY <1>3, <2>2 DEF RereadsOrdered
    <3> QED
      BY <1>2, <1>3, <3>1
  <2>3. CASE IsWrite(a) /\ IsRead(b)
    <3> DEFINE W == {w \in Writes(E) : Overlaps(w, b)}
    <3>1. W \in SUBSET E /\ a \in W
      BY <1>3, <2>3 DEF Writes
    <3>2. PICK w \in Nearest(W, b) : w = a \/ Before(a, w)
      BY <1>3, <3>1, NearestExists
    <3>3. w \in E /\ IsWrite(w) /\ Overlaps(w, b) /\ <<w, b>> \in G
      BY <2>3, <3>2 DEF Nearest, Writes, TargetOrder, TargetEdge, NearestOwnStore
    <3>4. w.addr = b.addr /\ w.size = b.size
      BY <1>3, <3>3 DEF Uniform, Location, IsMemory
    <3>5. Overlaps(a, w)
      BY <1>3, <3>4 DEF Overlaps, End
    <3>6. w = a \/ <<a, w>> \in G
      BY <1>3, <3>2, <3>3, <3>5 DEF TargetOrder, TargetEdge
    <3> HIDE DEF G
    <3> QED
      BY <3>3, <3>6
  <2> QED
    BY <1>3, <2>1, <2>2, <2>3 DEF IsMemory
<1>4. ASSUME NEW S \in SUBSET E, S # {},
             \A b \in S : \E c \in S \cup {f \in E : \E d \in S : <<d, f>> \in G} : <<c, b>> \in G
      PROVE  FALSE
  <2> DEFINE S2 == S \cup {f \in E : \E d \in S : <<d, f>> \in G}
  <2>1. S2 \in SUBSET E
    OBVIOUS
  <2>2. Headless(S2, G)
    <3> HIDE DEF G
    <3> QED
      BY <1>4 DEF Headless
  <2> HIDE DEF S2, G
  <2> QED
    BY <1>1, <2>1, <2>2, CyclicIffHeadless
<1>5. ASSUME NEW S \in SUBSET E, Headless(S, R) PROVE FALSE
  <2>1. ASSUME NEW b \in S
        PROVE  \E c \in S \cup {f \in E : \E d \in S : <<d, f>> \in G} : <<c, b>> \in G
    <3>1. PICK a \in S : <<a, b>> \in R
      BY <1>5 DEF Headless
    <3>2. CASE <<a, b>> \in AllCommunication(E, x)
      BY <3>2
    <3>3. CASE RvwmoEdge(E, x, a, b)
      <4>1. CASE IsRead(a) /\ IsRead(b) /\ Overlaps(a, b)
        BY <1>3, <3>3, <4>1 DEF RvwmoEdge
      <4>2. CASE ~ (IsRead(a) /\ IsRead(b) /\ Overlaps(a, b))
        BY <1>2, <3>3, <4>2 DEF RvwmoEdge
      <4> QED
        BY <4>1, <4>2
    <3> QED
      BY <3>1, <3>2, <3>3 DEF RvwmoOrder
  <2>2. S # {}
    BY <1>5 DEF Headless
  <2> QED
    BY <1>4, <2>1, <2>2
<1>6. ASSUME NEW S \in SUBSET E, Headless(S, C) PROVE FALSE
  <2>1. ASSUME NEW b \in S
        PROVE  \E c \in S \cup {f \in E : \E d \in S : <<d, f>> \in G} : <<c, b>> \in G
    <3>1. PICK a \in S : <<a, b>> \in C
      BY <1>6 DEF Headless
    <3>2. CASE <<a, b>> \in SamePlace(E)
      BY <1>3, <3>2 DEF SamePlace
    <3>3. CASE <<a, b>> \in Forwarded(E, x)
      <4>1. PICK p \in ReadParts(E) : x.rf[p] # Initial /\ a = x.rf[p] /\ b = p.read
        BY <3>3 DEF Forwarded
      <4>2. CASE a.thread = b.thread
        <5>1. Before(a, b) /\ Overlaps(a, b) /\ a \in Writes(E) /\ b \in Reads(E)
          BY <4>1, <4>2, SourceFacts, PartFacts
        <5> QED
          BY <1>3, <5>1 DEF IsMemory, Writes, Reads
      <4>3. CASE a.thread # b.thread
        <5>1. <<a, b>> \in ReadFrom(E, x)
          BY <4>1, <4>3 DEF ReadFrom
        <5> QED
          BY <5>1 DEF AllCommunication
      <4> QED
        BY <4>2, <4>3
    <3>4. CASE <<a, b>> \in x.co \cup FromRead(E, x)
      BY <3>4 DEF AllCommunication
    <3> QED
      BY <3>1, <3>2, <3>3, <3>4
  <2>2. S # {}
    BY <1>6 DEF Headless
  <2> QED
    BY <1>4, <2>1, <2>2
<1>7. Acyclic(E, R) /\ Acyclic(E, C)
  <2> HIDE DEF R, C
  <2> QED
    BY <1>5, <1>6, CyclicIffHeadless
<1> QED
  BY <1>7 DEF RvwmoAllows, CoherentPerPlace

=============================================================================
