------------------------ MODULE FiniteCheckerProofs ------------------------
(***************************************************************************)
(* What the answers of the static checker mean, for every slice that the   *)
(* extraction can make.  On a slice that is not refused each thread is a   *)
(* sequence; then the edges of a formula are compared with the order that  *)
(* the reference models keep, in both directions.                          *)
(***************************************************************************)
EXTENDS FiniteChecker, MemoryRelationsProofs, Sequences

-----------------------------------------------------------------------------
(***************************************************************************)
(* A step can be repeated: there is the sequence of its results.           *)
(***************************************************************************)
LEMMA StepsExist ==
  ASSUME NEW D, NEW base \in D, NEW step \in [D -> D]
  PROVE  \E f \in [Nat -> D] : \A k \in Nat : f[k] = IF k = 0 THEN base ELSE step[f[k - 1]]
<1> DEFINE Good(g, n) == g \in [0 .. n -> D] /\ g[0] = base /\ \A k \in 1 .. n : g[k] = step[g[k - 1]]
<1>1. ASSUME NEW n \in Nat PROVE \E g : Good(g, n)
  <2> DEFINE T == {m \in Nat : ~ \E g : Good(g, m)}
  <2> SUFFICES ASSUME T # {} PROVE FALSE
    OBVIOUS
  <2>1. PICK m \in T : \A l \in T : m <= l
    <3>1. T \in SUBSET Nat
      OBVIOUS
    <3> HIDE DEF T
    <3> QED
      BY <3>1, LeastNatural
  <2>2. m # 0
    <3>1. Good([i \in 0 .. 0 |-> base], 0)
      OBVIOUS
    <3> QED
      BY <3>1
  <2>3. m \in Nat /\ m - 1 \in Nat /\ ~ (m <= m - 1)
    BY <2>2
  <2>4. PICK g : Good(g, m - 1)
    <3>1. m - 1 \notin T
      <4> HIDE DEF T
      <4> QED
        BY <2>1, <2>3
    <3> HIDE DEF Good
    <3> QED
      BY <2>3, <3>1
  <2> DEFINE h == [i \in 0 .. m |-> IF i = m THEN step[g[m - 1]] ELSE g[i]]
  <2>5. Good(h, m)
    <3>1. h \in [0 .. m -> D] /\ h[0] = base
      BY <2>2, <2>3, <2>4
    <3>2. ASSUME NEW k \in 1 .. m PROVE h[k] = step[h[k - 1]]
      BY <2>2, <2>3, <2>4
    <3> QED
      BY <3>1, <3>2
  <2> QED
    BY <2>1, <2>5
<1>2. ASSUME NEW n \in Nat, NEW m \in Nat, NEW g, NEW h, Good(g, n), Good(h, m),
             NEW k \in Nat, k <= n, k <= m
      PROVE  g[k] = h[k]
  <2> DEFINE T == {i \in Nat : i <= n /\ i <= m /\ g[i] # h[i]}
  <2> SUFFICES ASSUME T # {} PROVE FALSE
    BY <1>2
  <2>1. PICK i \in T : \A l \in T : i <= l
    <3>1. T \in SUBSET Nat
      OBVIOUS
    <3> HIDE DEF T
    <3> QED
      BY <3>1, LeastNatural
  <2>2. i # 0
    BY <1>2, <2>1
  <2>3. i - 1 \in Nat /\ i - 1 \notin T
    BY <2>1, <2>2
  <2>4. g[i - 1] = h[i - 1] /\ i \in 1 .. n /\ i \in 1 .. m
    BY <2>1, <2>2, <2>3
  <2>5. g[i] = step[g[i - 1]] /\ h[i] = step[h[i - 1]]
    BY <1>2, <2>4
  <2> QED
    BY <2>1, <2>4, <2>5
<1> DEFINE G(n) == CHOOSE g : Good(g, n)
<1>3. \A n \in Nat : Good(G(n), n)
  BY <1>1
<1> DEFINE f == [k \in Nat |-> G(k)[k]]
<1> HIDE DEF G
<1>4. f \in [Nat -> D]
  BY <1>3
<1>5. ASSUME NEW k \in Nat PROVE f[k] = IF k = 0 THEN base ELSE step[f[k - 1]]
  <2>1. CASE k = 0
    BY <1>3, <2>1
  <2>2. CASE k # 0
    <3>1. k - 1 \in Nat /\ k \in 1 .. k
      BY <2>2
    <3>2. G(k)[k] = step[G(k)[k - 1]]
      BY <1>3, <3>1
    <3>3. G(k)[k - 1] = G(k - 1)[k - 1]
      <4>1. Good(G(k), k) /\ Good(G(k - 1), k - 1)
        BY <1>3, <3>1
      <4>2. k - 1 <= k /\ k - 1 <= k - 1
        BY <3>1
      <4> HIDE DEF Good
      <4> QED
        BY <1>2, <3>1, <4>1, <4>2
    <3> QED
      BY <2>2, <3>1, <3>2, <3>3
  <2> QED
    BY <2>1, <2>2
<1> QED
  BY <1>4, <1>5

(***************************************************************************)
(* A finite set has a last member in any strict order.                     *)
(***************************************************************************)
LEMMA FiniteHasLast ==
  ASSUME NEW S, IsFiniteSet(S), S # {}, NEW R, \A a \in S : <<a, a>> \notin R,
         \A a, b, c \in S : <<a, b>> \in R /\ <<b, c>> \in R => <<a, c>> \in R
  PROVE  \E last \in S : \A w \in S : <<last, w>> \notin R
<1> DEFINE Later(a) == {w \in S : <<a, w>> \in R}
           K == {Later(a) : a \in S}
<1>1. K \subseteq FiniteSubsetsOf(S) /\ K # {}
  <2>1. ASSUME NEW a \in S PROVE Later(a) \in FiniteSubsetsOf(S)
    <3>1. Later(a) \subseteq S
      OBVIOUS
    <3> HIDE DEF Later
    <3> QED
      BY <3>1, FS_Subset DEF FiniteSubsetsOf
  <2> HIDE DEF Later
  <2> QED
    BY <2>1
<1>2. PICK X \in K : \A Y \in K : ~ (<<Y, X>> \in StrictSubsetOrdering(S))
  <2> HIDE DEF K
  <2> QED
    BY <1>1, FS_StrictSubsetOrderingWellFounded, WFMin
<1>3. PICK last \in S : X = Later(last)
  OBVIOUS
<1>4. ASSUME NEW w \in S, <<last, w>> \in R PROVE FALSE
  <2>1. Later(w) \subseteq Later(last)
    BY <1>4
  <2>2. w \in Later(last) /\ w \notin Later(w)
    BY <1>4
  <2>3. Later(w) \in SUBSET S /\ Later(last) \in SUBSET S /\ Later(w) \in K
    OBVIOUS
  <2> HIDE DEF Later, K
  <2>4. <<Later(w), X>> \in StrictSubsetOrdering(S)
    BY <1>3, <2>1, <2>2, <2>3 DEF StrictSubsetOrdering
  <2> QED
    BY <1>2, <2>3, <2>4
<1> QED
  BY <1>4

(***************************************************************************)
(* _program_order_closure: on a slice that is not refused, the closure of  *)
(* the recorded edges is the order of the threads.                         *)
(***************************************************************************)
LEMMA ClosureIsOrder ==
  ASSUME NEW s, Extracted(s), ~ UnsupportedSlice(s)
  PROVE  Closure(s) = {p \in s.events \X s.events : Before(p[1], p[2])}
<1> DEFINE B == {p \in s.events \X s.events : Before(p[1], p[2])}
           D == SUBSET B
           Grown(r) == r \cup {<<p[1][1], p[2][2]>> : p \in {q \in r \X s.order : q[1][2] = q[2][1]}}
           step == [r \in D |-> Grown(r)]
           upto[k \in Nat] ==
             IF k = 0 THEN s.order
             ELSE LET r == upto[k - 1]
                  IN  r \cup {<<p[1][1], p[2][2]>> : p \in {q \in r \X s.order : q[1][2] = q[2][1]}}
<1>1. Closure(s) = upto[Cardinality(s.events)]
  BY DEF Closure
<1>2. s.order \in D
  BY DEF Extracted
<1>3. \A a, b, c \in s.events : Before(a, b) /\ Before(b, c) => Before(a, c)
  BY DEF Extracted, IsTrace, Before
<1>4. ASSUME NEW r \in D PROVE Grown(r) \in D
  <2> SUFFICES ASSUME NEW p \in r, NEW q \in s.order, p[2] = q[1]
               PROVE  <<p[1], q[2]>> \in B
    BY <1>4
  <2>1. p \in B /\ q \in B
    BY <1>2
  <2> QED
    BY <1>3, <2>1
<1>5. step \in [D -> D]
  <2> HIDE DEF D, Grown
  <2> QED
    BY <1>4
<1>6. PICK f \in [Nat -> D] : \A k \in Nat : f[k] = IF k = 0 THEN s.order ELSE step[f[k - 1]]
  <2> HIDE DEF D, step
  <2>1. \E f \in [Nat -> D] : \A k \in Nat : f[k] = IF k = 0 THEN s.order ELSE step[f[k - 1]]
    BY <1>2, <1>5, StepsExist
  <2> QED
    BY <2>1
<1>7. f = [k \in Nat |-> IF k = 0 THEN s.order ELSE Grown(f[k - 1])]
  <2>1. ASSUME NEW k \in Nat PROVE f[k] = IF k = 0 THEN s.order ELSE Grown(f[k - 1])
    <3>1. CASE k = 0
      BY <1>6, <3>1
    <3>2. CASE k # 0
      <4>1. k - 1 \in Nat
        BY <3>2
      <4> HIDE DEF D, Grown
      <4> QED
        BY <1>6, <3>2, <4>1
    <3> QED
      BY <3>1, <3>2
  <2> HIDE DEF D, Grown
  <2> QED
    BY <1>6, <2>1
<1>8. upto = [k \in Nat |-> IF k = 0 THEN s.order ELSE Grown(upto[k - 1])]
  BY <1>7
<1>9. ASSUME NEW n \in Nat PROVE upto[n] \in D
  <2> HIDE DEF D, Grown, upto
  <2> DEFINE T == {k \in Nat : upto[k] \notin D}
  <2> SUFFICES ASSUME T # {} PROVE FALSE
    OBVIOUS
  <2>1. PICK m \in T : \A l \in T : m <= l
    <3>1. T \in SUBSET Nat
      OBVIOUS
    <3> HIDE DEF T
    <3> QED
      BY <3>1, LeastNatural
  <2>2. m # 0
    BY <1>2, <1>8
  <2>3. m \in Nat /\ m - 1 \in Nat /\ ~ (m <= m - 1)
    BY <2>2
  <2>4. upto[m - 1] \in D
    <3>1. m - 1 \notin T
      <4> HIDE DEF T
      <4> QED
        BY <2>1, <2>3
    <3> QED
      BY <2>3, <3>1
  <2>5. upto[m] = Grown(upto[m - 1])
    BY <1>8, <2>2, <2>3
  <2> QED
    BY <1>4, <2>1, <2>4, <2>5
<1>10. Closure(s) \subseteq B
  <2>1. Cardinality(s.events) \in Nat
    BY FS_CardinalityType DEF Extracted
  <2> HIDE DEF upto
  <2> QED
    BY <1>1, <1>9, <2>1
<1>11. ASSUME NEW a \in s.events, NEW b \in s.events, Before(a, b) PROVE <<a, b>> \in Closure(s)
  <2>1. a # b /\ a.thread = b.thread /\ ~ Before(b, a)
    BY <1>11 DEF Extracted, IsTrace, Before
  <2>2. <<a, b>> \in Closure(s) \/ <<b, a>> \in Closure(s)
    BY <2>1 DEF UnsupportedSlice
  <2> HIDE DEF upto
  <2> QED
    BY <1>10, <2>1, <2>2
<1> HIDE DEF upto
<1> QED
  BY <1>10, <1>11

-----------------------------------------------------------------------------
(***************************************************************************)
(* What a slice that is not refused is like: every access is to a known    *)
(* object, and two that overlap are to the same one.                       *)
(***************************************************************************)
LEMMA SliceFacts ==
  ASSUME NEW s, Extracted(s), ~ UnsupportedSlice(s)
  PROVE  /\ IsTrace(s.events) /\ Uniform(s.events)
         /\ \A e \in s.events :
              /\ IsMemory(e) => e.size \in Nat /\ e.size > 0
              /\ e.kind \in {"LOAD", "STORE", "ATOMIC_RMW", "LFENCE", "SFENCE", "MFENCE"} \cup SyncKinds
         /\ \A a, b \in s.events : IsMemory(a) /\ IsMemory(b) => (Overlaps(a, b) <=> SameObject(a, b))
<1>1. IsTrace(s.events)
  BY DEF Extracted
<1>2. ASSUME NEW e \in s.events, IsMemory(e) PROVE e.size \in {1, 2, 4, 8}
  BY <1>2 DEF UnsupportedSlice, Exact
<1>3. ASSUME NEW e \in s.events
      PROVE  e.kind \in {"LOAD", "STORE", "ATOMIC_RMW", "LFENCE", "SFENCE", "MFENCE"} \cup SyncKinds
  <2>1. e.kind # "FUTEX_WAIT"
    BY DEF Extracted
  <2>2. CASE IsMemory(e)
    BY <2>1, <2>2 DEF IsMemory, IsRead, IsWrite
  <2>3. CASE ~ IsMemory(e)
    BY <2>3 DEF UnsupportedSlice
  <2> QED
    BY <2>2, <2>3
<1>4. ASSUME NEW a \in s.events, NEW b \in s.events, IsMemory(a), IsMemory(b)
      PROVE  Overlaps(a, b) <=> SameObject(a, b)
  <2>1. ASSUME Overlaps(a, b) PROVE SameObject(a, b)
    <3>1. a.base = b.base
      BY <1>4, <2>1 DEF Extracted
    <3>2. Location(a) = Location(b)
      BY <1>4, <2>1, <3>1 DEF UnsupportedSlice
    <3> QED
      BY <3>1, <3>2 DEF SameObject
  <2>2. ASSUME SameObject(a, b) PROVE Overlaps(a, b)
    <3>1. a.addr = b.addr /\ a.size = b.size
      BY <2>2 DEF SameObject, Location
    <3>2. a.addr \in Nat /\ a.size \in {1, 2, 4, 8}
      BY <1>1, <1>2, <1>4 DEF IsTrace
    <3> QED
      BY <3>1, <3>2 DEF Overlaps, End
  <2> QED
    BY <2>1, <2>2
<1>5. Uniform(s.events)
  BY <1>4 DEF Uniform, SameObject
<1> QED
  BY <1>1, <1>2, <1>3, <1>4, <1>5

(***************************************************************************)
(* _ordering_edges: its edges, with the closure read as program order.     *)
(***************************************************************************)
LEMMA FixedEdgesAre ==
  ASSUME NEW s, Extracted(s), ~ UnsupportedSlice(s), NEW model, NEW a, NEW b
  PROVE  <<a, b>> \in FixedEdges(s, model) <=>
           \/ \E o \in s.sync : a = o.from /\ b = o.to
           \/ /\ a \in s.events /\ b \in s.events /\ Before(a, b)
              /\ \/ OrdersBefore(Strength(b, model), a)
                 \/ OrdersAfter(Strength(a, model), b)
                 \/ model = "x86" /\ X86Keeps(a, b)
                 \/ model # "x86" /\ (RvwmoKeeps(a, b) \/ a.seq \in b.deps)
<1> DEFINE po == {p \in s.events \X s.events : Before(p[1], p[2])}
           bound == {p \in po : \/ OrdersBefore(Strength(p[2], model), p[1])
                                \/ OrdersAfter(Strength(p[1], model), p[2])}
           sync == {<<o.from, o.to>> : o \in s.sync}
           kept == IF model = "x86" THEN {p \in po : X86Keeps(p[1], p[2])}
                   ELSE {p \in po : RvwmoKeeps(p[1], p[2])} \cup {p \in po : p[1].seq \in p[2].deps}
<1>1. Closure(s) = po
  BY ClosureIsOrder
<1>2. FixedEdges(s, model) = bound \cup sync \cup kept
  BY <1>1 DEF FixedEdges
<1>3. <<a, b>> \in po <=> a \in s.events /\ b \in s.events /\ Before(a, b)
  OBVIOUS
<1>4. <<a, b>> \in bound <=> <<a, b>> \in po /\ (OrdersBefore(Strength(b, model), a)
                                                \/ OrdersAfter(Strength(a, model), b))
  OBVIOUS
<1>5. <<a, b>> \in sync <=> \E o \in s.sync : a = o.from /\ b = o.to
  OBVIOUS
<1>6. <<a, b>> \in kept <=>
        /\ <<a, b>> \in po
        /\ \/ model = "x86" /\ X86Keeps(a, b)
           \/ model # "x86" /\ (RvwmoKeeps(a, b) \/ a.seq \in b.deps)
  OBVIOUS
<1> HIDE DEF po, bound, sync, kept
<1> QED
  BY <1>2, <1>3, <1>4, <1>5, <1>6

-----------------------------------------------------------------------------
\* A read that is not cut.
Whole(r) == [read |-> r, addr |-> r.addr, size |-> r.size]

(***************************************************************************)
(* _read_parts: where accesses coincide or are apart, a read is one part.  *)
(***************************************************************************)
LEMMA WholeReads ==
  ASSUME NEW E, IsTrace(E), Uniform(E), \A e \in E : IsMemory(e) => e.size > 0
  PROVE  ReadParts(E) = {Whole(r) : r \in Reads(E)}
<1>1. ASSUME NEW r \in Reads(E) PROVE Parts(E, r) = {Whole(r)}
  <2>1. r \in E /\ IsRead(r) /\ IsMemory(r) /\ r.addr \in Nat /\ r.size \in Nat /\ r.size > 0
    BY <1>1 DEF Reads, IsTrace, IsMemory
  <2>2. Cuts(E, r) = {r.addr, End(r)}
    <3> SUFFICES ASSUME NEW w \in Writes(E), Overlaps(w, r)
                 PROVE  w.addr = r.addr /\ End(w) = End(r)
      BY DEF Cuts
    <3> QED
      BY <2>1 DEF Uniform, Writes, IsMemory, Location, End
  <2>3. r.addr \in Nat /\ End(r) \in Nat /\ r.addr < End(r) /\ End(r) - r.addr = r.size
    BY <2>1 DEF End
  <2>4. ASSUME NEW p \in Parts(E, r) PROVE p = Whole(r)
    <3>1. PICK c \in Cuts(E, r) \X Cuts(E, r) :
            p = [read |-> r, addr |-> c[1], size |-> c[2] - c[1]] /\ c[1] < c[2]
      BY <2>4 DEF Parts
    <3>2. c[1] = r.addr /\ c[2] = End(r)
      BY <2>2, <2>3, <3>1
    <3> QED
      BY <2>3, <3>1, <3>2 DEF Whole
  <2>5. Whole(r) \in Parts(E, r)
    <3> DEFINE c == <<r.addr, End(r)>>
    <3>1. c \in {d \in Cuts(E, r) \X Cuts(E, r) :
                  d[1] < d[2] /\ \A m \in Cuts(E, r) : m <= d[1] \/ d[2] <= m}
      BY <2>2, <2>3
    <3>2. Whole(r) = [read |-> r, addr |-> c[1], size |-> c[2] - c[1]]
      BY <2>3 DEF Whole
    <3> HIDE DEF c
    <3> QED
      BY <3>1, <3>2 DEF Parts
  <2> QED
    BY <2>4, <2>5
<1> QED
  BY <1>1 DEF ReadParts

(***************************************************************************)
(* A graph whose edges are all edges of another has no more cycles.        *)
(***************************************************************************)
LEMMA FewerPairs ==
  ASSUME NEW E, NEW few, NEW many, Acyclic(E, many),
         \A a, b \in E : <<a, b>> \in few => <<a, b>> \in many
  PROVE  Acyclic(E, few)
BY DEF Acyclic

LEMMA NoTwoWays ==
  ASSUME NEW E, NEW edges, Acyclic(E, edges), NEW a \in E, NEW b \in E,
         <<a, b>> \in edges, <<b, a>> \in edges
  PROVE  FALSE
<1>1. {a, b} \in SUBSET E /\ {a, b} # {}
  OBVIOUS
<1>2. PICK c \in {a, b} : \A d \in {a, b} : <<d, c>> \notin edges
  BY <1>1 DEF Acyclic
<1> QED
  BY <1>2

(***************************************************************************)
(* The choices of the solver: a store of the object or what was there      *)
(* before for every read, and one order for every two stores of an object. *)
(***************************************************************************)
LEMMA ChoiceFacts ==
  ASSUME NEW s, NEW x \in Assignments(s)
  PROVE  /\ \A r \in Reads(s.events) : x.rf[r] \in StoresOf(s, r) \cup {Initial}
         /\ \A a, b : <<a, b>> \in x.co =>
              a \in Writes(s.events) /\ b \in Writes(s.events) /\ a # b /\ SameObject(a, b)
         /\ \A a, b \in Writes(s.events) :
              a # b /\ SameObject(a, b) => (<<a, b>> \in x.co <=> <<b, a>> \notin x.co)
<1> DEFINE W == Writes(s.events)
           pairs == {p \in W \X W : p[1] # p[2] /\ SameObject(p[1], p[2])}
<1>1. x.rf \in {f \in [Reads(s.events) -> W \cup {Initial}] :
                  \A r \in Reads(s.events) : f[r] \in StoresOf(s, r) \cup {Initial}}
  BY DEF Assignments
<1>2. x.co \in {c \in SUBSET pairs : \A p \in pairs : p \in c <=> <<p[2], p[1]>> \notin c}
  BY DEF Assignments
<1>3. \A a, b : <<a, b>> \in x.co => <<a, b>> \in pairs
  <2> HIDE DEF pairs
  <2> QED
    BY <1>2
<1>4. ASSUME NEW a \in W, NEW b \in W, a # b, SameObject(a, b)
      PROVE  <<a, b>> \in x.co <=> <<b, a>> \notin x.co
  <2>1. <<a, b>> \in pairs
    BY <1>4
  <2> HIDE DEF pairs
  <2> QED
    BY <1>2, <2>1
<1> QED
  BY <1>1, <1>3, <1>4

(***************************************************************************)
(* An assignment seen as an execution of a window makes the same choices.  *)
(***************************************************************************)
LEMMA ExecutionIs ==
  ASSUME NEW s, Extracted(s), ~ UnsupportedSlice(s), NEW x
  PROVE  /\ ReadParts(s.events) = {Whole(r) : r \in Reads(s.events)}
         /\ \A r \in Reads(s.events) :
              Whole(r) \in ReadParts(s.events) /\ Execution(s, x).rf[Whole(r)] = x.rf[r]
         /\ Execution(s, x).co = x.co
<1>1. ReadParts(s.events) = {Whole(r) : r \in Reads(s.events)}
  BY SliceFacts, WholeReads
<1> QED
  BY <1>1 DEF Execution, Whole

(***************************************************************************)
(* The edges of an assignment, and those of the same choices seen as an    *)
(* execution of a window.                                                  *)
(***************************************************************************)
LEMMA SameEdges ==
  ASSUME NEW s, Extracted(s), ~ UnsupportedSlice(s), NEW x \in Assignments(s), NEW a, NEW b
  PROVE  /\ <<a, b>> \in Reading(s, x) <=> b \in Reads(s.events) /\ x.rf[b] # Initial /\ a = x.rf[b]
         /\ <<a, b>> \in Overwriting(s, x) <=>
              /\ a \in Reads(s.events) /\ b \in StoresOf(s, a)
              /\ x.rf[a] = Initial \/ <<x.rf[a], b>> \in x.co
         /\ <<a, b>> \in FromRead(s.events, Execution(s, x)) <=> <<a, b>> \in Overwriting(s, x)
         /\ <<a, b>> \in Forwarded(s.events, Execution(s, x)) <=> <<a, b>> \in Reading(s, x)
         /\ <<a, b>> \in ReadFrom(s.events, Execution(s, x)) <=>
              <<a, b>> \in Reading(s, x) /\ a.thread # b.thread
<1> DEFINE E == s.events
           e == Execution(s, x)
           Late(r) == {v \in StoresOf(s, r) : x.rf[r] = Initial \/ <<x.rf[r], v>> \in x.co}
           Piece(r) == {<<r, w>> : w \in Late(r)}
<1>1. /\ ReadParts(E) = {Whole(r) : r \in Reads(E)}
      /\ \A r \in Reads(E) : Whole(r) \in ReadParts(E) /\ e.rf[Whole(r)] = x.rf[r]
      /\ e.co = x.co
  BY ExecutionIs
<1>2. <<a, b>> \in Reading(s, x) <=> b \in Reads(E) /\ x.rf[b] # Initial /\ a = x.rf[b]
  BY DEF Reading
<1>3. <<a, b>> \in Overwriting(s, x) <=>
        /\ a \in Reads(E) /\ b \in StoresOf(s, a)
        /\ x.rf[a] = Initial \/ <<x.rf[a], b>> \in x.co
  <2>1. Overwriting(s, x) = UNION {Piece(r) : r \in Reads(E)}
    BY DEF Overwriting
  <2>2. <<a, b>> \in Overwriting(s, x) <=> \E r \in Reads(E) : <<a, b>> \in Piece(r)
    <3> HIDE DEF Piece
    <3> QED
      BY <2>1
  <2>3. \A r : <<a, b>> \in Piece(r) <=> a = r /\ b \in Late(r)
    <3> HIDE DEF Late
    <3> QED
      OBVIOUS
  <2>4. b \in Late(a) <=> b \in StoresOf(s, a) /\ (x.rf[a] = Initial \/ <<x.rf[a], b>> \in x.co)
    OBVIOUS
  <2> HIDE DEF Late, Piece
  <2> QED
    BY <2>2, <2>3, <2>4
<1>4. <<a, b>> \in FromRead(E, e) <=> <<a, b>> \in Overwriting(s, x)
  <2>1. ASSUME NEW r \in Reads(E)
        PROVE  b \in Writes(E) \ {r} /\ Overlaps(b, Whole(r)) <=> b \in StoresOf(s, r)
    <3>1. Overlaps(b, Whole(r)) <=> Overlaps(b, r)
      BY DEF Overlaps, Whole, End
    <3>2. b \in Writes(E) => (Overlaps(b, r) <=> SameObject(b, r))
      BY SliceFacts DEF Reads, Writes, IsMemory
    <3> QED
      BY <3>1, <3>2 DEF StoresOf
  <2>2. <<a, b>> \in FromRead(E, e) <=>
          \E p \in ReadParts(E) :
            /\ a = p.read /\ b \in Writes(E) \ {p.read} /\ Overlaps(b, p)
            /\ e.rf[p] = Initial \/ <<e.rf[p], b>> \in e.co
    BY FromReadFacts, Zenon
  <2>3. \A r : Whole(r).read = r
    BY DEF Whole
  <2>4. <<a, b>> \in FromRead(E, e) <=>
          \E r \in Reads(E) :
            /\ a = r /\ b \in Writes(E) \ {r} /\ Overlaps(b, Whole(r))
            /\ x.rf[r] = Initial \/ <<x.rf[r], b>> \in x.co
    <3> DEFINE Meets(p) == /\ a = p.read /\ b \in Writes(E) \ {p.read} /\ Overlaps(b, p)
                           /\ e.rf[p] = Initial \/ <<e.rf[p], b>> \in e.co
    <3>1. <<a, b>> \in FromRead(E, e) <=> \E p \in ReadParts(E) : Meets(p)
      BY <2>2
    <3>2. \A r \in Reads(E) : Meets(Whole(r)) <=>
            /\ a = r /\ b \in Writes(E) \ {r} /\ Overlaps(b, Whole(r))
            /\ x.rf[r] = Initial \/ <<x.rf[r], b>> \in x.co
      <4> HIDE DEF E, e
      <4> QED
        BY <1>1, <2>3
    <3>3. (\E p \in ReadParts(E) : Meets(p)) <=> \E r \in Reads(E) : Meets(Whole(r))
      <4> HIDE DEF E, e, Meets
      <4> QED
        BY <1>1
    <3> HIDE DEF E, e, Meets
    <3> QED
      BY <3>1, <3>2, <3>3
  <2> QED
    BY <1>3, <2>1, <2>4
<1>5. <<a, b>> \in Forwarded(E, e) <=> <<a, b>> \in Reading(s, x)
  <2>1. <<a, b>> \in Forwarded(E, e) <=> \E p \in ReadParts(E) : e.rf[p] # Initial /\ a = e.rf[p] /\ b = p.read
    BY DEF Forwarded
  <2>2. \A r : Whole(r).read = r
    BY DEF Whole
  <2> HIDE DEF E, e
  <2> QED
    BY <1>1, <1>2, <2>1, <2>2
<1>6. <<a, b>> \in ReadFrom(E, e) <=> <<a, b>> \in Reading(s, x) /\ a.thread # b.thread
  <2>1. <<a, b>> \in ReadFrom(E, e) <=>
          \E p \in ReadParts(E) : e.rf[p] # Initial /\ e.rf[p].thread # p.read.thread /\ a = e.rf[p] /\ b = p.read
    BY DEF ReadFrom
  <2>2. \A r : Whole(r).read = r
    BY DEF Whole
  <2> HIDE DEF E, e
  <2> QED
    BY <1>1, <1>2, <2>1, <2>2
<1> QED
  BY <1>2, <1>3, <1>4, <1>5, <1>6

(***************************************************************************)
(* An atomic reads its immediate predecessor, told by the assignment.      *)
(***************************************************************************)
LEMMA AtomicFacts ==
  ASSUME NEW s, Extracted(s), ~ UnsupportedSlice(s), NEW x
  PROVE  AtomicsValid(s.events, Execution(s, x)) <=>
           \A r \in Reads(s.events) : IsAtomic(r) =>
             {w \in Writes(s.events) : <<w, r>> \in Adjacent(x.co)} = {x.rf[r]} \ {Initial}
<1> DEFINE E == s.events
           e == Execution(s, x)
           Due(p) == {w \in Writes(E) : <<w, p.read>> \in Adjacent(x.co)}
<1>1. AtomicsValid(E, e) <=> \A p \in ReadParts(E) : IsAtomic(p.read) => Due(p) = {e.rf[p]} \ {Initial}
  BY ExecutionIs DEF AtomicsValid
<1>2. \A r \in Reads(E) : Whole(r).read = r /\ Whole(r) \in ReadParts(E) /\ e.rf[Whole(r)] = x.rf[r]
  <2>1. \A r \in Reads(E) : Whole(r) \in ReadParts(E) /\ e.rf[Whole(r)] = x.rf[r]
    BY ExecutionIs
  <2> QED
    BY <2>1 DEF Whole
<1>3. ReadParts(E) = {Whole(r) : r \in Reads(E)}
  BY ExecutionIs
<1>4. AtomicsValid(E, e) <=> \A r \in Reads(E) : IsAtomic(r) => Due(Whole(r)) = {x.rf[r]} \ {Initial}
  <2> HIDE DEF E, e, Due
  <2> QED
    BY <1>1, <1>2, <1>3
<1> QED
  BY <1>2, <1>4

(***************************************************************************)
(* The strength of an instruction, in both models.                         *)
(***************************************************************************)
LEMMA StrengthFacts ==
  ASSUME NEW s, Extracted(s), NEW e \in s.events
  PROVE  /\ e.kind \in {"LOAD", "STORE"} => Strength(e, "x86") = "Tso" /\ Strength(e, "rvwmo") = "Relaxed"
         /\ e.kind = "ATOMIC_RMW" => Strength(e, "x86") = "Full" /\ Strength(e, "rvwmo") = "AcqRel"
         /\ e.kind \in {"MFENCE", "BARRIER"} => Strength(e, "x86") = "Full" /\ Strength(e, "rvwmo") = "Full"
         /\ e.kind = "LFENCE" => Strength(e, "rvwmo") = "FenceRR"
         /\ e.kind = "SFENCE" => Strength(e, "rvwmo") = "FenceWW"
<1>1. e.kind \in {"LOAD", "STORE", "ATOMIC_RMW", "LFENCE", "SFENCE", "MFENCE"} =>
        <<e.src, e.tgt>> = InstructionOrdering[e.kind]
  BY DEF Extracted, InstructionOrdering
<1>2. CASE e.kind \in {"LOAD", "STORE"}
  BY <1>1, <1>2 DEF InstructionOrdering, Strength
<1>3. CASE e.kind = "ATOMIC_RMW"
  BY <1>1, <1>3 DEF InstructionOrdering, Strength
<1>4. CASE e.kind = "MFENCE"
  BY <1>1, <1>4 DEF InstructionOrdering, Strength
<1>5. CASE e.kind = "BARRIER"
  BY <1>5 DEF Strength
<1>6. CASE e.kind = "LFENCE"
  BY <1>1, <1>6 DEF InstructionOrdering, Strength
<1>7. CASE e.kind = "SFENCE"
  BY <1>1, <1>7 DEF InstructionOrdering, Strength
<1> QED
  BY <1>2, <1>3, <1>4, <1>5, <1>6, <1>7

-----------------------------------------------------------------------------
(***************************************************************************)
(* What x86-TSO allows, the formula of the source accepts: each of its     *)
(* edges is one that the reference keeps, outside the places where the     *)
(* formula is stricter.                                                    *)
(***************************************************************************)
LEMMA SourceSolves ==
  ASSUME NEW s, Extracted(s), ~ UnsupportedSlice(s), NEW x \in Assignments(s), SourceAllows(s, x),
         ~ Forwards(s), ~ LightFences(s), ~ \E e \in s.events : e.kind = "BARRIER"
  PROVE  Solves(s, "x86", x)
<1> DEFINE E == s.events
           e == Execution(s, x)
           T == TsoOrder(E) \cup Waits(s) \cup Ordered(s) \cup AllCommunication(E, e)
           Calls == {"CREATE", "JOIN", "ACQUIRE", "RELEASE", "MFENCE"}
<1>1. Acyclic(E, T) /\ AtomicsValid(E, e) /\ CoherentPerPlace(E, e) /\ e.co = x.co
  BY ExecutionIs DEF SourceAllows, TsoAllows
<1>2. AtomicAdjacent(s, x)
  <2> SUFFICES ASSUME NEW r \in Reads(E), IsAtomic(r), x.rf[r] # Initial, NEW w \in StoresOf(s, r),
                      <<x.rf[r], w>> \in x.co, <<w, r>> \in x.co
               PROVE  FALSE
    BY DEF AtomicAdjacent
  <2>1. {v \in Writes(E) : <<v, r>> \in Adjacent(x.co)} = {x.rf[r]} \ {Initial}
    BY <1>1, AtomicFacts
  <2>2. <<x.rf[r], r>> \in Adjacent(x.co)
    BY <2>1
  <2>3. w \in {p[2] : p \in x.co}
    OBVIOUS
  <2> QED
    BY <2>2, <2>3 DEF Adjacent
<1>3. ASSUME NEW a \in E, NEW b \in E, <<a, b>> \in FixedEdges(s, "x86") PROVE <<a, b>> \in T
  <2>1. CASE \E o \in s.sync : a = o.from /\ b = o.to
    <3>1. <<a, b>> \in Ordered(s)
      BY <2>1 DEF Ordered, Upto
    <3> QED
      BY <3>1
  <2>2. CASE Before(a, b) /\ {a.kind, b.kind} \cap Calls # {}
    <3>1. <<a, b>> \in Waits(s)
      BY <2>2 DEF Waits
    <3> QED
      BY <3>1
  <2>3. CASE /\ Before(a, b) /\ {a.kind, b.kind} \cap Calls = {}
             /\ \/ OrdersBefore(Strength(b, "x86"), a) \/ OrdersAfter(Strength(a, "x86"), b)
                \/ X86Keeps(a, b)
    <3>1. {a.kind, b.kind} \subseteq {"LOAD", "STORE", "ATOMIC_RMW"}
      BY <2>3, SliceFacts DEF LightFences, SyncKinds
    <3>2. IsMemory(a) /\ IsMemory(b)
      BY <3>1 DEF IsMemory, IsRead, IsWrite
    <3>3. ~ (a.kind = "STORE" /\ b.kind = "LOAD")
      <4> SUFFICES ASSUME a.kind = "STORE", b.kind = "LOAD" PROVE FALSE
        OBVIOUS
      <4>1. Strength(a, "x86") = "Tso" /\ Strength(b, "x86") = "Tso"
        BY StrengthFacts
      <4>2. ~ X86Keeps(a, b)
        BY DEF X86Keeps, PureStore, PureLoad, IsRead, IsWrite
      <4> QED
        BY <2>3, <4>1, <4>2 DEF OrdersBefore, OrdersAfter
    <3>4. TsoEdge(E, a, b)
      BY <2>3, <3>1, <3>2, <3>3 DEF TsoEdge, IsRead, IsWrite, IsOrdered
    <3> QED
      BY <3>4 DEF TsoOrder
  <2> QED
    BY <1>3, <2>1, <2>2, <2>3, FixedEdgesAre
<1>4. ASSUME NEW a \in E, NEW b \in E, <<a, b>> \in Reading(s, x) PROVE <<a, b>> \in T
  <2>1. b \in Reads(E) /\ x.rf[b] # Initial /\ a = x.rf[b]
    BY <1>4 DEF Reading
  <2>2. a \in Writes(E) /\ SameObject(a, b) /\ a # b
    BY <2>1, ChoiceFacts DEF StoresOf
  <2>3. /\ IsWrite(a) /\ IsRead(b) /\ IsMemory(a) /\ IsMemory(b) /\ Overlaps(a, b) /\ Overlaps(b, a)
    BY <2>1, <2>2, SliceFacts DEF Reads, Writes, IsMemory, Overlaps
  <2>4. CASE a.thread # b.thread
    <3>1. <<a, b>> \in ReadFrom(E, e)
      BY <1>4, <2>4, SameEdges
    <3> QED
      BY <3>1 DEF AllCommunication
  <2>5. CASE Before(a, b)
    <3>1. ~ (PureStore(a) /\ PureLoad(b))
      BY <2>2, <2>5 DEF Forwards
    <3>2. IsOrdered(a) \/ IsOrdered(b)
      BY <2>3, <3>1 DEF PureStore, PureLoad, IsRead, IsWrite, IsOrdered
    <3>3. TsoEdge(E, a, b)
      BY <2>3, <2>5, <3>2 DEF TsoEdge
    <3> QED
      BY <3>3 DEF TsoOrder
  <2>6. CASE Before(b, a)
    <3> DEFINE C == SamePlace(E) \cup Forwarded(E, e) \cup e.co \cup FromRead(E, e)
    <3>1. <<b, a>> \in SamePlace(E)
      BY <2>3, <2>6 DEF SamePlace
    <3>2. <<a, b>> \in Forwarded(E, e)
      BY <1>4, SameEdges
    <3>3. <<a, b>> \in C /\ <<b, a>> \in C
      BY <3>1, <3>2
    <3>4. Acyclic(E, C)
      BY <1>1 DEF CoherentPerPlace
    <3> HIDE DEF C
    <3> QED
      BY <3>3, <3>4, NoTwoWays
  <2> QED
    BY <2>2, <2>4, <2>5, <2>6, SliceFacts DEF IsTrace, Before
<1>5. ASSUME NEW a \in E, NEW b \in E, <<a, b>> \in Overwriting(s, x) PROVE <<a, b>> \in T
  <2>1. <<a, b>> \in FromRead(E, e)
    BY <1>5, SameEdges
  <2> QED
    BY <2>1 DEF AllCommunication
<1>6. ASSUME NEW a \in E, NEW b \in E, <<a, b>> \in x.co PROVE <<a, b>> \in T
  BY <1>1, <1>6 DEF AllCommunication
<1> DEFINE G == FixedEdges(s, "x86") \cup Reading(s, x) \cup x.co \cup Overwriting(s, x)
<1>7. Acyclic(E, G)
  <2>1. \A a, b \in E : <<a, b>> \in G => <<a, b>> \in T
    <3> HIDE DEF T, E
    <3> QED
      BY <1>3, <1>4, <1>5, <1>6
  <2> HIDE DEF G, T
  <2> QED
    BY <1>1, <2>1, FewerPairs
<1> QED
  BY <1>2, <1>7 DEF Solves

-----------------------------------------------------------------------------
\* The edges of a formula whose solution x is.
FormulaEdges(s, model, x) ==
  FixedEdges(s, model) \cup Reading(s, x) \cup x.co \cup Overwriting(s, x)

(***************************************************************************)
(* The edges a formula of the target has between two events of a thread.   *)
(***************************************************************************)
LEMMA TargetKeeps ==
  ASSUME NEW s, Extracted(s), ~ UnsupportedSlice(s),
         NEW a \in s.events, NEW b \in s.events, Before(a, b)
  PROVE  /\ IsMemory(b) /\ Acquires(a) /\ (a.kind = "JOIN" => \E o \in s.sync : a = o.to)
              => <<a, b>> \in FixedEdges(s, "rvwmo")
         /\ IsMemory(a) /\ Releases(b) /\ (b.kind = "CREATE" => \E o \in s.sync : b = o.from)
              => <<a, b>> \in FixedEdges(s, "rvwmo")
         /\ IsMemory(a) /\ IsMemory(b) /\ Overlaps(a, b) => <<a, b>> \in FixedEdges(s, "rvwmo")
         /\ a.kind = "LFENCE" /\ IsRead(b) => <<a, b>> \in FixedEdges(s, "rvwmo")
         /\ IsRead(a) /\ b.kind = "LFENCE" => <<a, b>> \in FixedEdges(s, "rvwmo")
         /\ a.kind = "SFENCE" /\ IsWrite(b) => <<a, b>> \in FixedEdges(s, "rvwmo")
         /\ IsWrite(a) /\ b.kind = "SFENCE" => <<a, b>> \in FixedEdges(s, "rvwmo")
<1>1. \/ OrdersBefore(Strength(b, "rvwmo"), a) \/ OrdersAfter(Strength(a, "rvwmo"), b)
      \/ RvwmoKeeps(a, b)
      => <<a, b>> \in FixedEdges(s, "rvwmo")
  BY FixedEdgesAre
<1>2. ASSUME IsMemory(b), Acquires(a), a.kind = "JOIN" => \E o \in s.sync : a = o.to
      PROVE  OrdersAfter(Strength(a, "rvwmo"), b)
  <2>1. CASE a.kind = "JOIN"
    <3>1. a.tgt \in {"Acquire", "AcqRel", "Full"}
      BY <1>2, <2>1 DEF Extracted
    <3> QED
      BY <1>2, <2>1, <3>1 DEF Strength, OrdersAfter
  <2>2. CASE a.kind # "JOIN"
    <3>1. Strength(a, "rvwmo") \in {"AcqRel", "Full"}
      BY <1>2, <2>2, StrengthFacts DEF Acquires
    <3> QED
      BY <1>2, <3>1 DEF OrdersAfter
  <2> QED
    BY <2>1, <2>2
<1>3. ASSUME IsMemory(a), Releases(b), b.kind = "CREATE" => \E o \in s.sync : b = o.from
      PROVE  OrdersBefore(Strength(b, "rvwmo"), a)
  <2>1. CASE b.kind = "CREATE"
    <3>1. b.tgt \in {"Release", "AcqRel", "Full"}
      BY <1>3, <2>1 DEF Extracted
    <3> QED
      BY <1>3, <2>1, <3>1 DEF Strength, OrdersBefore
  <2>2. CASE b.kind # "CREATE"
    <3>1. Strength(b, "rvwmo") \in {"AcqRel", "Full"}
      BY <1>3, <2>2, StrengthFacts DEF Releases
    <3> QED
      BY <1>3, <3>1 DEF OrdersBefore
  <2> QED
    BY <2>1, <2>2
<1>4. IsMemory(a) /\ IsMemory(b) /\ Overlaps(a, b) => RvwmoKeeps(a, b)
  BY SliceFacts DEF RvwmoKeeps
<1>5. /\ a.kind = "LFENCE" /\ IsRead(b) => OrdersAfter(Strength(a, "rvwmo"), b)
      /\ IsRead(a) /\ b.kind = "LFENCE" => OrdersBefore(Strength(b, "rvwmo"), a)
      /\ a.kind = "SFENCE" /\ IsWrite(b) => OrdersAfter(Strength(a, "rvwmo"), b)
      /\ IsWrite(a) /\ b.kind = "SFENCE" => OrdersBefore(Strength(b, "rvwmo"), a)
  BY StrengthFacts DEF OrdersBefore, OrdersAfter
<1> QED
  BY <1>1, <1>2, <1>3, <1>4, <1>5

(***************************************************************************)
(* What the formula of the target accepts has atomics that read their      *)
(* predecessor and is coherent, place by place.                            *)
(***************************************************************************)
LEMMA TargetIsCoherent ==
  ASSUME NEW s, Extracted(s), ~ UnsupportedSlice(s), NEW x \in Assignments(s), Solves(s, "rvwmo", x)
  PROVE  /\ AtomicsValid(s.events, Execution(s, x))
         /\ CoherentPerPlace(s.events, Execution(s, x))
<1> DEFINE E == s.events
           e == Execution(s, x)
           G == FormulaEdges(s, "rvwmo", x)
<1>1. Acyclic(E, G) /\ AtomicAdjacent(s, x) /\ e.co = x.co
  BY ExecutionIs DEF Solves, FormulaEdges
<1>2. /\ FixedEdges(s, "rvwmo") \subseteq G /\ Reading(s, x) \subseteq G
      /\ x.co \subseteq G /\ Overwriting(s, x) \subseteq G
  BY DEF FormulaEdges
<1> HIDE DEF G
<1>3. ASSUME NEW r \in Reads(E), IsAtomic(r)
      PROVE  {w \in Writes(E) : <<w, r>> \in Adjacent(x.co)} = {x.rf[r]} \ {Initial}
  <2>1. r \in Writes(E) /\ r \in E
    BY <1>3 DEF Reads, Writes, IsAtomic, IsWrite
  <2>2. ASSUME NEW w, <<w, r>> \in x.co PROVE w \in StoresOf(s, r) /\ w \in Writes(E) /\ w \in E /\ SameObject(w, r)
    BY <2>2, ChoiceFacts DEF StoresOf, Writes
  <2>3. CASE x.rf[r] = Initial
    <3>1. ASSUME NEW w, <<w, r>> \in Adjacent(x.co) PROVE FALSE
      <4>1. <<w, r>> \in x.co
        BY <3>1 DEF Adjacent
      <4>2. <<r, w>> \in Overwriting(s, x)
        BY <2>2, <2>3, <4>1, SameEdges
      <4> QED
        BY <1>1, <1>2, <2>1, <2>2, <4>1, <4>2, NoTwoWays
    <3> QED
      BY <2>3, <3>1
  <2>4. CASE x.rf[r] # Initial
    <3> DEFINE v == x.rf[r]
    <3>1. v \in Writes(E) /\ v \in E /\ v # r /\ SameObject(v, r)
      BY <2>4, ChoiceFacts DEF StoresOf, Writes
    <3>2. <<v, r>> \in G
      BY <1>2, <2>4 DEF Reading
    <3>3. <<v, r>> \in x.co
      <4>1. <<r, v>> \notin x.co
        BY <1>1, <1>2, <2>1, <3>1, <3>2, NoTwoWays
      <4> QED
        BY <2>1, <3>1, <4>1, ChoiceFacts
    <3>4. \A w : ~ (<<v, w>> \in x.co /\ <<w, r>> \in x.co)
      BY <1>1, <1>3, <2>2, <2>4 DEF AtomicAdjacent
    <3>5. <<v, r>> \in Adjacent(x.co)
      BY <3>3, <3>4 DEF Adjacent
    <3>6. ASSUME NEW w \in Writes(E), <<w, r>> \in Adjacent(x.co), w # v PROVE FALSE
      <4>1. <<w, r>> \in x.co
        BY <3>6 DEF Adjacent
      <4>2. SameObject(v, w)
        BY <2>2, <3>1, <4>1 DEF SameObject
      <4>3. <<w, v>> \in x.co
        BY <3>1, <3>4, <3>6, <4>1, <4>2, ChoiceFacts
      <4>4. v \in {p[2] : p \in x.co}
        BY <4>3
      <4> QED
        BY <3>3, <3>6, <4>3, <4>4 DEF Adjacent
    <3> HIDE DEF v
    <3>7. {w \in Writes(E) : <<w, r>> \in Adjacent(x.co)} = {v}
      BY <3>1, <3>5, <3>6
    <3> QED
      BY <2>4, <3>7 DEF v
  <2> QED
    BY <2>3, <2>4
<1>4. AtomicsValid(E, e)
  BY <1>3, AtomicFacts
<1> DEFINE C == SamePlace(E) \cup Forwarded(E, e) \cup e.co \cup FromRead(E, e)
<1>5. ASSUME NEW a \in E, NEW b \in E, <<a, b>> \in C PROVE <<a, b>> \in G
  <2>1. CASE <<a, b>> \in SamePlace(E)
    <3>1. IsMemory(a) /\ IsMemory(b) /\ Before(a, b) /\ Overlaps(a, b)
      BY <2>1 DEF SamePlace
    <3> QED
      BY <1>2, <3>1, TargetKeeps
  <2>2. CASE <<a, b>> \in Forwarded(E, e)
    BY <1>2, <2>2, SameEdges
  <2>3. CASE <<a, b>> \in FromRead(E, e)
    BY <1>2, <2>3, SameEdges
  <2>4. CASE <<a, b>> \in e.co
    BY <1>1, <1>2, <2>4
  <2> QED
    BY <1>5, <2>1, <2>2, <2>3, <2>4
<1>6. Acyclic(E, C)
  <2> HIDE DEF C
  <2> QED
    BY <1>1, <1>5, FewerPairs
<1> QED
  BY <1>4, <1>6 DEF CoherentPerPlace

(***************************************************************************)
(* And the target allows it, creation and join included, where no end of   *)
(* these is loose.  In a set of events that has no first one, each is      *)
(* reached along edges of the formula: through a fence that stands between *)
(* two accesses, or through the creations and joins on the way.            *)
(***************************************************************************)
LEMMA TargetIsAllowed ==
  ASSUME NEW s, Extracted(s), ~ UnsupportedSlice(s), ~ LooseEnds(s),
         NEW x \in Assignments(s), Solves(s, "rvwmo", x)
  PROVE  TargetAllows(s, x)
<1> DEFINE E == s.events
           e == Execution(s, x)
           all == AllCommunication(E, e)
           G == FormulaEdges(s, "rvwmo", x)
           H == RvwmoOrder(E, e) \cup Ordered(s) \cup all
<1>1. Acyclic(E, G) /\ e.co = x.co
  BY ExecutionIs DEF Solves, FormulaEdges
<1>2. /\ FixedEdges(s, "rvwmo") \subseteq G /\ Reading(s, x) \subseteq G
      /\ x.co \subseteq G /\ Overwriting(s, x) \subseteq G
  BY DEF FormulaEdges
<1> HIDE DEF G
<1>3. ASSUME NEW a, NEW b, <<a, b>> \in all
      PROVE  <<a, b>> \in G /\ IsMemory(a) /\ IsMemory(b)
  <2>1. CASE <<a, b>> \in x.co
    BY <1>2, <2>1, ChoiceFacts DEF Writes, IsMemory
  <2>2. CASE <<a, b>> \in ReadFrom(E, e)
    <3>1. <<a, b>> \in Reading(s, x)
      BY <2>2, SameEdges
    <3>2. b \in Reads(E) /\ x.rf[b] # Initial /\ a = x.rf[b]
      BY <3>1 DEF Reading
    <3>3. a \in Writes(E)
      BY <3>2, ChoiceFacts DEF StoresOf
    <3> QED
      BY <1>2, <3>1, <3>2, <3>3 DEF Reads, Writes, IsMemory
  <2>3. CASE <<a, b>> \in FromRead(E, e)
    <3>1. <<a, b>> \in Overwriting(s, x)
      BY <2>3, SameEdges
    <3>2. a \in Reads(E) /\ b \in StoresOf(s, a)
      BY <3>1, SameEdges
    <3> QED
      BY <1>2, <3>1, <3>2 DEF Reads, Writes, StoresOf, IsMemory
  <2> QED
    BY <1>1, <1>3, <2>1, <2>2, <2>3 DEF AllCommunication
<1>4. \A o \in s.sync : o.from \in E /\ o.to \in E
  BY DEF UnsupportedSlice
<1>5. \A a, b, c \in E : Before(a, b) /\ Before(b, c) => Before(a, c)
  BY SliceFacts DEF IsTrace, Before
<1>6. ASSUME NEW S \in SUBSET E, Headless(S, H) PROVE FALSE
  <2> DEFINE M == {b \in S : IsMemory(b)}
             F == {f \in E : \E a \in M : <<a, f>> \in G}
             Used == {o \in s.sync : \E a, b \in S : Upto(a, o.from) /\ Upto(o.to, b)}
             Ends == {o.from : o \in Used} \cup {o.to : o \in Used}
             S2 == M \cup F \cup Ends
  <2>1. ASSUME NEW o \in Used
        PROVE  o \in s.sync /\ o.from \in Ends /\ o.to \in Ends /\ <<o.from, o.to>> \in G
    BY <1>2, <2>1, FixedEdgesAre
  <2>2. ASSUME NEW a \in S, NEW b \in S, <<a, b>> \in Ordered(s)
        PROVE  \E o \in Used : Upto(o.to, b) /\ Upto(a, o.from)
    BY <2>2 DEF Ordered
  <2>3. ASSUME NEW b \in S, ~ IsMemory(b) PROVE \E q \in Used : Upto(q.to, b)
    <3>1. PICK a \in S : <<a, b>> \in H
      BY <1>6 DEF Headless
    <3>2. <<a, b>> \in Ordered(s)
      BY <1>3, <2>3, <3>1 DEF RvwmoOrder, RvwmoEdge
    <3> HIDE DEF Used
    <3> QED
      BY <2>2, <3>2
  <2>4. ASSUME NEW b \in M PROVE \E c \in S2 : <<c, b>> \in G
    <3>1. PICK a \in S : <<a, b>> \in H
      BY <1>6 DEF Headless
    <3>2. a \in E /\ b \in E /\ b \in S /\ IsMemory(b)
      OBVIOUS
    <3>3. CASE <<a, b>> \in all
      BY <1>3, <3>3
    <3>4. CASE <<a, b>> \in RvwmoOrder(E, e)
      <4>1. a \in M /\ IsMemory(a) /\ Before(a, b) /\ RvwmoEdge(E, e, a, b)
        BY <3>4 DEF RvwmoOrder, RvwmoEdge
      <4>2. CASE Overlaps(a, b) \/ IsOrdered(a) \/ IsOrdered(b)
        <5>1. a.kind # "FUTEX_WAIT" /\ b.kind # "FUTEX_WAIT"
          BY <3>2 DEF Extracted
        <5>2. Overlaps(a, b) \/ a.kind = "ATOMIC_RMW" \/ b.kind = "ATOMIC_RMW"
          BY <4>2, <5>1 DEF IsOrdered
        <5>3. <<a, b>> \in FixedEdges(s, "rvwmo")
          BY <3>2, <4>1, <5>2, TargetKeeps DEF Acquires, Releases
        <5> QED
          BY <1>2, <4>1, <5>3
      <4>3. CASE Fenced(E, a, b)
        <5>1. PICK f \in E : /\ Before(a, f) /\ Before(f, b)
                             /\ \/ f.kind = "MFENCE"
                                \/ f.kind = "LFENCE" /\ IsRead(a) /\ IsRead(b)
                                \/ f.kind = "SFENCE" /\ IsWrite(a) /\ IsWrite(b)
          BY <4>3 DEF Fenced
        <5>2. <<a, f>> \in FixedEdges(s, "rvwmo")
          BY <3>2, <4>1, <5>1, TargetKeeps DEF Releases
        <5>3. <<f, b>> \in FixedEdges(s, "rvwmo")
          BY <3>2, <4>1, <5>1, TargetKeeps DEF Acquires
        <5> QED
          BY <1>2, <4>1, <5>2, <5>3
      <4> QED
        BY <4>1, <4>2, <4>3 DEF RvwmoEdge
    <3>5. CASE <<a, b>> \in Ordered(s)
      <4>1. PICK o \in Used : Upto(o.to, b)
        BY <2>2, <3>2, <3>5
      <4>2. o \in s.sync /\ o.from \in Ends /\ o.to \in Ends /\ <<o.from, o.to>> \in G
        BY <2>1
      <4>3. CASE o.to = b
        BY <4>2, <4>3
      <4>4. CASE Before(o.to, b)
        <5>1. Acquires(o.to)
          BY <3>2, <4>2, <4>4 DEF LooseEnds
        <5>2. <<o.to, b>> \in FixedEdges(s, "rvwmo")
          BY <1>4, <3>2, <4>2, <4>4, <5>1, TargetKeeps
        <5> QED
          BY <1>2, <4>2, <5>2
      <4> QED
        BY <4>1, <4>3, <4>4 DEF Upto
    <3> QED
      BY <3>1, <3>3, <3>4, <3>5
  <2>5. ASSUME NEW o \in Used PROVE \E c \in S2 : <<c, o.from>> \in G
    <3>1. PICK a \in S : Upto(a, o.from)
      OBVIOUS
    <3>2. a \in E /\ o \in s.sync /\ o.from \in E
      BY <1>4
    <3>3. CASE IsMemory(a) /\ a = o.from
      BY <2>4, <3>3
    <3>4. CASE IsMemory(a) /\ Before(a, o.from)
      <4>1. Releases(o.from)
        BY <3>2, <3>4 DEF LooseEnds
      <4>2. <<a, o.from>> \in FixedEdges(s, "rvwmo")
        BY <3>2, <3>4, <4>1, TargetKeeps
      <4> QED
        BY <1>2, <3>4, <4>2
    <3>5. CASE ~ IsMemory(a)
      <4>1. PICK q \in Used : Upto(q.to, a)
        BY <2>3, <3>5
      <4>2. q \in s.sync /\ q.from \in Ends /\ q.to \in Ends /\ <<q.from, q.to>> \in G /\ q.to \in E
        BY <1>4, <2>1
      <4>3. q.to = o.from \/ Before(q.to, o.from)
        BY <1>5, <3>1, <3>2, <4>1, <4>2 DEF Upto
      <4>4. CASE q.to = o.from
        BY <4>2, <4>4
      <4>5. CASE Before(q.to, o.from)
        <5>1. IsMemory(q.to)
          BY <3>2, <4>2, <4>5 DEF LooseEnds
        <5>2. Releases(o.from)
          BY <3>2, <4>2, <4>5, <5>1 DEF LooseEnds
        <5>3. <<q.to, o.from>> \in FixedEdges(s, "rvwmo")
          BY <3>2, <4>2, <4>5, <5>1, <5>2, TargetKeeps
        <5> QED
          BY <1>2, <4>2, <5>3
      <4> QED
        BY <4>3, <4>4, <4>5
    <3> QED
      BY <3>1, <3>3, <3>4, <3>5 DEF Upto
  <2>6. ASSUME NEW b \in S2 PROVE \E c \in S2 : <<c, b>> \in G
    <3>1. CASE b \in F
      BY <3>1
    <3>2. ASSUME NEW o \in Used, b = o.to PROVE \E c \in S2 : <<c, b>> \in G
      BY <2>1, <3>2
    <3>3. ASSUME NEW o \in Used, b = o.from PROVE \E c \in S2 : <<c, b>> \in G
      BY <2>5, <3>3
    <3>4. b \in M \/ b \in F \/ \E o \in Used : b = o.from \/ b = o.to
      <4> HIDE DEF M, F, Used
      <4> QED
        OBVIOUS
    <3> HIDE DEF M, F, Used, S2
    <3> QED
      BY <2>4, <3>1, <3>2, <3>3, <3>4
  <2>7. S2 # {}
    <3>1. PICK b \in S : TRUE
      BY <1>6 DEF Headless
    <3>2. b \in M \/ \E q \in Used : TRUE
      BY <2>3
    <3> HIDE DEF Used
    <3> QED
      BY <3>2
  <2>8. S2 \in SUBSET E
    <3>1. Ends \subseteq E
      BY <1>4
    <3> HIDE DEF Ends
    <3> QED
      BY <3>1
  <2> HIDE DEF S2
  <2>9. Headless(S2, G)
    BY <2>6, <2>7 DEF Headless
  <2> QED
    BY <1>1, <2>8, <2>9, CyclicIffHeadless
<1>7. Acyclic(E, H)
  <2> HIDE DEF H
  <2> QED
    BY <1>6, CyclicIffHeadless
<1>8. Acyclic(E, RvwmoOrder(E, e) \cup all)
  <2>1. RvwmoOrder(E, e) \cup all \subseteq H
    OBVIOUS
  <2> HIDE DEF H, all
  <2> QED
    BY <1>7, <2>1, FewerEdges
<1> QED
  BY <1>7, <1>8, TargetIsCoherent DEF TargetAllows, RvwmoAllows

-----------------------------------------------------------------------------
(***************************************************************************)
(* Coherence as the solver chooses it is coherence of the window: a total  *)
(* order of the stores of an object, along each thread.                    *)
(***************************************************************************)
LEMMA ChoiceIsCoherence ==
  ASSUME NEW s, Extracted(s), ~ UnsupportedSlice(s), NEW x \in Assignments(s), Solves(s, "rvwmo", x)
  PROVE  x.co \in CoherenceOrders(s.events)
<1> DEFINE E == s.events
           W == Writes(E)
           G == FormulaEdges(s, "rvwmo", x)
<1>1. Acyclic(E, G)
  BY DEF Solves, FormulaEdges
<1>2. FixedEdges(s, "rvwmo") \subseteq G /\ x.co \subseteq G
  BY DEF FormulaEdges
<1> HIDE DEF G
<1>3. \A a, b : <<a, b>> \in x.co => a \in W /\ b \in W /\ a \in E /\ b \in E /\ a # b /\ SameObject(a, b)
  BY ChoiceFacts DEF Writes
<1>4. \A a, b \in W : a # b /\ SameObject(a, b) => (<<a, b>> \in x.co <=> <<b, a>> \notin x.co)
  BY ChoiceFacts
<1>5. \A a, b \in W : a \in E /\ b \in E /\ (Overlaps(a, b) <=> SameObject(a, b))
  BY SliceFacts DEF Writes, IsMemory
<1>6. ASSUME NEW a \in W, NEW b \in W, Before(a, b), Overlaps(a, b) PROVE <<a, b>> \in x.co
  <2>1. a # b /\ a \in E /\ b \in E /\ IsMemory(a) /\ IsMemory(b) /\ SameObject(a, b)
    BY <1>5, <1>6, SliceFacts DEF Writes, IsMemory, IsTrace, Before
  <2>2. <<a, b>> \in G
    BY <1>2, <1>6, <2>1, TargetKeeps
  <2>3. <<b, a>> \notin x.co
    BY <1>1, <1>2, <2>1, <2>2, NoTwoWays
  <2> QED
    BY <1>4, <2>1, <2>3
<1>7. ASSUME NEW a, NEW b, NEW c, <<a, b>> \in x.co, <<b, c>> \in x.co PROVE <<a, c>> \in x.co
  <2>1. /\ a \in W /\ b \in W /\ c \in W /\ a \in E /\ b \in E /\ c \in E
        /\ SameObject(a, c)
    BY <1>3, <1>7 DEF SameObject
  <2>2. a # c
    BY <1>3, <1>4, <1>7
  <2>3. <<c, a>> \notin x.co
    <3> SUFFICES ASSUME <<c, a>> \in x.co PROVE FALSE
      OBVIOUS
    <3>1. {a, b, c} \in SUBSET E
      BY <2>1
    <3>2. PICK d \in {a, b, c} : \A f \in {a, b, c} : <<f, d>> \notin G
      BY <1>1, <3>1 DEF Acyclic
    <3> QED
      BY <1>2, <1>7, <3>2
  <2> QED
    BY <1>4, <2>1, <2>2, <2>3
<1>8. ASSUME NEW S \in SUBSET W, S # {} PROVE \E last \in S : \A w \in S : <<last, w>> \notin x.co
  <2>1. S \subseteq E
    BY <1>8 DEF Writes
  <2>2. IsFiniteSet(S)
    BY <2>1, FS_Subset DEF Extracted
  <2> HIDE DEF E, G
  <2> QED
    BY <1>3, <1>7, <1>8, <2>1, <2>2, FiniteHasLast
<1> DEFINE pairs == {p \in W \X W : p[1] # p[2] /\ Overlaps(p[1], p[2])}
           fixed == {p \in pairs : Before(p[1], p[2])}
           free  == {p \in pairs : p[1].thread # p[2].thread}
<1>9. fixed \subseteq x.co
  BY <1>6
<1>10. x.co \subseteq pairs
  BY <1>5 DEF Assignments
<1>11. \A p \in x.co : p \in fixed \/ p \in free
  <2> SUFFICES ASSUME NEW p \in x.co, p[1].thread = p[2].thread PROVE Before(p[1], p[2])
    BY <1>10
  <2>1. p \in pairs /\ p = <<p[1], p[2]>> /\ p[1] \in E /\ p[2] \in E
    BY <1>10 DEF Writes
  <2>2. ~ Before(p[2], p[1])
    <3> SUFFICES ASSUME Before(p[2], p[1]) PROVE FALSE
      OBVIOUS
    <3>1. Overlaps(p[2], p[1])
      BY <2>1 DEF Overlaps
    <3>2. <<p[2], p[1]>> \in x.co
      BY <1>6, <2>1, <3>1
    <3> QED
      BY <1>4, <1>5, <2>1, <3>2
  <2> QED
    BY <2>1, <2>2, SliceFacts DEF IsTrace, Before
<1>12. \A p \in pairs : p \in x.co <=> <<p[2], p[1]>> \notin x.co
  <2> SUFFICES ASSUME NEW p \in pairs PROVE p \in x.co <=> <<p[2], p[1]>> \notin x.co
    OBVIOUS
  <2>1. p = <<p[1], p[2]>> /\ p[1] \in W /\ p[2] \in W /\ p[1] # p[2] /\ SameObject(p[1], p[2])
    BY <1>5
  <2> QED
    BY <1>4, <2>1
<1>13. x.co = fixed \cup (x.co \ fixed) /\ x.co \ fixed \in SUBSET free
  <2> HIDE DEF fixed, free
  <2> QED
    BY <1>9, <1>11
<1>14. CoherenceOrders(E) =
        {co \in {fixed \cup S : S \in SUBSET free} :
           /\ \A p \in pairs : p \in co <=> <<p[2], p[1]>> \notin co
           /\ \A S \in SUBSET W : S # {} => \E last \in S : \A w \in S : <<last, w>> \notin co}
  BY DEF CoherenceOrders
<1>15. \A S \in SUBSET W : S # {} => \E last \in S : \A w \in S : <<last, w>> \notin x.co
  BY <1>8
<1> HIDE DEF pairs, fixed, free, W, E
<1>16. x.co \in {fixed \cup S : S \in SUBSET free}
  BY <1>13
<1>17. x.co \in CoherenceOrders(E)
  BY <1>12, <1>14, <1>15, <1>16
<1> QED
  BY <1>17 DEF E

(***************************************************************************)
(* What the formula of the target accepts is an execution of the window.   *)
(***************************************************************************)
LEMMA ChoiceIsExecution ==
  ASSUME NEW s, Extracted(s), ~ UnsupportedSlice(s), NEW x \in Assignments(s), Solves(s, "rvwmo", x)
  PROVE  IsExecution(s.events, Execution(s, x))
<1> DEFINE E == s.events
           G == FormulaEdges(s, "rvwmo", x)
<1>1. Acyclic(E, G)
  BY DEF Solves, FormulaEdges
<1>2. FixedEdges(s, "rvwmo") \subseteq G /\ Reading(s, x) \subseteq G
  BY DEF FormulaEdges
<1> HIDE DEF G
<1>3. ASSUME NEW r \in Reads(E), x.rf[r] # Initial PROVE x.rf[r] \in Sources(E, Whole(r))
  <2> DEFINE w == x.rf[r]
  <2>1. w \in Writes(E) /\ w # r /\ SameObject(w, r)
    BY <1>3, ChoiceFacts DEF StoresOf
  <2>2. w \in E /\ r \in E /\ IsMemory(w) /\ IsMemory(r) /\ IsTrace(E)
    BY <2>1, SliceFacts DEF Writes, Reads, IsMemory
  <2>3. Covers(w, Whole(r))
    BY <2>1, <2>2 DEF SameObject, Location, Covers, Whole, End, IsTrace
  <2>4. <<w, r>> \in G
    BY <1>2, <1>3 DEF Reading
  <2>5. ~ Before(r, w)
    <3> SUFFICES ASSUME Before(r, w) PROVE FALSE
      OBVIOUS
    <3>1. Overlaps(r, w)
      BY <2>1, <2>2, SliceFacts DEF SameObject
    <3>2. <<r, w>> \in G
      BY <1>2, <2>2, <3>1, TargetKeeps
    <3> QED
      BY <1>1, <2>2, <2>4, <3>2, NoTwoWays
  <2>6. ~ (w.thread = Whole(r).read.thread /\ w.seq >= Whole(r).read.seq)
    BY <2>1, <2>2, <2>5 DEF Whole, Before, IsTrace
  <2> QED
    BY <2>1, <2>3, <2>6 DEF Sources
<1>4. \A p \in ReadParts(E) : Execution(s, x).rf[p] = Initial \/ Execution(s, x).rf[p] \in Sources(E, p)
  BY <1>3, ExecutionIs
<1>5. Execution(s, x).co \in CoherenceOrders(E)
  BY ChoiceIsCoherence, ExecutionIs
<1> QED
  BY <1>4, <1>5 DEF IsExecution

-----------------------------------------------------------------------------
(***************************************************************************)
(* Adjacent writes tie as much as all pairs, also beside other edges.      *)
(***************************************************************************)
LEMMA AllOrAdjacent ==
  ASSUME NEW E, NEW x, x.co \in CoherenceOrders(E), NEW order
  PROVE  Acyclic(E, order \cup Communication(E, x)) <=> Acyclic(E, order \cup AllCommunication(E, x))
<1> DEFINE others == order \cup ReadFrom(E, x) \cup FromRead(E, x)
<1>1. /\ order \cup Communication(E, x) = others \cup Adjacent(x.co)
      /\ order \cup AllCommunication(E, x) = others \cup x.co
  BY DEF Communication, AllCommunication
<1> HIDE DEF others
<1> QED
  BY <1>1, AdjacentIsEnough

(***************************************************************************)
(* Full fences that wait for each other add nothing to what x86-TSO keeps  *)
(* of the accesses: the first fence of a thread in a set without a first   *)
(* event follows an access, which the order leads past the fences.         *)
(***************************************************************************)
LEMMA FencesAddNothing ==
  ASSUME NEW s, IsTrace(s.events), Common(s),
         NEW all, Acyclic(s.events, TsoOrder(s.events) \cup all),
         \A a, b \in s.events : <<a, b>> \in all => IsMemory(a) /\ IsMemory(b)
  PROVE  Acyclic(s.events, TsoOrder(s.events) \cup Waits(s) \cup Ordered(s) \cup all)
<1> DEFINE E == s.events
           T == TsoOrder(E) \cup all
           H == TsoOrder(E) \cup Waits(s) \cup Ordered(s) \cup all
<1>1. ASSUME NEW a \in E, NEW b \in E, <<a, b>> \in H
      PROVE  \/ <<a, b>> \in T /\ IsMemory(a) /\ IsMemory(b)
             \/ Before(a, b) /\ (a.kind = "MFENCE" \/ b.kind = "MFENCE")
  <2>1. CASE <<a, b>> \in TsoOrder(E)
    BY <2>1 DEF TsoOrder, TsoEdge
  <2>2. CASE <<a, b>> \in Waits(s)
    <3>1. \A e \in E : e.kind \in {"LOAD", "STORE", "ATOMIC_RMW", "FUTEX_WAIT", "MFENCE"}
      BY DEF Common, IsMemory, IsRead, IsWrite
    <3> QED
      BY <2>2, <3>1 DEF Waits
  <2>3. CASE <<a, b>> \in Ordered(s)
    BY <2>3 DEF Ordered, Common
  <2>4. CASE <<a, b>> \in all
    BY <2>4
  <2> QED
    BY <1>1, <2>1, <2>2, <2>3, <2>4
<1>2. ASSUME NEW S \in SUBSET E, Headless(S, H) PROVE FALSE
  <2> DEFINE M == {b \in S : IsMemory(b)}
  <2>1. ASSUME NEW f \in S, f.kind = "MFENCE"
        PROVE  \E g \in S, d \in M : /\ g.kind = "MFENCE" /\ g.thread = f.thread /\ g.seq <= f.seq
                                     /\ Before(d, g)
    <3> DEFINE P == {g \in S : g.kind = "MFENCE" /\ g.thread = f.thread}
               N == {g.seq : g \in P}
    <3>1. N \in SUBSET Nat /\ f.seq \in N
      BY <2>1 DEF IsTrace
    <3>2. PICK n \in N : \A m \in N : n <= m
      <4> HIDE DEF N
      <4> QED
        BY <3>1, LeastNatural
    <3>3. PICK g \in P : n = g.seq
      OBVIOUS
    <3>4. PICK d \in S : <<d, g>> \in H
      BY <1>2 DEF Headless
    <3>5. g.kind = "MFENCE" /\ g \in E /\ d \in E /\ g \in S /\ g.thread = f.thread
      OBVIOUS
    <3>6. ~ IsMemory(g)
      BY <3>5 DEF IsMemory, IsRead, IsWrite
    <3>7. Before(d, g)
      <4> HIDE DEF H, T, P, E
      <4> QED
        BY <1>1, <3>4, <3>5, <3>6
    <3>8. d.kind # "MFENCE"
      <4> SUFFICES ASSUME d.kind = "MFENCE" PROVE FALSE
        OBVIOUS
      <4>1. d \in P /\ d.seq \in Nat /\ g.seq \in Nat /\ d.seq < g.seq
        BY <3>5, <3>7 DEF Before, IsTrace
      <4>2. g.seq <= d.seq
        BY <3>2, <3>3, <4>1
      <4> QED
        BY <4>1, <4>2
    <3>9. d \in M
      BY <3>5, <3>8 DEF Common
    <3>10. g.seq <= f.seq
      BY <3>1, <3>2, <3>3
    <3> QED
      BY <3>5, <3>7, <3>9, <3>10
  <2>2. ASSUME NEW b \in M PROVE \E c \in M : <<c, b>> \in T
    <3>1. PICK a \in S : <<a, b>> \in H
      BY <1>2 DEF Headless
    <3>2. a \in E /\ b \in E /\ IsMemory(b) /\ b.kind # "MFENCE"
      BY DEF IsMemory, IsRead, IsWrite
    <3>3. CASE <<a, b>> \in T /\ IsMemory(a)
      BY <3>3
    <3>4. CASE Before(a, b) /\ a.kind = "MFENCE"
      <4>1. PICK g \in S, d \in M : /\ g.kind = "MFENCE" /\ g.thread = a.thread /\ g.seq <= a.seq
                                    /\ Before(d, g)
        BY <2>1, <3>4
      <4>2. Before(g, b) /\ Before(d, b) /\ g \in E /\ d \in E /\ IsMemory(d)
        BY <3>2, <3>4, <4>1 DEF Before, IsTrace
      <4>3. Fenced(E, d, b)
        BY <4>1, <4>2 DEF Fenced
      <4>4. TsoEdge(E, d, b)
        BY <3>2, <4>2, <4>3 DEF TsoEdge
      <4> QED
        BY <3>2, <4>2, <4>4 DEF TsoOrder
    <3>5. \/ <<a, b>> \in T /\ IsMemory(a)
          \/ Before(a, b) /\ a.kind = "MFENCE"
      <4> HIDE DEF H, T
      <4> QED
        BY <1>1, <3>1, <3>2
    <3> QED
      BY <3>3, <3>4, <3>5
  <2>3. M # {}
    <3>1. PICK b \in S : TRUE
      BY <1>2 DEF Headless
    <3>2. CASE IsMemory(b)
      BY <3>2
    <3>3. CASE ~ IsMemory(b)
      <4>1. b.kind = "MFENCE"
        BY <3>3 DEF Common
      <4> QED
        BY <2>1, <4>1
    <3> QED
      BY <3>2, <3>3
  <2>4. M \in SUBSET E
    OBVIOUS
  <2> HIDE DEF M, T
  <2>5. Headless(M, T)
    BY <2>2, <2>3 DEF Headless
  <2> QED
    BY <2>4, <2>5, CyclicIffHeadless DEF T
<1> HIDE DEF H
<1>3. Acyclic(E, H)
  BY <1>2, CyclicIffHeadless
<1> QED
  BY <1>3 DEF H

(***************************************************************************)
(* On what both checkers can be given, an execution that tells the two     *)
(* formulas apart tells the relations of the dynamic checker apart.        *)
(***************************************************************************)
LEMMA SameCounterexamples ==
  ASSUME NEW s, Extracted(s), ~ UnsupportedSlice(s), Common(s), NEW x \in Assignments(s),
         Solves(s, "rvwmo", x), ~ Solves(s, "x86", x)
  PROVE  TargetOnly(s.events, Execution(s, x))
<1> DEFINE E == s.events
           e == Execution(s, x)
           G == FormulaEdges(s, "rvwmo", x)
           H == TargetOrder(E) \cup Communication(E, e)
<1>1. Acyclic(E, G) /\ e.co = x.co /\ AtomicsValid(E, e) /\ IsExecution(E, e) /\ IsTrace(E)
  BY ExecutionIs, TargetIsCoherent, ChoiceIsExecution, SliceFacts DEF Solves, FormulaEdges
<1>2. /\ FixedEdges(s, "rvwmo") \subseteq G /\ Reading(s, x) \subseteq G
      /\ x.co \subseteq G /\ Overwriting(s, x) \subseteq G
  BY DEF FormulaEdges
<1> HIDE DEF G
<1>3. \A a \in E : a.kind \in {"LOAD", "STORE", "ATOMIC_RMW", "MFENCE"}
  BY SliceFacts DEF Common, IsMemory, IsRead, IsWrite, Extracted
<1>4. ASSUME NEW a \in E, NEW b \in E, IsMemory(a), PureLoad(b), Before(a, b), Overlaps(a, b) PROVE FALSE
  <2>1. IsMemory(b)
    BY <1>4 DEF PureLoad, IsMemory
  <2> QED
    BY <1>4, <2>1, SliceFacts DEF Common
<1>5. ASSUME NEW a \in E, NEW b \in E, <<a, b>> \in H PROVE <<a, b>> \in G
  <2>1. CASE <<a, b>> \in Communication(E, e)
    BY <1>1, <1>2, <2>1, SameEdges DEF Communication, Adjacent
  <2>2. CASE BoundaryEdge(a, b)
    <3>1. \/ IsMemory(b) /\ a.kind \in {"MFENCE", "ATOMIC_RMW"}
          \/ IsMemory(a) /\ b.kind \in {"MFENCE", "ATOMIC_RMW"}
      BY <1>3, <2>2 DEF BoundaryEdge, Bounds
    <3> QED
      BY <1>2, <2>2, <3>1, TargetKeeps DEF BoundaryEdge, Acquires, Releases
  <2>3. CASE IsWrite(b) /\ IsMemory(a) /\ Before(a, b) /\ Overlaps(a, b)
    BY <1>2, <2>3, TargetKeeps DEF IsMemory
  <2>4. CASE IsRead(b) /\ a \in NearestOwnStore(E, b)
    <3>1. IsMemory(a) /\ IsMemory(b) /\ Before(a, b) /\ Overlaps(a, b)
      BY <2>4 DEF NearestOwnStore, Nearest, Writes, IsMemory
    <3> QED
      BY <1>2, <3>1, TargetKeeps
  <2> QED
    BY <1>5, <2>1, <2>2, <2>3, <2>4 DEF TargetOrder, TargetEdge
<1>6. TargetAccepts(E, e)
  <2>1. Acyclic(E, H)
    <3> HIDE DEF H
    <3> QED
      BY <1>1, <1>5, FewerPairs
  <2> QED
    BY <2>1 DEF TargetAccepts
<1>7. ASSUME SourceAccepts(E, e) PROVE FALSE
  <2>1. TsoAllows(E, e)
    BY <1>1, <1>7, SourceInsideTso
  <2>2. \A a, b \in E : <<a, b>> \in AllCommunication(E, e) => IsMemory(a) /\ IsMemory(b)
    BY <1>1, CommunicationFacts
  <2>3. SourceAllows(s, x)
    BY <1>1, <2>1, <2>2, FencesAddNothing DEF SourceAllows, TsoAllows
  <2>4. ~ Forwards(s)
    <3> SUFFICES ASSUME NEW w \in E, NEW r \in E, PureStore(w), PureLoad(r), Before(w, r), SameObject(w, r)
                 PROVE  FALSE
      BY DEF Forwards
    <3>1. IsMemory(w) /\ IsMemory(r)
      BY DEF PureStore, PureLoad, IsMemory
    <3>2. Overlaps(w, r)
      BY <3>1, SliceFacts
    <3> QED
      BY <1>4, <3>1, <3>2
  <2>5. ~ LightFences(s) /\ ~ \E a \in s.events : a.kind = "BARRIER"
    BY <1>3 DEF LightFences
  <2> QED
    BY <2>3, <2>4, <2>5, SourceSolves
<1> QED
  BY <1>1, <1>6, <1>7 DEF TargetOnly

(***************************************************************************)
(* And the other way: what tells the relations apart is an assignment that *)
(* tells the formulas apart.                                               *)
(***************************************************************************)
LEMMA SameExhaustion ==
  ASSUME NEW s, Extracted(s), ~ UnsupportedSlice(s), Common(s),
         NEW x \in Executions(s.events), TargetOnly(s.events, x)
  PROVE  \E y \in Assignments(s) : Solves(s, "rvwmo", y) /\ ~ Solves(s, "x86", y)
<1> DEFINE E == s.events
           W == Writes(E)
           y == [rf |-> [r \in Reads(E) |-> x.rf[Whole(r)]], co |-> x.co]
<1>1. IsTrace(E) /\ IsExecution(E, x) /\ x.co \in CoherenceOrders(E)
  BY SliceFacts, ExecutionsAre DEF IsExecution
<1>2. ReadParts(E) = {Whole(r) : r \in Reads(E)} /\ \A r : Whole(r).read = r
  <2>1. ReadParts(E) = {Whole(r) : r \in Reads(E)}
    BY ExecutionIs
  <2> QED
    BY <2>1 DEF Whole
<1>3. \A a, b \in W : a \in E /\ b \in E /\ (Overlaps(a, b) <=> SameObject(a, b))
  BY SliceFacts DEF Writes, IsMemory
<1>4. ASSUME NEW r \in Reads(E), x.rf[Whole(r)] # Initial
      PROVE  /\ x.rf[Whole(r)] \in StoresOf(s, r)
             /\ x.rf[Whole(r)].thread = r.thread => Before(x.rf[Whole(r)], r)
  <2> DEFINE w == x.rf[Whole(r)]
  <2>1. Whole(r) \in ReadParts(E) /\ Whole(r).read = r
    BY <1>2
  <2>2. w \in W /\ Overlaps(w, r) /\ (w.thread = r.thread => Before(w, r))
    BY <1>1, <1>4, <2>1, SourceFacts
  <2>3. w # r
    BY <1>1, <2>2 DEF Before, IsTrace, Reads
  <2>4. SameObject(w, r)
    BY <2>2, SliceFacts DEF Writes, Reads, IsMemory
  <2> QED
    BY <2>2, <2>3, <2>4 DEF StoresOf
<1>5. y \in Assignments(s)
  <2>1. y.rf \in {f \in [Reads(E) -> W \cup {Initial}] :
                   \A r \in Reads(E) : f[r] \in StoresOf(s, r) \cup {Initial}}
    BY <1>4 DEF StoresOf
  <2> DEFINE pairs == {p \in W \X W : p[1] # p[2] /\ SameObject(p[1], p[2])}
             over == {p \in W \X W : p[1] # p[2] /\ Overlaps(p[1], p[2])}
  <2>2. pairs = over
    BY <1>3
  <2>3. x.co \in SUBSET over /\ \A p \in over : p \in x.co <=> <<p[2], p[1]>> \notin x.co
    BY <1>1 DEF CoherenceOrders
  <2>4. y.co \in {c \in SUBSET pairs : \A p \in pairs : p \in c <=> <<p[2], p[1]>> \notin c}
    <3> HIDE DEF pairs, over
    <3> QED
      BY <2>2, <2>3
  <2> HIDE DEF W
  <2> QED
    BY <2>1, <2>4 DEF Assignments, W
<1>6. Execution(s, y) = x
  <2>1. /\ x = [rf |-> x.rf, co |-> x.co]
        /\ x.rf = [p \in ReadParts(E) |-> x.rf[p]]
    BY DEF Executions, ReadFroms
  <2>2. \A p \in ReadParts(E) : y.rf[p.read] = x.rf[p]
    BY <1>2
  <2>3. [p \in ReadParts(E) |-> y.rf[p.read]] = [p \in ReadParts(E) |-> x.rf[p]]
    <3> HIDE DEF y
    <3> QED
      BY <2>2
  <2>4. Execution(s, y) = [rf |-> [p \in ReadParts(E) |-> y.rf[p.read]], co |-> y.co]
    BY DEF Execution
  <2>5. y.co = x.co
    OBVIOUS
  <2> HIDE DEF y
  <2> QED
    BY <2>1, <2>3, <2>4, <2>5
<1>7. y.co = x.co
  OBVIOUS
<1>8. \A r \in Reads(E) : y.rf[r] = x.rf[Whole(r)]
  OBVIOUS
<1> HIDE DEF y
<1>9. \A a \in E : a.kind \in {"LOAD", "STORE", "ATOMIC_RMW", "MFENCE"}
  BY SliceFacts DEF Common, IsMemory, IsRead, IsWrite, Extracted
<1>10. ASSUME NEW a \in E, NEW b \in E, IsMemory(a), IsMemory(b), Before(a, b), Overlaps(a, b)
       PROVE  IsWrite(b)
  <2>1. ~ PureLoad(b)
    BY <1>10, SliceFacts DEF Common
  <2> QED
    BY <1>10, <2>1 DEF PureLoad, IsMemory
<1> DEFINE all == AllCommunication(E, x)
           G == FormulaEdges(s, "rvwmo", y)
           H == FormulaEdges(s, "x86", y)
<1>11. ASSUME NEW a \in E, NEW b \in E, <<a, b>> \in G PROVE <<a, b>> \in TargetOrder(E) \cup all
  <2>1. CASE <<a, b>> \in FixedEdges(s, "rvwmo")
    <3>1. /\ Before(a, b)
          /\ OrdersBefore(Strength(b, "rvwmo"), a) \/ OrdersAfter(Strength(a, "rvwmo"), b) \/ RvwmoKeeps(a, b)
      BY <2>1, FixedEdgesAre DEF Common
    <3>2. CASE OrdersBefore(Strength(b, "rvwmo"), a)
      <4>1. IsMemory(a) /\ b.kind \in {"MFENCE", "ATOMIC_RMW"}
        BY <1>9, <3>2, StrengthFacts DEF OrdersBefore
      <4> QED
        BY <3>1, <4>1 DEF TargetOrder, TargetEdge, BoundaryEdge, Bounds
    <3>3. CASE OrdersAfter(Strength(a, "rvwmo"), b)
      <4>1. IsMemory(b) /\ a.kind \in {"MFENCE", "ATOMIC_RMW"}
        BY <1>9, <3>3, StrengthFacts DEF OrdersAfter
      <4> QED
        BY <3>1, <4>1 DEF TargetOrder, TargetEdge, BoundaryEdge, Bounds
    <3>4. CASE RvwmoKeeps(a, b)
      <4>1. IsMemory(a) /\ IsMemory(b) /\ SameObject(a, b)
        BY <3>1, <3>4 DEF RvwmoKeeps, Common
      <4>2. Overlaps(a, b) /\ IsWrite(b)
        BY <1>10, <3>1, <4>1, SliceFacts
      <4> QED
        BY <3>1, <4>1, <4>2 DEF TargetOrder, TargetEdge
    <3> QED
      BY <3>1, <3>2, <3>3, <3>4
  <2>2. CASE <<a, b>> \in Reading(s, y)
    <3>1. b \in Reads(E) /\ y.rf[b] # Initial /\ a = y.rf[b]
      BY <2>2 DEF Reading
    <3>2. a \in StoresOf(s, b) /\ (a.thread = b.thread => Before(a, b))
      BY <1>4, <1>8, <3>1
    <3>3. CASE a.thread # b.thread
      BY <1>5, <1>6, <2>2, <3>3, SameEdges DEF AllCommunication
    <3>4. CASE Before(a, b)
      <4>1. IsMemory(a) /\ IsMemory(b) /\ SameObject(a, b)
        BY <3>1, <3>2 DEF StoresOf, Writes, Reads, IsMemory
      <4>2. Overlaps(a, b) /\ IsWrite(b)
        BY <1>10, <3>4, <4>1, SliceFacts
      <4> QED
        BY <3>4, <4>1, <4>2 DEF TargetOrder, TargetEdge
    <3> QED
      BY <3>2, <3>3, <3>4
  <2>3. CASE <<a, b>> \in y.co
    BY <1>7, <2>3 DEF AllCommunication
  <2>4. CASE <<a, b>> \in Overwriting(s, y)
    BY <1>5, <1>6, <2>4, SameEdges DEF AllCommunication
  <2> QED
    BY <1>11, <2>1, <2>2, <2>3, <2>4 DEF FormulaEdges
<1>12. Solves(s, "rvwmo", y)
  <2>1. Acyclic(E, TargetOrder(E) \cup all)
    BY <1>1, AllOrAdjacent DEF TargetOnly, TargetAccepts
  <2>2. Acyclic(E, G)
    <3> HIDE DEF G, all
    <3> QED
      BY <1>11, <2>1, FewerPairs
  <2>3. AtomicAdjacent(s, y)
    <3> SUFFICES ASSUME NEW r \in Reads(E), IsAtomic(r), y.rf[r] # Initial, NEW w \in StoresOf(s, r),
                        <<y.rf[r], w>> \in y.co, <<w, r>> \in y.co
                 PROVE  FALSE
      BY DEF AtomicAdjacent
    <3>1. AtomicsValid(E, Execution(s, y))
      BY <1>6 DEF TargetOnly
    <3>2. {v \in Writes(E) : <<v, r>> \in Adjacent(y.co)} = {y.rf[r]} \ {Initial}
      BY <3>1, AtomicFacts
    <3>3. <<y.rf[r], r>> \in Adjacent(y.co)
      BY <3>2
    <3>4. w \in {p[2] : p \in y.co}
      OBVIOUS
    <3> QED
      BY <3>3, <3>4 DEF Adjacent
  <2> QED
    BY <2>2, <2>3 DEF Solves, FormulaEdges
<1>13. ASSUME NEW a \in E, NEW b \in E, <<a, b>> \in SourceOrder(E) \cup Communication(E, x)
       PROVE  <<a, b>> \in H
  <2>1. CASE <<a, b>> \in Communication(E, x)
    BY <1>5, <1>6, <1>7, <2>1, SameEdges DEF Communication, Adjacent, FormulaEdges
  <2>2. CASE SourceEdge(E, a, b)
    <3>1. Before(a, b)
      BY <2>2 DEF SourceEdge, BoundaryEdge, NearestOwnStore, Nearest
    <3>2. X86Keeps(a, b)
      <4>1. CASE BoundaryEdge(a, b)
        BY <1>9, <4>1 DEF BoundaryEdge, Bounds, X86Keeps, PureStore, PureLoad, IsMemory, IsRead, IsWrite
      <4>2. CASE IsMemory(b) /\ a \in Nearest(Reads(E), b)
        BY <4>2 DEF Nearest, Reads, X86Keeps, PureStore
      <4>3. CASE IsWrite(b) /\ a \in Nearest(Writes(E), b)
        BY <4>3 DEF X86Keeps, PureLoad
      <4>4. CASE IsRead(b) /\ a \in NearestOwnStore(E, b)
        <5>1. IsMemory(a) /\ IsMemory(b) /\ Overlaps(a, b)
          BY <4>4 DEF NearestOwnStore, Nearest, Writes, IsMemory
        <5>2. IsWrite(b)
          BY <1>10, <3>1, <5>1
        <5> QED
          BY <5>2 DEF X86Keeps, PureLoad
      <4> QED
        BY <2>2, <4>1, <4>2, <4>3, <4>4 DEF SourceEdge
    <3> QED
      BY <3>1, <3>2, FixedEdgesAre DEF FormulaEdges
  <2> QED
    BY <1>13, <2>1, <2>2 DEF SourceOrder
<1>14. ASSUME Solves(s, "x86", y) PROVE FALSE
  <2>1. Acyclic(E, H)
    BY <1>14 DEF Solves, FormulaEdges
  <2>2. Acyclic(E, SourceOrder(E) \cup Communication(E, x))
    <3> HIDE DEF H
    <3> QED
      BY <1>13, <2>1, FewerPairs
  <2> QED
    BY <2>2 DEF SourceAccepts, TargetOnly
<1> QED
  BY <1>5, <1>12, <1>14

-----------------------------------------------------------------------------
(* risk.py: a window it reports is one the checker cannot exhaust.           *)

\* Each event has a turn; events of one turn are of one thread.
TurnsOfThreads(s, turn) ==
  /\ turn \in [s.events -> Nat]
  /\ \A a, b \in s.events : turn[a] = turn[b] => a.thread = b.thread

\* The interleaving that takes the threads by turn.
Sooner(turn, a, b) == turn[a] < turn[b] \/ (turn[a] = turn[b] /\ a.seq < b.seq)

\* Stores reach memory in the order of the interleaving, and a load reads the
\* last one before it.
FollowsTurns(s, turn, x) ==
  /\ \A a, b \in Writes(s.events) : SameObject(a, b) => (<<a, b>> \in x.co <=> Sooner(turn, a, b))
  /\ \A r \in Reads(s.events) :
       /\ x.rf[r] = Initial => \A w \in StoresOf(s, r) : ~ Sooner(turn, w, r)
       /\ x.rf[r] # Initial =>
            /\ x.rf[r] \in StoresOf(s, r) /\ Sooner(turn, x.rf[r], r)
            /\ \A w \in StoresOf(s, r) : Sooner(turn, w, r) => w = x.rf[r] \/ Sooner(turn, w, x.rf[r])

(***************************************************************************)
(* The threads of a finite set of events can be numbered.                  *)
(***************************************************************************)
LEMMA ThreadsNumbered ==
  ASSUME NEW E, IsFiniteSet(E)
  PROVE  \E n \in Nat : \E number \in [E -> 1 .. n] :
           \A a, b \in E : number[a] = number[b] <=> a.thread = b.thread
<1>1. PICK q \in Seq(E) : \A e \in E : \E k \in 1 .. Len(q) : q[k] = e
  BY DEF IsFiniteSet
<1> DEFINE n == Len(q)
           Of(t) == CHOOSE k \in 1 .. n : q[k].thread = t
           number == [e \in E |-> Of(e.thread)]
<1>2. n \in Nat
  OBVIOUS
<1>3. ASSUME NEW e \in E PROVE Of(e.thread) \in 1 .. n /\ q[Of(e.thread)].thread = e.thread
  <2>1. \E k \in 1 .. n : q[k].thread = e.thread
    BY <1>1
  <2> QED
    BY <2>1
<1> HIDE DEF n, Of
<1>4. number \in [E -> 1 .. n]
  BY <1>3
<1>5. ASSUME NEW a \in E, NEW b \in E PROVE number[a] = number[b] <=> a.thread = b.thread
  BY <1>3
<1> QED
  BY <1>2, <1>4, <1>5

(***************************************************************************)
(* The interleaving is a strict order of the events.                       *)
(***************************************************************************)
LEMMA TurnsAreOrder ==
  ASSUME NEW s, IsTrace(s.events), NEW turn, TurnsOfThreads(s, turn)
  PROVE  /\ \A a \in s.events : ~ Sooner(turn, a, a)
         /\ \A a, b \in s.events : a # b => Sooner(turn, a, b) \/ Sooner(turn, b, a)
         /\ \A a, b, c \in s.events : Sooner(turn, a, b) /\ Sooner(turn, b, c) => Sooner(turn, a, c)
         /\ \A a, b \in s.events : Sooner(turn, a, b) => ~ Sooner(turn, b, a)
<1>1. \A a \in s.events : turn[a] \in Nat /\ a.seq \in Nat
  BY DEF TurnsOfThreads, IsTrace
<1>2. \A a, b \in s.events : turn[a] = turn[b] /\ a.seq = b.seq => a = b
  BY DEF TurnsOfThreads, IsTrace
<1>3. \A a \in s.events : ~ Sooner(turn, a, a)
  BY <1>1 DEF Sooner
<1>4. \A a, b \in s.events : a # b => Sooner(turn, a, b) \/ Sooner(turn, b, a)
  BY <1>1, <1>2 DEF Sooner
<1>5. \A a, b, c \in s.events : Sooner(turn, a, b) /\ Sooner(turn, b, c) => Sooner(turn, a, c)
  BY <1>1 DEF Sooner
<1>6. \A a, b \in s.events : Sooner(turn, a, b) => ~ Sooner(turn, b, a)
  BY <1>1 DEF Sooner
<1> QED
  BY <1>3, <1>4, <1>5, <1>6

(***************************************************************************)
(* An interleaving that goes along every edge that the target keeps is an  *)
(* execution that the target accepts.                                      *)
(***************************************************************************)
LEMMA InterleavingSolves ==
  ASSUME NEW s, Extracted(s), ~ UnsupportedSlice(s), Initial \notin s.events,
         NEW turn, TurnsOfThreads(s, turn),
         \A a, b \in s.events : <<a, b>> \in FixedEdges(s, "rvwmo") => Sooner(turn, a, b)
  PROVE  \E x \in Assignments(s) : Solves(s, "rvwmo", x) /\ FollowsTurns(s, turn, x)
<1> DEFINE E == s.events
           W == Writes(E)
           Earlier(r) == {w \in StoresOf(s, r) : Sooner(turn, w, r)}
           LastOf(r) == CHOOSE l \in Earlier(r) : \A w \in Earlier(r) : ~ Sooner(turn, l, w)
           co == {p \in W \X W : SameObject(p[1], p[2]) /\ Sooner(turn, p[1], p[2])}
           rf == [r \in Reads(E) |-> IF Earlier(r) = {} THEN Initial ELSE LastOf(r)]
           x == [rf |-> rf, co |-> co]
<1>1. IsTrace(E) /\ IsFiniteSet(E) /\ W \subseteq E /\ Reads(E) \subseteq E
  BY DEF Extracted, Writes, Reads
<1>2. /\ \A a \in E : ~ Sooner(turn, a, a)
      /\ \A a, b \in E : a # b => Sooner(turn, a, b) \/ Sooner(turn, b, a)
      /\ \A a, b, c \in E : Sooner(turn, a, b) /\ Sooner(turn, b, c) => Sooner(turn, a, c)
      /\ \A a, b \in E : Sooner(turn, a, b) => ~ Sooner(turn, b, a)
  BY <1>1, TurnsAreOrder
<1>3. ASSUME NEW r \in Reads(E), Earlier(r) # {}
      PROVE  /\ LastOf(r) \in StoresOf(s, r) /\ Sooner(turn, LastOf(r), r) /\ LastOf(r) # Initial
             /\ \A w \in Earlier(r) : w = LastOf(r) \/ Sooner(turn, w, LastOf(r))
  <2>1. Earlier(r) \subseteq E
    BY <1>1 DEF StoresOf
  <2> DEFINE S == Earlier(r)
             before == {p \in E \X E : Sooner(turn, p[1], p[2])}
  <2>2. \A a, b \in S : <<a, b>> \in before <=> Sooner(turn, a, b)
    BY <2>1
  <2>3. IsFiniteSet(S)
    BY <1>1, <2>1, FS_Subset
  <2>4. /\ \A a \in S : <<a, a>> \notin before
        /\ \A a, b, c \in S : <<a, b>> \in before /\ <<b, c>> \in before => <<a, c>> \in before
    <3> HIDE DEF S, before
    <3> QED
      BY <1>2, <2>1, <2>2 DEF S
  <2>5. \E l \in S : \A w \in S : <<l, w>> \notin before
    <3> HIDE DEF S, before
    <3> QED
      BY <1>3, <2>3, <2>4, FiniteHasLast DEF S
  <2>6. \E l \in Earlier(r) : \A w \in Earlier(r) : ~ Sooner(turn, l, w)
    <3> HIDE DEF before
    <3> QED
      BY <2>2, <2>5
  <2>7. LastOf(r) \in Earlier(r) /\ \A w \in Earlier(r) : ~ Sooner(turn, LastOf(r), w)
    <3> HIDE DEF Earlier
    <3> QED
      BY <2>6
  <2> HIDE DEF LastOf
  <2> QED
    BY <1>2, <2>1, <2>7
<1>4. x.co = co /\ x.rf \in [Reads(E) -> W \cup {Initial}]
      /\ \A r \in Reads(E) : x.rf[r] = IF Earlier(r) = {} THEN Initial ELSE LastOf(r)
  <2>1. \A r \in Reads(E) : rf[r] \in W \cup {Initial}
    <3> HIDE DEF LastOf
    <3> QED
      BY <1>3 DEF StoresOf
  <2> QED
    BY <2>1
<1>5. \A a, b : <<a, b>> \in co <=> a \in W /\ b \in W /\ SameObject(a, b) /\ Sooner(turn, a, b)
  OBVIOUS
<1> HIDE DEF x, rf, LastOf
<1>6. x \in Assignments(s)
  <2> DEFINE pairs == {p \in W \X W : p[1] # p[2] /\ SameObject(p[1], p[2])}
  <2>1. \A r \in Reads(E) : x.rf[r] \in StoresOf(s, r) \cup {Initial}
    BY <1>3, <1>4
  <2>2. co \in SUBSET pairs
    BY <1>1, <1>2
  <2>3. ASSUME NEW p \in pairs PROVE p \in co <=> <<p[2], p[1]>> \notin co
    <3>1. p = <<p[1], p[2]>> /\ p[1] \in W /\ p[2] \in W /\ p[1] # p[2] /\ SameObject(p[1], p[2])
      OBVIOUS
    <3>2. SameObject(p[2], p[1]) /\ p[1] \in E /\ p[2] \in E
      BY <1>1, <3>1 DEF SameObject
    <3> HIDE DEF co, W
    <3> QED
      BY <1>2, <1>5, <3>1, <3>2
  <2>4. x = [rf |-> x.rf, co |-> x.co]
    BY DEF x
  <2>5. x.rf \in {f \in [Reads(E) -> W \cup {Initial}] :
                   \A r \in Reads(E) : f[r] \in StoresOf(s, r) \cup {Initial}}
    BY <1>4, <2>1
  <2>6. x.co \in {c \in SUBSET pairs : \A p \in pairs : p \in c <=> <<p[2], p[1]>> \notin c}
    <3> HIDE DEF pairs, co
    <3> QED
      BY <1>4, <2>2, <2>3
  <2> HIDE DEF W, co
  <2> QED
    BY <2>4, <2>5, <2>6 DEF Assignments, W
<1>7. FollowsTurns(s, turn, x)
  <2>1. ASSUME NEW r \in Reads(E), x.rf[r] = Initial PROVE Earlier(r) = {}
    BY <1>3, <1>4, <2>1
  <2>2. ASSUME NEW r \in Reads(E), x.rf[r] # Initial
        PROVE  Earlier(r) # {} /\ x.rf[r] = LastOf(r)
    BY <1>4, <2>2
  <2>3. \A a, b \in W : SameObject(a, b) => (<<a, b>> \in x.co <=> Sooner(turn, a, b))
    BY <1>4, <1>5
  <2> QED
    BY <1>3, <2>1, <2>2, <2>3 DEF FollowsTurns
<1>8. AtomicAdjacent(s, x)
  <2> SUFFICES ASSUME NEW r \in Reads(E), x.rf[r] # Initial, NEW w \in StoresOf(s, r),
                      <<x.rf[r], w>> \in x.co, <<w, r>> \in x.co
               PROVE  FALSE
    BY DEF AtomicAdjacent
  <2>1. Sooner(turn, x.rf[r], w) /\ Sooner(turn, w, r) /\ w \in E /\ x.rf[r] \in E
    BY <1>1, <1>4, <1>5
  <2>2. w = x.rf[r] \/ Sooner(turn, w, x.rf[r])
    BY <1>7, <2>1 DEF FollowsTurns
  <2> QED
    BY <1>2, <2>1, <2>2
<1> DEFINE G == FormulaEdges(s, "rvwmo", x)
<1>9. ASSUME NEW a \in E, NEW b \in E, <<a, b>> \in G PROVE Sooner(turn, a, b)
  <2>1. CASE <<a, b>> \in FixedEdges(s, "rvwmo")
    BY <2>1
  <2>2. CASE <<a, b>> \in Reading(s, x)
    <3>1. b \in Reads(E) /\ x.rf[b] # Initial /\ a = x.rf[b]
      BY <2>2 DEF Reading
    <3> QED
      BY <1>7, <3>1 DEF FollowsTurns
  <2>3. CASE <<a, b>> \in x.co
    BY <1>4, <1>5, <2>3
  <2>4. CASE <<a, b>> \in Overwriting(s, x)
    <3>1. a \in Reads(E) /\ b \in StoresOf(s, a) /\ (x.rf[a] = Initial \/ <<x.rf[a], b>> \in x.co)
      BY <1>6, <2>4, SameEdges
    <3>2. b # a
      BY <3>1 DEF StoresOf
    <3>3. ~ Sooner(turn, b, a)
      <4>1. CASE x.rf[a] = Initial
        BY <1>7, <3>1, <4>1 DEF FollowsTurns
      <4>2. CASE x.rf[a] # Initial
        <5>1. Sooner(turn, x.rf[a], b) /\ x.rf[a] \in E
          BY <1>1, <1>4, <1>5, <3>1, <4>2
        <5>2. Sooner(turn, b, a) => b = x.rf[a] \/ Sooner(turn, b, x.rf[a])
          BY <1>7, <3>1, <4>2 DEF FollowsTurns
        <5> QED
          BY <1>2, <5>1, <5>2
      <4> QED
        BY <4>1, <4>2
    <3> QED
      BY <1>2, <3>2, <3>3
  <2> QED
    BY <1>9, <2>1, <2>2, <2>3, <2>4 DEF FormulaEdges
<1>10. Acyclic(E, G)
  <2> SUFFICES ASSUME NEW S \in SUBSET E, S # {} PROVE \E b \in S : \A a \in S : <<a, b>> \notin G
    BY DEF Acyclic
  <2> DEFINE later == {p \in E \X E : Sooner(turn, p[2], p[1])}
  <2>1. \A a, b \in S : <<a, b>> \in later <=> Sooner(turn, b, a)
    OBVIOUS
  <2>2. IsFiniteSet(S)
    BY <1>1, FS_Subset
  <2> HIDE DEF later
  <2>3. /\ \A a \in S : <<a, a>> \notin later
        /\ \A a, b, c \in S : <<a, b>> \in later /\ <<b, c>> \in later => <<a, c>> \in later
    BY <1>2, <2>1
  <2>4. PICK b \in S : \A a \in S : <<b, a>> \notin later
    BY <2>2, <2>3, FiniteHasLast
  <2> HIDE DEF G
  <2> QED
    BY <1>9, <2>1, <2>4
<1> QED
  BY <1>6, <1>7, <1>8, <1>10 DEF Solves, FormulaEdges

(***************************************************************************)
(* The interleaving that runs the writer between the two loads of the      *)
(* reader: first the other threads, then what the reader does before the   *)
(* flag and to the payload, the writer, and the rest of the reader.  The   *)
(* target keeps nothing that goes the other way; on x86 the stores and the *)
(* loads close a cycle.                                                    *)
(***************************************************************************)
LEMMA WindowIsWeak ==
  ASSUME NEW s, Extracted(s), ~ UnsupportedSlice(s), Initial \notin s.events,
         s.sync = {}, \A e \in s.events : e.deps = {},
         NEW p \in PublicationRisks(s), Apart(s, p)
  PROVE  \E x \in Assignments(s) : Solves(s, "rvwmo", x) /\ ~ Solves(s, "x86", x)
<1> DEFINE E == s.events
           w1 == p[1][1]
           w2 == p[1][2]
           r1 == p[2][1]
           r2 == p[2][2]
<1>1. Closure(s) = {q \in E \X E : Before(q[1], q[2])}
  BY ClosureIsOrder
<1>2. /\ w1 \in E /\ w2 \in E /\ PureStore(w1) /\ PureStore(w2) /\ Before(w1, w2)
      /\ r1 \in E /\ r2 \in E /\ PureLoad(r1) /\ PureLoad(r2) /\ Before(r1, r2)
      /\ w1.thread # r1.thread /\ SameObject(w1, r2) /\ SameObject(w2, r1) /\ ~ SameObject(r1, r2)
      /\ \A e \in E : Before(r1, e) /\ Before(e, r2) => e.kind \notin RiskBarriers
  <2>1. /\ p[1] \in Unblocked(s, {e \in E : PureStore(e)})
        /\ p[2] \in Unblocked(s, {e \in E : PureLoad(e)})
        /\ w1.thread # r1.thread /\ SameObject(w1, r2) /\ SameObject(w2, r1)
    BY DEF PublicationRisks
  <2>2. w1 \in E /\ w2 \in E /\ PureStore(w1) /\ PureStore(w2) /\ Before(w1, w2)
    BY <1>1, <2>1 DEF Unblocked
  <2>3. r1 \in E /\ r2 \in E /\ PureLoad(r1) /\ PureLoad(r2) /\ Before(r1, r2) /\ ~ SameObject(r1, r2)
    BY <1>1, <2>1 DEF Unblocked
  <2>4. ASSUME NEW e \in E, Before(r1, e), Before(e, r2) PROVE e.kind \notin RiskBarriers
    <3>1. <<r1, e>> \in Closure(s) /\ <<e, r2>> \in Closure(s)
      BY <1>1, <2>3, <2>4
    <3> QED
      BY <2>1, <3>1 DEF Unblocked
  <2> QED
    BY <2>1, <2>2, <2>3, <2>4
<1>3. \A e \in E : Before(r1, e) /\ Before(e, r2) =>
        e.kind \notin {"CREATE", "JOIN"} /\ (IsWrite(e) /\ SameObject(e, r2) => e.whole)
  BY DEF Apart
<1> HIDE DEF w1, w2, r1, r2
<1>4. IsTrace(E)
  BY SliceFacts
<1>17. PICK n \in Nat : \E number \in [E -> 1 .. n] :
         \A a, b \in E : number[a] = number[b] <=> a.thread = b.thread
  BY ThreadsNumbered DEF Extracted
<1>5. PICK number \in [E -> 1 .. n] : \A a, b \in E : number[a] = number[b] <=> a.thread = b.thread
  BY <1>17
<1> DEFINE Early(e) == Before(e, r1) \/ (IsMemory(e) /\ SameObject(e, r2) /\ (e = r2 \/ Before(e, r2)))
           turn == [e \in E |-> IF e.thread = w1.thread THEN n + 2
                                ELSE IF e.thread # r1.thread THEN number[e]
                                ELSE IF Early(e) THEN n + 1 ELSE n + 3]
<1>6. \A e \in E : turn[e] = IF e.thread = w1.thread THEN n + 2
                             ELSE IF e.thread # r1.thread THEN number[e]
                             ELSE IF Early(e) THEN n + 1 ELSE n + 3
  OBVIOUS
<1>7. TurnsOfThreads(s, turn)
  <2>1. turn \in [E -> Nat]
    <3>1. \A e \in E : number[e] \in Nat
      BY <1>5
    <3> HIDE DEF Early
    <3> QED
      BY <1>5, <3>1
  <2>2. ASSUME NEW a \in E, NEW b \in E, turn[a] = turn[b] PROVE a.thread = b.thread
    <3>1. number[a] \in 1 .. n /\ number[b] \in 1 .. n
      BY <1>5
    <3> HIDE DEF turn, Early
    <3> QED
      BY <1>5, <1>6, <2>2, <3>1
  <2> QED
    BY <2>1, <2>2 DEF TurnsOfThreads
<1> HIDE DEF turn
<1>8. ASSUME NEW e \in E, e = r1 \/ (Before(r1, e) /\ Before(e, r2)) \/ e = r2
      PROVE  /\ e.kind \in {"LOAD", "STORE"}
             /\ Strength(e, "rvwmo") = "Relaxed"
  <2>1. e.kind \in {"LOAD", "STORE"}
    <3>1. CASE e = r1 \/ e = r2
      BY <1>2, <1>8, <3>1, SliceFacts DEF PureLoad, IsRead, IsWrite, SyncKinds
    <3>2. CASE Before(r1, e) /\ Before(e, r2)
      BY <1>2, <1>3, <3>2, SliceFacts DEF RiskBarriers, SyncKinds
    <3> QED
      BY <1>8, <3>1, <3>2
  <2> QED
    BY <2>1, StrengthFacts
<1>9. ASSUME NEW a \in E, NEW b \in E, <<a, b>> \in FixedEdges(s, "rvwmo") PROVE Sooner(turn, a, b)
  <2>1. /\ Before(a, b)
        /\ OrdersBefore(Strength(b, "rvwmo"), a) \/ OrdersAfter(Strength(a, "rvwmo"), b) \/ RvwmoKeeps(a, b)
    BY <1>9, FixedEdgesAre
  <2>2. a.thread = b.thread /\ a.seq < b.seq
    BY <2>1 DEF Before
  <2>3. number[a] = number[b]
    BY <1>5, <2>2
  <2>4. ASSUME a.thread = r1.thread, Early(b) PROVE Early(a)
    <3>1. a.seq \in Nat /\ b.seq \in Nat /\ r1.seq \in Nat /\ r2.seq \in Nat
      BY <1>2, <1>4 DEF IsTrace
    <3>2. CASE Before(a, r1)
      BY <3>2
    <3>3. CASE Before(b, r1)
      BY <2>2, <3>1, <3>3 DEF Before
    <3>4. CASE ~ Before(a, r1) /\ ~ Before(b, r1)
      <4>1. IsMemory(b) /\ SameObject(b, r2) /\ (b = r2 \/ Before(b, r2))
        BY <2>4, <3>4
      <4>2. Before(a, r2)
        BY <2>1, <3>1, <4>1 DEF Before
      <4>3. a = r1 \/ Before(r1, a)
        BY <1>2, <1>4, <2>4, <3>1, <3>4 DEF Before, IsTrace
      <4>4. Before(r1, b)
        BY <2>1, <3>1, <4>3 DEF Before
      <4>5. Strength(a, "rvwmo") = "Relaxed" /\ Strength(b, "rvwmo") = "Relaxed"
        BY <1>8, <4>1, <4>2, <4>3, <4>4
      <4>6. RvwmoKeeps(a, b)
        BY <2>1, <4>5 DEF OrdersBefore, OrdersAfter
      <4>7. IsWrite(b) => b.whole
        <5>1. IsWrite(b) => b # r2
          BY <1>2 DEF PureLoad
        <5> QED
          BY <1>3, <4>1, <4>4, <5>1
      <4>8. IsMemory(a) /\ SameObject(a, b)
        BY <4>6, <4>7 DEF RvwmoKeeps
      <4>9. SameObject(a, r2)
        BY <4>1, <4>8 DEF SameObject
      <4> QED
        BY <4>2, <4>8, <4>9
    <3> QED
      BY <3>2, <3>3, <3>4
  <2>5. turn[a] = turn[b] \/ (turn[a] = n + 1 /\ turn[b] = n + 3)
    <3> HIDE DEF Early
    <3> QED
      BY <1>6, <2>2, <2>3, <2>4
  <2> QED
    BY <2>2, <2>5 DEF Sooner
<1>10. PICK x \in Assignments(s) : Solves(s, "rvwmo", x) /\ FollowsTurns(s, turn, x)
  BY <1>7, <1>9, InterleavingSolves
<1>11. turn[w1] = n + 2 /\ turn[w2] = n + 2 /\ turn[r1] = n + 3 /\ turn[r2] = n + 1
  <2>1. w2.thread = w1.thread /\ r2.thread = r1.thread
    BY <1>2 DEF Before
  <2>2. Early(r2)
    BY <1>2 DEF PureLoad, IsMemory, SameObject
  <2>3. ~ Early(r1)
    BY <1>2, <1>4 DEF Before, IsTrace
  <2> HIDE DEF Early
  <2> QED
    BY <1>2, <1>6, <2>1, <2>2, <2>3
<1>12. w2 \in StoresOf(s, r1) /\ w1 \in StoresOf(s, r2) /\ r1 \in Reads(E) /\ r2 \in Reads(E)
  BY <1>2 DEF StoresOf, Writes, Reads, PureStore, PureLoad
<1> DEFINE w == x.rf[r1]
           H == FormulaEdges(s, "x86", x)
<1>13. /\ w \in StoresOf(s, r1) /\ <<w, r1>> \in H
       /\ w = w2 \/ <<w2, w>> \in H
  <2>1. Sooner(turn, w2, r1)
    BY <1>11 DEF Sooner
  <2>2. w # Initial
    BY <1>10, <1>12, <2>1 DEF FollowsTurns
  <2>3. w \in StoresOf(s, r1) /\ (w2 = w \/ Sooner(turn, w2, w))
    BY <1>10, <1>12, <2>1, <2>2 DEF FollowsTurns
  <2>4. <<w, r1>> \in Reading(s, x)
    BY <1>12, <2>2 DEF Reading
  <2>5. Sooner(turn, w2, w) => <<w2, w>> \in x.co
    <3>1. w \in Writes(E) /\ w2 \in Writes(E) /\ SameObject(w2, w)
      BY <1>12, <2>3 DEF StoresOf, SameObject
    <3> QED
      BY <1>10, <3>1 DEF FollowsTurns
  <2> QED
    BY <2>3, <2>4, <2>5 DEF FormulaEdges
<1>14. <<r2, w1>> \in H
  <2>1. Sooner(turn, r2, w1)
    BY <1>11 DEF Sooner
  <2>2. x.rf[r2] = Initial \/ <<x.rf[r2], w1>> \in x.co
    <3> SUFFICES ASSUME x.rf[r2] # Initial PROVE <<x.rf[r2], w1>> \in x.co
      OBVIOUS
    <3>1. x.rf[r2] \in StoresOf(s, r2) /\ Sooner(turn, x.rf[r2], r2)
      BY <1>10, <1>12 DEF FollowsTurns
    <3>2. x.rf[r2] \in Writes(E) /\ w1 \in Writes(E) /\ SameObject(x.rf[r2], w1)
      BY <1>12, <3>1 DEF StoresOf, SameObject
    <3>3. Sooner(turn, x.rf[r2], w1)
      BY <1>2, <1>4, <1>7, <2>1, <3>1, <3>2, TurnsAreOrder DEF Writes
    <3> QED
      BY <1>10, <3>2, <3>3 DEF FollowsTurns
  <2> QED
    BY <1>12, <2>2, SameEdges DEF FormulaEdges
<1>15. <<w1, w2>> \in H /\ <<r1, r2>> \in H
  BY <1>2, FixedEdgesAre DEF FormulaEdges, X86Keeps, PureStore, PureLoad
<1>16. ASSUME Solves(s, "x86", x) PROVE FALSE
  <2>1. Acyclic(E, H)
    BY <1>16 DEF Solves, FormulaEdges
  <2> HIDE DEF H
  <2>2. {w1, w2, w, r1, r2} \in SUBSET E
    BY <1>2, <1>13 DEF StoresOf, Writes
  <2>3. PICK b \in {w1, w2, w, r1, r2} : \A a \in {w1, w2, w, r1, r2} : <<a, b>> \notin H
    BY <2>1, <2>2 DEF Acyclic
  <2> HIDE DEF w
  <2> QED
    BY <1>13, <1>14, <1>15, <2>3
<1> QED
  BY <1>10, <1>16

-----------------------------------------------------------------------------
(* The loop of check_finite_portability.                                     *)

Contained(s) == \A x \in Assignments(s) : Solves(s, "rvwmo", x) => Solves(s, "x86", x)

CheckerInv ==
  /\ slice \in Slices
  /\ phase = "solve" => conclusion = "none" /\ ~ UnsupportedSlice(slice)
  /\ phase = "validate" => conclusion = "none"
  /\ \A x \in excluded : Solves(slice, "x86", x)
  /\ conclusion \in {"none", "Incomplete", "BoundedExhausted", "TargetOnly"}
  /\ conclusion \in {"BoundedExhausted", "TargetOnly"} => ~ UnsupportedSlice(slice)
  /\ conclusion = "BoundedExhausted" => Contained(slice)
  /\ conclusion = "TargetOnly" =>
       witness \in Assignments(slice) /\ Solves(slice, "rvwmo", witness) /\ ~ Solves(slice, "x86", witness)

(***************************************************************************)
(* Only executions that x86-TSO accepts are blocked; so when the target    *)
(* has nothing more to propose, x86-TSO accepts all of it, and what is     *)
(* reported is a solution of one formula and none of the other.            *)
(***************************************************************************)
THEOREM AnswersAreEarned == Spec => []CheckerInv
<1>1. Init => CheckerInv
  BY DEF Init, CheckerInv
<1>2. ASSUME CheckerInv, [Next]_vars PROVE CheckerInv'
  <2>1. CASE Validate
    BY <1>2, <2>1 DEF CheckerInv, Validate, Conclude
  <2>2. CASE GiveUp
    BY <1>2, <2>2 DEF CheckerInv, GiveUp, Conclude
  <2>3. CASE GiveUpOnSource
    BY <1>2, <2>3 DEF CheckerInv, GiveUpOnSource, Conclude
  <2>4. CASE Exhaust
    <3>1. /\ phase = "solve" /\ Proposals = {} /\ phase' = "done" /\ conclusion' = "BoundedExhausted"
          /\ slice' = slice /\ excluded' = excluded
      BY <2>4 DEF Exhaust, Conclude
    <3>2. Contained(slice)
      BY <1>2, <3>1 DEF Proposals, Contained, CheckerInv
    <3>3. Contained(slice)'
      BY <3>1, <3>2
    <3> QED
      BY <1>2, <3>1, <3>3 DEF CheckerInv
  <2>5. ASSUME NEW x \in Proposals, phase = "solve", Examine(x) PROVE CheckerInv'
    <3>1. x \in Assignments(slice) /\ Solves(slice, "rvwmo", x)
      BY <2>5 DEF Proposals
    <3>2. CASE Solves(slice, "x86", x)
      <4>1. UNCHANGED <<slice, phase, conclusion, witness>> /\ excluded' = excluded \cup {x}
        BY <2>5, <3>2 DEF Examine, Blocked
      <4> QED
        BY <1>2, <2>5, <3>2, <4>1 DEF CheckerInv
    <3>3. CASE ~ Solves(slice, "x86", x)
      <4>1. /\ slice' = slice /\ excluded' = excluded
            /\ phase' = "done" /\ conclusion' = "TargetOnly" /\ witness' = x
        BY <2>5, <3>3 DEF Examine, Conclude
      <4> QED
        BY <1>2, <2>5, <3>1, <3>3, <4>1 DEF CheckerInv
    <3> QED
      BY <3>2, <3>3
  <2>6. CASE UNCHANGED vars
    BY <1>2, <2>6 DEF CheckerInv, vars
  <2> QED
    BY <1>2, <2>1, <2>2, <2>3, <2>4, <2>5, <2>6 DEF Next, Done
<1> QED
  BY <1>1, <1>2, PTL DEF Spec

(***************************************************************************)
(* BOUNDED_EXHAUSTED: of the executions of a slice, the target accepts none*)
(* that the source rejects, though each was blocked by itself.             *)
(***************************************************************************)
THEOREM ExhaustedIsContained == Spec => []ExhaustedMeansContained
<1>1. CheckerInv => ExhaustedMeansContained
  BY DEF CheckerInv, ExhaustedMeansContained, Contained
<1> QED
  BY <1>1, AnswersAreEarned, PTL

(***************************************************************************)
(* COUNTEREXAMPLE: x86-TSO with store buffers, creation, join and the fence*)
(* in every call into the thread library does not allow the execution,     *)
(* where the encoding is not stricter than x86-TSO.                        *)
(***************************************************************************)
THEOREM WitnessIsForbidden == Spec => []PlainIsForbidden
<1>1. CheckerInv => PlainIsForbidden
  BY SlicesAreExtracted, SourceSolves DEF CheckerInv, PlainIsForbidden, CounterexampleIsForbidden
<1> QED
  BY <1>1, AnswersAreEarned, PTL

(***************************************************************************)
(* COUNTEREXAMPLE: RVWMO allows the execution.                             *)
(***************************************************************************)
THEOREM WitnessIsPossible == Spec => []CounterexampleIsPossible
<1>1. CheckerInv => CounterexampleIsPossible
  BY SlicesAreExtracted, TargetIsAllowed DEF CheckerInv, CounterexampleIsPossible
<1> QED
  BY <1>1, AnswersAreEarned, PTL

(***************************************************************************)
(* The formulas of the static checker and the relations of the dynamic one *)
(* tell the same slices apart.                                             *)
(***************************************************************************)
THEOREM CheckersAgree == Spec => []RoutesAgree
<1>1. ASSUME CheckerInv, Common(slice), conclusion = "TargetOnly"
      PROVE  TargetOnly(slice.events, Execution(slice, witness))
  BY <1>1, SlicesAreExtracted, SameCounterexamples DEF CheckerInv
<1>2. ASSUME CheckerInv, Common(slice), conclusion = "BoundedExhausted",
             NEW x \in Executions(slice.events), TargetOnly(slice.events, x)
      PROVE  FALSE
  <2>1. Extracted(slice) /\ ~ UnsupportedSlice(slice) /\ Contained(slice)
    BY <1>2, SlicesAreExtracted DEF CheckerInv
  <2> QED
    BY <1>2, <2>1, SameExhaustion DEF Contained
<1>3. CheckerInv => RoutesAgree
  BY <1>1, <1>2 DEF RoutesAgree
<1> QED
  BY <1>3, AnswersAreEarned, PTL

(***************************************************************************)
(* risk.py: what it reports without asking a solver, the solvers confirm.  *)
(***************************************************************************)
THEOREM ReportedIsReal == Spec => []RiskIsReal
<1>1. ASSUME CheckerInv, conclusion = "BoundedExhausted", slice.sync = {},
             \A e \in slice.events : e.deps = {}, NEW p \in PublicationRisks(slice), Apart(slice, p)
      PROVE  FALSE
  <2>1. Extracted(slice) /\ ~ UnsupportedSlice(slice) /\ Contained(slice) /\ Initial \notin slice.events
    BY <1>1, SlicesAreExtracted, InitialIsNoEvent DEF CheckerInv
  <2> QED
    BY <1>1, <2>1, WindowIsWeak DEF Contained
<1>2. CheckerInv => RiskIsReal
  BY <1>1 DEF RiskIsReal
<1> QED
  BY <1>2, AnswersAreEarned, PTL

=============================================================================
