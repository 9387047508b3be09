---------------------------- MODULE WindowProofs ----------------------------
(***************************************************************************)
(* What the runs of CandidateReview and WindowSweep check on litmus        *)
(* programs, proved for windows and traces of any size.                    *)
(*                                                                         *)
(* Relations: the compact source order and the two engines agree with      *)
(* their dense counterparts, the target order is never stricter, and the   *)
(* code's relations stand between the two memory models.  Most of it is    *)
(* about the store-buffer machine: whatever it does next comes after all   *)
(* it did so far, in the order of the whole machine and in that of each    *)
(* place, so that a run leaves behind an x86-TSO execution.                *)
(*                                                                         *)
(* Sweep: "safe" rests on a complete search, and a safe trace is one whose *)
(* every window was searched, for any limits and budget.  The loops of the *)
(* checker need a loop invariant: what left `pending` was examined, was    *)
(* counted and was not target-only.  It is carried from one window to the  *)
(* next; a window leaves the list only to be checked, and its status is    *)
(* kept.                                                                   *)
(*                                                                         *)
(* Windows: dividing a trace loses nothing.  A smallest cycle of the whole *)
(* trace is not parted by any one event, so one window holds it, and what  *)
(* an execution of the trace does in that window is an execution of it     *)
(* that the target relation accepts too.                                   *)
(***************************************************************************)
EXTENDS CandidateReview, WindowSweep, MemoryRelationsProofs

-----------------------------------------------------------------------------
(* The machine's queues.                                                     *)

\* The order in which a list of writes reached memory.
OrderOf(list) ==
  LET order == {p \in (1 .. Len(list)) \X (1 .. Len(list)) :
                  p[1] < p[2] /\ Overlaps(list[p[1]], list[p[2]])}
  IN  {<<list[p[1]], list[p[2]]>> : p \in order}

Distinct(q)  == \A i, j \in 1 .. Len(q) : i < j => q[i] # q[j]
InProgram(q) == \A i, j \in 1 .. Len(q) : i < j => Before(q[i], q[j])

(***************************************************************************)
(* The members of a list, after it grew and after it lost its head.        *)
(***************************************************************************)
LEMMA ElementsOfAppend ==
  ASSUME NEW S, NEW q \in Seq(S), NEW e
  PROVE  Elements(Append(q, e)) = Elements(q) \cup {e}
<1>1. /\ Append(q, e) \in Seq(S \cup {e}) /\ Len(Append(q, e)) = Len(q) + 1 /\ Len(q) \in Nat
      /\ \A i \in 1 .. Len(q) : Append(q, e)[i] = q[i]
      /\ Append(q, e)[Len(q) + 1] = e
  OBVIOUS
<1>2. ASSUME NEW v \in Elements(Append(q, e)) PROVE v \in Elements(q) \cup {e}
  <2>1. PICK i \in 1 .. Len(q) + 1 : v = Append(q, e)[i]
    BY <1>1, <1>2 DEF Elements
  <2>2. CASE i = Len(q) + 1
    BY <1>1, <2>1, <2>2
  <2>3. CASE i # Len(q) + 1
    <3>1. i \in 1 .. Len(q)
      BY <1>1, <2>3
    <3> QED
      BY <1>1, <2>1, <3>1 DEF Elements
  <2> QED
    BY <2>2, <2>3
<1>3. ASSUME NEW v \in Elements(q) PROVE v \in Elements(Append(q, e))
  <2>1. PICK i \in 1 .. Len(q) : v = q[i]
    BY <1>3 DEF Elements
  <2>2. i \in 1 .. Len(Append(q, e)) /\ v = Append(q, e)[i]
    BY <1>1, <2>1
  <2> QED
    BY <2>2 DEF Elements
<1>4. e \in Elements(Append(q, e))
  <2>1. Len(q) + 1 \in 1 .. Len(Append(q, e))
    BY <1>1
  <2> QED
    BY <1>1, <2>1 DEF Elements
<1> QED
  BY <1>2, <1>3, <1>4

LEMMA ElementsOfTail ==
  ASSUME NEW S, NEW q \in Seq(S), q # <<>>
  PROVE  /\ Head(q) \in S /\ Tail(q) \in Seq(S)
         /\ Elements(q) = {Head(q)} \cup Elements(Tail(q))
<1>1. /\ Head(q) \in S /\ Head(q) = q[1] /\ Tail(q) \in Seq(S) /\ Len(Tail(q)) = Len(q) - 1
      /\ Len(q) \in Nat /\ Len(q) > 0
      /\ \A i \in 1 .. Len(q) - 1 : Tail(q)[i] = q[i + 1]
  OBVIOUS
<1>2. ASSUME NEW v \in Elements(q) PROVE v \in {Head(q)} \cup Elements(Tail(q))
  <2>1. PICK i \in 1 .. Len(q) : v = q[i]
    BY <1>2 DEF Elements
  <2>2. CASE i = 1
    BY <1>1, <2>1, <2>2
  <2>3. CASE i # 1
    <3>1. i - 1 \in 1 .. Len(Tail(q)) /\ v = Tail(q)[i - 1]
      BY <1>1, <2>1, <2>3
    <3> QED
      BY <3>1 DEF Elements
  <2> QED
    BY <2>2, <2>3
<1>3. ASSUME NEW v \in Elements(Tail(q)) PROVE v \in Elements(q)
  <2>1. PICK i \in 1 .. Len(Tail(q)) : v = Tail(q)[i]
    BY <1>3 DEF Elements
  <2>2. i + 1 \in 1 .. Len(q) /\ v = q[i + 1]
    BY <1>1, <2>1
  <2> QED
    BY <2>2 DEF Elements
<1>4. Head(q) \in Elements(q)
  <2>1. 1 \in 1 .. Len(q)
    BY <1>1
  <2> QED
    BY <1>1, <2>1 DEF Elements
<1> QED
  BY <1>1, <1>2, <1>3, <1>4

LEMMA ElementsIn ==
  ASSUME NEW S, NEW q \in Seq(S)
  PROVE  Elements(q) \subseteq S
BY DEF Elements

(***************************************************************************)
(* A list in program order stays so when a later event joins or the head   *)
(* leaves, and the head is before the rest.                                *)
(***************************************************************************)
LEMMA ProgramAppend ==
  ASSUME NEW S, NEW q \in Seq(S), NEW e, InProgram(q), \A a \in Elements(q) : Before(a, e)
  PROVE  InProgram(Append(q, e))
<1>1. /\ Len(Append(q, e)) = Len(q) + 1 /\ Len(q) \in Nat
      /\ \A i \in 1 .. Len(q) : Append(q, e)[i] = q[i]
      /\ Append(q, e)[Len(q) + 1] = e
  OBVIOUS
<1>2. ASSUME NEW i \in 1 .. Len(q) + 1, NEW j \in 1 .. Len(q) + 1, i < j
      PROVE  Before(Append(q, e)[i], Append(q, e)[j])
  <2>1. i \in 1 .. Len(q) /\ q[i] \in Elements(q)
    BY <1>1, <1>2 DEF Elements
  <2>2. CASE j = Len(q) + 1
    BY <1>1, <2>1, <2>2
  <2>3. CASE j # Len(q) + 1
    BY <1>1, <1>2, <2>1, <2>3 DEF InProgram
  <2> QED
    BY <2>2, <2>3
<1> QED
  BY <1>1, <1>2 DEF InProgram

LEMMA ProgramTail ==
  ASSUME NEW S, NEW q \in Seq(S), q # <<>>, InProgram(q)
  PROVE  InProgram(Tail(q)) /\ \A a \in Elements(Tail(q)) : Before(Head(q), a)
<1>1. /\ Head(q) = q[1] /\ Len(Tail(q)) = Len(q) - 1 /\ Len(q) \in Nat /\ Len(q) > 0
      /\ \A i \in 1 .. Len(q) - 1 : Tail(q)[i] = q[i + 1]
  OBVIOUS
<1>2. ASSUME NEW i \in 1 .. Len(q) - 1 PROVE Before(Head(q), Tail(q)[i])
  <2>1. 1 \in 1 .. Len(q) /\ i + 1 \in 1 .. Len(q) /\ 1 < i + 1
    BY <1>1
  <2> QED
    BY <1>1, <2>1 DEF InProgram
<1>3. ASSUME NEW i \in 1 .. Len(q) - 1, NEW j \in 1 .. Len(q) - 1, i < j
      PROVE  Before(Tail(q)[i], Tail(q)[j])
  <2>1. i + 1 \in 1 .. Len(q) /\ j + 1 \in 1 .. Len(q) /\ i + 1 < j + 1
    BY <1>1, <1>3
  <2> QED
    BY <1>1, <2>1 DEF InProgram
<1> QED
  BY <1>1, <1>2, <1>3 DEF InProgram, Elements

(***************************************************************************)
(* The order of a list relates its members; one more member comes last.    *)
(***************************************************************************)
LEMMA OrderPairs ==
  ASSUME NEW list, NEW a, NEW b
  PROVE  <<a, b>> \in OrderOf(list) <=>
           \E i, j \in 1 .. Len(list) : i < j /\ a = list[i] /\ b = list[j] /\ Overlaps(a, b)
<1> DEFINE order == {p \in (1 .. Len(list)) \X (1 .. Len(list)) :
                       p[1] < p[2] /\ Overlaps(list[p[1]], list[p[2]])}
<1>1. ASSUME <<a, b>> \in OrderOf(list)
      PROVE  \E i, j \in 1 .. Len(list) : i < j /\ a = list[i] /\ b = list[j] /\ Overlaps(a, b)
  BY <1>1 DEF OrderOf
<1>2. ASSUME NEW i \in 1 .. Len(list), NEW j \in 1 .. Len(list),
             i < j, a = list[i], b = list[j], Overlaps(a, b)
      PROVE  <<a, b>> \in OrderOf(list)
  <2>1. <<i, j>> \in order
    BY <1>2
  <2>2. <<a, b>> = <<list[(<<i, j>>)[1]], list[(<<i, j>>)[2]]>>
    BY <1>2
  <2> QED
    BY <2>1, <2>2 DEF OrderOf
<1> QED
  BY <1>1, <1>2

LEMMA OrderInside ==
  ASSUME NEW list
  PROVE  /\ OrderOf(list) \subseteq Elements(list) \X Elements(list)
         /\ \A e \in OrderOf(list) : Overlaps(e[1], e[2])
BY DEF OrderOf, Elements

LEMMA OrderTotal ==
  ASSUME NEW S, NEW list \in Seq(S), Distinct(list),
         NEW a \in Elements(list), NEW b \in Elements(list), Overlaps(a, b)
  PROVE  /\ <<a, b>> \in OrderOf(list) => <<b, a>> \notin OrderOf(list)
         /\ a # b => <<a, b>> \in OrderOf(list) \/ <<b, a>> \in OrderOf(list)
<1>1. Len(list) \in Nat
  OBVIOUS
<1>2. \A i, j \in 1 .. Len(list) : list[i] = list[j] => i = j
  BY <1>1 DEF Distinct
<1>3. ASSUME <<a, b>> \in OrderOf(list), <<b, a>> \in OrderOf(list) PROVE FALSE
  <2>1. PICK i, j \in 1 .. Len(list) : i < j /\ a = list[i] /\ b = list[j]
    BY <1>3, OrderPairs
  <2>2. PICK k, l \in 1 .. Len(list) : k < l /\ b = list[k] /\ a = list[l]
    BY <1>3, OrderPairs
  <2>3. i = l /\ j = k
    BY <1>2, <2>1, <2>2
  <2> QED
    BY <2>1, <2>2, <2>3
<1>4. ASSUME a # b PROVE <<a, b>> \in OrderOf(list) \/ <<b, a>> \in OrderOf(list)
  <2>1. PICK i, j \in 1 .. Len(list) : a = list[i] /\ b = list[j]
    BY DEF Elements
  <2>2. i < j \/ j < i
    BY <1>4, <2>1
  <2>3. Overlaps(b, a)
    BY DEF Overlaps
  <2> QED
    BY <2>1, <2>2, <2>3, OrderPairs
<1> QED
  BY <1>3, <1>4

LEMMA OrderAppend ==
  ASSUME NEW S, NEW list \in Seq(S), NEW n, n \notin Elements(list), Distinct(list), NEW a, NEW b
  PROVE  /\ Distinct(Append(list, n))
         /\ <<a, b>> \in OrderOf(Append(list, n)) <=>
              \/ <<a, b>> \in OrderOf(list)
              \/ a \in Elements(list) /\ b = n /\ Overlaps(a, b)
<1> DEFINE more == Append(list, n)
<1>1. /\ Len(more) = Len(list) + 1 /\ Len(list) \in Nat
      /\ \A i \in 1 .. Len(list) : more[i] = list[i]
      /\ more[Len(list) + 1] = n
  OBVIOUS
<1> HIDE DEF more
<1>2. Distinct(more)
  <2> SUFFICES ASSUME NEW i \in 1 .. Len(list) + 1, NEW j \in 1 .. Len(list) + 1, i < j
               PROVE  more[i] # more[j]
    BY <1>1 DEF Distinct
  <2>1. i \in 1 .. Len(list) /\ list[i] \in Elements(list)
    BY <1>1 DEF Elements
  <2>2. CASE j = Len(list) + 1
    BY <1>1, <2>1, <2>2
  <2>3. CASE j # Len(list) + 1
    BY <1>1, <2>1, <2>3 DEF Distinct
  <2> QED
    BY <2>2, <2>3
<1>3. ASSUME <<a, b>> \in OrderOf(more)
      PROVE  <<a, b>> \in OrderOf(list) \/ (a \in Elements(list) /\ b = n /\ Overlaps(a, b))
  <2>1. PICK i, j \in 1 .. Len(more) : i < j /\ a = more[i] /\ b = more[j] /\ Overlaps(a, b)
    BY <1>3, OrderPairs
  <2>2. i \in 1 .. Len(list) /\ a = list[i] /\ a \in Elements(list)
    BY <1>1, <2>1 DEF Elements
  <2>3. CASE j = Len(list) + 1
    BY <1>1, <2>1, <2>2, <2>3
  <2>4. CASE j # Len(list) + 1
    <3>1. j \in 1 .. Len(list) /\ b = list[j]
      BY <1>1, <2>1, <2>4
    <3> QED
      BY <2>1, <2>2, <3>1, OrderPairs
  <2> QED
    BY <2>3, <2>4
<1>4. ASSUME <<a, b>> \in OrderOf(list) PROVE <<a, b>> \in OrderOf(more)
  <2>1. PICK i, j \in 1 .. Len(list) : i < j /\ a = list[i] /\ b = list[j] /\ Overlaps(a, b)
    BY <1>4, OrderPairs
  <2>2. i \in 1 .. Len(more) /\ j \in 1 .. Len(more) /\ a = more[i] /\ b = more[j]
    BY <1>1, <2>1
  <2> QED
    BY <2>1, <2>2, OrderPairs
<1>5. ASSUME a \in Elements(list), b = n, Overlaps(a, b) PROVE <<a, b>> \in OrderOf(more)
  <2>1. PICK i \in 1 .. Len(list) : a = list[i]
    BY <1>5 DEF Elements
  <2>2. /\ i \in 1 .. Len(more) /\ Len(list) + 1 \in 1 .. Len(more) /\ i < Len(list) + 1
        /\ a = more[i] /\ b = more[Len(list) + 1]
    BY <1>1, <1>5, <2>1
  <2> QED
    BY <1>5, <2>2, OrderPairs
<1> QED
  BY <1>2, <1>3, <1>4, <1>5 DEF more

(***************************************************************************)
(* A lookup finds nothing when no member touches the part, and otherwise   *)
(* the last one that does.                                                 *)
(***************************************************************************)
LEMMA NewestIs ==
  ASSUME NEW S, Initial \notin S, NEW q \in Seq(S), NEW p
  PROVE  \/ Newest(q, p) = Initial /\ \A w \in Elements(q) : ~ Overlaps(w, p)
         \/ \E i \in 1 .. Len(q) :
              /\ Newest(q, p) = q[i] /\ Overlaps(q[i], p)
              /\ \A j \in 1 .. Len(q) : Overlaps(q[j], p) => j <= i
<1> DEFINE hits == {i \in 1 .. Len(q) : Overlaps(q[i], p)}
           Last(i) == \A j \in hits : j <= i
<1>1. Newest(q, p) = IF hits = {} THEN Initial ELSE q[CHOOSE i \in hits : Last(i)]
  BY DEF Newest
<1>2. CASE hits = {}
  BY <1>1, <1>2 DEF Elements
<1>3. CASE hits # {}
  <2> DEFINE T == {Len(q) - i : i \in hits}
  <2>1. T \in SUBSET Nat /\ T # {}
    BY <1>3
  <2>2. PICK x \in T : \A y \in T : x <= y
    BY <2>1, LeastNatural
  <2>3. PICK i \in hits : x = Len(q) - i
    OBVIOUS
  <2>4. ASSUME NEW j \in hits PROVE j <= i
    <3>1. x <= Len(q) - j
      BY <2>2
    <3> QED
      BY <2>3, <3>1
  <2>5. \E k \in hits : Last(k)
    BY <2>4
  <2> DEFINE c == CHOOSE k \in hits : Last(k)
  <2>6. c \in hits /\ Last(c)
    BY <2>5
  <2>7. Newest(q, p) = q[c]
    BY <1>1, <1>3
  <2> HIDE DEF c
  <2> QED
    BY <2>6, <2>7
<1> QED
  BY <1>2, <1>3

LEMMA NewestInBuffer ==
  ASSUME NEW S, Initial \notin S, NEW q \in Seq(S), InProgram(q), NEW p
  PROVE  /\ Newest(q, p) = Initial => \A w \in Elements(q) : ~ Overlaps(w, p)
         /\ Newest(q, p) # Initial =>
              /\ Newest(q, p) \in Elements(q) /\ Overlaps(Newest(q, p), p)
              /\ \A w \in Elements(q) : Overlaps(w, p) =>
                   w = Newest(q, p) \/ Before(w, Newest(q, p))
<1>1. CASE Newest(q, p) = Initial /\ \A w \in Elements(q) : ~ Overlaps(w, p)
  BY <1>1
<1>2. ASSUME NEW i \in 1 .. Len(q), Newest(q, p) = q[i], Overlaps(q[i], p),
             \A j \in 1 .. Len(q) : Overlaps(q[j], p) => j <= i
      PROVE  /\ Newest(q, p) # Initial /\ Newest(q, p) \in Elements(q) /\ Overlaps(Newest(q, p), p)
             /\ \A w \in Elements(q) : Overlaps(w, p) =>
                  w = Newest(q, p) \/ Before(w, Newest(q, p))
  <2>1. q[i] \in S
    OBVIOUS
  <2>2. ASSUME NEW w \in Elements(q), Overlaps(w, p) PROVE w = q[i] \/ Before(w, q[i])
    <3>1. PICK j \in 1 .. Len(q) : w = q[j]
      BY DEF Elements
    <3>2. j = i \/ j < i
      BY <1>2, <2>2, <3>1
    <3> QED
      BY <3>1, <3>2 DEF InProgram
  <2> QED
    BY <1>2, <2>1, <2>2 DEF Elements
<1> QED
  BY <1>1, <1>2, NewestIs

LEMMA NewestInMemory ==
  ASSUME NEW S, Initial \notin S, NEW q \in Seq(S), Distinct(q), NEW p
  PROVE  /\ Newest(q, p) = Initial => \A w \in Elements(q) : ~ Overlaps(w, p)
         /\ Newest(q, p) # Initial =>
              /\ Newest(q, p) \in Elements(q) /\ Overlaps(Newest(q, p), p)
              /\ \A w \in Elements(q) : Overlaps(w, p) => <<Newest(q, p), w>> \notin OrderOf(q)
<1>1. CASE Newest(q, p) = Initial /\ \A w \in Elements(q) : ~ Overlaps(w, p)
  BY <1>1
<1>2. ASSUME NEW i \in 1 .. Len(q), Newest(q, p) = q[i], Overlaps(q[i], p),
             \A j \in 1 .. Len(q) : Overlaps(q[j], p) => j <= i
      PROVE  /\ Newest(q, p) # Initial /\ Newest(q, p) \in Elements(q) /\ Overlaps(Newest(q, p), p)
             /\ \A w \in Elements(q) : Overlaps(w, p) => <<Newest(q, p), w>> \notin OrderOf(q)
  <2>1. q[i] \in S
    OBVIOUS
  <2>2. ASSUME NEW w \in Elements(q), Overlaps(w, p), <<q[i], w>> \in OrderOf(q) PROVE FALSE
    <3>1. PICK k, l \in 1 .. Len(q) : k < l /\ q[i] = q[k] /\ w = q[l]
      BY <2>2, OrderPairs
    <3>2. k = i
      BY <3>1 DEF Distinct
    <3> QED
      BY <1>2, <2>2, <3>1, <3>2
  <2> QED
    BY <1>2, <2>1, <2>2 DEF Elements
<1> QED
  BY <1>1, <1>2, NewestIs

(***************************************************************************)
(* The order in which all writes of a window reached memory is a coherence *)
(* order, if it keeps each thread's.                                       *)
(***************************************************************************)
LEMMA OrderIsCoherence ==
  ASSUME NEW E, IsTrace(E), NEW S, NEW list \in Seq(S), Distinct(list), Elements(list) = Writes(E),
         \A e \in OrderOf(list) : ~ Before(e[2], e[1])
  PROVE  OrderOf(list) \in CoherenceOrders(E)
<1> DEFINE co == OrderOf(list)
           pairs == {e \in Writes(E) \X Writes(E) : e[1] # e[2] /\ Overlaps(e[1], e[2])}
           fixed == {e \in pairs : Before(e[1], e[2])}
           free  == {e \in pairs : e[1].thread # e[2].thread}
<1>1. \A a, b \in Writes(E) : a.seq \in Nat /\ b.seq \in Nat
                              /\ (a.thread = b.thread /\ a.seq = b.seq => a = b)
  BY DEF IsTrace, Writes
<1>2. ASSUME NEW a, NEW b, <<a, b>> \in co
      PROVE  <<a, b>> \in pairs /\ (<<a, b>> \in fixed \/ <<a, b>> \in free)
  <2>1. a \in Writes(E) /\ b \in Writes(E) /\ Overlaps(a, b)
    BY <1>2, OrderInside
  <2>2. PICK i, j \in 1 .. Len(list) : i < j /\ a = list[i] /\ b = list[j]
    BY <1>2, OrderPairs
  <2>3. a # b
    BY <2>2 DEF Distinct
  <2>4. ~ Before(b, a)
    BY <1>2
  <2> QED
    BY <1>1, <2>1, <2>3, <2>4 DEF Before
<1>3. ASSUME NEW a \in Writes(E), NEW b \in Writes(E), a # b, Overlaps(a, b)
      PROVE  /\ <<a, b>> \in co <=> <<b, a>> \notin co
             /\ Before(a, b) => <<a, b>> \in co
  <2>1. /\ <<a, b>> \in co => <<b, a>> \notin co
        /\ <<a, b>> \in co \/ <<b, a>> \in co
    BY <1>3, OrderTotal
  <2>2. Before(a, b) => <<b, a>> \notin co
    OBVIOUS
  <2> QED
    BY <2>1, <2>2
<1>4. ASSUME NEW T \in SUBSET Writes(E), T # {}
      PROVE  \E last \in T : \A w \in T : <<last, w>> \notin co
  <2> DEFINE I == {i \in 1 .. Len(list) : list[i] \in T}
             D == {Len(list) - i : i \in I}
  <2>1. I # {}
    BY <1>4 DEF Elements
  <2>2. D \in SUBSET Nat /\ D # {}
    BY <2>1
  <2>3. PICK x \in D : \A y \in D : x <= y
    BY <2>2, LeastNatural
  <2>4. PICK i \in I : x = Len(list) - i
    OBVIOUS
  <2>5. ASSUME NEW w \in T, <<list[i], w>> \in co PROVE FALSE
    <3>1. PICK k, l \in 1 .. Len(list) : k < l /\ list[i] = list[k] /\ w = list[l]
      BY <2>5, OrderPairs
    <3>2. k = i
      BY <3>1 DEF Distinct
    <3>3. x <= Len(list) - l
      BY <2>3, <2>5, <3>1
    <3> QED
      BY <2>4, <3>1, <3>2, <3>3
  <2> QED
    BY <2>5
<1> HIDE DEF co
<1>5. co = fixed \cup (co \cap free)
  <2>1. co \subseteq pairs
    <3>1. \A e \in co : e = <<e[1], e[2]>>
      BY OrderInside DEF co
    <3> QED
      BY <1>2, <3>1
  <2>2. \A e \in pairs : e = <<e[1], e[2]>>
    OBVIOUS
  <2>3. co \subseteq fixed \cup free
    BY <1>2, <2>1, <2>2
  <2>4. ASSUME NEW e \in fixed PROVE e \in co
    <3>1. e[1] \in Writes(E) /\ e[2] \in Writes(E) /\ e[1] # e[2] /\ Overlaps(e[1], e[2])
      OBVIOUS
    <3>2. <<e[1], e[2]>> \in co
      BY <1>3, <3>1
    <3> QED
      BY <2>2, <3>2
  <2> HIDE DEF fixed, free
  <2> QED
    BY <2>3, <2>4
<1>6. \A e \in pairs : e \in co <=> <<e[2], e[1]>> \notin co
  BY <1>3
<1>7. co \in {fixed \cup s : s \in SUBSET free}
  <2> HIDE DEF fixed, free
  <2> QED
    BY <1>5
<1> QED
  BY <1>4, <1>6, <1>7 DEF CoherenceOrders, co

-----------------------------------------------------------------------------
(* The machine.                                                              *)

\* Threads run in program order, a buffer holds its thread's latest stores in
\* that order, and a write is on its way or in memory, once.
Queues ==
  /\ window \in Windows
  /\ issued \subseteq window
  /\ \A e \in issued, c \in window : Before(c, e) => c \in issued
  /\ buffer \in [Threads -> Seq(Writes(issued))]
  /\ drained \in Seq(Writes(issued))
  /\ Distinct(drained)
  /\ \A t \in Threads : InProgram(buffer[t])
  /\ \A t \in Threads : \A w \in Elements(buffer[t]) : w.thread = t /\ w.kind = "STORE"
  /\ \A t \in Threads : \A w \in Elements(buffer[t]), d \in Elements(drained) :
        d.thread = t => Before(d, w)
  /\ \A e \in OrderOf(drained) : ~ Before(e[2], e[1])
  /\ \A w \in Writes(issued) : w \in Elements(drained) \/ w \in Elements(buffer[w.thread])

\* No store waits that is older than a full fence of its thread.
Flushes(e) == e.kind \in {"ATOMIC_RMW", "FUTEX_WAIT", "MFENCE"}

Flushed ==
  \A e \in issued : Flushes(e) => \A w \in Elements(buffer[e.thread]) : ~ Before(w, e)

\* A read saw a write that covers the part and was visible to it; while an
\* own store waits, it saw that one or a later one.
Looked ==
  /\ seen \in [ReadParts(window) -> Writes(issued) \cup {Initial}]
  /\ \A p \in ReadParts(window) : seen[p] # Initial =>
       /\ seen[p] \in Sources(window, p)
       /\ seen[p].thread # p.read.thread => seen[p] \in Elements(drained)
  /\ \A p \in ReadParts(window) : p.read \in issued =>
       \A w \in Elements(buffer[p.read.thread]) : Before(w, p.read) /\ Overlaps(w, p) =>
          seen[p] # Initial /\ (seen[p] = w \/ Before(w, seen[p]))

\* An atomic saw the last write before its own.
Swapped ==
  \A p \in ReadParts(window) : IsAtomic(p.read) /\ p.read \in issued =>
    /\ seen[p] # Initial => <<seen[p], p.read>> \in OrderOf(drained)
    /\ \A w \in Elements(drained) : <<w, p.read>> \in OrderOf(drained) /\ Overlaps(w, p) =>
         seen[p] # Initial /\ <<seen[p], w>> \notin OrderOf(drained)

(***************************************************************************)
(* Program order is a strict order that is total in each thread.           *)
(***************************************************************************)
LEMMA ProgramOrder ==
  ASSUME NEW E, IsTrace(E), NEW a \in E, NEW b \in E
  PROVE  /\ Before(a, b) => ~ Before(b, a) /\ a # b
         /\ a.thread = b.thread => a = b \/ Before(a, b) \/ Before(b, a)
         /\ \A c \in E : Before(a, b) /\ Before(b, c) => Before(a, c)
BY DEF IsTrace, Before

(***************************************************************************)
(* What the queues hold are writes of the window; none is in two places.   *)
(***************************************************************************)
LEMMA QueueFacts ==
  ASSUME Queues
  PROVE  /\ IsTrace(window)
         /\ Writes(issued) \subseteq window /\ Initial \notin window /\ Initial \notin Writes(issued)
         /\ \A e \in window : e.thread \in Threads
         /\ \A t \in Threads : /\ buffer[t] \in Seq(Writes(issued))
                               /\ Elements(buffer[t]) \subseteq Writes(issued)
         /\ Elements(drained) \subseteq Writes(issued)
         /\ \A t \in Threads : \A w \in Elements(buffer[t]) :
              w \notin Elements(drained) /\ w \in window /\ IsWrite(w) /\ ~ IsRead(w)
<1>1. /\ IsTrace(window)
      /\ Writes(issued) \subseteq window /\ Initial \notin window /\ Initial \notin Writes(issued)
      /\ \A e \in window : e.thread \in Threads
  BY WindowsAreTraces, InitialIsNoEvent DEF Queues, Writes, Threads
<1>2. \A t \in Threads : /\ buffer[t] \in Seq(Writes(issued))
                         /\ Elements(buffer[t]) \subseteq Writes(issued)
  <2> SUFFICES ASSUME NEW t \in Threads
               PROVE  /\ buffer[t] \in Seq(Writes(issued))
                      /\ Elements(buffer[t]) \subseteq Writes(issued)
    OBVIOUS
  <2>1. buffer[t] \in Seq(Writes(issued))
    BY DEF Queues
  <2> QED
    BY <2>1, ElementsIn
<1>3. Elements(drained) \subseteq Writes(issued)
  BY ElementsIn DEF Queues
<1>4. ASSUME NEW t \in Threads, NEW w \in Elements(buffer[t])
      PROVE  w \notin Elements(drained) /\ w \in window /\ IsWrite(w) /\ ~ IsRead(w)
  <2>1. w \in window /\ w.thread = t /\ w.kind = "STORE"
    BY <1>1, <1>2 DEF Queues
  <2>2. ~ Before(w, w)
    BY <1>1, <2>1, ProgramOrder
  <2>3. w \notin Elements(drained)
    BY <2>1, <2>2 DEF Queues
  <2> QED
    BY <2>1, <2>3 DEF IsWrite, IsRead
<1> QED
  BY <1>1, <1>2, <1>3, <1>4

(***************************************************************************)
(* An event that is ready comes after all its thread has executed.         *)
(***************************************************************************)
LEMMA ReadyFacts ==
  ASSUME Queues, NEW e, Ready(e)
  PROVE  /\ e \in window /\ e \notin issued /\ e.thread \in Threads
         /\ \A b \in issued : /\ b \in window /\ b # e /\ ~ Before(e, b)
                              /\ b.thread = e.thread => Before(b, e)
         /\ e \notin Elements(drained)
<1>1. e \in window /\ e \notin issued /\ IsTrace(window) /\ e.thread \in Threads
  BY QueueFacts DEF Ready
<1>2. ASSUME NEW b \in issued
      PROVE  b \in window /\ b # e /\ ~ Before(e, b) /\ (b.thread = e.thread => Before(b, e))
  <2>1. b \in window /\ b # e /\ ~ Before(e, b)
    BY <1>1 DEF Queues
  <2> QED
    BY <1>1, <2>1, ProgramOrder
<1>3. Elements(drained) \subseteq issued
  BY QueueFacts DEF Writes
<1> QED
  BY <1>1, <1>2, <1>3

(***************************************************************************)
(* The store that leaves a buffer was the oldest in it.                    *)
(***************************************************************************)
LEMMA HeadFacts ==
  ASSUME Queues, NEW t \in Threads, buffer[t] # <<>>
  PROVE  LET w == Head(buffer[t])
             rest == Tail(buffer[t])
         IN  /\ rest \in Seq(Writes(issued)) /\ InProgram(rest)
             /\ Elements(buffer[t]) = {w} \cup Elements(rest)
             /\ \A v \in Elements(rest) : Before(w, v)
             /\ w \in Writes(issued) /\ w \in window /\ w.thread = t /\ w.kind = "STORE"
             /\ w \notin Elements(drained)
             /\ \A d \in Elements(drained) : d.thread = t => Before(d, w)
<1>1. buffer[t] \in Seq(Writes(issued)) /\ InProgram(buffer[t])
  BY DEF Queues
<1>2. Head(buffer[t]) \in Elements(buffer[t])
  BY <1>1, ElementsOfTail
<1> QED
  BY <1>1, <1>2, ElementsOfTail, ProgramTail, QueueFacts DEF Queues

-----------------------------------------------------------------------------
(***************************************************************************)
(* A read or a fence leaves the queues alone.                              *)
(***************************************************************************)
LEMMA QueuesIssue ==
  ASSUME Queues, NEW e, Issue(e), ~ IsWrite(e), UNCHANGED <<buffer, drained>>
  PROVE  Queues'
<1>1. Ready(e) /\ window' = window /\ issued' = issued \cup {e}
  BY DEF Issue
<1>2. Threads' = Threads /\ Writes(issued)' = Writes(issued)
  BY <1>1 DEF Threads, Writes
<1>3. \A a \in issued', c \in window : Before(c, a) => c \in issued'
  BY <1>1 DEF Queues, Ready
<1>4. e \in window
  BY <1>1, ReadyFacts
<1> QED
  BY <1>1, <1>2, <1>3, <1>4 DEF Queues

(***************************************************************************)
(* A store goes to the end of its thread's buffer.                         *)
(***************************************************************************)
LEMMA QueuesStore ==
  ASSUME Queues, NEW e, Store(e)
  PROVE  /\ Queues'
         /\ \A t \in Threads : Elements(buffer'[t]) =
              IF t = e.thread THEN Elements(buffer[t]) \cup {e} ELSE Elements(buffer[t])
<1>1. /\ Ready(e) /\ window' = window /\ issued' = issued \cup {e} /\ drained' = drained
      /\ e.kind = "STORE" /\ buffer' = [buffer EXCEPT ![e.thread] = Append(@, e)]
  BY DEF Store, Issue
<1>2. Threads' = Threads /\ Writes(issued') = Writes(issued) \cup {e}
  BY <1>1 DEF Threads, Writes, IsWrite
<1>3. \A a \in issued', c \in window : Before(c, a) => c \in issued'
  BY <1>1 DEF Queues, Ready
<1>4. /\ e \in window /\ e.thread \in Threads /\ e \notin issued
      /\ \A b \in issued : b.thread = e.thread => Before(b, e)
  BY <1>1, ReadyFacts
<1>5. /\ DOMAIN buffer = Threads
      /\ \A t \in Threads : buffer[t] \in Seq(Writes(issued)) /\ InProgram(buffer[t])
  BY DEF Queues
<1>6. ASSUME NEW t \in Threads
      PROVE  buffer'[t] = IF t = e.thread THEN Append(buffer[t], e) ELSE buffer[t]
  BY <1>1, <1>4, <1>5
<1>7. ASSUME NEW t \in Threads
      PROVE  /\ buffer'[t] \in Seq(Writes(issued')) /\ InProgram(buffer'[t])
             /\ Elements(buffer'[t]) =
                  IF t = e.thread THEN Elements(buffer[t]) \cup {e} ELSE Elements(buffer[t])
  <2>1. CASE t = e.thread
    <3>1. \A b \in Elements(buffer[t]) : Before(b, e)
      BY <1>4, <2>1, QueueFacts DEF Queues, Writes
    <3>2. InProgram(Append(buffer[t], e))
      BY <1>5, <3>1, ProgramAppend
    <3>3. Append(buffer[t], e) \in Seq(Writes(issued) \cup {e})
      BY <1>5
    <3>4. Elements(Append(buffer[t], e)) = Elements(buffer[t]) \cup {e}
      BY <1>5, ElementsOfAppend
    <3> QED
      BY <1>2, <1>6, <2>1, <3>2, <3>3, <3>4
  <2>2. CASE t # e.thread
    BY <1>2, <1>5, <1>6, <2>2
  <2> QED
    BY <2>1, <2>2
<1>8. buffer' \in [Threads -> Seq(Writes(issued'))]
  <2>1. buffer' = [t \in Threads |-> buffer'[t]]
    BY <1>1, <1>5
  <2> QED
    BY <1>7, <2>1
<1>9. drained' \in Seq(Writes(issued'))
  <2>1. drained \in Seq(Writes(issued))
    BY DEF Queues
  <2>2. drained \in Seq(Writes(issued) \cup {e})
    BY <2>1
  <2> QED
    BY <1>1, <1>2, <2>2
<1>10. ASSUME NEW t \in Threads, NEW w \in Elements(buffer'[t])
       PROVE  /\ w.thread = t /\ w.kind = "STORE"
              /\ \A d \in Elements(drained) : d.thread = t => Before(d, w)
  <2>1. CASE w = e /\ t = e.thread
    BY <1>1, <1>4, <2>1, QueueFacts DEF Writes
  <2>2. CASE w \in Elements(buffer[t])
    BY <2>2 DEF Queues
  <2> QED
    BY <1>7, <2>1, <2>2
<1>11. ASSUME NEW w \in Writes(issued')
       PROVE  w \in Elements(drained) \/ w \in Elements(buffer'[w.thread])
  <2>1. w \in window /\ w.thread \in Threads
    BY <1>2, <1>4, QueueFacts
  <2>2. CASE w = e
    BY <1>7, <2>1, <2>2
  <2>3. CASE w \in Writes(issued)
    BY <1>7, <2>1, <2>3 DEF Queues
  <2> QED
    BY <1>2, <2>2, <2>3
<1>12. issued' \subseteq window
  BY <1>1, <1>4 DEF Queues
<1> QED
  BY <1>1, <1>2, <1>3, <1>7, <1>8, <1>9, <1>10, <1>11, <1>12 DEF Queues

(***************************************************************************)
(* A write that reaches memory is the newest there and kept its turn.      *)
(***************************************************************************)
LEMMA OrderGrows ==
  ASSUME Queues, NEW n, n \notin Elements(drained),
         \A d \in Elements(drained) : ~ Before(n, d)
  PROVE  /\ Distinct(Append(drained, n))
         /\ Elements(Append(drained, n)) = Elements(drained) \cup {n}
         /\ \A a, b : <<a, b>> \in OrderOf(Append(drained, n)) <=>
              \/ <<a, b>> \in OrderOf(drained)
              \/ a \in Elements(drained) /\ b = n /\ Overlaps(a, b)
         /\ \A a, b : <<a, b>> \in OrderOf(drained) =>
              a \in Elements(drained) /\ b \in Elements(drained) /\ Overlaps(a, b)
         /\ \A e \in OrderOf(Append(drained, n)) : ~ Before(e[2], e[1])
<1>1. drained \in Seq(Writes(issued)) /\ Distinct(drained)
  BY DEF Queues
<1>2. Elements(Append(drained, n)) = Elements(drained) \cup {n}
  BY <1>1, ElementsOfAppend
<1>3. \A a, b : <<a, b>> \in OrderOf(Append(drained, n)) <=>
              \/ <<a, b>> \in OrderOf(drained)
              \/ a \in Elements(drained) /\ b = n /\ Overlaps(a, b)
  BY <1>1, OrderAppend
<1>4. Distinct(Append(drained, n))
  BY <1>1, OrderAppend
<1>5. \A a, b : <<a, b>> \in OrderOf(drained) =>
              a \in Elements(drained) /\ b \in Elements(drained) /\ Overlaps(a, b)
  BY OrderInside
<1>6. ASSUME NEW e \in OrderOf(Append(drained, n)) PROVE ~ Before(e[2], e[1])
  <2>1. e = <<e[1], e[2]>>
    BY OrderInside
  <2>2. CASE e \in OrderOf(drained)
    BY <2>2 DEF Queues
  <2>3. CASE e[1] \in Elements(drained) /\ e[2] = n
    BY <2>3
  <2> QED
    BY <1>3, <2>1, <2>2, <2>3
<1> QED
  BY <1>2, <1>3, <1>4, <1>5, <1>6

(***************************************************************************)
(* An atomic goes to memory at once.                                       *)
(***************************************************************************)
LEMMA QueuesAtomic ==
  ASSUME Queues, NEW e, Issue(e), IsWrite(e), buffer[e.thread] = <<>>,
         drained' = Append(drained, e), buffer' = buffer
  PROVE  Queues'
<1>1. Ready(e) /\ window' = window /\ issued' = issued \cup {e}
  BY DEF Issue
<1>2. Threads' = Threads /\ Writes(issued') = Writes(issued) \cup {e}
  BY <1>1 DEF Threads, Writes
<1>3. \A a \in issued', c \in window : Before(c, a) => c \in issued'
  BY <1>1 DEF Queues, Ready
<1>4. /\ e \in window /\ e.thread \in Threads /\ e \notin Elements(drained)
      /\ \A b \in issued : b \in window /\ ~ Before(e, b)
  BY <1>1, ReadyFacts
<1>5. Elements(buffer[e.thread]) = {}
  BY DEF Elements
<1>6. \A d \in Elements(drained) : ~ Before(e, d)
  BY <1>4, QueueFacts DEF Writes
<1>7. drained \in Seq(Writes(issued)) /\ buffer \in [Threads -> Seq(Writes(issued))]
  BY DEF Queues
<1>8. drained' \in Seq(Writes(issued'))
  BY <1>2, <1>7
<1>9. buffer' \in [Threads -> Seq(Writes(issued'))]
  BY <1>2, <1>7
<1>10. ASSUME NEW t \in Threads, NEW w \in Elements(buffer[t]), NEW d \in Elements(drained'), d.thread = t
       PROVE  Before(d, w)
  <2>1. d \in Elements(drained)
    BY <1>4, <1>5, <1>6, <1>10, OrderGrows
  <2> QED
    BY <1>10, <2>1 DEF Queues
<1>11. ASSUME NEW w \in Writes(issued')
       PROVE  w \in Elements(drained') \/ w \in Elements(buffer[w.thread])
  <2>1. Elements(drained') = Elements(drained) \cup {e}
    BY <1>4, <1>6, OrderGrows
  <2>2. CASE w = e
    BY <2>1, <2>2
  <2>3. CASE w \in Writes(issued)
    BY <2>1, <2>3 DEF Queues
  <2> QED
    BY <1>2, <2>2, <2>3
<1>12. /\ Distinct(drained')
       /\ \A a \in OrderOf(drained') : ~ Before(a[2], a[1])
  BY <1>4, <1>6, OrderGrows
<1>13. issued' \subseteq window
  BY <1>1, <1>4 DEF Queues
<1>14. \A t \in Threads : InProgram(buffer[t])
                          /\ \A w \in Elements(buffer[t]) : w.thread = t /\ w.kind = "STORE"
  BY DEF Queues
<1> QED
  BY <1>1, <1>2, <1>3, <1>8, <1>9, <1>10, <1>11, <1>12, <1>13, <1>14 DEF Queues

(***************************************************************************)
(* A buffered store reaches memory.                                        *)
(***************************************************************************)
LEMMA QueuesDrain ==
  ASSUME Queues, NEW t \in Threads, Drain(t)
  PROVE  /\ Queues'
         /\ \A u \in Threads : Elements(buffer'[u]) =
              IF u = t THEN Elements(Tail(buffer[t])) ELSE Elements(buffer[u])
<1> DEFINE n == Head(buffer[t])
<1>1. /\ buffer[t] # <<>> /\ window' = window /\ issued' = issued
      /\ drained' = Append(drained, n) /\ buffer' = [buffer EXCEPT ![t] = Tail(@)]
  BY DEF Drain
<1>2. /\ Tail(buffer[t]) \in Seq(Writes(issued)) /\ InProgram(Tail(buffer[t]))
      /\ Elements(buffer[t]) = {n} \cup Elements(Tail(buffer[t]))
      /\ \A v \in Elements(Tail(buffer[t])) : Before(n, v)
      /\ n \in Writes(issued) /\ n \in window /\ n.thread = t
      /\ n \notin Elements(drained)
      /\ \A d \in Elements(drained) : d.thread = t => Before(d, n)
  BY <1>1, HeadFacts
<1> HIDE DEF n
<1>3. Threads' = Threads
  BY <1>1 DEF Threads
<1>4. buffer \in [Threads -> Seq(Writes(issued))] /\ drained \in Seq(Writes(issued))
  BY DEF Queues
<1>5. \A d \in Elements(drained) : ~ Before(n, d)
  <2> SUFFICES ASSUME NEW d \in Elements(drained), Before(n, d) PROVE FALSE
    OBVIOUS
  <2>1. d \in window /\ d.thread = t
    BY <1>2, QueueFacts DEF Before
  <2> QED
    BY <1>2, <2>1, QueueFacts, ProgramOrder
<1>6. \A u \in Threads : buffer'[u] = IF u = t THEN Tail(buffer[t]) ELSE buffer[u]
  BY <1>1, <1>4
<1>7. buffer' \in [Threads -> Seq(Writes(issued))]
  BY <1>1, <1>2, <1>4
<1>8. drained' \in Seq(Writes(issued))
  BY <1>1, <1>2, <1>4
<1>9. /\ Distinct(drained') /\ Elements(drained') = Elements(drained) \cup {n}
      /\ \A a \in OrderOf(drained') : ~ Before(a[2], a[1])
  BY <1>1, <1>2, <1>5, OrderGrows
<1>10. ASSUME NEW u \in Threads, NEW w \in Elements(buffer'[u])
       PROVE  /\ w.thread = u /\ w.kind = "STORE"
              /\ \A d \in Elements(drained') : d.thread = u => Before(d, w)
  <2>1. w \in Elements(buffer[u])
    BY <1>2, <1>6
  <2>2. u = t => Before(n, w)
    BY <1>2, <1>6
  <2> QED
    BY <1>2, <1>9, <2>1, <2>2 DEF Queues
<1>11. ASSUME NEW w \in Writes(issued)
       PROVE  w \in Elements(drained') \/ w \in Elements(buffer'[w.thread])
  <2>1. w.thread \in Threads
    BY QueueFacts
  <2> QED
    BY <1>2, <1>6, <1>9, <2>1 DEF Queues
<1>12. \A u \in Threads : InProgram(buffer'[u])
  BY <1>2, <1>6 DEF Queues
<1>13. /\ issued \subseteq window /\ window \in Windows
       /\ \A e \in issued, c \in window : Before(c, e) => c \in issued
  BY DEF Queues
<1> QED
  BY <1>1, <1>3, <1>6, <1>7, <1>8, <1>9, <1>10, <1>11, <1>12, <1>13 DEF Queues

(***************************************************************************)
(* Full fences stay ahead of every store that waits.                       *)
(***************************************************************************)
LEMMA FlushedStep ==
  ASSUME Queues, Flushed, MachineNext
  PROVE  Flushed'
<1>1. ASSUME NEW e, Store(e) PROVE Flushed'
  <2>1. issued' = issued \cup {e} /\ Ready(e) /\ e.kind = "STORE"
    BY <1>1 DEF Store, Issue
  <2>2. ASSUME NEW f \in issued', Flushes(f), NEW w \in Elements(buffer'[f.thread]) PROVE ~ Before(w, f)
    <3>1. f \in issued /\ f.thread \in Threads
      BY <2>1, <2>2, QueueFacts DEF Flushes, Queues
    <3>2. w \in Elements(buffer[f.thread]) \/ w = e
      <4>1. \A t \in Threads : Elements(buffer'[t]) =
              IF t = e.thread THEN Elements(buffer[t]) \cup {e} ELSE Elements(buffer[t])
        BY <1>1, QueuesStore
      <4> QED
        BY <2>2, <3>1, <4>1
    <3> QED
      BY <2>1, <2>2, <3>1, <3>2, ReadyFacts DEF Flushed
  <2> QED
    BY <2>2 DEF Flushed
<1>2. ASSUME NEW e, Load(e) \/ LightFence(e) PROVE Flushed'
  BY <1>2 DEF Load, LightFence, Issue, Flushed, Flushes
<1>3. ASSUME NEW e, Locked(e) PROVE Flushed'
  BY <1>3 DEF Locked, Issue, Flushed, Elements
<1>4. ASSUME NEW t \in Threads, Drain(t) PROVE Flushed'
  <2>1. issued' = issued /\ buffer[t] # <<>>
    BY <1>4 DEF Drain
  <2>2. \A u \in Threads : Elements(buffer'[u]) \subseteq Elements(buffer[u])
    <3>1. \A u \in Threads : Elements(buffer'[u]) =
            IF u = t THEN Elements(Tail(buffer[t])) ELSE Elements(buffer[u])
      BY <1>4, QueuesDrain
    <3>2. Elements(Tail(buffer[t])) \subseteq Elements(buffer[t])
      BY <2>1, HeadFacts
    <3> QED
      BY <3>1, <3>2
  <2>3. \A f \in issued : f.thread \in Threads
    BY QueueFacts DEF Queues
  <2> QED
    BY <2>1, <2>2, <2>3 DEF Flushed
<1> QED
  BY <1>1, <1>2, <1>3, <1>4 DEF MachineNext

(***************************************************************************)
(* What covers a part touches it and its read.                             *)
(***************************************************************************)
LEMMA SourceTouches ==
  ASSUME NEW E, IsTrace(E), NEW p \in ReadParts(E), NEW w \in E,
         Covers(w, p) \/ Overlaps(w, p)
  PROVE  Overlaps(w, p) /\ Overlaps(w, p.read) /\ Overlaps(p.read, p)
<1>1. /\ p.read \in E /\ p.addr \in Nat /\ p.size \in Nat /\ p.size > 0
      /\ p.read.addr <= p.addr /\ End(p) <= End(p.read)
  BY PartFacts DEF Reads
<1>2. /\ w.addr \in Nat /\ w.size \in Nat /\ p.read.addr \in Nat /\ p.read.size \in Nat
  BY <1>1 DEF IsTrace
<1> QED
  BY <1>1, <1>2 DEF Covers, Overlaps, End

(***************************************************************************)
(* A lookup returns the newest write its thread can see.                   *)
(***************************************************************************)
LEMMA LookupFacts ==
  ASSUME Queues, NEW p \in ReadParts(window), Ready(p.read)
  PROVE  /\ Lookup(p) # Initial =>
              /\ Lookup(p) \in Writes(issued) /\ Lookup(p) \in Sources(window, p)
              /\ Lookup(p) \in Elements(drained) \/ Lookup(p) \in Elements(buffer[p.read.thread])
         /\ \A w \in Elements(buffer[p.read.thread]) : Overlaps(w, p) =>
              Lookup(p) # Initial /\ (Lookup(p) = w \/ Before(w, Lookup(p)))
         /\ \A w \in Elements(drained) : Overlaps(w, p) =>
              Lookup(p) # Initial /\ <<Lookup(p), w>> \notin OrderOf(drained)
<1> DEFINE t == p.read.thread
           own == Newest(buffer[t], p)
           shared == Newest(drained, p)
<1>1. /\ t \in Threads /\ IsTrace(window) /\ Initial \notin Writes(issued)
      /\ Writes(issued) \subseteq window
  BY QueueFacts, ReadyFacts
<1>2. /\ buffer[t] \in Seq(Writes(issued)) /\ InProgram(buffer[t])
      /\ drained \in Seq(Writes(issued)) /\ Distinct(drained)
  BY <1>1 DEF Queues
<1>3. /\ own = Initial => \A w \in Elements(buffer[t]) : ~ Overlaps(w, p)
      /\ own # Initial =>
           /\ own \in Elements(buffer[t]) /\ Overlaps(own, p)
           /\ \A w \in Elements(buffer[t]) : Overlaps(w, p) => w = own \/ Before(w, own)
  BY <1>1, <1>2, NewestInBuffer
<1>4. /\ shared = Initial => \A w \in Elements(drained) : ~ Overlaps(w, p)
      /\ shared # Initial =>
           /\ shared \in Elements(drained) /\ Overlaps(shared, p)
           /\ \A w \in Elements(drained) : Overlaps(w, p) => <<shared, w>> \notin OrderOf(drained)
  BY <1>1, <1>2, NewestInMemory
<1>5. Lookup(p) = IF own # Initial THEN own ELSE shared
  BY DEF Lookup
<1>6. Elements(buffer[t]) \subseteq Writes(issued) /\ Elements(drained) \subseteq Writes(issued)
  BY <1>1, QueueFacts
<1> HIDE DEF own, shared
<1>7. Lookup(p) # Initial =>
        /\ Lookup(p) \in Writes(issued) /\ Overlaps(Lookup(p), p)
        /\ Lookup(p) \in Elements(drained) \/ Lookup(p) \in Elements(buffer[t])
  BY <1>3, <1>4, <1>5, <1>6
<1>8. ASSUME NEW w \in Writes(issued), Overlaps(w, p) PROVE w \in Sources(window, p)
  <2>1. w \in issued /\ w \in Writes(window) /\ p.read \in window
    BY <1>1, <1>8, PartFacts DEF Writes, Reads
  <2>2. Covers(w, p)
    BY <1>1, <1>8, <2>1, PartFacts
  <2>3. w.thread = p.read.thread => Before(w, p.read)
    BY <2>1, ReadyFacts
  <2>4. w.seq \in Nat /\ p.read.seq \in Nat
    BY <1>1, <2>1 DEF IsTrace, Writes
  <2> QED
    BY <2>1, <2>2, <2>3, <2>4 DEF Sources, Before
<1>9. ASSUME NEW w \in Elements(buffer[t]), Overlaps(w, p)
      PROVE  Lookup(p) # Initial /\ (Lookup(p) = w \/ Before(w, Lookup(p)))
  BY <1>3, <1>5, <1>9
<1>10. ASSUME NEW w \in Elements(drained), Overlaps(w, p)
       PROVE  Lookup(p) # Initial /\ <<Lookup(p), w>> \notin OrderOf(drained)
  <2>1. CASE own = Initial
    BY <1>4, <1>5, <1>10, <2>1
  <2>2. CASE own # Initial
    <3>1. Lookup(p) = own /\ own \notin Elements(drained)
      BY <1>1, <1>3, <1>5, <2>2, QueueFacts
    <3> QED
      BY <2>2, <3>1, OrderInside
  <2> QED
    BY <2>1, <2>2
<1> QED
  BY <1>7, <1>8, <1>9, <1>10

(***************************************************************************)
(* Reading: parts of the event that executes are looked up, the others     *)
(* keep their source.                                                      *)
(***************************************************************************)
LEMMA LookFacts ==
  ASSUME Queues, Looked, NEW e, Ready(e), Look(e), NEW p \in ReadParts(window)
  PROVE  seen'[p] = IF p.read = e THEN Lookup(p) ELSE seen[p]
BY DEF Look, Looked

LEMMA LookedRead ==
  ASSUME Queues, Looked, NEW e, Issue(e), Look(e), buffer' = buffer,
         Elements(drained) \subseteq Elements(drained')
  PROVE  Looked'
<1>1. Ready(e) /\ window' = window /\ issued' = issued \cup {e}
  BY DEF Issue
<1>2. ReadParts(window)' = ReadParts(window) /\ Writes(issued) \subseteq Writes(issued')
  BY <1>1 DEF Writes
<1>3. seen' = [p \in ReadParts(window) |-> IF p.read = e THEN Lookup(p) ELSE seen[p]]
  BY DEF Look, Looked
<1>4. ASSUME NEW p \in ReadParts(window)
      PROVE  /\ seen'[p] \in Writes(issued') \cup {Initial}
             /\ seen'[p] # Initial =>
                  /\ seen'[p] \in Sources(window, p)
                  /\ seen'[p].thread # p.read.thread => seen'[p] \in Elements(drained')
             /\ p.read \in issued' =>
                  \A w \in Elements(buffer[p.read.thread]) : Before(w, p.read) /\ Overlaps(w, p) =>
                    seen'[p] # Initial /\ (seen'[p] = w \/ Before(w, seen'[p]))
  <2>1. CASE p.read = e
    <3>1. seen'[p] = Lookup(p) /\ e.thread \in Threads
      BY <1>1, <1>3, <2>1, ReadyFacts
    <3>2. /\ Lookup(p) # Initial =>
               /\ Lookup(p) \in Writes(issued) /\ Lookup(p) \in Sources(window, p)
               /\ Lookup(p) \in Elements(drained) \/ Lookup(p) \in Elements(buffer[e.thread])
          /\ \A w \in Elements(buffer[e.thread]) : Overlaps(w, p) =>
               Lookup(p) # Initial /\ (Lookup(p) = w \/ Before(w, Lookup(p)))
      BY <1>1, <2>1, LookupFacts
    <3>3. \A w \in Elements(buffer[e.thread]) : w.thread = e.thread
      BY <3>1 DEF Queues
    <3> QED
      BY <1>2, <2>1, <3>1, <3>2, <3>3
  <2>2. CASE p.read # e
    <3>1. seen'[p] = seen[p]
      BY <1>3, <2>2
    <3> QED
      BY <1>1, <1>2, <2>2, <3>1 DEF Looked
  <2> QED
    BY <2>1, <2>2
<1>5. seen' \in [ReadParts(window) -> Writes(issued') \cup {Initial}]
  BY <1>3, <1>4
<1> QED
  BY <1>1, <1>2, <1>4, <1>5 DEF Looked

LEMMA LookedStep ==
  ASSUME Queues, Looked, MachineNext
  PROVE  Looked'
<1>1. ASSUME NEW e, Load(e) PROVE Looked'
  BY <1>1, LookedRead DEF Load
<1>2. ASSUME NEW e, Locked(e) PROVE Looked'
  <2>1. Issue(e) /\ Look(e) /\ buffer' = buffer
        /\ drained' = IF IsWrite(e) THEN Append(drained, e) ELSE drained
    BY <1>2 DEF Locked
  <2>2. Elements(drained) \subseteq Elements(drained')
    <3>1. drained \in Seq(Writes(issued))
      BY DEF Queues
    <3> QED
      BY <2>1, <3>1, ElementsOfAppend
  <2> QED
    BY <2>1, <2>2, LookedRead
<1>3. ASSUME NEW e, LightFence(e) \/ Store(e) PROVE Looked'
  <2>1. /\ Ready(e) /\ window' = window /\ issued' = issued \cup {e} /\ drained' = drained
        /\ seen' = seen /\ ~ IsRead(e)
    BY <1>3 DEF LightFence, Store, Issue, IsRead
  <2>2. ReadParts(window)' = ReadParts(window) /\ Writes(issued) \subseteq Writes(issued')
    BY <2>1 DEF Writes
  <2>3. ASSUME NEW p \in ReadParts(window), p.read \in issued',
               NEW w \in Elements(buffer'[p.read.thread]), Before(w, p.read), Overlaps(w, p)
        PROVE  seen[p] # Initial /\ (seen[p] = w \/ Before(w, seen[p]))
    <3>1. p.read \in issued /\ p.read.thread \in Threads
      <4>1. p.read \in window /\ IsRead(p.read)
        BY QueueFacts, PartFacts DEF Reads
      <4> QED
        BY <2>1, <2>3, <4>1, QueueFacts
    <3>2. w \in Elements(buffer[p.read.thread])
      <4>1. CASE LightFence(e)
        BY <2>3, <4>1 DEF LightFence
      <4>2. CASE Store(e)
        <5>1. \A t \in Threads : Elements(buffer'[t]) =
                IF t = e.thread THEN Elements(buffer[t]) \cup {e} ELSE Elements(buffer[t])
          BY <4>2, QueuesStore
        <5>2. w # e
          BY <2>1, <2>3, <3>1, ReadyFacts
        <5> QED
          BY <2>3, <3>1, <5>1, <5>2
      <4> QED
        BY <1>3, <4>1, <4>2
    <3> QED
      BY <2>3, <3>1, <3>2 DEF Looked
  <2>4. seen \in [ReadParts(window) -> Writes(issued') \cup {Initial}]
    BY <2>2 DEF Looked
  <2>5. \A p \in ReadParts(window) : seen[p] # Initial =>
          /\ seen[p] \in Sources(window, p)
          /\ seen[p].thread # p.read.thread => seen[p] \in Elements(drained)
    BY DEF Looked
  <2> QED
    BY <2>1, <2>2, <2>3, <2>4, <2>5 DEF Looked
<1>4. ASSUME NEW t \in Threads, Drain(t) PROVE Looked'
  <2>1. /\ issued' = issued /\ buffer[t] # <<>> /\ window' = window /\ seen' = seen
        /\ drained' = Append(drained, Head(buffer[t]))
    BY <1>4 DEF Drain
  <2>2. \A u \in Threads : Elements(buffer'[u]) \subseteq Elements(buffer[u])
    <3>1. \A u \in Threads : Elements(buffer'[u]) =
            IF u = t THEN Elements(Tail(buffer[t])) ELSE Elements(buffer[u])
      BY <1>4, QueuesDrain
    <3>2. Elements(Tail(buffer[t])) \subseteq Elements(buffer[t])
      BY <2>1, HeadFacts
    <3> QED
      BY <3>1, <3>2
  <2>3. Elements(drained) \subseteq Elements(drained')
    <3>1. drained \in Seq(Writes(issued))
      BY DEF Queues
    <3> QED
      BY <2>1, <3>1, ElementsOfAppend
  <2>4. \A f \in issued : f.thread \in Threads
    BY QueueFacts DEF Queues
  <2>5. ReadParts(window)' = ReadParts(window)
    BY <2>1
  <2> QED
    BY <2>1, <2>2, <2>3, <2>4, <2>5 DEF Looked
<1> QED
  BY <1>1, <1>2, <1>3, <1>4 DEF MachineNext

(***************************************************************************)
(* What an atomic saw stays what stood before it.                          *)
(***************************************************************************)
LEMMA SwappedKept ==
  ASSUME Queues, Swapped, NEW n, n \notin Elements(drained), \A d \in Elements(drained) : ~ Before(n, d),
         NEW p \in ReadParts(window), IsAtomic(p.read), p.read \in issued
  PROVE  LET more == Append(drained, n)
         IN  /\ seen[p] # Initial => <<seen[p], p.read>> \in OrderOf(more)
             /\ \A w \in Elements(more) : <<w, p.read>> \in OrderOf(more) /\ Overlaps(w, p) =>
                  seen[p] # Initial /\ <<seen[p], w>> \notin OrderOf(more)
<1> DEFINE more == Append(drained, n)
<1>1. /\ Elements(more) = Elements(drained) \cup {n}
      /\ \A a, b : <<a, b>> \in OrderOf(more) <=>
           \/ <<a, b>> \in OrderOf(drained)
           \/ a \in Elements(drained) /\ b = n /\ Overlaps(a, b)
      /\ \A a, b : <<a, b>> \in OrderOf(drained) =>
           a \in Elements(drained) /\ b \in Elements(drained)
  BY OrderGrows
<1> HIDE DEF more
<1>2. p.read \in Elements(drained)
  <2>1. p.read \in Writes(issued) /\ p.read.thread \in Threads /\ IsRead(p.read)
    BY QueueFacts DEF IsAtomic, IsWrite, IsRead, Writes, Queues
  <2> QED
    BY <2>1, QueueFacts DEF Queues
<1>3. /\ seen[p] # Initial => <<seen[p], p.read>> \in OrderOf(drained)
      /\ \A w \in Elements(drained) : <<w, p.read>> \in OrderOf(drained) /\ Overlaps(w, p) =>
           seen[p] # Initial /\ <<seen[p], w>> \notin OrderOf(drained)
  BY DEF Swapped
<1>4. ASSUME NEW w, <<w, p.read>> \in OrderOf(more), Overlaps(w, p)
      PROVE  seen[p] # Initial /\ <<seen[p], w>> \notin OrderOf(more)
  <2>1. w \in Elements(drained) /\ <<w, p.read>> \in OrderOf(drained)
    BY <1>1, <1>2, <1>4
  <2>2. w # n
    BY <2>1
  <2> QED
    BY <1>1, <1>3, <1>4, <2>1, <2>2
<1> QED
  BY <1>1, <1>3, <1>4 DEF more

LEMMA SwappedStep ==
  ASSUME Queues, Looked, Swapped, MachineNext
  PROVE  Swapped'
<1>1. ASSUME NEW e, Issue(e), ~ IsAtomic(e), drained' = drained,
             seen' = seen \/ Look(e)
      PROVE  Swapped'
  <2>1. window' = window /\ issued' = issued \cup {e} /\ Ready(e)
    BY <1>1 DEF Issue
  <2>2. \A p \in ReadParts(window) : p.read # e => seen'[p] = seen[p]
    BY <1>1, <2>1, LookFacts
  <2>3. ReadParts(window)' = ReadParts(window)
    BY <2>1
  <2> QED
    BY <1>1, <2>1, <2>2, <2>3 DEF Swapped
<1>2. ASSUME NEW e, Locked(e), IsAtomic(e) PROVE Swapped'
  <2>1. /\ window' = window /\ issued' = issued \cup {e} /\ Ready(e) /\ Look(e)
        /\ drained' = Append(drained, e) /\ buffer[e.thread] = <<>>
    BY <1>2 DEF Locked, Issue, IsAtomic, IsWrite
  <2>2. e \notin Elements(drained) /\ \A d \in Elements(drained) : ~ Before(e, d)
    BY <2>1, ReadyFacts, QueueFacts DEF Writes
  <2>3. ReadParts(window)' = ReadParts(window)
    BY <2>1
  <2>4. /\ Elements(drained') = Elements(drained) \cup {e}
        /\ \A a, b : <<a, b>> \in OrderOf(drained') <=>
             \/ <<a, b>> \in OrderOf(drained)
             \/ a \in Elements(drained) /\ b = e /\ Overlaps(a, b)
        /\ \A a, b : <<a, b>> \in OrderOf(drained) =>
             a \in Elements(drained) /\ b \in Elements(drained)
    BY <2>1, <2>2, OrderGrows
  <2>5. ASSUME NEW p \in ReadParts(window), p.read = e
        PROVE  /\ seen'[p] # Initial => <<seen'[p], e>> \in OrderOf(drained')
               /\ \A w \in Elements(drained') : <<w, e>> \in OrderOf(drained') /\ Overlaps(w, p) =>
                    seen'[p] # Initial /\ <<seen'[p], w>> \notin OrderOf(drained')
    <3>1. seen'[p] = Lookup(p)
      BY <2>1, <2>5, LookFacts
    <3>2. Elements(buffer[e.thread]) = {}
      BY <2>1 DEF Elements
    <3>3. /\ Lookup(p) # Initial => Lookup(p) \in Elements(drained) /\ Lookup(p) \in Sources(window, p)
          /\ \A w \in Elements(drained) : Overlaps(w, p) =>
               Lookup(p) # Initial /\ <<Lookup(p), w>> \notin OrderOf(drained)
      BY <2>1, <2>5, <3>2, LookupFacts
    <3>4. Lookup(p) # Initial => Overlaps(Lookup(p), e)
      <4>1. Lookup(p) # Initial => Lookup(p) \in window /\ Covers(Lookup(p), p)
        BY <3>3 DEF Sources, Writes
      <4> QED
        BY <2>5, <4>1, SourceTouches, QueueFacts
    <3>5. ASSUME NEW w, <<w, e>> \in OrderOf(drained'), Overlaps(w, p)
          PROVE  Lookup(p) # Initial /\ <<Lookup(p), w>> \notin OrderOf(drained')
      <4>1. w \in Elements(drained) /\ w # e
        BY <2>2, <2>4, <3>5
      <4> QED
        BY <2>4, <3>3, <3>5, <4>1
    <3> QED
      BY <2>4, <3>1, <3>3, <3>4, <3>5
  <2>6. ASSUME NEW p \in ReadParts(window), p.read # e, IsAtomic(p.read), p.read \in issued'
        PROVE  /\ seen'[p] # Initial => <<seen'[p], p.read>> \in OrderOf(drained')
               /\ \A w \in Elements(drained') : <<w, p.read>> \in OrderOf(drained') /\ Overlaps(w, p) =>
                    seen'[p] # Initial /\ <<seen'[p], w>> \notin OrderOf(drained')
    <3>1. seen'[p] = seen[p] /\ p.read \in issued
      BY <2>1, <2>6, LookFacts
    <3> QED
      BY <2>1, <2>2, <2>6, <3>1, SwappedKept
  <2> QED
    BY <2>1, <2>3, <2>5, <2>6 DEF Swapped
<1>3. ASSUME NEW t \in Threads, Drain(t) PROVE Swapped'
  <2> DEFINE n == Head(buffer[t])
  <2>1. /\ issued' = issued /\ buffer[t] # <<>> /\ window' = window /\ seen' = seen
        /\ drained' = Append(drained, n)
    BY <1>3 DEF Drain
  <2>2. n \notin Elements(drained) /\ \A d \in Elements(drained) : ~ Before(n, d)
    <3>1. /\ n \notin Elements(drained) /\ n \in window /\ n.thread = t
          /\ \A d \in Elements(drained) : d.thread = t => Before(d, n)
      BY <2>1, HeadFacts
    <3>2. \A d \in Elements(drained) : d \in window
      BY QueueFacts
    <3> QED
      BY <3>1, <3>2, QueueFacts, ProgramOrder DEF Before
  <2>3. ReadParts(window)' = ReadParts(window)
    BY <2>1
  <2> HIDE DEF n
  <2> QED
    BY <2>1, <2>2, <2>3, SwappedKept DEF Swapped
<1> QED
  BY <1>1, <1>2, <1>3 DEF MachineNext, Load, Store, LightFence, Locked, IsAtomic, IsWrite

-----------------------------------------------------------------------------
(* What has happened so far has no cycle: whatever happens next comes after  *)
(* all of it, in the order of the whole machine and in that of one place.    *)

Ran(see, list) == [rf |-> see, co |-> OrderOf(list)]

\* A read happens when it executes, a write when it reaches memory; as far as
\* one place is concerned a forwarded read happens right after its store.
Performed(gone, list) == {r \in gone : IsRead(r) /\ ~ IsWrite(r)} \cup Elements(list)

Settled(E, gone, see, list) ==
  {r \in gone : /\ IsRead(r) /\ ~ IsWrite(r)
                /\ \A p \in ReadParts(E) : p.read = r =>
                     see[p] = Initial \/ see[p] \in Elements(list)} \cup Elements(list)

TsoGraph(E, see, list)   == TsoOrder(E) \cup AllCommunication(E, Ran(see, list))
PlaceGraph(E, see, list) ==
  SamePlace(E) \cup Forwarded(E, Ran(see, list)) \cup OrderOf(list) \cup FromRead(E, Ran(see, list))

TsoSoFar == Acyclic(Performed(issued, drained), TsoGraph(window, seen, drained))

PlacesSoFar ==
  Uniform(window) =>
    Acyclic(Settled(window, issued, seen, drained), PlaceGraph(window, seen, drained))

(***************************************************************************)
(* Events that nothing old depends on do not close a cycle.                *)
(***************************************************************************)
LEMMA LaterEvents ==
  ASSUME NEW D, NEW B, NEW G, NEW H, Acyclic(D, G), Acyclic(B, H),
         \A a \in D, b \in D : <<a, b>> \in H => <<a, b>> \in G,
         \A a \in B, b \in D : <<a, b>> \notin H
  PROVE  Acyclic(D \cup B, H)
<1> SUFFICES ASSUME NEW S \in SUBSET (D \cup B), S # {}
             PROVE  \E b \in S : \A a \in S : <<a, b>> \notin H
  BY DEF Acyclic
<1>1. CASE S \cap D # {}
  <2>1. PICK b \in S \cap D : \A a \in S \cap D : <<a, b>> \notin G
    BY <1>1 DEF Acyclic
  <2> QED
    BY <2>1
<1>2. CASE S \cap D = {}
  <2>1. S \in SUBSET B
    BY <1>2
  <2> QED
    BY <2>1 DEF Acyclic
<1> QED
  BY <1>1, <1>2

LEMMA FewerEvents ==
  ASSUME NEW D, NEW H, Acyclic(D, H), NEW S \in SUBSET D
  PROVE  Acyclic(S, H)
BY DEF Acyclic

LEMMA OneEvent ==
  ASSUME NEW n, NEW H, <<n, n>> \notin H
  PROVE  Acyclic({n}, H)
BY DEF Acyclic

(***************************************************************************)
(* The edges of the two graphs, one by one.                                *)
(***************************************************************************)
\* The part p makes the read a precede the write b.
Precedes(E, see, list, p, a, b) ==
  /\ a = p.read /\ b \in Writes(E) \ {p.read} /\ Overlaps(b, p)
  /\ see[p] = Initial \/ <<see[p], b>> \in OrderOf(list)

LEMMA GraphEdges ==
  ASSUME NEW E, NEW see, NEW list, NEW a, NEW b
  PROVE  /\ <<a, b>> \in TsoGraph(E, see, list) <=>
              \/ a \in E /\ b \in E /\ TsoEdge(E, a, b)
              \/ <<a, b>> \in OrderOf(list)
              \/ \E p \in ReadParts(E) : /\ see[p] # Initial /\ see[p].thread # p.read.thread
                                         /\ a = see[p] /\ b = p.read
              \/ \E p \in ReadParts(E) : Precedes(E, see, list, p, a, b)
         /\ <<a, b>> \in PlaceGraph(E, see, list) <=>
              \/ a \in E /\ b \in E /\ IsMemory(a) /\ IsMemory(b) /\ Before(a, b) /\ Overlaps(a, b)
              \/ <<a, b>> \in OrderOf(list)
              \/ \E p \in ReadParts(E) : see[p] # Initial /\ a = see[p] /\ b = p.read
              \/ \E p \in ReadParts(E) : Precedes(E, see, list, p, a, b)
<1> DEFINE x == Ran(see, list)
<1>1. x.rf = see /\ x.co = OrderOf(list)
  BY DEF Ran
<1>2. <<a, b>> \in FromRead(E, x) <=> \E p \in ReadParts(E) : Precedes(E, see, list, p, a, b)
  <2>1. <<a, b>> \in FromRead(E, x) <=>
          \E p \in ReadParts(E) :
             /\ a = p.read /\ b \in Writes(E) \ {p.read} /\ Overlaps(b, p)
             /\ x.rf[p] = Initial \/ <<x.rf[p], b>> \in x.co
    BY FromReadFacts, Zenon
  <2> HIDE DEF x
  <2> QED
    BY <1>1, <2>1 DEF Precedes
<1>3. <<a, b>> \in ReadFrom(E, x) <=>
        \E p \in ReadParts(E) : /\ see[p] # Initial /\ see[p].thread # p.read.thread
                                /\ a = see[p] /\ b = p.read
  <2> HIDE DEF x
  <2> QED
    BY <1>1 DEF ReadFrom
<1>4. <<a, b>> \in Forwarded(E, x) <=>
        \E p \in ReadParts(E) : see[p] # Initial /\ a = see[p] /\ b = p.read
  <2> HIDE DEF x
  <2> QED
    BY <1>1 DEF Forwarded
<1>5. <<a, b>> \in TsoOrder(E) <=> a \in E /\ b \in E /\ TsoEdge(E, a, b)
  BY DEF TsoOrder
<1>6. <<a, b>> \in SamePlace(E) <=>
        a \in E /\ b \in E /\ IsMemory(a) /\ IsMemory(b) /\ Before(a, b) /\ Overlaps(a, b)
  BY DEF SamePlace
<1> HIDE DEF x
<1>7. AllCommunication(E, x) = OrderOf(list) \cup ReadFrom(E, x) \cup FromRead(E, x)
  BY <1>1 DEF AllCommunication
<1>8. TsoGraph(E, see, list) = TsoOrder(E) \cup OrderOf(list) \cup ReadFrom(E, x) \cup FromRead(E, x)
  BY <1>7 DEF TsoGraph, x
<1>9. PlaceGraph(E, see, list) = SamePlace(E) \cup Forwarded(E, x) \cup OrderOf(list) \cup FromRead(E, x)
  BY DEF PlaceGraph, x
<1> QED
  BY <1>2, <1>3, <1>4, <1>5, <1>6, <1>8, <1>9

(***************************************************************************)
(* Nothing that happens later adds an edge between old events.             *)
(***************************************************************************)
LEMMA EdgesKept ==
  ASSUME NEW E, NEW see, NEW see2, NEW list, NEW list2, NEW D,
         \A p \in ReadParts(E) : p.read \in D => see2[p] = see[p],
         \A a, b : b \in D /\ <<a, b>> \in OrderOf(list2) => <<a, b>> \in OrderOf(list),
         NEW a \in D, NEW b \in D
  PROVE  /\ <<a, b>> \in TsoGraph(E, see2, list2) => <<a, b>> \in TsoGraph(E, see, list)
         /\ <<a, b>> \in PlaceGraph(E, see2, list2) => <<a, b>> \in PlaceGraph(E, see, list)
<1>1. \A p \in ReadParts(E) : Precedes(E, see2, list2, p, a, b) => Precedes(E, see, list, p, a, b)
  BY DEF Precedes
<1>2. \A p \in ReadParts(E) : b = p.read => see2[p] = see[p]
  OBVIOUS
<1>3. <<a, b>> \in OrderOf(list2) => <<a, b>> \in OrderOf(list)
  OBVIOUS
<1>4. ASSUME <<a, b>> \in TsoGraph(E, see2, list2) PROVE <<a, b>> \in TsoGraph(E, see, list)
  BY <1>1, <1>2, <1>3, <1>4, GraphEdges
<1>5. ASSUME <<a, b>> \in PlaceGraph(E, see2, list2) PROVE <<a, b>> \in PlaceGraph(E, see, list)
  BY <1>1, <1>2, <1>3, <1>5, GraphEdges
<1> QED
  BY <1>4, <1>5

(***************************************************************************)
(* An event that reads has no edge to what happened before it, in either   *)
(* graph.                                                                  *)
(***************************************************************************)
LEMMA ReadIsLast ==
  ASSUME Queues, Looked, NEW e, Issue(e), Look(e), IsRead(e),
         drained' = IF IsWrite(e) THEN Append(drained, e) ELSE drained,
         NEW b, b \in Performed(issued, drained) \cup {e}
  PROVE  /\ <<e, b>> \notin TsoGraph(window, seen', drained')
         /\ <<e, b>> \notin PlaceGraph(window, seen', drained')
<1>1. Ready(e) /\ e \in window /\ e \notin issued /\ e \notin Elements(drained) /\ IsTrace(window)
  BY ReadyFacts, QueueFacts DEF Issue
<1>2. Performed(issued, drained) \subseteq issued
  BY QueueFacts DEF Performed, Writes
<1>3. ~ Before(e, b)
  BY <1>1, <1>2, ReadyFacts, ProgramOrder
<1>4. ASSUME NEW c, <<e, c>> \in OrderOf(drained') PROVE FALSE
  <2>1. ~ (<<e, c>> \in OrderOf(drained))
    BY <1>1, OrderInside
  <2>2. CASE IsWrite(e)
    <3>1. \A d \in Elements(drained) : ~ Before(e, d)
      BY <1>1, ReadyFacts, QueueFacts DEF Writes
    <3>2. drained' = Append(drained, e)
      BY <2>2
    <3>3. \A x, y : <<x, y>> \in OrderOf(Append(drained, e)) <=>
              \/ <<x, y>> \in OrderOf(drained)
              \/ x \in Elements(drained) /\ y = e /\ Overlaps(x, y)
      BY <1>1, <3>1, OrderGrows
    <3> QED
      BY <1>1, <1>4, <2>1, <3>2, <3>3
  <2>3. CASE ~ IsWrite(e)
    BY <1>4, <2>1, <2>3
  <2> QED
    BY <2>2, <2>3
<1>5. ASSUME NEW p \in ReadParts(window), seen'[p] = e PROVE FALSE
  <2>1. Initial # e /\ Writes(issued) \subseteq issued
    BY <1>1, QueueFacts DEF Writes
  <2>2. CASE p.read = e
    <3>1. seen'[p] = Lookup(p)
      BY <1>1, <2>2, LookFacts
    <3> QED
      BY <1>1, <1>5, <2>1, <2>2, <3>1, LookupFacts
  <2>3. CASE p.read # e
    <3>1. seen'[p] = seen[p]
      BY <1>1, <2>3, LookFacts
    <3> QED
      BY <1>1, <1>5, <2>1, <3>1 DEF Looked
  <2> QED
    BY <2>2, <2>3
<1>6. ASSUME NEW p \in ReadParts(window), Precedes(window, seen', drained', p, e, b) PROVE FALSE
  <2>1. p.read = e /\ b # e /\ b \in Writes(window) /\ Overlaps(b, p)
        /\ (seen'[p] = Initial \/ <<seen'[p], b>> \in OrderOf(drained'))
    BY <1>6 DEF Precedes
  <2>2. b \in Elements(drained)
    BY <2>1 DEF Performed, Writes
  <2>3. seen'[p] = Lookup(p)
    BY <1>1, <2>1, LookFacts
  <2>4. Lookup(p) # Initial /\ <<Lookup(p), b>> \notin OrderOf(drained)
    BY <1>1, <2>1, <2>2, LookupFacts
  <2>5. <<Lookup(p), b>> \in OrderOf(drained')
    BY <2>1, <2>3, <2>4
  <2>6. CASE IsWrite(e)
    <3>1. \A d \in Elements(drained) : ~ Before(e, d)
      BY <1>1, ReadyFacts, QueueFacts DEF Writes
    <3>2. drained' = Append(drained, e)
      BY <2>6
    <3>3. \A x, y : <<x, y>> \in OrderOf(Append(drained, e)) <=>
              \/ <<x, y>> \in OrderOf(drained)
              \/ x \in Elements(drained) /\ y = e /\ Overlaps(x, y)
      BY <1>1, <3>1, OrderGrows
    <3> QED
      BY <2>1, <2>4, <2>5, <3>2, <3>3
  <2>7. CASE ~ IsWrite(e)
    BY <2>4, <2>5, <2>7
  <2> QED
    BY <2>6, <2>7
<1>7. <<e, b>> \notin TsoGraph(window, seen', drained')
  <2> SUFFICES ASSUME <<e, b>> \in TsoGraph(window, seen', drained') PROVE FALSE
    OBVIOUS
  <2>1. ~ TsoEdge(window, e, b)
    BY <1>3 DEF TsoEdge
  <2> QED
    BY <1>4, <1>5, <1>6, <2>1, GraphEdges
<1>8. <<e, b>> \notin PlaceGraph(window, seen', drained')
  <2> SUFFICES ASSUME <<e, b>> \in PlaceGraph(window, seen', drained') PROVE FALSE
    OBVIOUS
  <2> QED
    BY <1>3, <1>4, <1>5, <1>6, GraphEdges
<1> QED
  BY <1>7, <1>8

(***************************************************************************)
(* The step of an event that reads.                                        *)
(***************************************************************************)
LEMMA GraphsRead ==
  ASSUME Queues, Looked, TsoSoFar, PlacesSoFar, NEW e, Issue(e), Look(e), IsRead(e),
         drained' = IF IsWrite(e) THEN Append(drained, e) ELSE drained
  PROVE  TsoSoFar' /\ PlacesSoFar'
<1> DEFINE D == Performed(issued, drained)
           V == Settled(window, issued, seen, drained)
<1>1. /\ Ready(e) /\ window' = window /\ issued' = issued \cup {e}
      /\ e \notin issued /\ e \notin Elements(drained)
  BY ReadyFacts DEF Issue
<1>2. D \subseteq issued /\ V \subseteq D
  BY QueueFacts DEF Performed, Settled, Writes
<1>3. Elements(drained') = IF IsWrite(e) THEN Elements(drained) \cup {e} ELSE Elements(drained)
  <2>1. drained \in Seq(Writes(issued))
    BY DEF Queues
  <2> QED
    BY <2>1, ElementsOfAppend
<1>4. Performed(issued', drained') = D \cup {e}
  BY <1>1, <1>3 DEF Performed
<1>5. Settled(window, issued', seen', drained') \subseteq V \cup {e}
  <2> SUFFICES ASSUME NEW r \in Settled(window, issued', seen', drained'), r # e PROVE r \in V
    OBVIOUS
  <2>1. CASE r \in Elements(drained')
    BY <1>3, <2>1 DEF Settled
  <2>2. CASE r \notin Elements(drained')
    <3>1. r \in issued /\ IsRead(r) /\ ~ IsWrite(r)
      BY <1>1, <2>2 DEF Settled
    <3>2. ASSUME NEW p \in ReadParts(window), p.read = r
          PROVE  seen[p] = Initial \/ seen[p] \in Elements(drained)
      <4>1. seen'[p] = seen[p] /\ (seen'[p] = Initial \/ seen'[p] \in Elements(drained'))
        BY <1>1, <2>2, <3>2, LookFacts DEF Settled
      <4>2. seen[p] # e
        BY <1>1, QueueFacts DEF Looked, Writes, Ready
      <4> QED
        BY <1>3, <4>1, <4>2
    <3> QED
      BY <3>1, <3>2 DEF Settled
  <2> QED
    BY <2>1, <2>2
<1>6. \A p \in ReadParts(window) : p.read \in D => seen'[p] = seen[p]
  BY <1>1, <1>2, LookFacts
<1>7. ASSUME NEW a, NEW b \in D, <<a, b>> \in OrderOf(drained')
      PROVE  <<a, b>> \in OrderOf(drained)
  <2>1. b # e
    BY <1>1, <1>2
  <2>2. CASE IsWrite(e)
    <3>1. \A d \in Elements(drained) : ~ Before(e, d)
      BY <1>1, ReadyFacts, QueueFacts DEF Writes
    <3>2. drained' = Append(drained, e)
      BY <2>2
    <3>3. \A x, y : <<x, y>> \in OrderOf(Append(drained, e)) <=>
              \/ <<x, y>> \in OrderOf(drained)
              \/ x \in Elements(drained) /\ y = e /\ Overlaps(x, y)
      BY <1>1, <3>1, OrderGrows
    <3> QED
      BY <1>7, <2>1, <3>2, <3>3
  <2> QED
    BY <1>7, <2>2
<1> HIDE DEF D, V
<1>8. TsoSoFar'
  <2>1. Acyclic(D, TsoGraph(window, seen, drained))
    BY DEF TsoSoFar, D
  <2>2. \A b \in D \cup {e} : <<e, b>> \notin TsoGraph(window, seen', drained')
    BY ReadIsLast DEF D
  <2>3. Acyclic({e}, TsoGraph(window, seen', drained'))
    BY <2>2, OneEvent
  <2>4. \A a \in D, b \in D : <<a, b>> \in TsoGraph(window, seen', drained') =>
                              <<a, b>> \in TsoGraph(window, seen, drained)
    BY <1>6, <1>7, EdgesKept
  <2>5. Acyclic(D \cup {e}, TsoGraph(window, seen', drained'))
    BY <2>1, <2>2, <2>3, <2>4, LaterEvents
  <2> QED
    BY <1>1, <1>4, <2>5 DEF TsoSoFar
<1>9. ASSUME Uniform(window)
      PROVE  Acyclic(Settled(window, issued', seen', drained'), PlaceGraph(window, seen', drained'))
  <2>1. Acyclic(V, PlaceGraph(window, seen, drained))
    BY <1>9 DEF PlacesSoFar, V
  <2>2. \A b \in D \cup {e} : <<e, b>> \notin PlaceGraph(window, seen', drained')
    BY ReadIsLast DEF D
  <2>3. Acyclic({e}, PlaceGraph(window, seen', drained'))
    BY <2>2, OneEvent
  <2>4. \A a \in V, b \in V : <<a, b>> \in PlaceGraph(window, seen', drained') =>
                              <<a, b>> \in PlaceGraph(window, seen, drained)
    BY <1>2, <1>6, <1>7, EdgesKept
  <2>5. Acyclic(V \cup {e}, PlaceGraph(window, seen', drained'))
    BY <1>2, <2>1, <2>2, <2>3, <2>4, LaterEvents
  <2> QED
    BY <1>5, <2>5, FewerEvents
<1>10. PlacesSoFar'
  BY <1>1, <1>9 DEF PlacesSoFar
<1> QED
  BY <1>8, <1>10

(***************************************************************************)
(* The step of an event that reads nothing and reaches no memory.          *)
(***************************************************************************)
LEMMA GraphsQuiet ==
  ASSUME Queues, Looked, TsoSoFar, PlacesSoFar, NEW e, Issue(e), seen' = seen \/ Look(e), ~ IsRead(e),
         drained' = drained
  PROVE  TsoSoFar' /\ PlacesSoFar'
<1>1. Ready(e) /\ window' = window /\ issued' = issued \cup {e}
  BY DEF Issue
<1>2. \A p \in ReadParts(window) : p.read # e
  BY PartFacts, QueueFacts DEF Reads
<1>3. seen' = seen
  <2>1. CASE Look(e)
    <3>1. seen' = [p \in ReadParts(window) |-> IF p.read = e THEN Lookup(p) ELSE seen[p]]
      BY <2>1 DEF Look, Looked
    <3> QED
      BY <1>2, <3>1 DEF Looked
  <2> QED
    BY <2>1
<1>4. Performed(issued', drained) = Performed(issued, drained)
  BY <1>1 DEF Performed
<1>5. Settled(window, issued', seen, drained) = Settled(window, issued, seen, drained)
  BY <1>1 DEF Settled
<1> QED
  BY <1>1, <1>3, <1>4, <1>5 DEF TsoSoFar, PlacesSoFar

(***************************************************************************)
(* In a uniform window a read is one part, or none if it is empty.         *)
(***************************************************************************)
LEMMA OnePart ==
  ASSUME NEW E, IsTrace(E), Uniform(E), NEW r \in Reads(E)
  PROVE  LET whole == [read |-> r, addr |-> r.addr, size |-> r.size]
         IN  /\ \A p \in ReadParts(E) : p.read = r => p = whole
             /\ r.size > 0 => whole \in ReadParts(E)
<1>1. r \in E /\ r.addr \in Nat /\ r.size \in Nat /\ End(r) = r.addr + r.size /\ IsMemory(r)
  BY DEF IsTrace, Reads, End, IsMemory
<1>2. Cuts(E, r) = {r.addr, End(r)}
  <2> SUFFICES ASSUME NEW c \in r.addr .. End(r), NEW w \in Writes(E), Overlaps(w, r),
                      c \in {w.addr, End(w)}
               PROVE  c \in {r.addr, End(r)}
    BY DEF Cuts
  <2>1. w.addr = r.addr /\ w.size = r.size
    BY <1>1 DEF Uniform, Location, Writes, IsMemory
  <2> QED
    BY <2>1 DEF End
<1>3. ASSUME NEW p \in Parts(E, r)
      PROVE  p = [read |-> r, addr |-> r.addr, size |-> r.size]
  <2>1. PICK c \in Cuts(E, r) \X Cuts(E, r) :
          p = [read |-> r, addr |-> c[1], size |-> c[2] - c[1]] /\ c[1] < c[2]
    BY <1>3 DEF Parts
  <2>2. c[1] = r.addr /\ c[2] = r.addr + r.size
    BY <1>1, <1>2, <2>1
  <2>3. c[2] - c[1] = r.size
    BY <1>1, <2>2
  <2> QED
    BY <2>1, <2>2, <2>3
<1>4. ASSUME r.size > 0 PROVE [read |-> r, addr |-> r.addr, size |-> r.size] \in Parts(E, r)
  <2> DEFINE cuts == Cuts(E, r)
             d == <<r.addr, End(r)>>
  <2>1. d \in cuts \X cuts /\ d[1] < d[2] /\ \A m \in cuts : m <= d[1] \/ d[2] <= m
    BY <1>1, <1>2, <1>4
  <2>2. d[2] - d[1] = r.size
    BY <1>1
  <2>3. [read |-> r, addr |-> r.addr, size |-> r.size] = [read |-> r, addr |-> d[1], size |-> d[2] - d[1]]
    BY <2>2
  <2> HIDE DEF d, cuts
  <2> QED
    BY <2>1, <2>3 DEF Parts, cuts
<1>5. ASSUME NEW p \in ReadParts(E), p.read = r PROVE p \in Parts(E, r)
  <2>1. PICK q \in Reads(E) : p \in Parts(E, q)
    BY DEF ReadParts
  <2>2. p.read = q
    BY <2>1 DEF Parts
  <2> QED
    BY <1>5, <2>1, <2>2
<1>6. Parts(E, r) \subseteq ReadParts(E)
  BY DEF ReadParts
<1> QED
  BY <1>3, <1>4, <1>5, <1>6

(***************************************************************************)
(* A store that reaches memory has no edge to what happened before it.     *)
(***************************************************************************)
LEMMA DrainFacts ==
  ASSUME Queues, NEW t \in Threads, Drain(t)
  PROVE  LET n == Head(buffer[t])
         IN  /\ window' = window /\ issued' = issued /\ seen' = seen /\ drained' = Append(drained, n)
             /\ n \in Writes(issued) /\ n \in window /\ n \in issued /\ n.thread = t
             /\ n \in Elements(buffer[t])
             /\ IsWrite(n) /\ ~ IsRead(n) /\ ~ IsOrdered(n) /\ n # Initial
             /\ n \notin Elements(drained) /\ n \notin Performed(issued, drained)
             /\ \A d \in Elements(drained) : ~ Before(n, d)
             /\ Elements(drained') = Elements(drained) \cup {n}
             /\ \A a, b : <<a, b>> \in OrderOf(drained') <=>
                  \/ <<a, b>> \in OrderOf(drained)
                  \/ a \in Elements(drained) /\ b = n /\ Overlaps(a, b)
             /\ \A a, b : <<a, b>> \in OrderOf(drained) =>
                  a \in Elements(drained) /\ b \in Elements(drained)
<1> DEFINE n == Head(buffer[t])
<1>1. /\ buffer[t] # <<>> /\ window' = window /\ issued' = issued /\ seen' = seen
      /\ drained' = Append(drained, n)
  BY DEF Drain
<1>2. /\ n \in Writes(issued) /\ n \in window /\ n.thread = t /\ n.kind = "STORE"
      /\ n \in Elements(buffer[t]) /\ n \notin Elements(drained)
      /\ \A d \in Elements(drained) : d.thread = t => Before(d, n)
  BY <1>1, HeadFacts
<1> HIDE DEF n
<1>3. IsWrite(n) /\ ~ IsRead(n) /\ ~ IsOrdered(n) /\ n \in issued /\ n # Initial
  BY <1>2, QueueFacts DEF IsWrite, IsRead, IsOrdered, Writes
<1>4. \A d \in Elements(drained) : ~ Before(n, d)
  <2> SUFFICES ASSUME NEW d \in Elements(drained), Before(n, d) PROVE FALSE
    OBVIOUS
  <2>1. d \in window /\ d.thread = t
    BY <1>2, QueueFacts DEF Before
  <2> QED
    BY <1>2, <2>1, QueueFacts, ProgramOrder
<1>5. n \notin Performed(issued, drained)
  BY <1>2, <1>3 DEF Performed
<1>6. /\ Elements(drained') = Elements(drained) \cup {n}
      /\ \A a, b : <<a, b>> \in OrderOf(drained') <=>
           \/ <<a, b>> \in OrderOf(drained)
           \/ a \in Elements(drained) /\ b = n /\ Overlaps(a, b)
      /\ \A a, b : <<a, b>> \in OrderOf(drained) =>
           a \in Elements(drained) /\ b \in Elements(drained)
  BY <1>1, <1>2, <1>4, OrderGrows
<1> QED
  BY <1>1, <1>2, <1>3, <1>4, <1>5, <1>6 DEF n

LEMMA TsoDrain ==
  ASSUME Queues, Flushed, Looked, TsoSoFar, NEW t \in Threads, Drain(t)
  PROVE  TsoSoFar'
<1> DEFINE D == Performed(issued, drained)
<1>0. PICK n : n = Head(buffer[t])
  OBVIOUS
<1>1. /\ window' = window /\ issued' = issued /\ seen' = seen /\ drained' = Append(drained, n)
      /\ n \in Writes(issued) /\ n \in window /\ n \in issued /\ n.thread = t
      /\ n \in Elements(buffer[t])
      /\ IsWrite(n) /\ ~ IsRead(n) /\ ~ IsOrdered(n) /\ n # Initial
      /\ n \notin Elements(drained) /\ n \notin D
      /\ \A d \in Elements(drained) : ~ Before(n, d)
      /\ Elements(drained') = Elements(drained) \cup {n}
      /\ \A a, b : <<a, b>> \in OrderOf(drained') <=>
           \/ <<a, b>> \in OrderOf(drained)
           \/ a \in Elements(drained) /\ b = n /\ Overlaps(a, b)
      /\ \A a, b : <<a, b>> \in OrderOf(drained) =>
           a \in Elements(drained) /\ b \in Elements(drained)
  BY <1>0, DrainFacts
<1>2. D \subseteq issued /\ issued \subseteq window /\ IsTrace(window)
  BY QueueFacts DEF Performed, Writes, Queues
<1>3. Performed(issued, drained') = D \cup {n}
  BY <1>1 DEF Performed
<1>4. ASSUME NEW b \in D \cup {n}, TsoEdge(window, n, b) PROVE FALSE
  <2>1. b \in D /\ b \in issued /\ b \in window /\ Before(n, b) /\ b.thread = t
    BY <1>1, <1>2, <1>4, ProgramOrder DEF TsoEdge, Before
  <2>2. ~ IsWrite(b)
    BY <1>1, <2>1 DEF Performed
  <2>3. ASSUME NEW f \in issued, Flushes(f), Before(n, f) PROVE FALSE
    <3>1. f.thread = t
      BY <1>1, <2>3 DEF Before
    <3> QED
      BY <1>1, <2>3, <3>1 DEF Flushed
  <2>4. ~ IsOrdered(b)
    BY <2>1, <2>3 DEF IsOrdered, Flushes
  <2>5. Fenced(window, n, b)
    BY <1>1, <1>4, <2>2, <2>4 DEF TsoEdge
  <2>6. PICK f \in window : Before(n, f) /\ Before(f, b) /\ f.kind = "MFENCE"
    BY <1>1, <2>2, <2>5 DEF Fenced
  <2>7. f \in issued
    BY <2>1, <2>6 DEF Queues
  <2> QED
    BY <2>3, <2>6, <2>7 DEF Flushes
<1>5. ASSUME NEW b \in D \cup {n}, <<n, b>> \in TsoGraph(window, seen, drained') PROVE FALSE
  <2>1. <<n, b>> \notin OrderOf(drained')
    BY <1>1
  <2>2. ASSUME NEW p \in ReadParts(window), seen[p] # Initial, seen[p].thread # p.read.thread, n = seen[p]
        PROVE  FALSE
    BY <1>1, <2>2 DEF Looked
  <2>3. ASSUME NEW p \in ReadParts(window), Precedes(window, seen, drained', p, n, b) PROVE FALSE
    BY <1>1, <1>2, <2>3, PartFacts DEF Precedes, Reads
  <2> QED
    BY <1>4, <1>5, <2>1, <2>2, <2>3, GraphEdges
<1>6. \A a, b : b \in D /\ <<a, b>> \in OrderOf(drained') => <<a, b>> \in OrderOf(drained)
  BY <1>1
<1> HIDE DEF D
<1>7. \A a \in D, b \in D : <<a, b>> \in TsoGraph(window, seen, drained') =>
                            <<a, b>> \in TsoGraph(window, seen, drained)
  BY <1>6, EdgesKept
<1>8. Acyclic(D, TsoGraph(window, seen, drained))
  BY DEF TsoSoFar, D
<1>9. Acyclic({n}, TsoGraph(window, seen, drained'))
  BY <1>5, OneEvent
<1>10. Acyclic(D \cup {n}, TsoGraph(window, seen, drained'))
  BY <1>5, <1>7, <1>8, <1>9, LaterEvents
<1> QED
  BY <1>1, <1>3, <1>10 DEF TsoSoFar

(***************************************************************************)
(* A store that reaches memory settles the reads that forwarded it; none   *)
(* of them, nor the store, precedes at its place what is settled already.  *)
(***************************************************************************)
LEMMA PlacesDrain ==
  ASSUME Queues, Looked, Swapped, PlacesSoFar, NEW t \in Threads, Drain(t)
  PROVE  PlacesSoFar'
<1> DEFINE V == Settled(window, issued, seen, drained)
<1>0. PICK n : n = Head(buffer[t])
  OBVIOUS
<1>1. /\ window' = window /\ issued' = issued /\ seen' = seen /\ drained' = Append(drained, n)
      /\ n \in Writes(issued) /\ n \in window /\ n \in issued /\ n.thread = t
      /\ n \in Elements(buffer[t])
      /\ IsWrite(n) /\ ~ IsRead(n) /\ n # Initial
      /\ n \notin Elements(drained)
      /\ \A d \in Elements(drained) : ~ Before(n, d)
      /\ Elements(drained') = Elements(drained) \cup {n}
      /\ \A a, b : <<a, b>> \in OrderOf(drained') <=>
           \/ <<a, b>> \in OrderOf(drained)
           \/ a \in Elements(drained) /\ b = n /\ Overlaps(a, b)
      /\ \A a, b : <<a, b>> \in OrderOf(drained) =>
           a \in Elements(drained) /\ b \in Elements(drained)
  BY <1>0, DrainFacts
<1> SUFFICES ASSUME Uniform(window)
             PROVE  Acyclic(Settled(window, issued, seen, drained'), PlaceGraph(window, seen, drained'))
  BY <1>1 DEF PlacesSoFar
<1>2. V \subseteq issued /\ issued \subseteq window /\ IsTrace(window) /\ n \notin V
  BY <1>1, QueueFacts DEF Settled, Writes, Queues
<1> DEFINE R == {r \in issued : /\ IsRead(r) /\ ~ IsWrite(r) /\ Before(n, r) /\ Overlaps(n, r)
                                /\ \A p \in ReadParts(window) : p.read = r => seen[p] = n}
           B == {n} \cup R
<1>3. Settled(window, issued, seen, drained') \subseteq V \cup B
  <2> SUFFICES ASSUME NEW r \in Settled(window, issued, seen, drained'), r \notin V, r # n
               PROVE  r \in R
    OBVIOUS
  <2>1. r \in issued /\ IsRead(r) /\ ~ IsWrite(r) /\ r \in Reads(window)
    BY <1>1, <1>2 DEF Settled, Reads
  <2>2. PICK p \in ReadParts(window) : p.read = r /\ seen[p] # Initial /\ seen[p] \notin Elements(drained)
    BY <2>1 DEF Settled
  <2>3. seen[p] = n
    BY <1>1, <2>1, <2>2 DEF Settled
  <2>4. \A q \in ReadParts(window) : q.read = r => q = p
    BY <1>2, <2>1, <2>2, OnePart
  <2>5. n \in Sources(window, p) /\ n.thread = r.thread
    BY <2>2, <2>3 DEF Looked
  <2>6. Before(n, r)
    <3>1. n.seq \in Nat /\ r.seq \in Nat
      BY <1>1, <1>2, <2>1 DEF IsTrace
    <3> QED
      BY <2>2, <2>5, <3>1 DEF Sources, Before
  <2>7. Overlaps(n, r)
    BY <1>1, <1>2, <2>2, <2>5, SourceTouches DEF Sources
  <2> QED
    BY <2>1, <2>3, <2>4, <2>6, <2>7
\* Nothing settled comes after the store in program order, at its place.
<1>4. ASSUME NEW b \in V, Before(n, b), Overlaps(n, b), IsMemory(b) PROVE FALSE
  <2>1. b \in window /\ b.thread = t /\ b \notin Elements(drained)
    BY <1>1, <1>2, <1>4 DEF Before
  <2>2. /\ b \in issued /\ b \in Reads(window)
        /\ \A p \in ReadParts(window) : p.read = b => seen[p] = Initial \/ seen[p] \in Elements(drained)
    BY <1>2, <2>1 DEF Settled, Reads
  <2>3. n.addr = b.addr /\ n.size = b.size /\ n.addr \in Nat /\ n.size \in Nat
    BY <1>1, <1>2, <1>4, <2>1 DEF Uniform, Location, IsMemory, IsTrace
  <2>4. b.size > 0
    BY <1>4, <2>3 DEF Overlaps, End
  <2> DEFINE p == [read |-> b, addr |-> b.addr, size |-> b.size]
  <2>5. p \in ReadParts(window) /\ p.read = b /\ p.addr = b.addr /\ End(p) = End(b)
    BY <1>2, <2>2, <2>4, OnePart DEF End
  <2> HIDE DEF p
  <2>6. Overlaps(n, p)
    BY <1>4, <2>5 DEF Overlaps
  <2>7. seen[p] # Initial /\ (seen[p] = n \/ Before(n, seen[p]))
    BY <1>1, <1>4, <2>1, <2>2, <2>5, <2>6 DEF Looked
  <2>8. seen[p] \in Elements(drained)
    BY <2>2, <2>5, <2>7
  <2> QED
    BY <1>1, <2>7, <2>8
<1>5. ASSUME NEW r \in R PROVE /\ r \in window /\ r \in Reads(window) /\ ~ IsWrite(r)
                               /\ r.thread = t /\ r.seq \in Nat /\ n.seq \in Nat /\ Before(n, r)
                               /\ n.addr = r.addr /\ n.size = r.size
                               /\ r \notin Elements(drained')
  <2>1. r \in window /\ r \in Reads(window)
    BY <1>2 DEF Reads
  <2>2. ~ IsWrite(r) /\ Before(n, r) /\ Overlaps(n, r)
    OBVIOUS
  <2>3. n.addr = r.addr /\ n.size = r.size
    BY <1>1, <2>1, <2>2 DEF Uniform, Location, IsMemory, Reads
  <2>4. r \notin Elements(drained')
    BY <1>1, <2>2, QueueFacts DEF Writes
  <2> QED
    BY <1>1, <1>2, <2>1, <2>2, <2>3, <2>4 DEF IsTrace, Before
\* The store that leaves is the last in memory.
<1>6. \A c : <<n, c>> \notin OrderOf(drained')
  BY <1>1
<1>7. ASSUME NEW p \in ReadParts(window), NEW a \in B, NEW b,
             Precedes(window, seen, drained', p, a, b)
      PROVE  FALSE
  <2>1. /\ a = p.read /\ a \in Reads(window)
        /\ seen[p] = Initial \/ <<seen[p], b>> \in OrderOf(drained')
    BY <1>2, <1>7, PartFacts DEF Precedes
  <2>2. seen[p] = n
    BY <1>1, <2>1 DEF Reads
  <2> QED
    BY <1>1, <1>6, <2>1, <2>2
<1>8. ASSUME NEW p \in ReadParts(window), p.read \in V, seen[p] = n PROVE FALSE
  <2>1. CASE p.read \in Elements(drained)
    <3>1. p.read \in Reads(window) /\ p.read \in Writes(issued)
      BY <1>2, <2>1, QueueFacts, PartFacts
    <3>2. IsAtomic(p.read) /\ p.read \in issued
      BY <3>1 DEF IsAtomic, IsRead, IsWrite, Reads, Writes
    <3> QED
      BY <1>1, <1>8, <3>2 DEF Swapped
  <2>2. CASE p.read \notin Elements(drained)
    BY <1>1, <1>8, <2>2 DEF Settled
  <2> QED
    BY <2>1, <2>2
<1>9. ASSUME NEW a \in B, NEW b \in V, <<a, b>> \in PlaceGraph(window, seen, drained') PROVE FALSE
  <2>1. CASE IsMemory(b) /\ Before(a, b) /\ Overlaps(a, b)
    <3>1. CASE a = n
      BY <1>4, <2>1, <3>1
    <3>2. CASE a \in R
      <4>1. n.addr = a.addr /\ n.size = a.size /\ Before(n, a) /\ a \in window /\ b \in window
        BY <1>2, <1>5, <3>2
      <4>2. Overlaps(n, b)
        BY <2>1, <4>1 DEF Overlaps, End
      <4>3. Before(n, b)
        BY <1>1, <1>2, <2>1, <4>1, ProgramOrder
      <4> QED
        BY <1>4, <2>1, <4>2, <4>3
    <3> QED
      BY <3>1, <3>2
  <2>2. CASE <<a, b>> \in OrderOf(drained')
    <3>1. a \in Elements(drained)
      BY <1>1, <2>2
    <3> QED
      BY <1>1, <1>5, <3>1
  <2>3. ASSUME NEW p \in ReadParts(window), seen[p] # Initial, a = seen[p], b = p.read PROVE FALSE
    <3>1. a \in Writes(window)
      BY <2>3 DEF Looked, Sources
    <3>2. a = n
      BY <1>5, <3>1 DEF Writes
    <3> QED
      BY <1>8, <2>3, <3>2
  <2> HIDE DEF B, V
  <2> QED
    BY <1>7, <1>9, <2>1, <2>2, <2>3, GraphEdges
<1>10. Acyclic(B, PlaceGraph(window, seen, drained'))
  <2> SUFFICES ASSUME NEW S \in SUBSET B, S # {}
               PROVE  \E b \in S : \A a \in S : <<a, b>> \notin PlaceGraph(window, seen, drained')
    BY DEF Acyclic
  <2>1. ASSUME NEW a \in B, NEW b \in B, <<a, b>> \in PlaceGraph(window, seen, drained')
        PROVE  b \in R /\ (a = n \/ Before(a, b))
    <3>1. a \in window /\ b \in window /\ (a # n => Before(n, a)) /\ (b # n => Before(n, b))
      BY <1>1, <1>5
    <3>2. CASE Before(a, b)
      BY <1>1, <1>2, <3>1, <3>2, ProgramOrder
    <3>3. CASE <<a, b>> \in OrderOf(drained')
      <4>1. a \in Elements(drained)
        BY <1>1, <3>3
      <4> QED
        BY <1>1, <1>5, <4>1
    <3>4. ASSUME NEW p \in ReadParts(window), seen[p] # Initial, a = seen[p], b = p.read
          PROVE  b \in R /\ (a = n \/ Before(a, b))
      <4>1. a \in Writes(window) /\ b \in Reads(window)
        BY <1>2, <3>4, PartFacts DEF Looked, Sources
      <4>2. a = n
        BY <1>5, <4>1 DEF Writes
      <4>3. b # n
        BY <1>1, <4>1 DEF Reads
      <4> QED
        BY <4>2, <4>3
    <3> HIDE DEF B
    <3> QED
      BY <1>7, <2>1, <3>2, <3>3, <3>4, GraphEdges
  <2>2. CASE n \in S
    <3>1. n \notin R
      BY <1>1
    <3>2. \A a \in S : <<a, n>> \notin PlaceGraph(window, seen, drained')
      BY <2>1, <2>2, <3>1
    <3> QED
      BY <2>2, <3>2
  <2>3. CASE n \notin S
    <3> DEFINE T == {r.seq : r \in S}
    <3>1. \A r \in S : r \in R
      BY <2>3
    <3>2. T \in SUBSET Nat /\ T # {}
      BY <1>5, <3>1
    <3>3. PICK x \in T : \A y \in T : x <= y
      BY <3>2, LeastNatural
    <3>4. PICK b \in S : x = b.seq
      OBVIOUS
    <3>5. ASSUME NEW a \in S, <<a, b>> \in PlaceGraph(window, seen, drained') PROVE FALSE
      <4>1. Before(a, b)
        BY <2>1, <2>3, <3>5
      <4>2. b.seq <= a.seq /\ a.seq \in Nat /\ b.seq \in Nat
        BY <1>5, <3>1, <3>3, <3>4
      <4> QED
        BY <4>1, <4>2 DEF Before
    <3> QED
      BY <3>5
  <2> QED
    BY <2>2, <2>3
<1>11. \A p \in ReadParts(window) : p.read \in V => seen[p] = seen[p]
  OBVIOUS
<1>12. \A a, b : b \in V /\ <<a, b>> \in OrderOf(drained') => <<a, b>> \in OrderOf(drained)
  BY <1>1, <1>2
<1> HIDE DEF V, B
<1>13. \A a \in V, b \in V : <<a, b>> \in PlaceGraph(window, seen, drained') =>
                             <<a, b>> \in PlaceGraph(window, seen, drained)
  BY <1>11, <1>12, EdgesKept
<1>14. Acyclic(V, PlaceGraph(window, seen, drained))
  BY DEF PlacesSoFar, V
<1>15. Acyclic(V \cup B, PlaceGraph(window, seen, drained'))
  BY <1>9, <1>10, <1>13, <1>14, LaterEvents
<1> QED
  BY <1>3, <1>15, FewerEvents

-----------------------------------------------------------------------------
MachineInv == Queues /\ Flushed /\ Looked /\ Swapped /\ TsoSoFar /\ PlacesSoFar

(***************************************************************************)
(* The machine's invariant holds when it starts and at every step.         *)
(***************************************************************************)
LEMMA MachineStarts == MachineInit => MachineInv
<1> SUFFICES ASSUME MachineInit PROVE MachineInv
  OBVIOUS
<1>1. /\ window \in Windows /\ issued = {} /\ drained = <<>>
      /\ buffer = [t \in Threads |-> <<>>] /\ seen = [p \in ReadParts(window) |-> Initial]
  BY DEF MachineInit
<1>2. Writes(issued) = {} /\ Elements(drained) = {} /\ OrderOf(drained) = {} /\ Distinct(drained)
  BY <1>1 DEF Writes, Elements, OrderOf, Distinct
<1>3. \A t \in Threads : /\ buffer[t] = <<>> /\ Elements(buffer[t]) = {} /\ InProgram(buffer[t])
  BY <1>1 DEF Elements, InProgram
<1>4. buffer \in [Threads -> Seq(Writes(issued))] /\ drained \in Seq(Writes(issued))
  BY <1>1
<1>5. Queues
  BY <1>1, <1>2, <1>3, <1>4 DEF Queues
<1>6. Looked /\ Flushed /\ Swapped
  BY <1>1, <1>2 DEF Looked, Flushed, Swapped
<1>7. Performed(issued, drained) = {} /\ Settled(window, issued, seen, drained) = {}
  BY <1>1, <1>2 DEF Performed, Settled
<1>8. TsoSoFar /\ PlacesSoFar
  BY <1>7 DEF TsoSoFar, PlacesSoFar, Acyclic
<1> QED
  BY <1>5, <1>6, <1>8 DEF MachineInv

LEMMA MachineSteps ==
  ASSUME MachineInv, MachineNext
  PROVE  MachineInv'
<1>1. Queues /\ Flushed /\ Looked /\ Swapped /\ TsoSoFar /\ PlacesSoFar
  BY DEF MachineInv
<1>2. Flushed' /\ Looked' /\ Swapped'
  BY <1>1, FlushedStep, LookedStep, SwappedStep
<1>3. ASSUME NEW e, Load(e) PROVE Queues' /\ TsoSoFar' /\ PlacesSoFar'
  <2>1. Issue(e) /\ Look(e) /\ IsRead(e) /\ ~ IsWrite(e) /\ buffer' = buffer /\ drained' = drained
    BY <1>3 DEF Load, IsRead, IsWrite
  <2> QED
    BY <1>1, <2>1, QueuesIssue, GraphsRead
<1>4. ASSUME NEW e, Store(e) PROVE Queues' /\ TsoSoFar' /\ PlacesSoFar'
  <2>1. Issue(e) /\ ~ IsRead(e) /\ seen' = seen /\ drained' = drained
    BY <1>4 DEF Store, IsRead
  <2>2. Queues'
    BY <1>1, <1>4, QueuesStore
  <2> QED
    BY <1>1, <2>1, <2>2, GraphsQuiet
<1>5. ASSUME NEW e, Locked(e) PROVE Queues' /\ TsoSoFar' /\ PlacesSoFar'
  <2>1. /\ Issue(e) /\ Look(e) /\ buffer[e.thread] = <<>> /\ buffer' = buffer
        /\ drained' = IF IsWrite(e) THEN Append(drained, e) ELSE drained
    BY <1>5 DEF Locked
  <2>2. Queues'
    BY <1>1, <2>1, QueuesIssue, QueuesAtomic
  <2>3. CASE IsRead(e)
    BY <1>1, <2>1, <2>2, <2>3, GraphsRead
  <2>4. CASE ~ IsRead(e)
    <3>1. ~ IsWrite(e)
      BY <1>5, <2>4 DEF Locked, IsRead, IsWrite
    <3> QED
      BY <1>1, <2>1, <2>2, <2>4, <3>1, GraphsQuiet
  <2> QED
    BY <2>3, <2>4
<1>6. ASSUME NEW e, LightFence(e) PROVE Queues' /\ TsoSoFar' /\ PlacesSoFar'
  <2>1. /\ Issue(e) /\ ~ IsRead(e) /\ ~ IsWrite(e)
        /\ seen' = seen /\ drained' = drained /\ buffer' = buffer
    BY <1>6 DEF LightFence, IsRead, IsWrite
  <2> QED
    BY <1>1, <2>1, QueuesIssue, GraphsQuiet
<1>7. ASSUME NEW t \in Threads, Drain(t) PROVE Queues' /\ TsoSoFar' /\ PlacesSoFar'
  BY <1>1, <1>7, QueuesDrain, TsoDrain, PlacesDrain
<1> QED
  BY <1>2, <1>3, <1>4, <1>5, <1>6, <1>7 DEF MachineNext, MachineInv

(***************************************************************************)
(* A run that is over left every write in memory and is an execution.      *)
(***************************************************************************)
LEMMA RunFacts ==
  ASSUME MachineInv, Over
  PROVE  /\ Run = Ran(seen, drained)
         /\ Elements(drained) = Writes(window)
         /\ Run \in Executions(window)
<1>1. Queues /\ Looked /\ issued = window /\ \A t \in Threads : buffer[t] = <<>>
  BY DEF MachineInv, Over
<1>2. Run = Ran(seen, drained)
  BY DEF Run, Ran, OrderOf
<1>3. Elements(drained) = Writes(window)
  <2>1. ASSUME NEW w \in Writes(window) PROVE w \in Elements(drained)
    <3>1. w.thread \in Threads
      BY DEF Threads, Writes
    <3>2. Elements(buffer[w.thread]) = {}
      BY <1>1, <3>1 DEF Elements
    <3> QED
      BY <1>1, <3>2 DEF Queues
  <2> QED
    BY <1>1, <2>1, QueueFacts
<1>4. OrderOf(drained) \in CoherenceOrders(window)
  <2>1. drained \in Seq(Writes(issued)) /\ Distinct(drained)
        /\ \A e \in OrderOf(drained) : ~ Before(e[2], e[1])
    BY <1>1 DEF Queues
  <2> QED
    BY <1>1, <1>3, <2>1, QueueFacts, OrderIsCoherence
<1>5. seen \in ReadFroms(window)
  BY <1>1 DEF Looked, ReadFroms
<1> QED
  BY <1>2, <1>3, <1>4, <1>5 DEF Executions, Ran

(***************************************************************************)
(* Events without edges into them close no cycle.                          *)
(***************************************************************************)
LEMMA AccessesOnly ==
  ASSUME NEW E, NEW D, NEW H, Acyclic(D, H), \A a, b : <<a, b>> \in H => b \in D
  PROVE  Acyclic(E, H)
<1> SUFFICES ASSUME NEW S \in SUBSET E, S # {}
             PROVE  \E b \in S : \A a \in S : <<a, b>> \notin H
  BY DEF Acyclic
<1>1. CASE S \subseteq D
  BY <1>1 DEF Acyclic
<1> QED
  BY <1>1

(***************************************************************************)
(* A run that is over is one that x86-TSO, as MemoryModels states it,      *)
(* allows.                                                                 *)
(***************************************************************************)
LEMMA RunIsTso ==
  ASSUME MachineInv, Over, Uniform(window)
  PROVE  TsoAllows(window, Run)
<1> DEFINE E == window
           co == OrderOf(drained)
<1>1. Queues /\ Looked /\ Swapped /\ TsoSoFar /\ PlacesSoFar /\ issued = E
  BY DEF MachineInv, Over
<1>2. Run = Ran(seen, drained) /\ Run.rf = seen /\ Run.co = co /\ Elements(drained) = Writes(E)
  BY RunFacts DEF Ran
<1>3. IsTrace(E) /\ Initial \notin E
  BY <1>1, QueueFacts
<1>4. ASSUME NEW p \in ReadParts(E), IsAtomic(p.read)
      PROVE  {w \in Writes(E) : <<w, p.read>> \in Adjacent(co)} = {seen[p]} \ {Initial}
  <2> DEFINE n == p.read
  <2>1. /\ n \in Reads(E) /\ n \in E /\ n \in Writes(E) /\ n.addr \in Nat /\ n.size \in Nat /\ p.size > 0
        /\ p = [read |-> n, addr |-> n.addr, size |-> n.size]
    <3>1. n \in Reads(E) /\ p.size > 0
      BY <1>3, PartFacts
    <3>2. p = [read |-> n, addr |-> n.addr, size |-> n.size]
      BY <1>3, <3>1, OnePart
    <3> QED
      BY <1>3, <1>4, <3>1, <3>2 DEF IsTrace, Reads, Writes, IsAtomic, IsWrite
  <2>2. p.addr = n.addr /\ p.size = n.size /\ End(p) = End(n)
    BY <2>1 DEF End
  <2> HIDE DEF n
  <2>3. ASSUME NEW w, <<w, n>> \in co
        PROVE  /\ w \in Writes(E) /\ w \in Elements(drained) /\ Overlaps(w, p)
               /\ w.addr = n.addr /\ w.size = n.size
    <3>1. w \in Writes(E) /\ Overlaps(w, n)
      BY <1>2, <2>3, OrderInside
    <3>2. w.addr = n.addr /\ w.size = n.size
      BY <2>1, <3>1 DEF Uniform, Location, Writes, IsMemory
    <3> QED
      BY <1>2, <2>2, <3>1, <3>2 DEF Overlaps
  <2>4. /\ seen[p] # Initial => <<seen[p], n>> \in co
        /\ \A w : <<w, n>> \in co => seen[p] # Initial /\ <<seen[p], w>> \notin co
    BY <1>1, <1>4, <2>1, <2>3 DEF Swapped, n
  <2>5. ASSUME NEW w, <<w, n>> \in Adjacent(co) PROVE seen[p] # Initial /\ w = seen[p]
    <3>1. <<w, n>> \in co /\ ~ \E v \in {q[2] : q \in co} : <<w, v>> \in co /\ <<v, n>> \in co
      BY <2>5 DEF Adjacent
    <3>2. seen[p] # Initial /\ <<seen[p], n>> \in co /\ <<seen[p], w>> \notin co
      BY <2>4, <3>1
    <3>3. Overlaps(w, seen[p])
      <4>1. w.addr = n.addr /\ w.size = n.size /\ seen[p].addr = n.addr /\ seen[p].size = n.size
        BY <2>3, <3>1, <3>2
      <4> QED
        BY <2>1, <2>2, <4>1 DEF Overlaps, End
    <3>4. w # seen[p] => <<w, seen[p]>> \in co
      <4>1. drained \in Seq(Writes(issued)) /\ Distinct(drained)
        BY <1>1 DEF Queues
      <4>2. w \in Elements(drained) /\ seen[p] \in Elements(drained)
        BY <2>3, <3>1, <3>2
      <4> QED
        BY <3>2, <3>3, <4>1, <4>2, OrderTotal
    <3>5. <<w, seen[p]>> \in co => seen[p] \in {q[2] : q \in co}
      OBVIOUS
    <3> QED
      BY <3>1, <3>2, <3>4, <3>5
  <2>6. ASSUME seen[p] # Initial PROVE seen[p] \in Writes(E) /\ <<seen[p], n>> \in Adjacent(co)
    <3>1. <<seen[p], n>> \in co /\ \A w : <<w, n>> \in co => <<seen[p], w>> \notin co
      BY <2>4, <2>6
    <3>2. seen[p] \in Writes(E)
      BY <2>3, <3>1
    <3> QED
      BY <3>1, <3>2 DEF Adjacent
  <2> HIDE DEF E, co
  <2> QED
    BY <2>5, <2>6 DEF n
<1>5. AtomicsValid(E, Run)
  BY <1>2, <1>4 DEF AtomicsValid
<1>6. \A p \in ReadParts(E) : seen[p] = Initial \/ seen[p] \in Writes(E)
  BY <1>1 DEF Looked
<1>7. ASSUME NEW b \in E, IsMemory(b)
      PROVE  b \in Performed(issued, drained) /\ b \in Settled(E, issued, seen, drained)
  <2>1. CASE IsWrite(b)
    <3>1. b \in Elements(drained)
      BY <1>2, <2>1 DEF Writes
    <3> QED
      BY <3>1 DEF Performed, Settled
  <2>2. CASE ~ IsWrite(b)
    <3>1. b \in issued /\ IsRead(b)
      BY <1>1, <1>7, <2>2 DEF IsMemory
    <3> QED
      BY <1>2, <1>6, <2>2, <3>1 DEF Performed, Settled
  <2> QED
    BY <2>1, <2>2
<1>8. ASSUME NEW a, NEW b,
             <<a, b>> \in TsoGraph(E, seen, drained) \/ <<a, b>> \in PlaceGraph(E, seen, drained)
      PROVE  b \in E /\ IsMemory(b)
  <2>1. <<a, b>> \in co => b \in E /\ IsMemory(b)
    BY <1>2, OrderInside DEF Writes, IsMemory
  <2>2. \A p \in ReadParts(E) : p.read \in E /\ IsMemory(p.read)
    BY <1>3, PartFacts DEF Reads, IsMemory
  <2>3. \A p \in ReadParts(E) : Precedes(E, seen, drained, p, a, b) => b \in E /\ IsMemory(b)
    BY DEF Precedes, Writes, IsMemory
  <2>4. TsoEdge(E, a, b) => IsMemory(b)
    BY DEF TsoEdge
  <2> HIDE DEF E
  <2> QED
    BY <1>8, <2>1, <2>2, <2>3, <2>4, GraphEdges
<1>9. Acyclic(E, TsoGraph(E, seen, drained))
  BY <1>1, <1>7, <1>8, AccessesOnly DEF TsoSoFar
<1>10. Acyclic(E, PlaceGraph(E, seen, drained))
  BY <1>1, <1>7, <1>8, AccessesOnly DEF PlacesSoFar
<1>11. CoherentPerPlace(E, Run)
  BY <1>2, <1>10 DEF CoherentPerPlace, PlaceGraph
<1>12. Acyclic(E, TsoOrder(E) \cup AllCommunication(E, Run))
  BY <1>2, <1>9 DEF TsoGraph
<1> QED
  BY <1>5, <1>11, <1>12 DEF TsoAllows

(***************************************************************************)
(* RVWMO asks for no order that x86-TSO does not keep.                     *)
(***************************************************************************)
LEMMA TsoInsideRvwmo ==
  ASSUME NEW E, NEW x, TsoAllows(E, x)
  PROVE  RvwmoAllows(E, x)
<1>1. RvwmoOrder(E, x) \cup AllCommunication(E, x) \subseteq TsoOrder(E) \cup AllCommunication(E, x)
  BY DEF RvwmoOrder, RvwmoEdge, TsoOrder, TsoEdge
<1> QED
  BY <1>1, FewerEdges DEF TsoAllows, RvwmoAllows

-----------------------------------------------------------------------------
\* What the theorems need of a reachable state.
Sane ==
  /\ MachineInv
  /\ origin \in {"none", "checker", "machine"}
  /\ IF Judged THEN execution \in Executions(window) ELSE execution = NoExecution
  /\ origin = "machine" => Over /\ execution = Run

(***************************************************************************)
(* The machine keeps its invariant, and what is judged is an execution of  *)
(* the window, whether the loops produced it or the machine left it.       *)
(***************************************************************************)
LEMMA SaneInvariance == ReviewSpec => []Sane
<1>1. ReviewInit => Sane
  BY MachineStarts DEF ReviewInit, Sane, Judged
<1>2. Sane /\ [ReviewNext]_reviewVars => Sane'
  <2> SUFFICES ASSUME Sane, [ReviewNext]_reviewVars PROVE Sane'
    OBVIOUS
  <2>1. CASE UNCHANGED reviewVars
    <3>1. MachineInv'
      BY <2>1 DEF Sane, MachineInv, Queues, Flushed, Looked, Swapped, TsoSoFar, PlacesSoFar,
                  reviewVars, machineVars, Threads
    <3> QED
      BY <2>1, <3>1 DEF Sane, Judged, Over, Run, Threads, reviewVars, machineVars
  <2>2. CASE \E x \in Executions(window) : Judge(x)
    <3>1. MachineInv'
      BY <2>2 DEF Judge, Sane, MachineInv, Queues, Flushed, Looked, Swapped, TsoSoFar, PlacesSoFar,
                  machineVars, Threads
    <3> QED
      BY <2>2, <3>1 DEF Sane, Judge, Judged, machineVars
  <2>3. CASE Record
    <3>1. MachineInv' /\ Over'
      BY <2>3 DEF Record, Sane, MachineInv, Queues, Flushed, Looked, Swapped, TsoSoFar, PlacesSoFar,
                  machineVars, Threads, Over
    <3>2. Run \in Executions(window) /\ Run' = Run
      BY <2>3, RunFacts DEF Record, Sane, Run, machineVars
    <3> QED
      BY <2>3, <3>1, <3>2 DEF Sane, Record, Judged, machineVars
  <2>4. CASE origin = "none" /\ MachineNext /\ UNCHANGED <<execution, origin>>
    <3>1. MachineInv'
      BY <2>4, MachineSteps DEF Sane
    <3> QED
      BY <2>4, <3>1 DEF Sane, Judged
  <2> QED
    BY <2>1, <2>2, <2>3, <2>4 DEF ReviewNext
<1> QED
  BY <1>1, <1>2, PTL DEF ReviewSpec

(***************************************************************************)
(* The types, and above all: what the machine leaves behind is one of the  *)
(* executions that the checker's loops produce.                            *)
(***************************************************************************)
THEOREM RunsAreExecutions == ReviewSpec => []ReviewTypeOK
<1>1. Sane => ReviewTypeOK
  <2> SUFFICES ASSUME Sane PROVE ReviewTypeOK
    OBVIOUS
  <2>1. Queues /\ Looked
    BY DEF Sane, MachineInv
  <2>2. \A t \in Threads : Elements(buffer[t]) \subseteq {w \in issued : w.thread = t /\ IsWrite(w)}
    BY <2>1, QueueFacts DEF Queues, Writes
  <2>3. MachineTypeOK
    BY <2>1, <2>2, QueueFacts DEF MachineTypeOK, Queues, Looked
  <2> QED
    BY <2>3 DEF Sane, ReviewTypeOK
<1> QED
  BY <1>1, SaneInvariance, PTL

(***************************************************************************)
(* The compact source order rejects the executions the dense one rejects.  *)
(***************************************************************************)
THEOREM CompactOrderIsEnough == ReviewSpec => []NearestIsEnough
<1>1. Sane => NearestIsEnough
  <2> SUFFICES ASSUME Sane PROVE NearestIsEnough
    OBVIOUS
  <2>1. IsTrace(window)
    BY QueueFacts DEF Sane, MachineInv
  <2> QED
    BY <2>1, CompactSourceOrder DEF NearestIsEnough, SourceAccepts
<1> QED
  BY <1>1, SaneInvariance, PTL

(***************************************************************************)
(* The target relation accepts whatever the source relation accepts.       *)
(***************************************************************************)
THEOREM TargetNeverStricter == ReviewSpec => []TargetIsWeaker
<1>1. ASSUME NEW E, IsTrace(E), NEW x, SourceAccepts(E, x) PROVE TargetAccepts(E, x)
  <2>1. Acyclic(E, DenseSourceOrder(E) \cup Communication(E, x))
    BY <1>1, CompactSourceOrder DEF SourceAccepts
  <2>2. TargetOrder(E) \cup Communication(E, x) \subseteq DenseSourceOrder(E) \cup Communication(E, x)
    BY TargetInsideDense
  <2> QED
    BY <2>1, <2>2, FewerEdges DEF TargetAccepts
<1>2. Sane => TargetIsWeaker
  BY <1>1, QueueFacts DEF Sane, MachineInv, TargetIsWeaker
<1> QED
  BY <1>2, SaneInvariance, PTL

(***************************************************************************)
(* The enumeration and the formula call the same executions target-only.   *)
(***************************************************************************)
THEOREM EnginesAlwaysAgree == ReviewSpec => []EnginesAgree
<1>1. Sane => EnginesAgree
  BY SameCandidates DEF Sane, Judged, EnginesAgree
<1> QED
  BY <1>1, SaneInvariance, PTL

(***************************************************************************)
(* What the source relation accepts, with its atomics undisturbed, is an   *)
(* x86-TSO execution.                                                      *)
(***************************************************************************)
THEOREM SourceIsTso == ReviewSpec => []SourceAcceptedIsTso
<1>1. Sane => SourceAcceptedIsTso
  <2> SUFFICES ASSUME Sane, Judged, AtomicsValid(window, execution), SourceAccepts(window, execution)
               PROVE  TsoAllows(window, execution)
    BY DEF SourceAcceptedIsTso
  <2>1. IsTrace(window) /\ IsExecution(window, execution)
    BY QueueFacts, ExecutionsAre DEF Sane, MachineInv
  <2> QED
    BY <2>1, SourceInsideTso
<1> QED
  BY <1>1, SaneInvariance, PTL

(***************************************************************************)
(* The target relation rejects no RVWMO execution of a window in which     *)
(* accesses coincide or are disjoint and no load fence follows a forwarded *)
(* read.                                                                   *)
(***************************************************************************)
THEOREM TargetRejectsNoRvwmo ==
  ReviewSpec => [](Uniform(window) /\ LoadFencesClear(window) => TargetAllowsRvwmo)
<1>1. Sane => (Uniform(window) /\ LoadFencesClear(window) => TargetAllowsRvwmo)
  <2> SUFFICES ASSUME Sane, Judged, RvwmoAllows(window, execution),
                      Uniform(window), LoadFencesClear(window)
               PROVE  TargetAccepts(window, execution)
    BY DEF TargetAllowsRvwmo
  <2>1. window \in Windows /\ IsTrace(window) /\ IsExecution(window, execution)
    BY QueueFacts, ExecutionsAre DEF Sane, MachineInv, Queues
  <2> QED
    BY <2>1, RvwmoInsideTarget
<1> QED
  BY <1>1, SaneInvariance, PTL

(***************************************************************************)
(* In such windows every run of the store-buffer machine is an x86-TSO     *)
(* execution that the target relation accepts too.                         *)
(***************************************************************************)
THEOREM RunsAreTso ==
  ReviewSpec => [](Uniform(window) /\ LoadFencesClear(window) => RunIsAccepted)
<1>1. Sane => (Uniform(window) /\ LoadFencesClear(window) => RunIsAccepted)
  <2> SUFFICES ASSUME Sane, origin = "machine", Uniform(window), LoadFencesClear(window)
               PROVE  TsoAllows(window, execution) /\ TargetAccepts(window, execution)
    BY DEF RunIsAccepted
  <2>1. /\ MachineInv /\ Over /\ execution = Run /\ window \in Windows /\ IsTrace(window)
        /\ IsExecution(window, execution)
    BY QueueFacts, ExecutionsAre DEF Sane, Judged, MachineInv, Queues
  <2>2. TsoAllows(window, execution)
    BY <2>1, RunIsTso
  <2>3. RvwmoAllows(window, execution)
    BY <2>2, TsoInsideRvwmo
  <2> QED
    BY <2>1, <2>2, <2>3, RvwmoInsideTarget
<1> QED
  BY <1>1, SaneInvariance, PTL


-----------------------------------------------------------------------------
(* The checker and the sweep.                                                *)

\* What the loops have behind them.
Produced == Executions(window) \ pending

LoopInv ==
  /\ phase = "screen" => examined = 0
  /\ phase = "enumerate" =>
       /\ examined = Cardinality(Produced)
       /\ \A x \in Produced : ~ TargetOnly(window, x)

Inv == TypeOK /\ LoopInv /\ SafeLeavesNothing

(***************************************************************************)
(* Taking one more execution adds one to what was produced.                *)
(***************************************************************************)
LEMMA ProducedGrows ==
  ASSUME NEW all, IsFiniteSet(all), NEW rest \in SUBSET all, NEW x \in rest
  PROVE  Cardinality(all \ (rest \ {x})) = Cardinality(all \ rest) + 1
<1>1. all \ (rest \ {x}) = (all \ rest) \cup {x}
  OBVIOUS
<1>2. IsFiniteSet(all \ rest) /\ x \notin all \ rest
  BY FS_Subset
<1> QED
  BY <1>1, <1>2, FS_AddElement

(***************************************************************************)
(* The invariant is inductive: the loops skip nothing, and either engine   *)
(* says "safe" only when nothing of its own search is left.                *)
(***************************************************************************)
LEMMA InvInductive ==
  /\ Init => Inv
  /\ Inv /\ [Next]_vars => Inv'
<1> USE BudgetIsNatural
<1>1. Init => Inv
  BY DEF Init, Inv, TypeOK, LoopInv, SafeLeavesNothing
<1>2. ASSUME Inv, Screen PROVE Inv'
  <2>1. TypeOK'
    BY <1>2 DEF Inv, TypeOK, Screen, Finish, Statuses
  <2>2. phase' = "enumerate" => Produced' = {} /\ examined' = 0
    <3> SUFFICES ASSUME phase' = "enumerate" PROVE Produced' = {} /\ examined' = 0
      OBVIOUS
    <3>1. pending' = Executions(window) /\ window' = window
      BY <1>2 DEF Screen, Finish
    <3> QED
      BY <3>1, <1>2 DEF Produced, Screen, Inv, LoopInv
  <2>3. LoopInv'
    BY <1>2, <2>2, FS_EmptySet DEF LoopInv, Screen, Finish
  <2>4. SafeLeavesNothing'
    BY <1>2 DEF Inv, TypeOK, Screen, Finish, SafeLeavesNothing
  <2> QED
    BY <2>1, <2>3, <2>4 DEF Inv
<1>3. ASSUME Inv, Timeout \/ OverBudget \/ GiveUp PROVE Inv'
  <2>1. TypeOK'
    BY <1>3 DEF Inv, TypeOK, Timeout, OverBudget, GiveUp, Finish, Statuses
  <2>2. LoopInv' /\ SafeLeavesNothing'
    BY <1>3 DEF Inv, TypeOK, Timeout, OverBudget, GiveUp, Finish, LoopInv, SafeLeavesNothing
  <2> QED
    BY <2>1, <2>2 DEF Inv
<1>4. ASSUME Inv, NEW x \in Executions(window), Examine(x) PROVE Inv'
  <2>1. TypeOK'
    BY <1>4 DEF Inv, TypeOK, Examine, Finish, Verdict, Statuses
  <2>2. SafeLeavesNothing'
    BY <1>4 DEF Inv, TypeOK, Examine, Finish, Verdict, SafeLeavesNothing
  <2>3. LoopInv'
    <3> SUFFICES ASSUME ~ TargetOnly(window, x), phase' = "enumerate" PROVE LoopInv'
      BY <1>4 DEF Examine, Finish, LoopInv
    <3>1. IsFiniteSet(Executions(window)) /\ pending \in SUBSET Executions(window)
      BY <1>4, ExecutionsAreFinite DEF Inv, TypeOK
    <3>2. window' = window /\ pending' = pending \ {x} /\ x \in pending /\ examined' = examined + 1
      BY <1>4 DEF Examine
    <3>3. Cardinality(Produced') = Cardinality(Produced) + 1
      BY <3>1, <3>2, ProducedGrows DEF Produced
    <3>4. Produced' = Produced \cup {x}
      BY <3>1, <3>2 DEF Produced
    <3>5. examined = Cardinality(Produced) /\ \A y \in Produced : ~ TargetOnly(window, y)
      BY <1>4 DEF Inv, LoopInv, Examine
    <3> QED
      BY <3>2, <3>3, <3>4, <3>5 DEF LoopInv
  <2> QED
    BY <2>1, <2>2, <2>3 DEF Inv
<1>5. ASSUME Inv, Exhaust PROVE Inv'
  <2>1. TypeOK' /\ LoopInv'
    BY <1>5 DEF Inv, TypeOK, Exhaust, Finish, LoopInv, Statuses
  <2>2. SafeLeavesNothing'
    BY <1>5 DEF Inv, LoopInv, Produced, Exhaust, Finish, SafeLeavesNothing
  <2> QED
    BY <2>1, <2>2 DEF Inv
<1>6. ASSUME Inv, Unsat PROVE Inv'
  <2>1. TypeOK' /\ LoopInv'
    BY <1>6 DEF Inv, TypeOK, Unsat, Finish, LoopInv, Statuses
  <2>2. SafeLeavesNothing'
    BY <1>6, SameCandidates DEF Unsat, Models, Finish, SafeLeavesNothing
  <2> QED
    BY <2>1, <2>2 DEF Inv
<1>7. ASSUME Inv, NEW x \in Executions(window), Sat(x) PROVE Inv'
  <2>1. TypeOK' /\ LoopInv'
    BY <1>7 DEF Inv, TypeOK, Sat, Finish, LoopInv, Verdict, Statuses
  <2>2. SafeLeavesNothing'
    BY <1>7 DEF Inv, TypeOK, Sat, Finish, Verdict, SafeLeavesNothing
  <2> QED
    BY <2>1, <2>2 DEF Inv
<1>8. ASSUME Inv, UNCHANGED vars PROVE Inv'
  <2>1. Produced' = Produced
    BY <1>8 DEF vars, Produced
  <2> QED
    BY <1>8, <2>1 DEF vars, Inv, TypeOK, LoopInv, SafeLeavesNothing
<1> QED
  BY <1>1, <1>2, <1>3, <1>4, <1>5, <1>6, <1>7, <1>8 DEF Next, Done

-----------------------------------------------------------------------------
(***************************************************************************)
(* The invariant holds throughout.                                         *)
(***************************************************************************)
LEMMA Invariance == Spec => []Inv
  BY InvInductive, PTL DEF Spec

(***************************************************************************)
(* The checker's state is always well-formed, and a window it closed as    *)
(* "safe" has no target-only execution, whichever engine closed it.        *)
(***************************************************************************)
THEOREM SafeIsExhaustive == Spec => [](TypeOK /\ SafeLeavesNothing)
<1>1. Inv => TypeOK /\ SafeLeavesNothing
  BY DEF Inv
<1> QED
  BY <1>1, Invariance, PTL

(***************************************************************************)
(* An enumeration that stops short never says "safe".                      *)
(***************************************************************************)
THEOREM StoppingShortIsNotSafe == Spec => NoEarlySafe
<1> DEFINE Complete == (phase = "enumerate" /\ status' = "safe") =>
                          examined = Cardinality(Executions(window))
<1>1. ASSUME Inv, [Next]_vars PROVE Complete
  <2> SUFFICES ASSUME phase = "enumerate", status' = "safe"
               PROVE  examined = Cardinality(Executions(window))
    OBVIOUS
  <2>1. Exhaust
    BY <1>1 DEF Inv, TypeOK, Next, vars, Screen, Timeout, OverBudget, Examine, GiveUp, Unsat, Sat,
                Done, Finish, Verdict
  <2>2. Produced = Executions(window)
    BY <2>1 DEF Exhaust, Produced
  <2> QED
    BY <1>1, <2>2 DEF Inv, LoopInv
<1>2. Inv /\ [Next]_vars => [Complete]_vars
  BY <1>1
<1> QED
  BY <1>2, Invariance, PTL DEF Spec, NoEarlySafe

-----------------------------------------------------------------------------
Built == BuildWindows(trace, Conflicts(trace))
Clean(w) == \A x \in Executions(w) : ~ TargetOnly(w, x)
Doubts == {"unknown", "counterexample"}

CheckerInv == IF phase = "idle" THEN status = "none" ELSE Inv

SweepInv ==
  /\ CheckerInv
  /\ trace \in Traces /\ closed \in BOOLEAN
  /\ todo \subseteq Built
  /\ phase = "done" => status \in statuses
  /\ \A w \in Built : \/ w \in todo \/ Clean(w) \/ statuses \cap Doubts # {}
                      \/ w = window /\ phase # "idle"
  /\ verdict # "none" => phase \in {"idle", "done"}
  /\ verdict = "TRACE_SAFE" => todo = {} /\ statuses \cap Doubts = {}

(***************************************************************************)
(* A window whose check ended without a doubt is clean.                    *)
(***************************************************************************)
LEMMA DoneIsClean ==
  ASSUME SweepInv, phase = "done", statuses \cap Doubts = {}
  PROVE  Clean(window)
<1>1. Inv /\ status \in statuses
  BY DEF SweepInv, CheckerInv
<1>2. status = "safe"
  BY <1>1 DEF Inv, TypeOK, Statuses, Doubts
<1> QED
  BY <1>1, <1>2 DEF Inv, SafeLeavesNothing, Clean

LEMMA SweepStarts == SweepInit => SweepInv
<1> SUFFICES ASSUME SweepInit PROVE SweepInv
  OBVIOUS
<1>1. statuses = {} => \A w \in Built : w \in todo
  BY DEF SweepInit, Built
<1>2. statuses # {} => "unknown" \in statuses
  BY DEF SweepInit
<1> QED
  BY <1>1, <1>2 DEF SweepInit, SweepInv, CheckerInv, Built, Doubts

LEMMA TakeKeeps ==
  ASSUME SweepInv, NEW w \in todo, Take(w)
  PROVE  SweepInv'
<1>1. /\ Built' = Built /\ statuses' = statuses /\ closed' = closed
      /\ window' = w /\ todo' = todo \ {w} /\ verdict = "none" /\ verdict' = "none"
      /\ phase' = "screen" /\ pending' = {} /\ examined' = 0 /\ status' = "none"
      /\ witness' = NoExecution /\ phase \in {"idle", "done"} /\ trace' = trace
  BY DEF Take, Between, Built
<1>2. w \in Windows
  BY WindowsOfTraces DEF SweepInv, Built
<1>3. Inv'
  BY <1>1, <1>2, BudgetIsNatural DEF Inv, TypeOK, LoopInv, SafeLeavesNothing, Statuses, SweepInv
<1>4. \A v \in Built : \/ v \in todo' \/ Clean(v) \/ statuses \cap Doubts # {}
                       \/ v = w
  BY <1>1, DoneIsClean DEF SweepInv
<1> QED
  BY <1>1, <1>3, <1>4 DEF SweepInv, CheckerInv, Clean

LEMMA WorkKeeps ==
  ASSUME SweepInv, Work
  PROVE  SweepInv'
<1>1. Next /\ phase \notin {"idle", "done"} /\ phase' # "idle" /\ closed' = closed /\ window' = window
  BY DEF Work, Next, Screen, Timeout, OverBudget, Exhaust, GiveUp, Unsat, Examine, Sat, Finish
<1>2. Inv /\ Inv'
  BY <1>1, InvInductive DEF SweepInv, CheckerInv
<1>3. Built' = Built /\ trace' = trace /\ todo' = todo /\ verdict' = verdict /\ statuses \subseteq statuses'
  BY DEF Work, Built
<1>4. phase' = "done" => status' \in statuses'
  BY <1>2 DEF Inv, TypeOK, Work
<1>5. verdict' # "TRACE_SAFE"
  BY <1>1, <1>3 DEF SweepInv, Between
<1> QED
  BY <1>1, <1>2, <1>3, <1>4, <1>5 DEF SweepInv, CheckerInv, Clean

LEMMA ConcludeKeeps ==
  ASSUME SweepInv, Conclude
  PROVE  SweepInv'
<1>1. /\ UNCHANGED <<vars, trace, todo, statuses>> /\ phase \in {"idle", "done"} /\ todo = {}
      /\ verdict' = "TRACE_SAFE" => statuses \cap Doubts = {}
  BY DEF Conclude, Between, Doubts
<1>2. Inv => Inv'
  BY <1>1, InvInductive
<1> QED
  BY <1>1, <1>2 DEF SweepInv, CheckerInv, Built, Clean, vars, Between

LEMMA StutterKeeps ==
  ASSUME SweepInv, UNCHANGED sweepVars
  PROVE  SweepInv'
<1>1. UNCHANGED vars /\ UNCHANGED <<trace, todo, statuses, verdict>>
  BY DEF sweepVars
<1>2. Inv => Inv'
  BY <1>1, InvInductive
<1> QED
  BY <1>1, <1>2 DEF SweepInv, CheckerInv, Built, Clean, vars, Between

(***************************************************************************)
(* pipeline.py, lines 302-307: TRACE_SAFE is said only when every window   *)
(* that the trace was divided into, over the limit or not, has been        *)
(* searched and has no target-only execution.                              *)
(***************************************************************************)
SafeTraceIsSwept == verdict = "TRACE_SAFE" => \A w \in Built : Clean(w)

THEOREM SafeTraceIsSweptHolds == SweepSpec => []SafeTraceIsSwept
<1>1. SweepInv /\ [SweepNext]_sweepVars => SweepInv'
  BY TakeKeeps, WorkKeeps, ConcludeKeeps, StutterKeeps DEF SweepNext, Concluded
<1>2. SweepInv => SafeTraceIsSwept
  <2> SUFFICES ASSUME SweepInv, verdict = "TRACE_SAFE", NEW w \in Built PROVE Clean(w)
    BY DEF SafeTraceIsSwept
  <2>1. (w = window /\ phase # "idle") \/ Clean(w)
    BY DEF SweepInv
  <2>2. phase \in {"idle", "done"} /\ statuses \cap Doubts = {}
    BY DEF SweepInv, Between
  <2> QED
    BY <2>1, <2>2, DoneIsClean
<1> QED
  BY <1>1, <1>2, SweepStarts, PTL DEF SweepSpec

(***************************************************************************)
(* Also in a sweep the window that is being checked is closed as "safe"    *)
(* only when it has no target-only execution.                              *)
(***************************************************************************)
THEOREM SafeIsExhaustiveInSweeps == SweepSpec => []SafeLeavesNothing
<1>1. SweepInv /\ [SweepNext]_sweepVars => SweepInv'
  BY TakeKeeps, WorkKeeps, ConcludeKeeps, StutterKeeps DEF SweepNext, Concluded
<1>2. SweepInv => SafeLeavesNothing
  BY DEF SweepInv, CheckerInv, Inv, SafeLeavesNothing
<1> QED
  BY <1>1, <1>2, SweepStarts, PTL DEF SweepSpec

-----------------------------------------------------------------------------
(* What the verdicts say of the memory models, for the windows in which the  *)
(* code's relations and the models are comparable.                           *)

LEMMA SweepKeeps == SweepInv /\ [SweepNext]_sweepVars => SweepInv'
BY TakeKeeps, WorkKeeps, ConcludeKeeps, StutterKeeps DEF SweepNext, Concluded

\* A counterexample is the candidate that the search found, with its values.
WitnessInv ==
  status = "counterexample" =>
    /\ window \in Windows
    /\ witness \in Executions(window)
    /\ TargetOnly(window, witness) /\ ValuesMatch(window, witness)

LEMMA WitnessKeeps == SweepInv /\ WitnessInv /\ [SweepNext]_sweepVars => WitnessInv'
<1> SUFFICES ASSUME SweepInv, WitnessInv, [SweepNext]_sweepVars, status' = "counterexample"
             PROVE  /\ window' \in Windows
                    /\ witness' \in Executions(window')
                    /\ TargetOnly(window', witness') /\ ValuesMatch(window', witness')
  BY DEF WitnessInv
<1>1. CASE UNCHANGED <<window, status, witness>>
  BY <1>1 DEF WitnessInv
<1>2. CASE Work /\ ~ UNCHANGED <<window, status, witness>>
  <2>1. window' = window /\ phase \notin {"idle", "done"}
    BY <1>2 DEF Work, Screen, Timeout, OverBudget, Exhaust, GiveUp, Unsat, Examine, Sat, Finish
  <2>2. window \in Windows
    BY <2>1 DEF SweepInv, CheckerInv, Inv, TypeOK
  <2>3. PICK x \in Executions(window) : Examine(x) \/ Sat(x)
    BY <1>2 DEF Work, Screen, Timeout, OverBudget, Exhaust, GiveUp, Unsat, Finish
  <2>4. witness' = x /\ status' = Verdict(x) /\ TargetOnly(window, x)
    <3>1. CASE Examine(x)
      BY <1>2, <2>1, <3>1 DEF Examine, Finish
    <3>2. CASE Sat(x)
      BY <3>2, SameCandidates DEF Sat, Models, Finish
    <3> QED
      BY <2>3, <3>1, <3>2
  <2>5. ValuesMatch(window, x)
    BY <2>4 DEF Verdict
  <2> QED
    BY <2>1, <2>2, <2>4, <2>5
<1>3. CASE \E w \in todo : Take(w)
  BY <1>3 DEF Take
<1>4. CASE Conclude \/ Concluded \/ UNCHANGED sweepVars
  BY <1>1, <1>4 DEF Conclude, Concluded, sweepVars, vars
<1> QED
  BY <1>1, <1>2, <1>3, <1>4 DEF SweepNext

LEMMA WitnessHolds == SweepSpec => [](SweepInv /\ WitnessInv)
<1>1. SweepInit => WitnessInv
  BY DEF SweepInit, WitnessInv
<1> QED
  BY <1>1, SweepStarts, SweepKeeps, WitnessKeeps, PTL DEF SweepSpec

(***************************************************************************)
(* docs/spec/soundness.md, section 2: in a window that check_window closed *)
(* as "safe", every execution RVWMO allows is one x86-TSO allows, if       *)
(* accesses coincide or are disjoint and no load fence comes after a read  *)
(* of what the thread has itself written (with one it is false).           *)
(***************************************************************************)
THEOREM SafeIsInclusion ==
  SweepSpec => [](Uniform(window) /\ LoadFencesClear(window) => SafeMeansInclusion)
<1>1. SweepInv => (Uniform(window) /\ LoadFencesClear(window) => SafeMeansInclusion)
  <2> SUFFICES ASSUME SweepInv, status = "safe", NEW x \in Executions(window),
                      RvwmoAllows(window, x), Uniform(window), LoadFencesClear(window)
               PROVE  TsoAllows(window, x)
    BY DEF SafeMeansInclusion
  <2>1. window \in Windows /\ ~ TargetOnly(window, x)
    BY DEF SweepInv, CheckerInv, Inv, TypeOK, SafeLeavesNothing
  <2>2. IsTrace(window) /\ IsExecution(window, x) /\ AtomicsValid(window, x)
    BY <2>1, WindowsAreTraces, ExecutionsAre DEF RvwmoAllows
  <2>3. TargetAccepts(window, x)
    BY <2>1, <2>2, RvwmoInsideTarget
  <2>4. SourceAccepts(window, x)
    BY <2>1, <2>2, <2>3 DEF TargetOnly
  <2> QED
    BY <2>2, <2>4, SourceInsideTso
<1> QED
  BY <1>1, SweepStarts, SweepKeeps, PTL DEF SweepSpec

(***************************************************************************)
(* A counterexample is no execution of x86-TSO, and returns to every load  *)
(* the bytes of the write it reads from (checker.py, _values_match), if no *)
(* thread can read its own pending store (with one it is false).           *)
(***************************************************************************)
THEOREM CounterexamplesAreForbidden ==
  SweepSpec => [](NeverForwards(window) => CounterexampleIsForbidden)
<1>1. SweepInv /\ WitnessInv => (NeverForwards(window) => CounterexampleIsForbidden)
  <2> SUFFICES ASSUME SweepInv, WitnessInv, status = "counterexample", NeverForwards(window)
               PROVE  /\ ~ TsoAllows(window, witness)
                      /\ \A p \in ReadParts(window) : \A b \in p.addr .. End(p) - 1 :
                           \E w \in Writes(window) : /\ w = witness.rf[p]
                                                     /\ w.known /\ p.read.known
                                                     /\ w.data[b] = p.read.data[b]
    BY DEF CounterexampleIsForbidden
  <2>1. /\ IsTrace(window) /\ NeverForwards(window) /\ IsExecution(window, witness)
        /\ ~ SourceAccepts(window, witness) /\ ValuesMatch(window, witness)
    BY WindowsAreTraces, ExecutionsAre DEF WitnessInv, TargetOnly
  <2>2. ~ TsoAllows(window, witness)
    BY <2>1, TsoInsideSource
  <2>3. ASSUME NEW p \in ReadParts(window) PROVE witness.rf[p] \in Writes(window)
    BY <2>1, SourceFacts DEF ValuesMatch
  <2> QED
    BY <2>1, <2>2, <2>3 DEF ValuesMatch
<1> QED
  BY <1>1, WitnessHolds, PTL

(***************************************************************************)
(* A counterexample is an execution RVWMO allows, if accesses coincide or  *)
(* are disjoint and no thread reads a place twice with nothing in between  *)
(* that keeps the reads in order (the target relation does not tie them).  *)
(***************************************************************************)
THEOREM CounterexamplesArePossible ==
  SweepSpec => [](Uniform(window) /\ RereadsOrdered(window) => CounterexampleIsPossible)
<1>1. SweepInv /\ WitnessInv => (Uniform(window) /\ RereadsOrdered(window) => CounterexampleIsPossible)
  <2> SUFFICES ASSUME SweepInv, WitnessInv, status = "counterexample",
                      Uniform(window), RereadsOrdered(window)
               PROVE  RvwmoAllows(window, witness)
    BY DEF CounterexampleIsPossible
  <2>1. /\ window \in Windows /\ IsTrace(window) /\ IsExecution(window, witness)
        /\ AtomicsValid(window, witness) /\ TargetAccepts(window, witness)
    BY WindowsAreTraces, ExecutionsAre DEF WitnessInv, TargetOnly
  <2> QED
    BY <2>1, TargetInsideRvwmo
<1> QED
  BY <1>1, WitnessHolds, PTL

-----------------------------------------------------------------------------
(* A trace is parted where no cycle of relations crosses: a divergence of the*)
(* whole trace is one of a window.                                           *)

\* Sets of numbers that hold 0 and with each number the next one.
LEMMA NumbersInOrder ==
  ASSUME NEW S \in SUBSET Nat, 0 \in S, \A n \in S : n + 1 \in S
  PROVE  S = Nat
<1> SUFFICES ASSUME Nat \ S # {} PROVE FALSE
  OBVIOUS
<1>1. PICK m \in Nat \ S : \A k \in Nat \ S : m <= k
  BY LeastNatural
<1>2. m - 1 \in Nat /\ m - 1 \notin S
  BY <1>1
<1> QED
  BY <1>1, <1>2

(***************************************************************************)
(* A recursion over the numbers that takes the last value only.            *)
(***************************************************************************)
LEMMA RecursionExists ==
  ASSUME NEW V, NEW first \in V, NEW step \in [V -> V]
  PROVE  \E f \in [Nat -> V] : f[0] = first /\ \A k \in Nat : f[k + 1] = step[f[k]]
<1> DEFINE Good(g, n) == /\ g \in [0 .. n -> V] /\ g[0] = first
                         /\ \A k \in 1 .. n : g[k] = step[g[k - 1]]
           S == {n \in Nat : \E g \in [0 .. n -> V] : Good(g, n)}
<1>1. S = Nat
  <2>1. 0 \in S
    <3>1. Good([k \in 0 .. 0 |-> first], 0)
      OBVIOUS
    <3> QED
      BY <3>1
  <2>2. ASSUME NEW n \in S PROVE n + 1 \in S
    <3>1. PICK g \in [0 .. n -> V] : Good(g, n)
      OBVIOUS
    <3> DEFINE h == [k \in 0 .. n + 1 |-> IF k = n + 1 THEN step[g[n]] ELSE g[k]]
    <3>2. h \in [0 .. n + 1 -> V]
      OBVIOUS
    <3>3. h[0] = first
      BY <3>1
    <3>4. ASSUME NEW k \in 1 .. n + 1 PROVE h[k] = step[h[k - 1]]
      <4>1. CASE k = n + 1
        BY <4>1
      <4>2. CASE k # n + 1
        BY <3>1, <4>2
      <4> QED
        BY <4>1, <4>2
    <3>5. Good(h, n + 1)
      BY <3>2, <3>3, <3>4
    <3> HIDE DEF h, Good
    <3> QED
      BY <3>2, <3>5
  <2> HIDE DEF S
  <2>3. S \in SUBSET Nat
    BY DEF S
  <2> QED
    BY <2>1, <2>2, <2>3, NumbersInOrder
<1>2. ASSUME NEW n \in Nat, NEW m \in Nat, NEW g, NEW h, Good(g, n), Good(h, m),
             NEW k \in Nat, k <= n, k <= m
      PROVE  g[k] = h[k]
  <2> DEFINE T == {i \in Nat : i <= n /\ i <= m => g[i] = h[i]}
  <2>1. 0 \in T
    BY <1>2
  <2>2. ASSUME NEW i \in T PROVE i + 1 \in T
    <3>1. SUFFICES ASSUME i + 1 <= n, i + 1 <= m PROVE g[i + 1] = h[i + 1]
      OBVIOUS
    <3>2. g[i] = h[i] /\ i + 1 \in 1 .. n /\ i + 1 \in 1 .. m
      BY <3>1
    <3>3. g[i + 1] = step[g[(i + 1) - 1]] /\ h[i + 1] = step[h[(i + 1) - 1]]
      BY <1>2, <3>2
    <3> QED
      BY <3>2, <3>3
  <2>3. T \in SUBSET Nat
    OBVIOUS
  <2>4. T = Nat
    <3> HIDE DEF T
    <3> QED
      BY <2>1, <2>2, <2>3, NumbersInOrder
  <2> QED
    BY <1>2, <2>4
<1> DEFINE G == [n \in Nat |-> CHOOSE g \in [0 .. n -> V] : Good(g, n)]
           f == [k \in Nat |-> G[k][k]]
<1>3. \A n \in Nat : G[n] \in [0 .. n -> V] /\ Good(G[n], n)
  <2> SUFFICES ASSUME NEW n \in Nat PROVE G[n] \in [0 .. n -> V] /\ Good(G[n], n)
    OBVIOUS
  <2>1. \E g \in [0 .. n -> V] : Good(g, n)
    BY <1>1
  <2> HIDE DEF Good
  <2> QED
    BY <2>1
<1> HIDE DEF G, S
<1>4. f \in [Nat -> V]
  <2> SUFFICES ASSUME NEW k \in Nat PROVE G[k][k] \in V
    OBVIOUS
  <2> QED
    BY <1>3
<1>5. f[0] = first
  BY <1>3
<1>6. ASSUME NEW k \in Nat PROVE f[k + 1] = step[f[k]]
  <2>1. k + 1 \in Nat /\ k + 1 \in 1 .. k + 1 /\ (k + 1) - 1 = k
    OBVIOUS
  <2>2. Good(G[k + 1], k + 1) /\ Good(G[k], k)
    BY <1>3, <2>1
  <2>3. G[k + 1][k + 1] = step[G[k + 1][k]]
    BY <2>1, <2>2
  <2>4. G[k + 1][k] = G[k][k]
    <3> HIDE DEF Good
    <3> QED
      BY <1>2, <2>1, <2>2
  <2> QED
    BY <2>1, <2>3, <2>4
<1> HIDE DEF f
<1> QED
  BY <1>4, <1>5, <1>6

(***************************************************************************)
(* Around finds what its name says in a finite graph: it holds the start,  *)
(* not the vertex that was taken out, and no other edge leaves it.         *)
(***************************************************************************)
LEMMA AroundIsClosed ==
  ASSUME NEW graph, IsFiniteSet(UNION graph), NEW v, NEW s \in SUBSET (UNION graph), v \notin s
  PROVE  /\ s \subseteq Around(graph, v, s) /\ v \notin Around(graph, v, s)
         /\ \A g \in graph : v \notin g /\ g \cap Around(graph, v, s) # {} => g \subseteq Around(graph, v, s)
<1> DEFINE left == {g \in graph : v \notin g}
           D == (UNION graph) \ {v}
           Grown(r) == r \cup UNION {g \in left : g \cap r # {}}
           more == [r \in SUBSET D |-> Grown(r)]
           upto == CHOOSE f : f = [k \in Nat |->
                     IF k = 0 THEN s ELSE LET r == f[k - 1] IN r \cup UNION {g \in left : g \cap r # {}}]
           n == Cardinality(UNION graph)
<1>1. more \in [SUBSET D -> SUBSET D]
  OBVIOUS
<1>2. Around(graph, v, s) = upto[n]
  BY DEF Around
<1>3. PICK f \in [Nat -> SUBSET D] : f[0] = s /\ \A k \in Nat : f[k + 1] = more[f[k]]
  <2> DEFINE V == SUBSET D
  <2>1. s \in V /\ more \in [V -> V]
    BY <1>1
  <2> HIDE DEF more, upto, n, V
  <2>2. \E f \in [Nat -> V] : f[0] = s /\ \A k \in Nat : f[k + 1] = more[f[k]]
    BY <2>1, RecursionExists, SMTT(60)
  <2> QED
    BY <2>2 DEF V
<1>4. f = [k \in Nat |-> IF k = 0 THEN s ELSE LET r == f[k - 1] IN r \cup UNION {g \in left : g \cap r # {}}]
  <2>1. ASSUME NEW k \in Nat, k # 0 PROVE f[k] = f[k - 1] \cup UNION {g \in left : g \cap f[k - 1] # {}}
    <3>1. k - 1 \in Nat /\ (k - 1) + 1 = k
      BY <2>1
    <3>2. f[k - 1] \in SUBSET D /\ f[k] = more[f[k - 1]]
      <4> HIDE DEF more, upto, n
      <4> QED
        BY <1>3, <3>1
    <3> QED
      BY <3>2
  <2> HIDE DEF more, upto, n, left
  <2> QED
    BY <1>3, <2>1
<1>5. upto = [k \in Nat |-> IF k = 0 THEN s ELSE LET r == upto[k - 1] IN r \cup UNION {g \in left : g \cap r # {}}]
  <2> HIDE DEF more, n, left
  <2> QED
    BY <1>4
<1>6. upto[0] = s /\ \A k \in Nat : upto[k + 1] = Grown(upto[k])
  <2> HIDE DEF more, n, upto, left
  <2>1. upto[0] = s
    BY <1>5
  <2>2. ASSUME NEW k \in Nat PROVE upto[k + 1] = Grown(upto[k])
    <3>1. k + 1 \in Nat /\ k + 1 # 0 /\ (k + 1) - 1 = k
      OBVIOUS
    <3>2. upto[k + 1] = LET r == upto[(k + 1) - 1] IN r \cup UNION {g \in left : g \cap r # {}}
      BY <1>5, <3>1
    <3> QED
      BY <3>1, <3>2
  <2> QED
    BY <2>1, <2>2
<1>7. n \in Nat /\ IsFiniteSet(D) /\ D \in SUBSET (UNION graph)
  BY FS_CardinalityType, FS_Subset
<1> DEFINE S == {k \in Nat : s \subseteq upto[k] /\ upto[k] \subseteq D /\ (Grown(upto[k]) = upto[k] \/ Cardinality(upto[k]) >= k)}
<1> HIDE DEF more, upto, n
<1>8. S = Nat
  <2>1. 0 \in S
    <3>1. upto[0] = s /\ s \subseteq D
      BY <1>6
    <3>2. Cardinality(upto[0]) \in Nat
      BY <1>7, <3>1, FS_Subset, FS_CardinalityType
    <3> QED
      BY <3>1, <3>2
  <2>2. ASSUME NEW k \in S PROVE k + 1 \in S
    <3> DEFINE a == upto[k]
               b == upto[k + 1]
    <3>1. k \in Nat /\ a \subseteq D /\ b = Grown(a) /\ s \subseteq a
      BY <1>6
    <3>2. b \subseteq D /\ a \subseteq b
      BY <3>1
    <3>3. CASE Grown(a) = a
      <4>1. b = a
        BY <3>1, <3>3
      <4>2. Grown(b) = b
        BY <3>3, <4>1
      <4> HIDE DEF Grown
      <4> QED
        BY <3>1, <3>2, <4>2
    <3>4. CASE Grown(a) # a
      <4> HIDE DEF Grown
      <4>1. Cardinality(a) >= k
        BY <3>4
      <4>2. b # a
        BY <3>1, <3>4
      <4> HIDE DEF a, b, D, S
      <4>3. IsFiniteSet(b) /\ IsFiniteSet(a)
        BY <1>7, <3>1, <3>2, FS_Subset
      <4>4. Cardinality(a) <= Cardinality(b) /\ Cardinality(a) # Cardinality(b)
        BY <3>2, <4>2, <4>3, FS_Subset
      <4>5. Cardinality(a) \in Nat /\ Cardinality(b) \in Nat
        BY <4>3, FS_CardinalityType
      <4>6. Cardinality(b) >= k + 1
        BY <3>1, <4>1, <4>4, <4>5
      <4>7. k + 1 \in Nat /\ s \subseteq upto[k + 1] /\ upto[k + 1] \subseteq D /\ Cardinality(upto[k + 1]) >= k + 1
        BY <3>1, <3>2, <4>6 DEF b
      <4> QED
        BY <4>7 DEF S
    <3> QED
      BY <3>3, <3>4
  <2>3. S \in SUBSET Nat
    OBVIOUS
  <2> HIDE DEF S
  <2> QED
    BY <2>1, <2>2, <2>3, NumbersInOrder
<1>9. s \subseteq upto[n] /\ upto[n] \subseteq D /\ Grown(upto[n]) = upto[n]
  <2>1. n \in S
    BY <1>7, <1>8
  <2>2. upto[n] \subseteq D /\ s \subseteq upto[n]
    BY <2>1
  <2>3. CASE Grown(upto[n]) = upto[n]
    BY <2>2, <2>3
  <2>4. CASE Cardinality(upto[n]) >= n
    <3> HIDE DEF Grown
    <3>1. upto[n] \in SUBSET (UNION graph)
      BY <2>2
    <3> DEFINE U == UNION graph
               c == upto[n]
    <3> HIDE DEF U, c, D, S, left
    <3>2. IsFiniteSet(U) /\ c \in SUBSET U /\ n = Cardinality(U) /\ Cardinality(c) >= n
      BY <2>4, <3>1 DEF U, c, n
    <3>3. c = U
      <4>1. Cardinality(c) <= Cardinality(U) /\ (Cardinality(c) = Cardinality(U) => c = U) /\ IsFiniteSet(c)
        BY <3>2, FS_Subset
      <4>2. Cardinality(c) \in Nat
        BY <4>1, FS_CardinalityType
      <4> QED
        BY <1>7, <3>2, <4>1, <4>2
    <3>4. Grown(upto[n]) = upto[n]
      BY <3>3 DEF Grown, U, c, left
    <3> QED
      BY <2>2, <3>4
  <2> QED
    BY <2>1, <2>3, <2>4
<1>10. ASSUME NEW g \in graph, v \notin g, g \cap upto[n] # {} PROVE g \subseteq upto[n]
  <2>1. g \subseteq Grown(upto[n])
    BY <1>10
  <2> HIDE DEF Grown
  <2> QED
    BY <1>9, <2>1
<1> HIDE DEF Grown
<1> QED
  BY <1>2, <1>9, <1>10

-----------------------------------------------------------------------------
(* The order of a thread that x86-TSO keeps, step by step or by a full fence *)
(* in between, and the smallest cycles it makes with communication.          *)

Kept(E, a, b) ==
  /\ IsMemory(a) /\ IsMemory(b) /\ Before(a, b)
  /\ \/ IsRead(a) \/ IsWrite(b) \/ IsOrdered(a) \/ IsOrdered(b)
     \/ \E f \in E : Flushes(f) /\ Before(a, f) /\ Before(f, b)

KeptOrder(E) == {e \in E \X E : Kept(E, e[1], e[2])}

Whole(E, x) == KeptOrder(E) \cup AllCommunication(E, x)

\* What x86-TSO ties is kept.
LEMMA TsoIsKept ==
  ASSUME NEW E
  PROVE  TsoOrder(E) \subseteq KeptOrder(E)
<1> SUFFICES ASSUME NEW a \in E, NEW b \in E, TsoEdge(E, a, b) PROVE Kept(E, a, b)
  BY DEF TsoOrder, KeptOrder
<1>1. IsMemory(a) /\ IsMemory(b) /\ Before(a, b)
  BY DEF TsoEdge
<1>2. CASE Fenced(E, a, b)
  <2>1. PICK f \in E : /\ Before(a, f) /\ Before(f, b)
                       /\ \/ f.kind = "MFENCE"
                          \/ f.kind = "LFENCE" /\ IsRead(a) /\ IsRead(b)
                          \/ f.kind = "SFENCE" /\ IsWrite(a) /\ IsWrite(b)
    BY <1>2 DEF Fenced
  <2>2. CASE f.kind = "MFENCE"
    BY <1>1, <2>1, <2>2 DEF Kept, Flushes
  <2> QED
    BY <1>1, <2>1, <2>2 DEF Kept
<1>3. CASE ~ Fenced(E, a, b)
  BY <1>1, <1>3 DEF TsoEdge, Kept
<1> QED
  BY <1>2, <1>3

\* Program order is a total order of each thread.
LEMMA BeforeIsOrder ==
  ASSUME NEW E, IsTrace(E), NEW a \in E, NEW b \in E
  PROVE  /\ ~ Before(a, a) /\ (Before(a, b) => ~ Before(b, a) /\ a # b /\ a.thread = b.thread)
         /\ a.thread = b.thread /\ a # b => Before(a, b) \/ Before(b, a)
         /\ \A c \in E : Before(a, b) /\ Before(b, c) => Before(a, c)
BY DEF IsTrace, Before

\* Two steps that are kept make one.
LEMMA KeptTransitive ==
  ASSUME NEW E, IsTrace(E), NEW a \in E, NEW b \in E, NEW c \in E, Kept(E, a, b), Kept(E, b, c)
  PROVE  Kept(E, a, c)
<1>1. /\ IsMemory(a) /\ IsMemory(b) /\ IsMemory(c) /\ Before(a, b) /\ Before(b, c) /\ Before(a, c)
  BY BeforeIsOrder DEF Kept
<1>2. CASE IsRead(a) \/ IsWrite(c) \/ IsOrdered(a) \/ IsOrdered(c)
  BY <1>1, <1>2 DEF Kept
<1>3. CASE IsOrdered(b)
  BY <1>1, <1>3 DEF Kept, Flushes, IsOrdered
<1>4. ASSUME NEW f \in E, Flushes(f), (Before(a, f) /\ Before(f, b)) \/ (Before(b, f) /\ Before(f, c))
      PROVE  Kept(E, a, c)
  <2>1. Before(a, f) /\ Before(f, c)
    <3>1. CASE Before(a, f) /\ Before(f, b)
      BY <1>1, <3>1, BeforeIsOrder
    <3>2. CASE Before(b, f) /\ Before(f, c)
      BY <1>1, <3>2, BeforeIsOrder
    <3> QED
      BY <1>4, <3>1, <3>2
  <2> QED
    BY <1>1, <1>4, <2>1 DEF Kept
<1>5. CASE ~ (IsRead(a) \/ IsWrite(c) \/ IsOrdered(a) \/ IsOrdered(c)) /\ ~ IsOrdered(b)
  <2>1. IsWrite(b) \/ \E f \in E : Flushes(f) /\ Before(a, f) /\ Before(f, b)
    BY <1>5 DEF Kept
  <2>2. IsRead(b) \/ \E f \in E : Flushes(f) /\ Before(b, f) /\ Before(f, c)
    BY <1>5 DEF Kept
  <2>3. ~ (IsRead(b) /\ IsWrite(b))
    BY <1>5 DEF IsRead, IsWrite, IsOrdered
  <2>4. PICK f \in E : Flushes(f) /\ ((Before(a, f) /\ Before(f, b)) \/ (Before(b, f) /\ Before(f, c)))
    BY <2>1, <2>2, <2>3
  <2> QED
    BY <1>4, <2>4
<1> QED
  BY <1>2, <1>3, <1>5

\* What a coherence order is about.
LEMMA CoherenceOf ==
  ASSUME NEW E, NEW co \in CoherenceOrders(E), NEW a, NEW b, <<a, b>> \in co
  PROVE  /\ a \in Writes(E) /\ b \in Writes(E) /\ a # b /\ Overlaps(a, b)
         /\ <<b, a>> \notin co
         /\ a.thread = b.thread => Before(a, b)
<1> DEFINE pairs == {e \in Writes(E) \X Writes(E) : e[1] # e[2] /\ Overlaps(e[1], e[2])}
           fixed == {e \in pairs : Before(e[1], e[2])}
           free  == {e \in pairs : e[1].thread # e[2].thread}
<1>1. PICK s \in SUBSET free : co = fixed \cup s
  BY DEF CoherenceOrders
<1>2. \A e \in pairs : e \in co <=> <<e[2], e[1]>> \notin co
  BY DEF CoherenceOrders
<1>3. <<a, b>> \in fixed \/ <<a, b>> \in free
  BY <1>1
<1>4. <<a, b>> \in pairs
  BY <1>3
<1>5. <<b, a>> \notin co
  <2> HIDE DEF pairs
  <2> QED
    BY <1>2, <1>4
<1>6. a.thread = b.thread => Before(a, b)
  BY <1>3
<1> QED
  BY <1>4, <1>5, <1>6

\* Of two writes of one place one comes first.
LEMMA CoherenceTotal ==
  ASSUME NEW E, NEW co \in CoherenceOrders(E),
         NEW a \in Writes(E), NEW b \in Writes(E), a # b, Overlaps(a, b)
  PROVE  <<a, b>> \in co \/ <<b, a>> \in co
<1> DEFINE pairs == {e \in Writes(E) \X Writes(E) : e[1] # e[2] /\ Overlaps(e[1], e[2])}
<1>1. \A e \in pairs : e \in co <=> <<e[2], e[1]>> \notin co
  BY DEF CoherenceOrders
<1>2. <<a, b>> \in pairs
  OBVIOUS
<1> HIDE DEF pairs
<1> QED
  BY <1>1, <1>2

(***************************************************************************)
(* Communication within a thread goes along its order; between threads it  *)
(* is a conflict.                                                          *)
(***************************************************************************)
LEMMA CommunicationIs ==
  ASSUME NEW E, IsTrace(E), NEW x, IsExecution(E, x), CoherentPerPlace(E, x),
         NEW a, NEW b, <<a, b>> \in AllCommunication(E, x)
  PROVE  /\ a \in E /\ b \in E /\ IsMemory(a) /\ IsMemory(b) /\ a # b
         /\ a.thread = b.thread => <<a, b>> \in KeptOrder(E)
         /\ a.thread # b.thread => {a, b} \in Conflicts(E)
<1>1. a \in E /\ b \in E /\ IsMemory(a) /\ IsMemory(b)
  BY CommunicationFacts
<1>2. ASSUME Overlaps(a, b), IsWrite(a) \/ IsWrite(b), a.thread # b.thread
      PROVE  {a, b} \in Conflicts(E)
  <2>1. <<a, b>> \in {d \in E \X E : /\ d[1].thread # d[2].thread /\ IsMemory(d[1]) /\ IsMemory(d[2])
                                     /\ Overlaps(d[1], d[2]) /\ (IsWrite(d[1]) \/ IsWrite(d[2]))}
    BY <1>1, <1>2
  <2> QED
    BY <2>1 DEF Conflicts
<1>3. CASE <<a, b>> \in x.co
  <2>0. x.co \in CoherenceOrders(E)
    BY DEF IsExecution
  <2>1. /\ a \in Writes(E) /\ b \in Writes(E) /\ a # b /\ Overlaps(a, b)
        /\ a.thread = b.thread => Before(a, b)
    BY <1>3, <2>0, CoherenceOf
  <2>2. a.thread = b.thread => <<a, b>> \in KeptOrder(E)
    BY <1>1, <2>1 DEF KeptOrder, Kept, Writes
  <2>3. a.thread # b.thread => {a, b} \in Conflicts(E)
    <3>1. IsWrite(a)
      BY <2>1 DEF Writes
    <3> QED
      BY <1>2, <2>1, <3>1, Zenon
  <2> QED
    BY <1>1, <2>1, <2>2, <2>3
<1>4. CASE <<a, b>> \in ReadFrom(E, x)
  <2>1. PICK p \in ReadParts(E) : x.rf[p] # Initial /\ a = x.rf[p] /\ b = p.read /\ a.thread # b.thread
    BY <1>4 DEF ReadFrom
  <2>2. a \in Writes(E) /\ Overlaps(a, b)
    BY <2>1, SourceFacts
  <2>3. {a, b} \in Conflicts(E)
    <3>1. IsWrite(a)
      BY <2>2 DEF Writes
    <3> QED
      BY <1>2, <2>1, <2>2, <3>1, Zenon
  <2>4. a # b
    BY <2>1
  <2> QED
    BY <1>1, <2>1, <2>3, <2>4
<1>5. CASE <<a, b>> \in FromRead(E, x)
  <2>1. PICK p \in ReadParts(E) :
          /\ a = p.read /\ b \in Writes(E) \ {p.read} /\ Overlaps(b, p)
          /\ x.rf[p] = Initial \/ <<x.rf[p], b>> \in x.co
    BY <1>5, FromReadFacts, Zenon
  <2>2. /\ p.addr \in Nat /\ p.size \in Nat /\ p.size > 0
        /\ a.addr <= p.addr /\ End(p) <= End(a) /\ a \in Reads(E)
    BY <2>1, PartFacts
  <2>3. a.addr \in Nat /\ a.size \in Nat /\ b.addr \in Nat /\ b.size \in Nat /\ b \in E /\ a # b /\ IsWrite(b)
    BY <1>1, <2>1 DEF IsTrace, Writes
  <2>4. Overlaps(a, b) /\ Overlaps(b, a)
    BY <2>1, <2>2, <2>3 DEF Overlaps, End
  <2>5. ASSUME Before(b, a) PROVE FALSE
    <3> DEFINE C == SamePlace(E) \cup Forwarded(E, x) \cup x.co \cup FromRead(E, x)
    <3>1. <<b, a>> \in C /\ <<a, b>> \in C
      BY <1>1, <1>5, <2>4, <2>5 DEF SamePlace
    <3>2. Acyclic(E, C)
      BY DEF CoherentPerPlace
    <3> HIDE DEF C
    <3>3. Headless({a, b}, C) /\ {a, b} \in SUBSET E
      BY <1>1, <3>1 DEF Headless
    <3> QED
      BY <3>2, <3>3, CyclicIffHeadless
  <2>6. a.thread = b.thread => Before(a, b)
    BY <1>1, <2>3, <2>5, BeforeIsOrder
  <2>7. a.thread = b.thread => <<a, b>> \in KeptOrder(E)
    BY <1>1, <2>3, <2>6 DEF KeptOrder, Kept
  <2> QED
    BY <1>1, <1>2, <2>3, <2>4, <2>7
<1> QED
  BY <1>3, <1>4, <1>5 DEF AllCommunication

(***************************************************************************)
(* A cyclic finite graph has a smallest set without a first member.        *)
(***************************************************************************)
Smallest(S, edges) == Headless(S, edges) /\ \A T \in SUBSET S : T # S => ~ Headless(T, edges)

LEMMA SmallestExists ==
  ASSUME NEW E, IsFiniteSet(E), NEW edges, ~ Acyclic(E, edges)
  PROVE  \E S \in SUBSET E : Smallest(S, edges)
<1> DEFINE sets == {S \in SUBSET E : Headless(S, edges)}
           sizes == {Cardinality(S) : S \in sets}
<1>1. sets # {}
  BY CyclicIffHeadless
<1>2. \A S \in sets : IsFiniteSet(S) /\ Cardinality(S) \in Nat
  BY FS_Subset, FS_CardinalityType
<1> HIDE DEF sets
<1>3. sizes \in SUBSET Nat /\ sizes # {}
  BY <1>1, <1>2
<1>4. PICK n \in sizes : \A m \in sizes : n <= m
  <2> HIDE DEF sizes
  <2> QED
    BY <1>3, LeastNatural
<1>5. PICK S \in sets : Cardinality(S) = n
  OBVIOUS
<1>6. ASSUME NEW T \in SUBSET S, T # S, Headless(T, edges) PROVE FALSE
  <2>1. T \in sets
    BY <1>6 DEF sets
  <2>2. Cardinality(S) <= Cardinality(T)
    BY <1>4, <1>5, <2>1
  <2>3. /\ Cardinality(T) <= Cardinality(S) /\ (Cardinality(S) = Cardinality(T) => S = T)
    BY <1>2, <1>6, FS_Subset
  <2>4. Cardinality(T) \in Nat /\ Cardinality(S) \in Nat
    BY <1>2, <2>1
  <2> QED
    BY <1>6, <2>2, <2>3, <2>4
<1> QED
  BY <1>6 DEF Smallest, sets

-----------------------------------------------------------------------------
(* No single vertex parts the conflicts of a smallest cycle.                 *)

\* A conflict has two ends, both accesses.
LEMMA ConflictsAre ==
  ASSUME NEW E, IsTrace(E), NEW g \in Conflicts(E)
  PROVE  \E a, b \in E : g = {a, b} /\ a # b /\ IsMemory(a) /\ IsMemory(b)
<1>1. PICK d \in E \X E : /\ g = {d[1], d[2]} /\ d[1].thread # d[2].thread
                          /\ IsMemory(d[1]) /\ IsMemory(d[2])
  BY DEF Conflicts
<1> QED
  BY <1>1

\* Edges of the graph stay inside the trace.
LEMMA GraphInside ==
  ASSUME NEW E, IsTrace(E)
  PROVE  /\ UNION Graph(E, Conflicts(E)) \subseteq E /\ UNION Conflicts(E) \subseteq E
         /\ Conflicts(E) \subseteq Graph(E, Conflicts(E))
         /\ ThreadLinks(UNION Conflicts(E)) \subseteq Graph(E, Conflicts(E))
<1> DEFINE ends == UNION Conflicts(E)
<1>1. ends \subseteq E
  <2> SUFFICES ASSUME NEW g \in Conflicts(E) PROVE g \subseteq E
    OBVIOUS
  <2> QED
    BY ConflictsAre
<1> HIDE DEF ends
<1>2. ASSUME NEW l \in ThreadLinks(ends) PROVE l \subseteq E
  BY <1>1 DEF ThreadLinks
<1>3. ASSUME NEW l \in Stars(E, ends) PROVE l \subseteq E
  <2>1. PICK m \in Boundaries(E, ends) \X ends : l = {m[1], m[2]}
    BY DEF Stars
  <2>2. m[1] \in E /\ m[2] \in E
    BY <1>1 DEF Boundaries
  <2> QED
    BY <2>1, <2>2
<1>4. Graph(E, Conflicts(E)) = Conflicts(E) \cup ThreadLinks(ends) \cup Stars(E, ends)
  BY DEF Graph, ends
<1>5. UNION Conflicts(E) \subseteq E
  BY <1>1 DEF ends
<1> QED
  BY <1>2, <1>3, <1>4, <1>5 DEF ends

(***************************************************************************)
(* Links lead from end to end of a thread, so what parts two ends stands   *)
(* between them.                                                           *)
(***************************************************************************)
LEMMA PartedBetween ==
  ASSUME NEW E, IsTrace(E), NEW ends \in SUBSET E, NEW A, NEW v, v \notin A,
         \A l \in ThreadLinks(ends) : v \notin l /\ l \cap A # {} => l \subseteq A,
         NEW a \in ends, NEW b \in ends, a # v, b # v, Before(a, b), ~ (a \in A <=> b \in A)
  PROVE  v \in E /\ Before(a, v) /\ Before(v, b)
<1> DEFINE D == {k \in ends : Before(a, k) /\ ~ (k \in A <=> a \in A) /\ (k = b \/ Before(k, b))}
           seqs == {k.seq : k \in D}
<1>1. b \in D
  OBVIOUS
<1>2. seqs \in SUBSET Nat /\ seqs # {}
  BY <1>1 DEF IsTrace
<1>3. PICK n \in seqs : \A m \in seqs : n <= m
  <2> HIDE DEF seqs
  <2> QED
    BY <1>2, LeastNatural
<1>4. PICK d \in D : n = d.seq
  OBVIOUS
<1>5. d \in ends /\ Before(a, d) /\ ~ (d \in A <=> a \in A) /\ (d = b \/ Before(d, b))
  OBVIOUS
<1>6. PICK l \in Nearest(ends, d) : l = a \/ Before(a, l)
  BY <1>5, NearestExists
<1>7. l \in ends /\ Before(l, d)
  BY DEF Nearest
<1>8. l \in A <=> a \in A
  <2> SUFFICES ASSUME l \in D PROVE FALSE
    <3>1. Before(l, b)
      BY <1>5, <1>7, BeforeIsOrder
    <3> QED
      BY <1>6, <1>7, <3>1
  <2>1. d.seq <= l.seq
    BY <1>3, <1>4
  <2>2. l.seq \in Nat /\ d.seq \in Nat
    BY <1>5, <1>7 DEF IsTrace
  <2> QED
    BY <1>7, <2>1, <2>2 DEF Before
<1> HIDE DEF D, seqs
<1>9. {l, d} \in ThreadLinks(ends)
  <2>1. <<l, d>> \in {m \in ends \X ends : m[1] \in Nearest(ends, m[2])}
    BY <1>5, <1>7
  <2> QED
    BY <2>1 DEF ThreadLinks
<1>10. v \in {l, d}
  <2> SUFFICES ASSUME v \notin {l, d} PROVE FALSE
    OBVIOUS
  <2>1. l \in A <=> d \notin A
    BY <1>5, <1>8
  <2>2. {l, d} \cap A # {}
    BY <2>1
  <2>3. {l, d} \subseteq A
    BY <1>9, <2>2
  <2> QED
    BY <2>1, <2>3
<1>11. CASE v = l
  <2>1. Before(v, b)
    BY <1>5, <1>7, <1>11, BeforeIsOrder
  <2> QED
    BY <1>6, <1>7, <1>11, <2>1
<1>12. CASE v = d
  BY <1>5, <1>12
<1> QED
  BY <1>10, <1>11, <1>12

\* Two steps over one event: a shorter one is kept too.
LEMMA CrossingIsShort ==
  ASSUME NEW E, IsTrace(E), NEW v \in E, NEW p \in E, NEW k \in E, NEW q \in E, NEW h \in E,
         Kept(E, p, k), Before(p, v), Before(v, k), Kept(E, q, h), Before(q, v), Before(v, h)
  PROVE  Kept(E, p, h) \/ Kept(E, q, k)
<1> SUFFICES ASSUME ~ Kept(E, p, h), ~ Kept(E, q, k) PROVE FALSE
  OBVIOUS
<1>1. /\ IsMemory(p) /\ IsMemory(k) /\ IsMemory(q) /\ IsMemory(h)
      /\ Before(p, h) /\ Before(q, k)
  BY BeforeIsOrder DEF Kept
<1>2. /\ ~ IsRead(q) /\ ~ IsOrdered(q) /\ ~ IsWrite(h) /\ ~ IsOrdered(h)
  BY <1>1 DEF Kept
<1>3. PICK f \in E : Flushes(f) /\ Before(q, f) /\ Before(f, h)
  BY <1>2 DEF Kept
<1>4. f = v \/ Before(f, v) \/ Before(v, f)
  BY <1>3, BeforeIsOrder
<1>5. Before(f, k) \/ Before(p, f)
  BY <1>3, <1>4, BeforeIsOrder
<1>6. CASE Before(f, k)
  BY <1>1, <1>3, <1>6 DEF Kept
<1>7. CASE Before(p, f)
  BY <1>1, <1>3, <1>7 DEF Kept
<1> QED
  BY <1>5, <1>6, <1>7

\* A step over an access is kept on one side of it.
LEMMA StepIsShort ==
  ASSUME NEW E, IsTrace(E), NEW v \in E, IsMemory(v), NEW p \in E, NEW k \in E,
         Kept(E, p, k), Before(p, v), Before(v, k)
  PROVE  Kept(E, p, v) \/ Kept(E, v, k)
BY DEF Kept, IsMemory

(***************************************************************************)
(* Each member of a smallest cycle is in conflict with another one: what is*)
(* only passed by its own thread can be left out.                          *)
(***************************************************************************)
LEMMA MembersConflict ==
  ASSUME NEW E, IsTrace(E), NEW x, IsExecution(E, x), CoherentPerPlace(E, x),
         NEW S \in SUBSET E, Smallest(S, Whole(E, x)), NEW m \in S
  PROVE  \E n \in S : {m, n} \in Conflicts(E)
<1>1. ASSUME NEW a \in S, NEW b \in S, <<a, b>> \in Whole(E, x)
      PROVE  a # b /\ (Kept(E, a, b) \/ {a, b} \in Conflicts(E))
  <2>1. CASE <<a, b>> \in KeptOrder(E)
    <3>1. Kept(E, a, b)
      BY <2>1 DEF KeptOrder
    <3> QED
      BY <3>1, BeforeIsOrder DEF Kept
  <2>2. CASE <<a, b>> \in AllCommunication(E, x)
    <3>1. /\ a # b
          /\ a.thread = b.thread => <<a, b>> \in KeptOrder(E)
          /\ a.thread # b.thread => {a, b} \in Conflicts(E)
      BY <2>2, CommunicationIs
    <3>2. <<a, b>> \in KeptOrder(E) => Kept(E, a, b)
      BY DEF KeptOrder
    <3> QED
      BY <3>1, <3>2
  <2> QED
    BY <1>1, <2>1, <2>2 DEF Whole
<1>2. PICK p \in S : <<p, m>> \in Whole(E, x)
  BY DEF Smallest, Headless
<1>3. p # m
  BY <1>1, <1>2
<1>4. ~ Headless(S \ {m}, Whole(E, x))
  BY DEF Smallest
<1>5. PICK q \in S \ {m} : \A a \in S \ {m} : <<a, q>> \notin Whole(E, x)
  BY <1>3, <1>4 DEF Headless
<1>6. PICK a \in S : <<a, q>> \in Whole(E, x)
  BY DEF Smallest, Headless
<1>7. <<m, q>> \in Whole(E, x)
  BY <1>5, <1>6
<1>8. ASSUME Kept(E, p, m), Kept(E, m, q) PROVE FALSE
  <2>1. Kept(E, p, q)
    BY <1>8, KeptTransitive
  <2>2. <<p, q>> \in Whole(E, x)
    BY <2>1 DEF Whole, KeptOrder
  <2> QED
    BY <1>3, <1>5, <2>2
<1>9. {p, m} \in Conflicts(E) \/ {m, q} \in Conflicts(E)
  BY <1>1, <1>2, <1>7, <1>8
<1>10. {p, m} = {m, p}
  OBVIOUS
<1> QED
  BY <1>9, <1>10
(***************************************************************************)
(* All conflicts of a smallest cycle are in one component: if a vertex     *)
(* parted them, the cycle would pass over it twice, and could be cut short *)
(* there.                                                                  *)
(***************************************************************************)
LEMMA AllTogether ==
  ASSUME NEW E, IsTrace(E), IsFiniteSet(E), NEW x, IsExecution(E, x), CoherentPerPlace(E, x),
         NEW S \in SUBSET E, Smallest(S, Whole(E, x)),
         NEW e \in Conflicts(E), e \subseteq S, NEW f \in Conflicts(E), f \subseteq S
  PROVE  Together(Graph(E, Conflicts(E)), e, f)
<1> DEFINE graph == Graph(E, Conflicts(E))
           ends == UNION Conflicts(E)
           W == Whole(E, x)
<1> SUFFICES ASSUME NEW v \in UNION graph, (f \ {v}) \cap Around(graph, v, e \ {v}) = {} PROVE FALSE
  BY DEF Together
<1>1. /\ UNION graph \subseteq E /\ ends \subseteq E /\ Conflicts(E) \subseteq graph
      /\ ThreadLinks(ends) \subseteq graph
  BY GraphInside
<1>2. v \in E
  BY <1>1
<1>3. IsFiniteSet(UNION graph)
  BY <1>1, FS_Subset
<1> DEFINE A == Around(graph, v, e \ {v})
<1>4. e \ {v} \in SUBSET (UNION graph) /\ v \notin e \ {v}
  BY <1>1
<1>5. /\ e \ {v} \subseteq A /\ v \notin A
      /\ \A g \in graph : v \notin g /\ g \cap A # {} => g \subseteq A
  <2> HIDE DEF graph
  <2> QED
    BY <1>3, <1>4, AroundIsClosed
<1>6. S \subseteq ends
  <2> SUFFICES ASSUME NEW m \in S PROVE m \in ends
    OBVIOUS
  <2>1. PICK n \in S : {m, n} \in Conflicts(E)
    BY MembersConflict
  <2> QED
    BY <2>1
<1>7. e \ {v} # {} /\ f \ {v} # {}
  <2>1. PICK a \in E, b \in E : e = {a, b} /\ a # b
    BY ConflictsAre
  <2>2. PICK c \in E, d \in E : f = {c, d} /\ c # d
    BY ConflictsAre
  <2> QED
    BY <2>1, <2>2
<1> DEFINE P == S \cap A
           Q == (S \ A) \ {v}
           with == {v} \cap S
<1>8. P # {} /\ Q # {} /\ (f \ {v}) \cap A = {}
  BY <1>5, <1>7
<1> HIDE DEF graph, ends, A
<1>9. ASSUME NEW p \in P, NEW q \in Q, NEW a \in {p, q}, NEW b \in {p, q}, a # b, <<a, b>> \in W
      PROVE  Kept(E, a, b) /\ Before(a, v) /\ Before(v, b)
  <2>1. p \in S /\ q \in S /\ p \in A /\ q \notin A /\ p # v /\ q # v /\ {a, b} = {p, q}
    BY <1>5, <1>9
  <2>2. {a, b} \notin Conflicts(E)
    <3> SUFFICES ASSUME {p, q} \in Conflicts(E) PROVE FALSE
      BY <2>1
    <3>1. {p, q} \in graph
      BY <1>1
    <3>2. v \notin {p, q} /\ {p, q} \cap A # {}
      BY <2>1
    <3>3. {p, q} \subseteq A
      BY <1>5, <3>1, <3>2
    <3> QED
      BY <2>1, <3>3
  <2>3. <<a, b>> \in KeptOrder(E)
    <3>1. ASSUME <<a, b>> \in AllCommunication(E, x) PROVE <<a, b>> \in KeptOrder(E)
      <4>1. /\ a.thread = b.thread => <<a, b>> \in KeptOrder(E)
            /\ a.thread # b.thread => {a, b} \in Conflicts(E)
        BY <3>1, CommunicationIs
      <4> QED
        BY <2>2, <4>1
    <3> QED
      BY <1>9, <3>1 DEF Whole
  <2>4. Kept(E, a, b) /\ Before(a, b)
    BY <2>3 DEF KeptOrder, Kept
  <2>5. a \in ends /\ b \in ends /\ a # v /\ b # v /\ ~ (a \in A <=> b \in A)
    BY <1>6, <2>1
  <2>6. \A l \in ThreadLinks(ends) : v \notin l /\ l \cap A # {} => l \subseteq A
    BY <1>1, <1>5
  <2>7. Before(a, v) /\ Before(v, b)
    BY <1>1, <1>5, <2>4, <2>5, <2>6, PartedBetween
  <2> QED
    BY <2>4, <2>7
<1>10. \A T \in SUBSET S : T # {} /\ T # S => \E h \in T : \A a \in T : <<a, h>> \notin W
  BY DEF Smallest, Headless
<1>11. \A h \in S : \E a \in S : <<a, h>> \in W
  BY DEF Smallest, Headless
<1>12. /\ P \cup with \in SUBSET S /\ P \cup with # {} /\ P \cup with # S
       /\ Q \cup with \in SUBSET S /\ Q \cup with # {} /\ Q \cup with # S
       /\ S = P \cup Q \cup with
       /\ P \subseteq E /\ Q \subseteq E /\ P \cap Q = {} /\ v \notin P /\ v \notin Q
  BY <1>5, <1>8
<1> HIDE DEF P, Q, W
<1>13. PICK h \in P \cup with : \A a \in P \cup with : <<a, h>> \notin W
  BY <1>10, <1>12
<1>14. PICK k \in Q \cup with : \A a \in Q \cup with : <<a, k>> \notin W
  BY <1>10, <1>12
<1>15. ASSUME h \in P
       PROVE  \E q \in Q : Kept(E, q, h) /\ Before(q, v) /\ Before(v, h)
  <2>1. PICK q \in S : <<q, h>> \in W
    BY <1>11, <1>12, <1>15
  <2>2. q \in Q
    BY <1>12, <1>13, <2>1
  <2>3. q # h
    BY <1>12, <1>15, <2>2
  <2> QED
    BY <1>9, <1>15, <2>1, <2>2, <2>3
<1>16. ASSUME k \in Q
       PROVE  \E p \in P : Kept(E, p, k) /\ Before(p, v) /\ Before(v, k)
  <2>1. PICK p \in S : <<p, k>> \in W
    BY <1>11, <1>12, <1>16
  <2>2. p \in P
    BY <1>12, <1>14, <2>1
  <2>3. p # k
    BY <1>12, <1>16, <2>2
  <2> QED
    BY <1>9, <1>16, <2>1, <2>2, <2>3
<1>17. \A a, b \in E : Kept(E, a, b) => <<a, b>> \in W
  BY DEF W, Whole, KeptOrder
<1>18. CASE h \in P /\ k \in Q
  <2>1. PICK q \in Q : Kept(E, q, h) /\ Before(q, v) /\ Before(v, h)
    BY <1>15, <1>18
  <2>2. PICK p \in P : Kept(E, p, k) /\ Before(p, v) /\ Before(v, k)
    BY <1>16, <1>18
  <2>3. p \in E /\ q \in E /\ h \in E /\ k \in E
    BY <1>12, <1>18
  <2>4. Kept(E, p, h) \/ Kept(E, q, k)
    BY <1>2, <2>1, <2>2, <2>3, CrossingIsShort
  <2> QED
    BY <1>13, <1>14, <1>17, <2>3, <2>4
<1>19. ASSUME v \in S PROVE IsMemory(v)
  <2>1. PICK n \in S : {v, n} \in Conflicts(E)
    BY <1>19, MembersConflict
  <2> QED
    BY <2>1, ConflictsAre
<1>20. CASE h = v /\ v \in S /\ k \in Q
  <2>1. PICK p \in P : Kept(E, p, k) /\ Before(p, v) /\ Before(v, k)
    BY <1>16, <1>20
  <2>2. p \in E /\ k \in E
    BY <1>12, <1>20
  <2>3. Kept(E, p, v) \/ Kept(E, v, k)
    BY <1>2, <1>19, <1>20, <2>1, <2>2, StepIsShort
  <2>4. <<p, v>> \notin W /\ <<v, k>> \notin W
    BY <1>13, <1>14, <1>20
  <2> QED
    BY <1>2, <1>17, <2>2, <2>3, <2>4
<1>21. CASE h \in P /\ k = v /\ v \in S
  <2>1. PICK q \in Q : Kept(E, q, h) /\ Before(q, v) /\ Before(v, h)
    BY <1>15, <1>21
  <2>2. q \in E /\ h \in E
    BY <1>12, <1>21
  <2>3. Kept(E, q, v) \/ Kept(E, v, h)
    BY <1>2, <1>19, <1>21, <2>1, <2>2, StepIsShort
  <2>4. <<q, v>> \notin W /\ <<v, h>> \notin W
    BY <1>13, <1>14, <1>21
  <2> QED
    BY <1>2, <1>17, <2>2, <2>3, <2>4
<1>22. CASE h = v /\ k = v /\ v \in S
  <2>1. PICK a \in S : <<a, v>> \in W
    BY <1>11, <1>22
  <2> QED
    BY <1>12, <1>13, <1>14, <1>22, <2>1
<1> QED
  BY <1>13, <1>14, <1>18, <1>20, <1>21, <1>22

(***************************************************************************)
(* The window of a smallest cycle holds all of it.                         *)
(***************************************************************************)
LEMMA SmallestInWindow ==
  ASSUME NEW E, IsTrace(E), IsFiniteSet(E), NEW x, IsExecution(E, x), CoherentPerPlace(E, x),
         NEW S \in SUBSET E, Smallest(S, Whole(E, x))
  PROVE  \E X \in SUBSET E : /\ S \subseteq X
                             /\ X \cup MinimalBoundaries(E, X) \in BuildWindows(E, Conflicts(E))
<1> DEFINE edges == Conflicts(E)
           graph == Graph(E, Conflicts(E))
<1>1. PICK m \in S : TRUE
  BY DEF Smallest, Headless
<1>2. PICK n \in S : {m, n} \in edges
  BY MembersConflict
<1> DEFINE e == {m, n}
           c == UNION {f \in graph : Together(graph, e, f)}
           group == {d \in edges : d \subseteq c}
<1>3. edges \subseteq graph /\ UNION edges \subseteq E
  BY GraphInside
<1>4. ASSUME NEW k \in S PROVE k \in UNION group
  <2>1. PICK j \in S : {k, j} \in edges
    BY MembersConflict
  <2> DEFINE g == {k, j}
  <2>2. Together(graph, e, g)
    <3>1. e \in Conflicts(E) /\ e \subseteq S /\ g \in Conflicts(E) /\ g \subseteq S
      BY <1>2, <2>1
    <3> HIDE DEF e, g
    <3> QED
      BY <3>1, AllTogether
  <2>3. g \in graph /\ k \in g /\ g \in edges
    BY <1>3, <2>1
  <2> HIDE DEF g, graph, edges, e
  <2>4. g \subseteq c
    BY <2>2, <2>3
  <2> QED
    BY <2>3, <2>4
<1>5. e \in graph /\ e \in edges
  BY <1>2, <1>3
<1>6. group # {}
  BY <1>1, <1>4
<1> HIDE DEF e
<1>7. group \in Groups(E, Conflicts(E))
  <2>1. c \in Components(Graph(E, Conflicts(E)))
    BY <1>5 DEF Components
  <2> HIDE DEF c, graph
  <2> QED
    BY <1>6, <2>1 DEF Groups
<1> HIDE DEF c, graph
<1>8. UNION group \in SUBSET E /\ S \subseteq UNION group
  BY <1>3, <1>4
<1>9. (UNION group) \cup MinimalBoundaries(E, UNION group) \in BuildWindows(E, Conflicts(E))
  <2> HIDE DEF group, edges
  <2> QED
    BY <1>7 DEF BuildWindows
<1> HIDE DEF group
<1> QED
  BY <1>8, <1>9

(***************************************************************************)
(* Where a full fence stands between two events of a group, the window has *)
(* one between them too.                                                   *)
(***************************************************************************)
LEMMA GapsHaveFences ==
  ASSUME NEW E, IsTrace(E), NEW X \in SUBSET E, NEW a \in X, NEW b \in X,
         NEW f \in E, Flushes(f), Before(a, f), Before(f, b)
  PROVE  \E g \in X \cup MinimalBoundaries(E, X) :
           g \in E /\ Flushes(g) /\ Before(a, g) /\ Before(g, b)
<1>1. CASE f \in X
  BY <1>1
<1>2. CASE f \notin X
  <2> DEFINE found == Boundaries(E, X) \ X
             sameGap(c, d) == c.thread = d.thread /\ \A e \in X : Before(e, c) <=> Before(e, d)
             full == {d \in found : Category(d) = "full"}
             D == {c \in full : sameGap(c, f)}
             seqs == {c.seq : c \in D}
  <2>1. \A c \in E : Flushes(c) => Category(c) = "full"
    BY DEF Flushes, Category
  <2>2. \A c \in found : c \in E /\ (Category(c) = "full" => Flushes(c))
    BY DEF Flushes, Category, Boundaries
  <2>3. f \in D
    <3>1. /\ f.kind \in {"ATOMIC_RMW", "LFENCE", "SFENCE", "MFENCE", "FUTEX_WAIT"}
          /\ a.thread = f.thread /\ b.thread = f.thread /\ a.seq <= f.seq /\ f.seq <= b.seq
      BY DEF Flushes, Before, IsTrace
    <3>2. f \in Boundaries(E, X)
      BY <3>1 DEF Boundaries
    <3> QED
      BY <1>2, <2>1, <3>2
  <2>4. seqs \in SUBSET Nat /\ seqs # {}
    BY <2>2, <2>3 DEF IsTrace
  <2>5. PICK s \in seqs : \A k \in seqs : s <= k
    <3> HIDE DEF seqs
    <3> QED
      BY <2>4, LeastNatural
  <2>6. PICK g \in D : s = g.seq
    OBVIOUS
  <2>7. g \in E /\ g \notin X /\ Flushes(g) /\ g \in found /\ Category(g) = "full" /\ sameGap(g, f)
    BY <2>2
  <2>8. ASSUME NEW c \in found, Before(c, g), sameGap(c, g), Category(c) = Category(g) PROVE FALSE
    <3>1. c \in D
      BY <2>7, <2>8
    <3>2. g.seq <= c.seq
      BY <2>5, <2>6, <3>1
    <3>3. c.seq \in Nat /\ g.seq \in Nat
      BY <2>2, <2>7 DEF IsTrace
    <3> QED
      BY <2>8, <3>2, <3>3 DEF Before
  <2>9. g \in MinimalBoundaries(E, X)
    BY <2>7, <2>8 DEF MinimalBoundaries
  <2>10. Before(a, g)
    BY <2>7
  <2>11. Before(g, b)
    <3>1. ~ Before(b, f) /\ f.thread = b.thread /\ b \in E
      BY BeforeIsOrder
    <3>2. ~ Before(b, g) /\ g.thread = b.thread /\ g # b
      BY <2>7, <3>1
    <3> QED
      BY <2>7, <3>1, <3>2, BeforeIsOrder
  <2> QED
    BY <2>7, <2>9, <2>10, <2>11
<1> QED
  BY <1>1, <1>2

-----------------------------------------------------------------------------
(* An execution of the trace, seen in a window: a read that reads from a     *)
(* write outside reads from the last write inside that came before it.       *)

Known(W, x, p) ==
  IF x.rf[p] = Initial THEN {} ELSE {w \in Writes(W) : w = x.rf[p] \/ <<w, x.rf[p]>> \in x.co}

Restricted(W, x) ==
  [rf |-> [p \in ReadParts(W) |->
             IF Known(W, x, p) = {} THEN Initial
             ELSE CHOOSE l \in Known(W, x, p) : \A w \in Known(W, x, p) : <<l, w>> \notin x.co],
   co |-> x.co \cap (Writes(W) \X Writes(W))]

\* A part of the window is one of the trace, and the whole of its read.
LEMMA PartsInside ==
  ASSUME NEW E, IsTrace(E), Uniform(E), NEW W \in SUBSET E
  PROVE  /\ IsTrace(W) /\ Uniform(W) /\ Writes(W) \subseteq Writes(E) /\ Reads(W) \subseteq Reads(E)
         /\ \A p \in ReadParts(W) : p \in ReadParts(E) /\ p.read \in W
         /\ \A p \in ReadParts(E) : p.read \in W => p \in ReadParts(W)
         /\ \A p \in ReadParts(E) : Location(p) = Location(p.read) /\ p.read.size > 0
<1>1. /\ IsTrace(W) /\ Uniform(W) /\ Writes(W) \subseteq Writes(E) /\ Reads(W) \subseteq Reads(E)
  BY DEF IsTrace, Uniform, Writes, Reads
<1>2. ASSUME NEW F, F \in {E, W}, NEW p \in ReadParts(F)
      PROVE  /\ p.read \in Reads(F) /\ p.read.size > 0
             /\ p = [read |-> p.read, addr |-> p.read.addr, size |-> p.read.size]
  <2>1. IsTrace(F) /\ Uniform(F)
    BY <1>1, <1>2
  <2>2. p.read \in Reads(F) /\ p.size > 0
    BY <2>1, PartFacts
  <2>3. p = [read |-> p.read, addr |-> p.read.addr, size |-> p.read.size]
    BY <2>1, <2>2, OnePart
  <2>4. p.size = p.read.size
    BY <2>3
  <2> QED
    BY <2>2, <2>3, <2>4
<1>3. ASSUME NEW F, F \in {E, W}, NEW r \in Reads(F), r.size > 0
      PROVE  [read |-> r, addr |-> r.addr, size |-> r.size] \in ReadParts(F)
  <2>1. IsTrace(F) /\ Uniform(F)
    BY <1>1, <1>3
  <2> QED
    BY <1>3, <2>1, OnePart
<1>4. ASSUME NEW p \in ReadParts(W) PROVE p \in ReadParts(E) /\ p.read \in W
  <2>1. /\ p.read \in Reads(W) /\ p.read.size > 0
        /\ p = [read |-> p.read, addr |-> p.read.addr, size |-> p.read.size]
    BY <1>2
  <2>2. [read |-> p.read, addr |-> p.read.addr, size |-> p.read.size] \in ReadParts(E)
    BY <1>1, <1>3, <2>1
  <2> QED
    BY <2>1, <2>2 DEF Reads
<1>5. ASSUME NEW p \in ReadParts(E), p.read \in W PROVE p \in ReadParts(W)
  <2>1. /\ p.read \in Reads(E) /\ p.read.size > 0
        /\ p = [read |-> p.read, addr |-> p.read.addr, size |-> p.read.size]
    BY <1>2
  <2>2. p.read \in Reads(W)
    BY <1>5, <2>1 DEF Reads
  <2>3. [read |-> p.read, addr |-> p.read.addr, size |-> p.read.size] \in ReadParts(W)
    BY <1>3, <2>1, <2>2
  <2> QED
    BY <2>1, <2>3
<1>6. ASSUME NEW p \in ReadParts(E) PROVE Location(p) = Location(p.read) /\ p.read.size > 0
  <2>1. /\ p.read.size > 0
        /\ p = [read |-> p.read, addr |-> p.read.addr, size |-> p.read.size]
    BY <1>2
  <2>2. p.addr = p.read.addr /\ p.size = p.read.size
    BY <2>1
  <2> QED
    BY <2>1, <2>2 DEF Location
<1> QED
  BY <1>1, <1>4, <1>5, <1>6

(***************************************************************************)
(* Accesses that overlap are at one place, and those at one place, if it is*)
(* not empty, overlap.                                                     *)
(***************************************************************************)
LEMMA Alike ==
  ASSUME NEW E, IsTrace(E), Uniform(E), NEW a \in E, NEW b \in E, IsMemory(a), IsMemory(b)
  PROVE  /\ Overlaps(a, b) => Location(a) = Location(b) /\ a.size > 0 /\ b.size > 0
         /\ (Location(a) = Location(b) /\ a.size > 0) => Overlaps(a, b)
<1>1. a.addr \in Nat /\ a.size \in Nat /\ b.addr \in Nat /\ b.size \in Nat
  BY DEF IsTrace
<1>2. ASSUME Overlaps(a, b) PROVE Location(a) = Location(b) /\ a.size > 0 /\ b.size > 0
  <2>1. Location(a) = Location(b)
    BY <1>2 DEF Uniform
  <2> QED
    BY <1>1, <1>2, <2>1 DEF Overlaps, End, Location
<1>3. ASSUME Location(a) = Location(b), a.size > 0 PROVE Overlaps(a, b)
  BY <1>1, <1>3 DEF Overlaps, End, Location
<1> QED
  BY <1>2, <1>3

\* In a uniform trace the writes of one place are ordered one after another.
LEMMA CoherenceIsOrder ==
  ASSUME NEW E, IsTrace(E), Uniform(E), NEW co \in CoherenceOrders(E),
         NEW a, NEW b, NEW c, <<a, b>> \in co, <<b, c>> \in co
  PROVE  <<a, c>> \in co
<1>1. /\ a \in Writes(E) /\ b \in Writes(E) /\ c \in Writes(E) /\ Overlaps(a, b) /\ Overlaps(b, c)
      /\ <<b, a>> \notin co
  BY CoherenceOf
<1>2. a # c
  BY <1>1
<1>3. a \in E /\ b \in E /\ c \in E /\ IsMemory(a) /\ IsMemory(b) /\ IsMemory(c)
  BY <1>1 DEF Writes, IsMemory
<1>4. Location(a) = Location(b) /\ Location(b) = Location(c) /\ a.size > 0
  BY <1>1, <1>3, Alike
<1>5. Overlaps(a, c)
  BY <1>3, <1>4, Alike
<1>6. ASSUME <<c, a>> \in co PROVE FALSE
  <2>1. {a, b, c} \in SUBSET Writes(E) /\ {a, b, c} # {}
    BY <1>1
  <2>2. \A S \in SUBSET Writes(E) : S # {} => \E last \in S : \A w \in S : <<last, w>> \notin co
    BY CoherenceFacts
  <2>3. PICK last \in {a, b, c} : \A w \in {a, b, c} : <<last, w>> \notin co
    BY <2>1, <2>2
  <2> QED
    BY <1>6, <2>3
<1> QED
  BY <1>1, <1>2, <1>5, <1>6, CoherenceTotal

(***************************************************************************)
(* What a part reads from in the window is a write of the window at the    *)
(* place that is read, the last of those up to the one it read from.       *)
(***************************************************************************)
LEMMA KnownFacts ==
  ASSUME NEW E, IsTrace(E), Uniform(E), NEW x, IsExecution(E, x), NEW W \in SUBSET E,
         Initial \notin W, NEW p \in ReadParts(W)
  PROVE  LET l == Restricted(W, x).rf[p]
         IN  /\ l = Initial => Known(W, x, p) = {}
             /\ l # Initial => /\ l \in Known(W, x, p) /\ x.rf[p] # Initial
                               /\ l = x.rf[p] \/ <<l, x.rf[p]>> \in x.co
                               /\ \A w \in Known(W, x, p) : w = l \/ <<w, l>> \in x.co
             /\ \A w \in Known(W, x, p) : /\ w \in Writes(W) /\ w # Initial
                                          /\ Location(w) = Location(p.read)
<1> DEFINE l == Restricted(W, x).rf[p]
           s == x.rf[p]
           K == Known(W, x, p)
<1>1. /\ p \in ReadParts(E) /\ p.read \in Reads(E) /\ p.read.size > 0
      /\ p.read \in E /\ IsMemory(p.read) /\ Writes(W) \subseteq Writes(E)
  <2>1. p \in ReadParts(E) /\ Writes(W) \subseteq Writes(E)
    BY PartsInside
  <2>2. p.read \in Reads(E) /\ p.read.size > 0
    BY <2>1, PartFacts, PartsInside
  <2> QED
    BY <2>1, <2>2 DEF Reads, IsMemory
<1>2. x.co \in CoherenceOrders(E)
  BY DEF IsExecution
<1>3. ASSUME s # Initial
      PROVE  s \in Writes(E) /\ Location(s) = Location(p.read)
  <2>1. s \in Writes(E) /\ Overlaps(s, p.read)
    BY <1>1, <1>3, SourceFacts
  <2>2. s \in E /\ IsMemory(s)
    BY <2>1 DEF Writes, IsMemory
  <2> HIDE DEF s
  <2> QED
    BY <1>1, <2>1, <2>2, Alike
<1>4. ASSUME NEW w \in K
      PROVE  /\ w \in Writes(W) /\ w # Initial /\ Location(w) = Location(p.read)
             /\ s # Initial /\ (w = s \/ <<w, s>> \in x.co)
  <2>1. w \in Writes(W) /\ s # Initial /\ (w = s \/ <<w, s>> \in x.co)
    BY DEF Known
  <2>2. w # Initial
    BY <2>1 DEF Writes
  <2>3. Location(w) = Location(p.read)
    <3>1. CASE w = s
      BY <1>3, <2>1, <3>1
    <3>2. CASE <<w, s>> \in x.co
      <4>1. w \in Writes(E) /\ s \in Writes(E) /\ Overlaps(w, s)
        BY <1>2, <3>2, CoherenceOf
      <4>2. w \in E /\ s \in E /\ IsMemory(w) /\ IsMemory(s)
        BY <4>1 DEF Writes, IsMemory
      <4>3. Location(w) = Location(s)
        BY <4>1, <4>2, Alike
      <4> QED
        BY <1>3, <2>1, <4>3
    <3> QED
      BY <2>1, <3>1, <3>2
  <2> QED
    BY <2>1, <2>2, <2>3
<1>5. l = IF K = {} THEN Initial ELSE CHOOSE k \in K : \A w \in K : <<k, w>> \notin x.co
  BY DEF Restricted
<1>6. ASSUME K # {}
      PROVE  l \in K /\ \A w \in K : <<l, w>> \notin x.co
  <2>1. K \in SUBSET Writes(E)
    BY <1>1, <1>4
  <2> HIDE DEF K, l
  <2>2. \E k \in K : \A w \in K : <<k, w>> \notin x.co
    BY <1>2, <1>6, <2>1, CoherenceFacts
  <2> QED
    BY <1>5, <1>6, <2>2
<1>7. ASSUME K # {}, NEW w \in K PROVE w = l \/ <<w, l>> \in x.co
  <2> SUFFICES ASSUME w # l PROVE <<w, l>> \in x.co
    OBVIOUS
  <2>1. l \in K /\ <<l, w>> \notin x.co
    BY <1>6, <1>7
  <2>2. w \in Writes(E) /\ l \in Writes(E) /\ Location(w) = Location(p.read) /\ Location(l) = Location(p.read)
    BY <1>1, <1>4, <2>1
  <2> HIDE DEF l, K
  <2>3. w \in E /\ l \in E /\ IsMemory(w) /\ IsMemory(l) /\ w.size > 0
    BY <1>1, <2>2 DEF Writes, IsMemory, Location
  <2>4. Overlaps(w, l)
    BY <2>2, <2>3, Alike
  <2> QED
    BY <1>2, <2>1, <2>2, <2>4, CoherenceTotal
<1> HIDE DEF l, s, K
<1>8. /\ l = Initial => K = {}
      /\ l # Initial => /\ l \in K /\ s # Initial
                        /\ l = s \/ <<l, s>> \in x.co
                        /\ \A w \in K : w = l \/ <<w, l>> \in x.co
  BY <1>4, <1>5, <1>6, <1>7
<1> QED
  BY <1>4, <1>8 DEF l, s, K

(***************************************************************************)
(* It is an execution of the window: a read still reads from no later write*)
(* of its own thread, as that would have come after it in the trace too.   *)
(***************************************************************************)
LEMMA RestrictedIsExecution ==
  ASSUME NEW E, IsTrace(E), Uniform(E), NEW x, IsExecution(E, x), CoherentPerPlace(E, x),
         NEW W \in SUBSET E, Initial \notin W
  PROVE  Restricted(W, x) \in Executions(W) /\ IsExecution(W, Restricted(W, x))
<1> DEFINE y == Restricted(W, x)
           C == SamePlace(E) \cup Forwarded(E, x) \cup x.co \cup FromRead(E, x)
<1>1. x.co \in CoherenceOrders(E) /\ Writes(W) \subseteq Writes(E) /\ IsTrace(W)
  BY PartsInside DEF IsExecution
<1>2. y.co = x.co \cap (Writes(W) \X Writes(W)) /\ y = [rf |-> y.rf, co |-> y.co]
  BY DEF Restricted
<1>3. ASSUME NEW p \in ReadParts(W), y.rf[p] # Initial
      PROVE  y.rf[p] \in Sources(W, p)
  <2> DEFINE l == y.rf[p]
             r == p.read
             s == x.rf[p]
  <2>1. /\ l \in Known(W, x, p) /\ s # Initial /\ (l = s \/ <<l, s>> \in x.co)
        /\ l \in Writes(W) /\ Location(l) = Location(r)
    BY <1>3, KnownFacts
  <2>2. p \in ReadParts(E) /\ Location(p) = Location(r) /\ r \in W
    BY PartsInside
  <2>3. r \in Reads(E)
    BY <2>2, PartFacts
  <2> HIDE DEF l, r, s
  <2>4. /\ l \in E /\ r \in E /\ IsMemory(l) /\ IsMemory(r) /\ r.size \in Nat /\ r.addr \in Nat
        /\ l.seq \in Nat /\ r.seq \in Nat
    BY <1>1, <2>1, <2>3 DEF IsMemory, Writes, Reads, IsTrace
  <2>5. Covers(l, p)
    <3>1. l.addr = p.addr /\ l.size = p.size /\ p.addr = r.addr /\ p.size = r.size
      BY <2>1, <2>2 DEF Location
    <3> QED
      BY <2>4, <3>1 DEF Covers, End
  <2>6. ASSUME l.thread = r.thread, l.seq >= r.seq PROVE FALSE
    <3>1. <<s, r>> \in C
      BY <2>1, <2>2 DEF Forwarded, s, r
    <3>2. s # l
      <4>1. s.thread = r.thread => Before(s, r)
        BY <2>1, <2>2, SourceFacts DEF s, r
      <4> QED
        BY <2>4, <2>6, <4>1 DEF Before
    <3>3. <<l, s>> \in C /\ s \in E
      BY <1>1, <2>1, <3>2, CoherenceOf DEF Writes
    <3>4. r = l \/ <<r, l>> \in C
      <4> SUFFICES ASSUME r # l PROVE <<r, l>> \in SamePlace(E)
        OBVIOUS
      <4>1. Before(r, l)
        BY <2>4, <2>6 DEF IsTrace, Before
      <4>2. r.size > 0
        BY <2>2, PartsInside DEF r
      <4>3. Overlaps(r, l)
        BY <2>1, <2>4, <4>2, Alike
      <4> QED
        BY <2>4, <4>1, <4>3 DEF SamePlace
    <3>5. Acyclic(E, C)
      BY DEF CoherentPerPlace
    <3> HIDE DEF C
    <3>6. Headless({s, r, l}, C) /\ {s, r, l} \in SUBSET E
      BY <2>4, <3>1, <3>3, <3>4 DEF Headless
    <3> QED
      BY <3>5, <3>6, CyclicIffHeadless
  <2>7. l \in Sources(W, p)
    BY <2>1, <2>5, <2>6 DEF Sources, r
  <2> QED
    BY <2>7 DEF l
<1>4. y.co \in CoherenceOrders(W)
  <2> DEFINE co == y.co
             pairs == {e \in Writes(W) \X Writes(W) : e[1] # e[2] /\ Overlaps(e[1], e[2])}
             fixed == {e \in pairs : Before(e[1], e[2])}
             free  == {e \in pairs : e[1].thread # e[2].thread}
  <2>1. ASSUME NEW a \in Writes(W), NEW b \in Writes(W)
        PROVE  /\ <<a, b>> \in co => /\ a # b /\ Overlaps(a, b) /\ <<b, a>> \notin co
                                     /\ a.thread = b.thread => Before(a, b)
               /\ (a # b /\ Overlaps(a, b)) => (<<a, b>> \in co \/ <<b, a>> \in co)
    <3>1. <<a, b>> \in co <=> <<a, b>> \in x.co
      BY <1>2
    <3>2. <<b, a>> \in co <=> <<b, a>> \in x.co
      BY <1>2
    <3>3. a \in Writes(E) /\ b \in Writes(E)
      BY <1>1
    <3> HIDE DEF co
    <3>4. ASSUME <<a, b>> \in x.co
          PROVE  /\ a # b /\ Overlaps(a, b) /\ <<b, a>> \notin x.co
                 /\ a.thread = b.thread => Before(a, b)
      BY <1>1, <3>4, CoherenceOf
    <3>5. ASSUME a # b, Overlaps(a, b) PROVE <<a, b>> \in x.co \/ <<b, a>> \in x.co
      BY <1>1, <3>3, <3>5, CoherenceTotal
    <3> QED
      BY <3>1, <3>2, <3>4, <3>5
  <2>2. co \subseteq Writes(W) \X Writes(W)
    BY <1>2
  <2>3. \A e \in Writes(W) \X Writes(W) : e = <<e[1], e[2]>> /\ e[1] \in Writes(W) /\ e[2] \in Writes(W)
    OBVIOUS
  <2>4. co = fixed \cup (co \cap free)
    <3>1. ASSUME NEW e \in co PROVE e \in fixed \cup (co \cap free)
      <4> DEFINE a == e[1]
                 b == e[2]
      <4>1. e = <<a, b>> /\ a \in Writes(W) /\ b \in Writes(W)
        BY <2>2, <2>3
      <4> HIDE DEF co, a, b
      <4>2. a # b /\ Overlaps(a, b) /\ (a.thread = b.thread => Before(a, b))
        BY <2>1, <3>1, <4>1
      <4>3. CASE a.thread = b.thread
        <5>1. <<a, b>> \in fixed
          BY <4>1, <4>2, <4>3
        <5> QED
          BY <4>1, <5>1
      <4>4. CASE a.thread # b.thread
        <5>1. <<a, b>> \in free
          BY <4>1, <4>2, <4>4
        <5> QED
          BY <3>1, <4>1, <5>1
      <4> QED
        BY <4>3, <4>4
    <3>2. ASSUME NEW e \in fixed PROVE e \in co
      <4> DEFINE a == e[1]
                 b == e[2]
      <4>1. e = <<a, b>> /\ a \in Writes(W) /\ b \in Writes(W) /\ a # b /\ Overlaps(a, b) /\ Before(a, b)
        OBVIOUS
      <4> HIDE DEF co, a, b
      <4>2. <<a, b>> \in co \/ <<b, a>> \in co
        BY <2>1, <4>1
      <4>3. ASSUME <<b, a>> \in co PROVE FALSE
        <5>1. a \in W /\ b \in W /\ a.thread = b.thread
          BY <4>1 DEF Writes, Before
        <5>2. Before(b, a)
          <6>1. /\ <<b, a>> \in co => (b.thread = a.thread => Before(b, a))
            BY <2>1, <4>1
          <6> QED
            BY <4>3, <5>1, <6>1
        <5> QED
          BY <1>1, <4>1, <5>1, <5>2, BeforeIsOrder
      <4> QED
        BY <4>1, <4>2, <4>3
    <3> HIDE DEF co, fixed, free
    <3> QED
      BY <3>1, <3>2
  <2>5. ASSUME NEW e \in pairs PROVE e \in co <=> <<e[2], e[1]>> \notin co
    <3> DEFINE a == e[1]
               b == e[2]
    <3>1. e = <<a, b>> /\ a \in Writes(W) /\ b \in Writes(W) /\ a # b /\ Overlaps(a, b)
      OBVIOUS
    <3> HIDE DEF a, b, co
    <3>2. <<a, b>> \in co <=> <<b, a>> \notin co
      BY <2>1, <3>1
    <3> QED
      BY <3>1, <3>2 DEF a, b
  <2>6. ASSUME NEW S \in SUBSET Writes(W), S # {}
        PROVE  \E last \in S : \A w \in S : <<last, w>> \notin co
    <3>1. S \in SUBSET Writes(E)
      BY <1>1
    <3>2. PICK last \in S : \A w \in S : <<last, w>> \notin x.co
      BY <1>1, <2>6, <3>1, CoherenceFacts
    <3> QED
      BY <1>2, <3>2
  <2> HIDE DEF co
  <2>7. co \in {fixed \cup t : t \in SUBSET free}
    <3>1. co \cap free \in SUBSET free
      OBVIOUS
    <3> HIDE DEF fixed, free
    <3> QED
      BY <2>4, <3>1
  <2>8. co \in {c \in {fixed \cup t : t \in SUBSET free} :
                 /\ \A e \in pairs : e \in c <=> <<e[2], e[1]>> \notin c
                 /\ \A S \in SUBSET Writes(W) :
                       S # {} => \E last \in S : \A w \in S : <<last, w>> \notin c}
    <3> HIDE DEF fixed, free, pairs
    <3> QED
      BY <2>5, <2>6, <2>7
  <2>9. co \in CoherenceOrders(W)
    BY <2>8 DEF CoherenceOrders
  <2> QED
    BY <2>9 DEF co
<1>5. \A p \in ReadParts(W) : y.rf[p] \in Sources(W, p) \cup {Initial}
  <2> HIDE DEF y
  <2> QED
    BY <1>3
<1>6. y.rf \in [ReadParts(W) -> Writes(W) \cup {Initial}]
  <2>1. \E f : y.rf = [p \in ReadParts(W) |-> f[p]]
    <3>1. y.rf = [p \in ReadParts(W) |-> y.rf[p]]
      BY DEF Restricted
    <3> HIDE DEF y
    <3> QED
      BY <3>1
  <2> HIDE DEF y
  <2>2. \A p \in ReadParts(W) : y.rf[p] \in Writes(W) \cup {Initial}
    BY <1>5 DEF Sources
  <2> QED
    BY <2>1, <2>2
<1> HIDE DEF y
<1>7. y.rf \in ReadFroms(W)
  BY <1>5, <1>6 DEF ReadFroms
<1>8. y \in Executions(W)
  BY <1>2, <1>4, <1>7 DEF Executions
<1> QED
  BY <1>8, ExecutionsAre DEF y

\* The order of the writes in the window is that of the trace.
LEMMA RestrictedOrder ==
  ASSUME NEW W, NEW x, NEW a, NEW b
  PROVE  <<a, b>> \in Restricted(W, x).co <=> <<a, b>> \in x.co /\ a \in Writes(W) /\ b \in Writes(W)
<1>1. Restricted(W, x).co = x.co \cap (Writes(W) \X Writes(W))
  BY DEF Restricted
<1> QED
  BY <1>1

(***************************************************************************)
(* What overwrites the source in the window overwrites it in the trace, and*)
(* the other way round.                                                    *)
(***************************************************************************)
LEMMA OverwritesAlike ==
  ASSUME NEW E, IsTrace(E), Uniform(E), NEW x, IsExecution(E, x), CoherentPerPlace(E, x),
         NEW W \in SUBSET E, Initial \notin W, NEW r \in W, NEW b \in W
  PROVE  <<r, b>> \in FromRead(W, Restricted(W, x)) <=> <<r, b>> \in FromRead(E, x)
<1> DEFINE y == Restricted(W, x)
<1>0. x.co \in CoherenceOrders(E) /\ Writes(W) \subseteq Writes(E)
  BY PartsInside DEF IsExecution
<1>1. ASSUME NEW p \in ReadParts(W), b \in Writes(W), Overlaps(b, p)
      PROVE  (y.rf[p] = Initial \/ <<y.rf[p], b>> \in y.co) <=> (x.rf[p] = Initial \/ <<x.rf[p], b>> \in x.co)
  <2> DEFINE l == y.rf[p]
             s == x.rf[p]
             K == Known(W, x, p)
  <2>1. /\ l = Initial => K = {}
        /\ l # Initial => /\ l \in K /\ s # Initial /\ (l = s \/ <<l, s>> \in x.co)
                          /\ \A w \in K : w = l \/ <<w, l>> \in x.co
    BY KnownFacts
  <2>2. \A w \in K : w \in Writes(W)
    BY KnownFacts
  <2>3. s # Initial => (b \in K <=> (b = s \/ <<b, s>> \in x.co))
    BY <1>1 DEF Known
  <2>4. ASSUME s # Initial, b # s PROVE <<s, b>> \in x.co \/ <<b, s>> \in x.co
    <3>1. p \in ReadParts(E)
      BY PartsInside
    <3>2. s \in Writes(E) /\ Overlaps(s, p.read) /\ p.read \in Reads(E)
      BY <2>4, <3>1, SourceFacts, PartFacts
    <3>3. Location(p) = Location(p.read) /\ p.read.size > 0
      BY <3>1, PartsInside
    <3> HIDE DEF s
    <3>4. /\ b \in E /\ s \in E /\ p.read \in E /\ IsMemory(b) /\ IsMemory(s) /\ IsMemory(p.read)
      BY <1>0, <1>1, <3>2 DEF Writes, Reads, IsMemory
    <3>5. Overlaps(b, p.read)
      BY <1>1, <3>3 DEF Overlaps, End, Location
    <3>6. Location(b) = Location(p.read) /\ Location(s) = Location(p.read) /\ b.size > 0
      BY <3>2, <3>4, <3>5, Alike
    <3>7. Overlaps(s, b)
      BY <3>4, <3>6, Alike DEF Location
    <3>8. b \in Writes(E)
      BY <1>0, <1>1
    <3> QED
      BY <1>0, <2>4, <3>2, <3>7, <3>8, CoherenceTotal
  <2>5. <<l, b>> \in y.co <=> (<<l, b>> \in x.co /\ l \in Writes(W) /\ b \in Writes(W))
    BY RestrictedOrder
  <2> HIDE DEF l, s, K, y
  <2>6. ASSUME s # Initial, ~ (<<s, b>> \in x.co) PROVE l # Initial /\ <<l, b>> \notin x.co
    <3>1. b \in K
      BY <2>3, <2>4, <2>6
    <3>2. l # Initial /\ (b = l \/ <<b, l>> \in x.co)
      BY <2>1, <3>1
    <3> QED
      BY <1>0, <3>2, CoherenceOf
  <2>7. ASSUME l # Initial, s # Initial, <<s, b>> \in x.co PROVE <<l, b>> \in x.co
    BY <1>0, <2>1, <2>7, CoherenceIsOrder
  <2>8. (l = Initial \/ <<l, b>> \in y.co) <=> (s = Initial \/ <<s, b>> \in x.co)
    BY <1>1, <2>1, <2>2, <2>5, <2>6, <2>7
  <2> QED
    BY <2>8 DEF l, s
<1>2. ASSUME <<r, b>> \in FromRead(W, y) PROVE <<r, b>> \in FromRead(E, x)
  <2>1. PICK p \in ReadParts(W) : /\ r = p.read /\ b \in Writes(W) \ {p.read} /\ Overlaps(b, p)
                                  /\ y.rf[p] = Initial \/ <<y.rf[p], b>> \in y.co
    BY <1>2, FromReadFacts, Zenon
  <2>2. x.rf[p] = Initial \/ <<x.rf[p], b>> \in x.co
    BY <1>1, <2>1
  <2>3. p \in ReadParts(E) /\ b \in Writes(E) \ {p.read}
    BY <1>0, <2>1, PartsInside
  <2>4. \E q \in ReadParts(E) : /\ r = q.read /\ b \in Writes(E) \ {q.read} /\ Overlaps(b, q)
                                /\ x.rf[q] = Initial \/ <<x.rf[q], b>> \in x.co
    BY <2>1, <2>2, <2>3
  <2> QED
    BY <2>4, FromReadFacts, Zenon
<1>3. ASSUME <<r, b>> \in FromRead(E, x) PROVE <<r, b>> \in FromRead(W, y)
  <2>1. PICK p \in ReadParts(E) : /\ r = p.read /\ b \in Writes(E) \ {p.read} /\ Overlaps(b, p)
                                  /\ x.rf[p] = Initial \/ <<x.rf[p], b>> \in x.co
    BY <1>3, FromReadFacts, Zenon
  <2>2. p \in ReadParts(W) /\ b \in Writes(W) \ {p.read}
    BY <2>1, PartsInside DEF Writes
  <2>3. y.rf[p] = Initial \/ <<y.rf[p], b>> \in y.co
    BY <1>1, <2>1, <2>2
  <2>4. \E q \in ReadParts(W) : /\ r = q.read /\ b \in Writes(W) \ {q.read} /\ Overlaps(b, q)
                                /\ y.rf[q] = Initial \/ <<y.rf[q], b>> \in y.co
    BY <2>1, <2>2, <2>3
  <2> QED
    BY <2>4, FromReadFacts, Zenon
<1> QED
  BY <1>2, <1>3

(***************************************************************************)
(* An atomic of the window reads from the write next to it there, if it    *)
(* did in the trace: the writes before it are those up to its source.      *)
(***************************************************************************)
LEMMA AtomicsStay ==
  ASSUME NEW E, IsTrace(E), Uniform(E), NEW x, IsExecution(E, x), AtomicsValid(E, x),
         NEW W \in SUBSET E, Initial \notin W
  PROVE  AtomicsValid(W, Restricted(W, x))
<1> DEFINE y == Restricted(W, x)
<1>0. x.co \in CoherenceOrders(E) /\ Writes(W) \subseteq Writes(E) /\ W \subseteq E
  BY PartsInside DEF IsExecution
<1> SUFFICES ASSUME NEW p \in ReadParts(W), IsAtomic(p.read)
             PROVE  {w \in Writes(W) : <<w, p.read>> \in Adjacent(y.co)} = {y.rf[p]} \ {Initial}
  BY DEF AtomicsValid
<1> DEFINE r == p.read
           l == y.rf[p]
           s == x.rf[p]
           K == Known(W, x, p)
<1>1. p \in ReadParts(E) /\ r \in Writes(W) /\ r \in Writes(E)
  <2>1. p \in ReadParts(E) /\ r \in W
    BY PartsInside
  <2> QED
    BY <1>0, <2>1 DEF IsAtomic, IsWrite, Writes
<1>2. {w \in Writes(E) : <<w, r>> \in Adjacent(x.co)} = {s} \ {Initial}
  BY <1>1 DEF AtomicsValid
<1>3. /\ l = Initial => K = {}
      /\ l # Initial => /\ l \in K /\ s # Initial /\ \A w \in K : w = l \/ <<w, l>> \in x.co
      /\ \A w \in K : w \in Writes(W)
  <2>1. /\ l = Initial => K = {}
        /\ l # Initial => /\ l \in K /\ s # Initial /\ (l = s \/ <<l, s>> \in x.co)
                          /\ \A w \in K : w = l \/ <<w, l>> \in x.co
    BY KnownFacts
  <2>2. \A w \in K : w \in Writes(W)
    BY KnownFacts
  <2> HIDE DEF y, r, l, s, K
  <2> QED
    BY <2>1, <2>2
<1>4. ASSUME NEW w \in K PROVE w \in Writes(W) /\ s # Initial /\ (w = s \/ <<w, s>> \in x.co)
  BY DEF Known
<1>5. ASSUME NEW w \in Writes(W), s # Initial, w = s \/ <<w, s>> \in x.co PROVE w \in K
  BY <1>5 DEF Known
<1>6. \A a, b : <<a, b>> \in y.co <=> <<a, b>> \in x.co /\ a \in Writes(W) /\ b \in Writes(W)
  BY RestrictedOrder
<1> HIDE DEF y, r, l, s, K
<1>7. s # Initial => <<s, r>> \in x.co
  BY <1>2 DEF Adjacent
<1>8. ASSUME NEW w \in Writes(W), <<w, r>> \in x.co PROVE w \in K
  <2> DEFINE P == {v \in Writes(E) : <<v, r>> \in x.co}
  <2>1. P \in SUBSET Writes(E) /\ w \in P
    BY <1>0, <1>8
  <2>2. PICK n \in P : \A v \in P : <<n, v>> \notin x.co
    <3>1. P # {}
      BY <2>1
    <3> HIDE DEF P
    <3> QED
      BY <1>0, <2>1, <3>1, CoherenceFacts
  <2>3. n \in Writes(E) /\ <<n, r>> \in x.co
    OBVIOUS
  <2>4. ~ \E v \in {q[2] : q \in x.co} : <<n, v>> \in x.co /\ <<v, r>> \in x.co
    <3> SUFFICES ASSUME NEW v, <<n, v>> \in x.co, <<v, r>> \in x.co PROVE FALSE
      OBVIOUS
    <3>1. v \in Writes(E)
      BY <1>0, CoherenceOf
    <3> QED
      BY <2>2, <3>1
  <2>5. <<n, r>> \in Adjacent(x.co)
    BY <2>3, <2>4 DEF Adjacent
  <2>6. n = s /\ s # Initial
    BY <1>2, <2>3, <2>5
  <2>7. w = n \/ <<w, n>> \in x.co
    <3> SUFFICES ASSUME w # n PROVE <<w, n>> \in x.co
      OBVIOUS
    <3>1. Overlaps(w, r) /\ Overlaps(n, r)
      BY <1>0, <1>8, <2>3, CoherenceOf
    <3>2. w \in E /\ n \in E /\ r \in E /\ IsMemory(w) /\ IsMemory(n) /\ IsMemory(r) /\ w \in Writes(E)
      BY <1>0, <1>1, <2>3 DEF Writes, IsMemory
    <3>3. Location(w) = Location(r) /\ Location(n) = Location(r) /\ w.size > 0
      BY <3>1, <3>2, Alike
    <3>4. Overlaps(w, n)
      BY <3>2, <3>3, Alike
    <3>5. <<n, w>> \notin x.co
      BY <1>8, <2>2, <3>2
    <3> QED
      BY <1>0, <2>3, <3>2, <3>4, <3>5, CoherenceTotal
  <2> QED
    BY <1>5, <2>6, <2>7
<1>9. ASSUME NEW w \in K PROVE <<w, r>> \in x.co
  BY <1>0, <1>4, <1>7, CoherenceIsOrder
<1>10. \A w \in Writes(W) : <<w, r>> \in y.co <=> w \in K
  BY <1>1, <1>6, <1>8, <1>9
<1>11. ASSUME NEW w \in Writes(W), <<w, r>> \in Adjacent(y.co) PROVE w = l /\ l # Initial
  <2>1. <<w, r>> \in y.co /\ ~ \E v \in {q[2] : q \in y.co} : <<w, v>> \in y.co /\ <<v, r>> \in y.co
    BY <1>11 DEF Adjacent
  <2>2. w \in K
    BY <1>10, <2>1
  <2>3. l # Initial /\ l \in K /\ (w = l \/ <<w, l>> \in x.co)
    BY <1>3, <2>2
  <2>4. ASSUME <<w, l>> \in x.co PROVE FALSE
    <3>1. <<w, l>> \in y.co /\ <<l, r>> \in y.co
      BY <1>3, <1>6, <1>10, <2>2, <2>3, <2>4
    <3>2. l \in {q[2] : q \in y.co}
      BY <3>1
    <3> QED
      BY <2>1, <3>1, <3>2
  <2> QED
    BY <2>3, <2>4
<1>12. ASSUME l # Initial PROVE l \in Writes(W) /\ <<l, r>> \in Adjacent(y.co)
  <2>1. l \in K /\ l \in Writes(W)
    BY <1>3, <1>12
  <2>2. <<l, r>> \in y.co
    BY <1>10, <2>1
  <2>3. ASSUME NEW v, <<l, v>> \in y.co, <<v, r>> \in y.co PROVE FALSE
    <3>1. v \in Writes(W) /\ <<l, v>> \in x.co
      BY <1>6, <2>3
    <3>2. v \in K
      BY <1>10, <2>3, <3>1
    <3>3. v = l \/ <<v, l>> \in x.co
      BY <1>3, <1>12, <3>2
    <3> QED
      BY <1>0, <3>1, <3>3, CoherenceOf
  <2> QED
    BY <2>1, <2>2, <2>3 DEF Adjacent
<1>13. {w \in Writes(W) : <<w, r>> \in Adjacent(y.co)} = {l} \ {Initial}
  BY <1>11, <1>12
<1> QED
  BY <1>13 DEF r, l

(***************************************************************************)
(* What the target relation accepts in the trace it accepts in the window. *)
(* An edge that only the window has steps over writes of the trace: they   *)
(* are added.                                                              *)
(***************************************************************************)
LEMMA TargetStays ==
  ASSUME NEW E, IsTrace(E), Uniform(E), NEW x, IsExecution(E, x), CoherentPerPlace(E, x),
         TargetAccepts(E, x), NEW W \in SUBSET E, Initial \notin W
  PROVE  TargetAccepts(W, Restricted(W, x))
<1> DEFINE y == Restricted(W, x)
           G == TargetOrder(E) \cup AllCommunication(E, x)
           H == TargetOrder(W) \cup AllCommunication(W, y)
<1>0. /\ x.co \in CoherenceOrders(E) /\ Writes(W) \subseteq Writes(E) /\ Reads(W) \subseteq Reads(E)
      /\ IsTrace(W)
  BY PartsInside DEF IsExecution
<1>1. IsExecution(W, y)
  BY RestrictedIsExecution
<1>2. ASSUME NEW F, NEW z, z.co \in CoherenceOrders(F)
      PROVE  TargetAccepts(F, z) <=> Acyclic(F, TargetOrder(F) \cup AllCommunication(F, z))
  <2> DEFINE others == TargetOrder(F) \cup ReadFrom(F, z) \cup FromRead(F, z)
  <2>1. /\ TargetOrder(F) \cup Communication(F, z) = others \cup Adjacent(z.co)
        /\ TargetOrder(F) \cup AllCommunication(F, z) = others \cup z.co
    BY DEF Communication, AllCommunication
  <2> HIDE DEF others
  <2> QED
    BY <1>2, <2>1, AdjacentIsEnough DEF TargetAccepts
<1>3. Acyclic(E, G)
  BY <1>0, <1>2
<1>4. ASSUME NEW S \in SUBSET W, Headless(S, H) PROVE FALSE
  <2> DEFINE T == S \cup {m \in E : \E a \in S : <<a, m>> \in G}
  \* An own store that the window's read comes after: the nearest one in the trace.
  <2>1. ASSUME NEW w \in Writes(E), NEW b \in Reads(E), Before(w, b), Overlaps(w, b)
        PROVE  \E n \in Writes(E) : /\ <<n, b>> \in G /\ Overlaps(n, b)
                                    /\ n = w \/ (Before(w, n) /\ <<w, n>> \in G /\ <<w, n>> \in x.co)
    <3> DEFINE own == {v \in Writes(E) : Overlaps(v, b)}
    <3>1. own \in SUBSET E /\ w \in own /\ b \in E /\ IsRead(b)
      BY <2>1 DEF Writes, Reads
    <3>2. PICK n \in Nearest(own, b) : n = w \/ Before(w, n)
      <4> HIDE DEF own
      <4> QED
        BY <2>1, <3>1, NearestExists
    <3>3. n \in Writes(E) /\ Overlaps(n, b) /\ n \in NearestOwnStore(E, b)
      BY DEF Nearest, NearestOwnStore
    <3>4. <<n, b>> \in G
      BY <3>1, <3>3 DEF TargetOrder, TargetEdge, Writes
    <3>5. ASSUME Before(w, n) PROVE <<w, n>> \in G /\ <<w, n>> \in x.co
      <4>1. w \in E /\ n \in E /\ b \in E /\ IsMemory(w) /\ IsMemory(n) /\ IsMemory(b) /\ IsWrite(n)
        BY <3>1, <3>3 DEF Writes, IsMemory
      <4>2. Location(w) = Location(b) /\ Location(n) = Location(b) /\ w.size > 0
        BY <2>1, <3>3, <4>1, Alike
      <4>3. Overlaps(w, n)
        BY <4>1, <4>2, Alike
      <4>4. <<w, n>> \in TargetOrder(E)
        BY <3>5, <4>1, <4>3 DEF TargetOrder, TargetEdge
      <4>5. w # n /\ ~ Before(n, w) /\ n.thread = w.thread
        BY <3>5, <4>1, BeforeIsOrder
      <4>6. <<w, n>> \in x.co
        <5>1. <<w, n>> \in x.co \/ <<n, w>> \in x.co
          BY <1>0, <3>3, <4>3, <4>5, CoherenceTotal
        <5>2. <<n, w>> \in x.co => (n.thread = w.thread => Before(n, w))
          BY <1>0, CoherenceOf
        <5> QED
          BY <4>5, <5>1, <5>2
      <4> QED
        BY <4>4, <4>6
    <3> HIDE DEF G
    <3> QED
      BY <3>2, <3>3, <3>4, <3>5
  <2>2. ASSUME NEW b \in S PROVE \E a \in T : <<a, b>> \in G
    <3>1. PICK a \in S : <<a, b>> \in H
      BY <1>4 DEF Headless
    <3>2. a \in W /\ b \in W /\ a \in E /\ b \in E
      OBVIOUS
    <3>3. CASE TargetEdge(W, a, b)
      <4>1. CASE BoundaryEdge(a, b) \/ (IsWrite(b) /\ IsMemory(a) /\ Before(a, b) /\ Overlaps(a, b))
        BY <3>2, <4>1 DEF TargetOrder, TargetEdge
      <4>2. CASE IsRead(b) /\ a \in NearestOwnStore(W, b)
        <5>1. a \in Writes(E) /\ b \in Reads(E) /\ Before(a, b) /\ Overlaps(a, b)
          BY <1>0, <3>2, <4>2 DEF NearestOwnStore, Nearest, Reads
        <5>2. PICK n \in Writes(E) : <<n, b>> \in G /\ (n = a \/ <<a, n>> \in G)
          BY <2>1, <5>1
        <5> HIDE DEF G
        <5> QED
          BY <5>2 DEF Writes
      <4> QED
        BY <3>3, <4>1, <4>2 DEF TargetEdge
    <3>4. CASE <<a, b>> \in y.co
      <4>1. <<a, b>> \in x.co
        BY <3>4, RestrictedOrder
      <4> QED
        BY <4>1 DEF AllCommunication
    <3>5. CASE <<a, b>> \in FromRead(W, y)
      <4>1. <<a, b>> \in FromRead(E, x)
        BY <3>2, <3>5, OverwritesAlike
      <4> QED
        BY <4>1 DEF AllCommunication
    <3>6. CASE <<a, b>> \in ReadFrom(W, y)
      <4>1. PICK p \in ReadParts(W) : y.rf[p] # Initial /\ a = y.rf[p] /\ b = p.read /\ a.thread # b.thread
        BY <3>6 DEF ReadFrom
      <4> DEFINE s == x.rf[p]
      <4>2. s # Initial /\ (a = s \/ <<a, s>> \in x.co)
        BY <4>1, KnownFacts
      <4>3. p \in ReadParts(E)
        BY PartsInside
      <4>4. /\ s \in Writes(E) /\ Overlaps(s, b) /\ b \in Reads(E)
            /\ s.thread = b.thread => Before(s, b)
        BY <4>1, <4>2, <4>3, SourceFacts, PartFacts
      <4>5. s.thread # b.thread => <<s, b>> \in ReadFrom(E, x)
        BY <4>1, <4>2, <4>3 DEF ReadFrom
      <4> HIDE DEF s
      <4>6. CASE s.thread # b.thread
        <5>1. <<s, b>> \in G /\ s \in E
          BY <4>4, <4>5, <4>6 DEF AllCommunication, Writes
        <5>2. s \in T
          BY <4>2, <5>1 DEF AllCommunication
        <5> QED
          BY <5>1, <5>2
      <4>7. CASE s.thread = b.thread
        <5>1. PICK n \in Writes(E) : <<n, b>> \in G /\ (n = s \/ <<s, n>> \in x.co)
          BY <2>1, <4>4, <4>7
        <5>2. n = a \/ <<a, n>> \in x.co
          BY <1>0, <4>2, <5>1, CoherenceIsOrder
        <5>3. n \in T
          BY <5>2 DEF AllCommunication, Writes
        <5> QED
          BY <5>1, <5>3
      <4> QED
        BY <4>6, <4>7
    <3> QED
      BY <3>1, <3>3, <3>4, <3>5, <3>6 DEF TargetOrder, AllCommunication
  <2>3. Headless(T, G) /\ T \in SUBSET E
    <3> HIDE DEF G
    <3> QED
      BY <1>4, <2>2 DEF Headless
  <2> HIDE DEF T, G
  <2> QED
    BY <1>3, <2>3, CyclicIffHeadless
<1>5. Acyclic(W, H)
  BY <1>4, CyclicIffHeadless
<1>6. TargetAccepts(W, y)
  <2>1. y.co \in CoherenceOrders(W)
    BY <1>1 DEF IsExecution
  <2> HIDE DEF y
  <2> QED
    BY <1>2, <1>5, <2>1
<1> QED
  BY <1>6

(***************************************************************************)
(* A cycle of the trace whose members and full fences are in the window is *)
(* one of the window: the source relation does not accept what it saw.     *)
(***************************************************************************)
LEMMA CycleStays ==
  ASSUME NEW E, IsTrace(E), Uniform(E), NEW x, IsExecution(E, x), CoherentPerPlace(E, x),
         NEW W \in SUBSET E, Initial \notin W,
         NEW S \in SUBSET W, Headless(S, Whole(E, x)),
         \A a, b \in S, f \in E : Flushes(f) /\ Before(a, f) /\ Before(f, b) =>
            \E g \in W : Flushes(g) /\ Before(a, g) /\ Before(g, b)
  PROVE  ~ SourceAccepts(W, Restricted(W, x))
<1> DEFINE y == Restricted(W, x)
           H == DenseSourceOrder(W) \cup AllCommunication(W, y)
           others == ReadFrom(W, y) \cup FromRead(W, y)
           T == S \cup {f \in W : \E a \in S : <<a, f>> \in H}
<1> SUFFICES ASSUME SourceAccepts(W, y) PROVE FALSE
  OBVIOUS
<1>0. x.co \in CoherenceOrders(E) /\ IsTrace(W)
  BY PartsInside DEF IsExecution
<1>1. IsExecution(W, y)
  BY RestrictedIsExecution
<1>2. Acyclic(W, DenseSourceOrder(W) \cup Communication(W, y))
  BY <1>0, CompactSourceOrder DEF SourceAccepts
<1>3. /\ DenseSourceOrder(W) \cup Communication(W, y) = (DenseSourceOrder(W) \cup others) \cup Adjacent(y.co)
      /\ H = (DenseSourceOrder(W) \cup others) \cup y.co
  BY DEF Communication, AllCommunication
<1>4. Acyclic(W, H)
  <2> HIDE DEF others, H, y
  <2> QED
    BY <1>1, <1>2, <1>3, AdjacentIsEnough DEF IsExecution
<1>5. ASSUME NEW a \in S, NEW b \in S, Kept(E, a, b) PROVE \E c \in T : <<c, b>> \in H
  <2>1. a \in W /\ b \in W /\ IsMemory(a) /\ IsMemory(b) /\ Before(a, b)
    BY <1>5 DEF Kept
  <2>2. CASE IsRead(a) \/ IsWrite(b)
    BY <2>1, <2>2 DEF DenseSourceOrder, DenseSourceEdge, IsMemory
  <2>3. CASE IsOrdered(a) \/ IsOrdered(b)
    BY <2>1, <2>3 DEF DenseSourceOrder, DenseSourceEdge, BoundaryEdge, Bounds, IsOrdered
  <2>4. CASE \E f \in E : Flushes(f) /\ Before(a, f) /\ Before(f, b)
    <3>1. PICK g \in W : Flushes(g) /\ Before(a, g) /\ Before(g, b)
      BY <2>4
    <3>2. BoundaryEdge(a, g) /\ BoundaryEdge(g, b)
      BY <2>1, <3>1 DEF BoundaryEdge, Bounds, Flushes
    <3>3. <<a, g>> \in H /\ <<g, b>> \in H
      BY <2>1, <3>2 DEF DenseSourceOrder, DenseSourceEdge
    <3> HIDE DEF H
    <3> QED
      BY <3>3
  <2> QED
    BY <1>5, <2>2, <2>3, <2>4 DEF Kept
<1>6. ASSUME NEW a \in S, NEW b \in S, <<a, b>> \in AllCommunication(E, x)
      PROVE  <<a, b>> \in AllCommunication(W, y)
  <2>1. CASE <<a, b>> \in x.co
    <3>0. a \in Writes(E) /\ b \in Writes(E) /\ a \in W /\ b \in W
      BY <1>0, <2>1, CoherenceOf
    <3>1. a \in Writes(W) /\ b \in Writes(W)
      BY <3>0 DEF Writes
    <3>2. <<a, b>> \in y.co
      BY <2>1, <3>1, RestrictedOrder
    <3> QED
      BY <3>2 DEF AllCommunication
  <2>2. CASE <<a, b>> \in FromRead(E, x)
    <3>1. <<a, b>> \in FromRead(W, y)
      BY <2>2, OverwritesAlike
    <3> QED
      BY <3>1 DEF AllCommunication
  <2>3. CASE <<a, b>> \in ReadFrom(E, x)
    <3>1. PICK p \in ReadParts(E) : x.rf[p] # Initial /\ a = x.rf[p] /\ b = p.read /\ a.thread # b.thread
      BY <2>3 DEF ReadFrom
    <3>2. p \in ReadParts(W)
      BY <3>1, PartsInside
    <3>3. a \in Writes(W)
      <4>1. a \in Writes(E)
        BY <3>1, SourceFacts
      <4> QED
        BY <4>1 DEF Writes
    <3>4. a \in Known(W, x, p)
      BY <3>1, <3>3 DEF Known
    <3> DEFINE l == y.rf[p]
    <3>5. /\ l # Initial /\ (l = a \/ <<l, a>> \in x.co) /\ (a = l \/ <<a, l>> \in x.co)
      BY <3>1, <3>2, <3>4, KnownFacts
    <3>6. l = a
      <4> HIDE DEF l
      <4> QED
        BY <1>0, <3>5, CoherenceOf
    <3> HIDE DEF y
    <3>7. <<a, b>> \in ReadFrom(W, y)
      BY <3>1, <3>2, <3>5, <3>6 DEF ReadFrom
    <3> QED
      BY <3>7 DEF AllCommunication
  <2> QED
    BY <1>6, <2>1, <2>2, <2>3 DEF AllCommunication
<1>7. ASSUME NEW b \in S PROVE \E a \in T : <<a, b>> \in H
  <2>1. PICK a \in S : <<a, b>> \in Whole(E, x)
    BY DEF Headless
  <2>2. CASE <<a, b>> \in AllCommunication(E, x)
    BY <1>6, <2>2
  <2>3. CASE <<a, b>> \in KeptOrder(E)
    BY <1>5, <2>3 DEF KeptOrder
  <2> QED
    BY <2>1, <2>2, <2>3 DEF Whole
<1>8. Headless(T, H) /\ T \in SUBSET W
  <2> HIDE DEF H
  <2> QED
    BY <1>7 DEF Headless
<1> HIDE DEF T, H
<1> QED
  BY <1>4, <1>8, CyclicIffHeadless

(***************************************************************************)
(* docs/dynamic/04-portability-check.md, line 9: a trace of which every    *)
(* window is safe is safe as a whole.  No execution of it is one RVWMO     *)
(* allows and x86-TSO forbids, wherever build_windows divided it, if       *)
(* accesses coincide or are disjoint and no load fence comes after a read  *)
(* of what the thread has itself written (with one it is false).           *)
(***************************************************************************)
THEOREM SafeTraceIsInclusion ==
  SweepSpec => [](Uniform(trace) /\ LoadFencesClear(trace) => SafeWindowsSafeTrace)
<1>1. SweepInv /\ SafeTraceIsSwept => (Uniform(trace) /\ LoadFencesClear(trace) => SafeWindowsSafeTrace)
  <2> SUFFICES ASSUME SweepInv, SafeTraceIsSwept, verdict = "TRACE_SAFE",
                      Uniform(trace), LoadFencesClear(trace),
                      NEW x \in Executions(trace), RvwmoAllows(trace, x), ~ TsoAllows(trace, x)
               PROVE  FALSE
    BY DEF SafeWindowsSafeTrace
  <2>1. /\ IsTrace(trace) /\ IsFiniteSet(trace) /\ BuildWindows(trace, Conflicts(trace)) \subseteq Windows
        /\ \A w \in BuildWindows(trace, Conflicts(trace)) : Clean(w)
    BY WindowsOfTraces, TracesAreFinite DEF SweepInv, SafeTraceIsSwept, Built
  <2>2. IsExecution(trace, x) /\ AtomicsValid(trace, x) /\ CoherentPerPlace(trace, x)
    BY ExecutionsAre DEF RvwmoAllows
  <2>3. TargetAccepts(trace, x)
    BY <2>1, <2>2, RvwmoInsideTarget
  <2>4. ~ Acyclic(trace, Whole(trace, x))
    <3>1. ~ Acyclic(trace, TsoOrder(trace) \cup AllCommunication(trace, x))
      BY <2>2 DEF TsoAllows
    <3>2. TsoOrder(trace) \cup AllCommunication(trace, x) \subseteq Whole(trace, x)
      BY TsoIsKept DEF Whole
    <3> QED
      BY <3>1, <3>2, FewerEdges
  <2>5. PICK S \in SUBSET trace : Smallest(S, Whole(trace, x))
    BY <2>1, <2>4, SmallestExists
  <2>6. PICK X \in SUBSET trace : /\ S \subseteq X
                                  /\ X \cup MinimalBoundaries(trace, X) \in BuildWindows(trace, Conflicts(trace))
    BY <2>1, <2>2, <2>5, SmallestInWindow
  <2> DEFINE W == X \cup MinimalBoundaries(trace, X)
  <2>7. W \in SUBSET trace /\ S \in SUBSET W /\ W \in Windows /\ Clean(W)
    BY <2>1, <2>6 DEF MinimalBoundaries, Boundaries
  <2>8. \A a, b \in S, f \in trace : Flushes(f) /\ Before(a, f) /\ Before(f, b) =>
           \E g \in W : Flushes(g) /\ Before(a, g) /\ Before(g, b)
    <3> SUFFICES ASSUME NEW a \in S, NEW b \in S, NEW f \in trace, Flushes(f), Before(a, f), Before(f, b)
                 PROVE  \E g \in W : Flushes(g) /\ Before(a, g) /\ Before(g, b)
      OBVIOUS
    <3>1. a \in X /\ b \in X
      BY <2>6
    <3> QED
      BY <2>1, <3>1, GapsHaveFences
  <2> HIDE DEF W
  <2>9. Initial \notin W
    BY <2>7, InitialIsNoEvent
  <2>10. Restricted(W, x) \in Executions(W)
    BY <2>1, <2>2, <2>7, <2>9, RestrictedIsExecution
  <2>11. AtomicsValid(W, Restricted(W, x)) /\ TargetAccepts(W, Restricted(W, x))
    BY <2>1, <2>2, <2>3, <2>7, <2>9, AtomicsStay, TargetStays
  <2>12. SourceAccepts(W, Restricted(W, x))
    BY <2>7, <2>10, <2>11 DEF Clean, TargetOnly
  <2>13. Headless(S, Whole(trace, x))
    BY <2>5 DEF Smallest
  <2> QED
    BY <2>1, <2>2, <2>7, <2>8, <2>9, <2>12, <2>13, CycleStays
<1> QED
  BY <1>1, SweepStarts, SweepKeeps, SafeTraceIsSweptHolds, PTL DEF SweepSpec

=============================================================================
