------------------------- MODULE CommunicationProofs -------------------------
(***************************************************************************)
(* What the communication edges leave out may be left out, proved for any  *)
(* programs, page size and limits.                                         *)
(*                                                                         *)
(* Two orders carry the argument.  Tickets never decrease along the trace  *)
(* and a lifecycle record draws one of its own, so an order of tickets is  *)
(* one of records.  Rows are taken by address, so an interval that was     *)
(* dropped ends before every row still to come.                            *)
(***************************************************************************)
EXTENDS CommunicationEdges, FiniteSetTheorems, TLAPS

-----------------------------------------------------------------------------
(* Ranks: counting what is below a member numbers a strictly ordered set.    *)

StrictlyOrders(R, S) ==
  /\ \A i, j \in S : i # j => <<i, j>> \in R \/ <<j, i>> \in R
  /\ \A i \in S : <<i, i>> \notin R
  /\ \A i, j, k \in S : <<i, j>> \in R /\ <<j, k>> \in R => <<i, k>> \in R

Below(R, S, i) == {j \in S : <<j, i>> \in R}

(***************************************************************************)
(* Fewer members are below what is below.                                  *)
(***************************************************************************)
LEMMA RankGrows ==
  ASSUME NEW S, IsFiniteSet(S), NEW R, StrictlyOrders(R, S),
         NEW i \in S, NEW j \in S, <<i, j>> \in R
  PROVE  Cardinality(Below(R, S, i)) < Cardinality(Below(R, S, j))
<1>1. IsFiniteSet(Below(R, S, j)) /\ Below(R, S, i) \subseteq Below(R, S, j)
  BY FS_Subset DEF Below, StrictlyOrders
<1>2. i \in Below(R, S, j) /\ i \notin Below(R, S, i)
  BY DEF Below, StrictlyOrders
<1> QED
  BY <1>1, <1>2, FS_Subset, FS_CardinalityType

(***************************************************************************)
(* Each number below the cardinality is the rank of exactly one member.    *)
(***************************************************************************)
LEMMA RanksAreReached ==
  ASSUME NEW S, IsFiniteSet(S), NEW R, StrictlyOrders(R, S)
  PROVE  /\ \A i \in S : Cardinality(Below(R, S, i)) \in 0 .. Cardinality(S) - 1
         /\ \A i, j \in S : Cardinality(Below(R, S, i)) = Cardinality(Below(R, S, j)) => i = j
         /\ \A k \in 1 .. Cardinality(S) : \E i \in S : Cardinality(Below(R, S, i)) = k - 1
<1> DEFINE n == Cardinality(S)
<1> DEFINE rank == [i \in S |-> Cardinality(Below(R, S, i))]
<1>1. n \in Nat
  BY FS_CardinalityType
<1>2. ASSUME NEW i \in S PROVE Cardinality(Below(R, S, i)) \in 0 .. n - 1
  <2>1. Below(R, S, i) \subseteq S /\ i \notin Below(R, S, i)
    BY DEF Below, StrictlyOrders
  <2>2. IsFiniteSet(Below(R, S, i)) /\ Cardinality(Below(R, S, i)) <= n
    BY <2>1, FS_Subset
  <2>3. Cardinality(Below(R, S, i)) # n
    BY <2>1, FS_Subset
  <2> QED
    BY <1>1, <2>2, <2>3, FS_CardinalityType
<1>3. ASSUME NEW i \in S, NEW j \in S, i # j
      PROVE  Cardinality(Below(R, S, i)) # Cardinality(Below(R, S, j))
  <2>1. Cardinality(Below(R, S, i)) \in Int /\ Cardinality(Below(R, S, j)) \in Int
    BY <1>1, <1>2
  <2>2. CASE <<i, j>> \in R
    BY <2>1, <2>2, RankGrows
  <2>3. CASE <<j, i>> \in R
    BY <2>1, <2>3, RankGrows
  <2> QED
    BY <1>3, <2>2, <2>3 DEF StrictlyOrders
<1>4. rank \in Injection(S, 0 .. n - 1)
  <2>1. rank \in [S -> 0 .. n - 1]
    BY <1>2
  <2> QED
    BY <2>1, <1>3 DEF Injection, IsInjective
<1>5. IsFiniteSet(0 .. n - 1) /\ Cardinality(0 .. n - 1) = n
  BY <1>1, FS_Interval
<1>6. rank \in Surjection(S, 0 .. n - 1)
  BY <1>4, <1>5, FS_Injection
<1>7. ASSUME NEW k \in 1 .. n PROVE \E i \in S : Cardinality(Below(R, S, i)) = k - 1
  <2>1. k - 1 \in 0 .. n - 1
    BY <1>1
  <2> QED
    BY <1>6, <2>1 DEF Surjection
<1> QED
  BY <1>2, <1>3, <1>7

(***************************************************************************)
(* ByTicket lists all members of a set of records with different tickets.  *)
(***************************************************************************)
LEMMA ByTicketLists ==
  ASSUME NEW ids, IsFiniteSet(ids), \A i \in ids : trace[i].ticket \in Nat,
         \A i, j \in ids : i # j => trace[i].ticket # trace[j].ticket
  PROVE  /\ DOMAIN ByTicket(ids) = 1 .. Cardinality(ids)
         /\ \A k \in 1 .. Cardinality(ids) : ByTicket(ids)[k] \in ids
         /\ \A i \in ids : \E k \in 1 .. Cardinality(ids) : ByTicket(ids)[k] = i
<1> DEFINE R == {e \in ids \X ids : trace[e[1]].ticket < trace[e[2]].ticket}
<1>0. Cardinality(ids) \in Nat
  BY FS_CardinalityType
<1>1. StrictlyOrders(R, ids)
  <2>1. \A i, j \in ids : <<i, j>> \in R <=> trace[i].ticket < trace[j].ticket
    OBVIOUS
  <2> HIDE DEF R
  <2> QED
    BY <2>1 DEF StrictlyOrders
<1>2. \A i \in ids : {j \in ids : trace[j].ticket < trace[i].ticket} = Below(R, ids, i)
  BY DEF Below
<1> HIDE DEF R
<1>3. \A k \in 1 .. Cardinality(ids) :
        ByTicket(ids)[k] = CHOOSE i \in ids : Cardinality(Below(R, ids, i)) = k - 1
  BY <1>2 DEF ByTicket
<1>4. ASSUME NEW k \in 1 .. Cardinality(ids)
      PROVE  ByTicket(ids)[k] \in ids /\ Cardinality(Below(R, ids, ByTicket(ids)[k])) = k - 1
  BY <1>1, <1>3, RanksAreReached
<1>5. ASSUME NEW i \in ids PROVE \E k \in 1 .. Cardinality(ids) : ByTicket(ids)[k] = i
  <2>1. Cardinality(Below(R, ids, i)) \in 0 .. Cardinality(ids) - 1
    BY <1>1, RanksAreReached
  <2>2. PICK k \in 1 .. Cardinality(ids) : Cardinality(Below(R, ids, i)) = k - 1
    BY <1>0, <2>1
  <2>3. ByTicket(ids)[k] = i
    BY <1>1, <1>4, <2>2, RanksAreReached
  <2> QED
    BY <2>3
<1>6. DOMAIN ByTicket(ids) = 1 .. Cardinality(ids)
  BY DEF ByTicket
<1> QED
  BY <1>4, <1>5, <1>6

(***************************************************************************)
(* Sorted lists a set of accesses by address, each of them once.           *)
(***************************************************************************)
LEMMA SortedLists ==
  ASSUME NEW ids \in SUBSET Nat, IsFiniteSet(ids), \A i \in ids : Event(i).addr \in Nat
  PROVE  /\ Sorted(ids) \in Seq(ids)
         /\ \A i \in ids : \E k \in DOMAIN Sorted(ids) : Sorted(ids)[k] = i
         /\ \A k, l \in DOMAIN Sorted(ids) : k < l => Before(Sorted(ids)[k], Sorted(ids)[l])
<1> DEFINE R == {e \in ids \X ids : Before(e[1], e[2])}
<1> DEFINE n == Cardinality(ids)
<1>0. n \in Nat
  BY FS_CardinalityType
<1>1. \A i, j \in ids : <<i, j>> \in R <=> Before(i, j)
  OBVIOUS
<1>2. StrictlyOrders(R, ids)
  <2> HIDE DEF R
  <2> QED
    BY <1>1 DEF StrictlyOrders, Before
<1>3. \A i \in ids : {j \in ids : Before(j, i)} = Below(R, ids, i)
  BY DEF Below
<1> HIDE DEF R
<1>4. /\ DOMAIN Sorted(ids) = 1 .. n
      /\ \A k \in 1 .. n : Sorted(ids)[k] = CHOOSE i \in ids : Cardinality(Below(R, ids, i)) = k - 1
  BY <1>3 DEF Sorted
<1>5. ASSUME NEW k \in 1 .. n
      PROVE  Sorted(ids)[k] \in ids /\ Cardinality(Below(R, ids, Sorted(ids)[k])) = k - 1
  BY <1>2, <1>4, RanksAreReached
<1>6. Sorted(ids) \in Seq(ids)
  <2>1. Sorted(ids) \in [1 .. n -> ids]
    BY <1>5 DEF Sorted
  <2> QED
    BY <1>0, <2>1
<1>7. ASSUME NEW i \in ids PROVE \E k \in 1 .. n : Sorted(ids)[k] = i
  <2>1. Cardinality(Below(R, ids, i)) \in 0 .. n - 1
    BY <1>2, RanksAreReached
  <2>2. PICK k \in 1 .. n : Cardinality(Below(R, ids, i)) = k - 1
    BY <1>0, <2>1
  <2>3. Sorted(ids)[k] = i
    BY <1>2, <1>5, <2>2, RanksAreReached
  <2> QED
    BY <2>3
<1>8. ASSUME NEW k \in 1 .. n, NEW l \in 1 .. n, k < l
      PROVE  Before(Sorted(ids)[k], Sorted(ids)[l])
  <2>1. Sorted(ids)[k] \in ids /\ Sorted(ids)[l] \in ids /\ Sorted(ids)[k] # Sorted(ids)[l]
    BY <1>5, <1>8
  <2>2. ~ (<<Sorted(ids)[l], Sorted(ids)[k]>> \in R)
    BY <1>0, <1>2, <1>5, <1>8, <2>1, RankGrows
  <2> QED
    BY <1>1, <1>2, <2>1, <2>2 DEF StrictlyOrders
<1> QED
  BY <1>4, <1>6, <1>7, <1>8

-----------------------------------------------------------------------------
(* The recording.                                                            *)

LifeKinds == {"THREAD_CREATE", "THREAD_START", "THREAD_END", "THREAD_JOIN"}
Objects   == UNION {{a.object : a \in Ops(s)} : s \in Setups}

Records ==
  [thread : Threads, kind : LifeKinds, ticket : Nat, about : Threads,
   tid : Threads \cup {NoThread}]
  \cup [thread : Threads, kind : AccessKinds, ticket : Nat, addr : Nat, size : Nat,
        object : Objects, app : BOOLEAN]

HandoffTypeOK ==
  /\ \E s \in Setups : program = s.program /\ style = s.style
  /\ ticket \in Nat
  /\ trace \in Seq(Records)
  /\ stage \in [DOMAIN program -> {"unborn", "spawned", "running", "ended", "joined"}]
  /\ touched \in [DOMAIN program -> Nat]
  /\ creating \in (DOMAIN program \ {Main}) \cup {NoThread}
  /\ unwritten \in Seq(Threads \cup {NoThread})
  /\ creating # NoThread => unwritten # <<>>
  /\ \A i \in Ids : trace[i].thread \in DOMAIN program

IsLife(i) == trace[i].kind \in LifeKinds

\* Tickets never decrease, and the one of a lifecycle record is its own.
Clocked ==
  /\ \A i \in Ids : trace[i].ticket <= ticket /\ (IsLife(i) => trace[i].ticket < ticket)
  /\ \A i, j \in Ids : i < j =>
        trace[i].ticket <= trace[j].ticket /\ (IsLife(i) => trace[i].ticket < trace[j].ticket)

Begun == {"running", "ended", "joined"}
Over   == {"ended", "joined"}

\* The records of a thread lie between its start and its end.
Bracketed ==
  /\ \A i \in Ids : stage[trace[i].thread] \in Begun
  /\ \A i \in Ids : trace[i].kind = "THREAD_END" => stage[trace[i].thread] \in Over
  /\ \A i, j \in Ids : trace[i].thread = trace[j].thread =>
        /\ trace[j].kind = "THREAD_START" => j <= i
        /\ trace[j].kind = "THREAD_END" => i <= j
  /\ \A t \in DOMAIN program :
        /\ stage[t] \in Begun => OfKind("THREAD_START", t) # {}
        /\ stage[t] \in Over => OfKind("THREAD_END", t) # {}

\* The main thread outlives the others and records what it began.
MainIsLast ==
  /\ stage[Main] \in {"running", "ended"}
  /\ creating # NoThread => stage[Main] = "running"
  /\ Recorded => \A w \in DOMAIN program \ {Main} : stage[w] \in Over

HandoffInv == HandoffTypeOK /\ Clocked /\ Bracketed /\ MainIsLast

Appends(r) == trace' = Append(trace, r)

LEMMA AppendTyped ==
  ASSUME HandoffInv, NEW r \in Records, Appends(r)
  PROVE  /\ Len(trace) \in Nat /\ trace' \in Seq(Records)
         /\ Ids' = Ids \cup {Len(trace) + 1}
         /\ trace'[Len(trace) + 1] = r
         /\ \A i \in Ids : trace'[i] = trace[i]
BY DEF HandoffInv, HandoffTypeOK, Ids, Appends

LEMMA AppendOwned ==
  ASSUME HandoffInv, NEW r \in Records, Appends(r), r.thread \in DOMAIN program
  PROVE  trace' \in Seq(Records) /\ \A i \in Ids' : trace'[i].thread \in DOMAIN program
<1>1. /\ trace' \in Seq(Records) /\ Ids' = Ids \cup {Len(trace) + 1}
      /\ trace'[Len(trace) + 1] = r /\ \A i \in Ids : trace'[i] = trace[i]
  BY AppendTyped
<1>2. \A i \in Ids : trace[i].thread \in DOMAIN program
  BY DEF HandoffInv, HandoffTypeOK
<1> QED
  BY <1>1, <1>2

(***************************************************************************)
(* A record that carries the next ticket, and draws it if it is one of the *)
(* lifecycle, keeps the trace in order.                                    *)
(***************************************************************************)
LEMMA AppendClocked ==
  ASSUME HandoffInv, NEW r \in Records, Appends(r), r.ticket = ticket,
         ticket' \in {ticket, ticket + 1}, r.kind \in LifeKinds => ticket' = ticket + 1
  PROVE  Clocked'
<1>0. PICK n : n = Len(trace) + 1
  OBVIOUS
<1>1. /\ Len(trace) \in Nat /\ Ids' = Ids \cup {n} /\ trace'[n] = r
      /\ \A i \in Ids : trace'[i] = trace[i]
  BY <1>0, AppendTyped
<1>2. n \in Nat /\ \A i \in Ids : i \in Nat /\ i < n /\ trace[i].ticket \in Nat
  BY <1>0, <1>1 DEF Ids, HandoffInv, HandoffTypeOK, Records
<1>3. ticket \in Nat
  BY DEF HandoffInv, HandoffTypeOK
<1>5. ASSUME NEW i \in Ids'
      PROVE  trace'[i].ticket <= ticket' /\ (trace'[i].kind \in LifeKinds => trace'[i].ticket < ticket')
  <2>1. CASE i \in Ids
    BY <1>1, <1>2, <1>3, <2>1 DEF HandoffInv, Clocked, IsLife
  <2>2. CASE i = n
    BY <1>1, <1>3, <2>2 DEF IsLife
  <2> QED
    BY <1>1, <2>1, <2>2
<1>6. ASSUME NEW i \in Ids', NEW j \in Ids', i < j
      PROVE  /\ trace'[i].ticket <= trace'[j].ticket
             /\ trace'[i].kind \in LifeKinds => trace'[i].ticket < trace'[j].ticket
  <2>1. i \in Ids
    BY <1>1, <1>2, <1>6
  <2>2. CASE j \in Ids
    BY <1>1, <1>3, <1>6, <2>1, <2>2 DEF HandoffInv, Clocked, IsLife
  <2>3. CASE j = n
    BY <1>1, <1>3, <2>1, <2>3 DEF HandoffInv, Clocked, IsLife
  <2> QED
    BY <1>1, <2>2, <2>3
<1> QED
  BY <1>5, <1>6 DEF Clocked, IsLife

(***************************************************************************)
(* A thread that is not over may record; its first record is its start and *)
(* its end is the last.                                                    *)
(***************************************************************************)
LEMMA AppendBracketed ==
  ASSUME HandoffInv, NEW r \in Records, Appends(r), UNCHANGED program,
         \A t \in DOMAIN program \ {r.thread} :
            (stage'[t] \in Begun <=> stage[t] \in Begun) /\ (stage'[t] \in Over <=> stage[t] \in Over),
         r.thread \in DOMAIN program, stage[r.thread] \notin Over, stage'[r.thread] \in Begun,
         r.kind = "THREAD_START" <=> stage[r.thread] \notin Begun,
         r.kind = "THREAD_END" <=> stage'[r.thread] \in Over
  PROVE  Bracketed'
<1>0. PICK n : n = Len(trace) + 1
  OBVIOUS
<1>1. /\ Len(trace) \in Nat /\ Ids' = Ids \cup {n} /\ trace'[n] = r
      /\ \A i \in Ids : trace'[i] = trace[i]
  BY <1>0, AppendTyped
<1>2. n \in Nat /\ \A i \in Ids : i \in Nat /\ i < n /\ trace[i].thread \in DOMAIN program
  BY <1>0, <1>1 DEF Ids, HandoffInv, HandoffTypeOK
<1>3. Over \subseteq Begun
  BY DEF Over, Begun
<1>4. \A i \in Ids : trace[i].thread = r.thread => stage[r.thread] \in Begun /\ trace[i].kind # "THREAD_END"
  BY DEF HandoffInv, Bracketed
<1>5. ASSUME NEW i \in Ids' PROVE stage'[trace'[i].thread] \in Begun
  BY <1>1, <1>2 DEF HandoffInv, Bracketed
<1>6. ASSUME NEW i \in Ids', trace'[i].kind = "THREAD_END"
      PROVE  stage'[trace'[i].thread] \in Over
  BY <1>1, <1>2, <1>4, <1>6 DEF HandoffInv, Bracketed
<1>7. ASSUME NEW i \in Ids', NEW j \in Ids', trace'[i].thread = trace'[j].thread
      PROVE  /\ trace'[j].kind = "THREAD_START" => j <= i
             /\ trace'[j].kind = "THREAD_END" => i <= j
  <2>1. CASE i \in Ids /\ j \in Ids
    BY <1>1, <1>7, <2>1 DEF HandoffInv, Bracketed
  <2>2. CASE i \in Ids /\ j = n
    BY <1>1, <1>2, <1>4, <1>7, <2>2
  <2>3. CASE i = n /\ j \in Ids
    BY <1>1, <1>2, <1>4, <1>7, <2>3
  <2>4. CASE i = n /\ j = n
    BY <1>2, <2>4
  <2> QED
    BY <1>1, <2>1, <2>2, <2>3, <2>4
<1>8. \A kind, t : OfKind(kind, t) # {} => OfKind(kind, t)' # {}
  BY <1>1 DEF OfKind
<1>9. r.kind \in {"THREAD_START", "THREAD_END"} => OfKind(r.kind, r.thread)' # {}
  BY <1>1 DEF OfKind
<1>10. ASSUME NEW t \in DOMAIN program
       PROVE  /\ stage'[t] \in Begun => OfKind("THREAD_START", t)' # {}
              /\ stage'[t] \in Over => OfKind("THREAD_END", t)' # {}
  <2>1. CASE t = r.thread
    BY <1>8, <1>9, <2>1 DEF HandoffInv, Bracketed
  <2>2. CASE t # r.thread
    BY <1>8, <2>2 DEF HandoffInv, Bracketed
  <2> QED
    BY <2>1, <2>2
<1> QED
  BY <1>5, <1>6, <1>7, <1>10 DEF Bracketed

-----------------------------------------------------------------------------
\* What the assumptions say of the program that is recorded.
ProgramIsTyped ==
  /\ style \subseteq {"clone", "wrapper"} /\ style # {}
  /\ Main \in DOMAIN program /\ DOMAIN program \subseteq Threads
  /\ \A t \in DOMAIN program : Len(program[t]) \in Nat
  /\ \A t \in DOMAIN program : \A k \in 1 .. Len(program[t]) :
       LET a == program[t][k]
       IN  /\ a.kind \in AccessKinds /\ a.addr \in Nat /\ a.size \in Nat
           /\ a.object \in Objects /\ a.app \in BOOLEAN

LEMMA ProgramTyped ==
  ASSUME NEW s \in Setups, program = s.program, style = s.style
  PROVE  ProgramIsTyped
<1>1. /\ style \subseteq {"clone", "wrapper"} /\ style # {}
      /\ Main \in DOMAIN program /\ DOMAIN program \subseteq Threads
  BY SetupsRecordCreation
<1>2. ASSUME NEW t \in DOMAIN program
      PROVE  program[t] \in Seq(Ops(s))
  BY <1>2, SetupsAreTyped
<1>3. ASSUME NEW a \in Ops(s)
      PROVE  /\ a.kind \in AccessKinds /\ a.addr \in Nat /\ a.size \in Nat
             /\ a.object \in Objects /\ a.app \in BOOLEAN
  BY <1>3, SetupsAreTyped DEF Objects
<1>4. ASSUME NEW t \in DOMAIN program, NEW k \in 1 .. Len(program[t])
      PROVE  program[t][k] \in Ops(s)
  BY <1>2
<1>5. \A t \in DOMAIN program : Len(program[t]) \in Nat
  BY <1>2
<1> QED
  BY <1>1, <1>3, <1>4, <1>5 DEF ProgramIsTyped

LEMMA InvGivesProgram == HandoffTypeOK => ProgramIsTyped
BY ProgramTyped DEF HandoffTypeOK

LEMMA HandoffStarts ==
  ASSUME HandoffInit
  PROVE  HandoffInv
<1>1. PICK s \in Setups : program = s.program /\ style = s.style
  BY DEF HandoffInit
<1>2. ProgramIsTyped
  BY <1>1, ProgramTyped
<1> DEFINE r == [thread |-> Main, kind |-> "THREAD_START", ticket |-> 1,
                 about |-> Main, tid |-> NoThread]
<1>3. r \in Records
  BY <1>2 DEF Records, ProgramIsTyped, LifeKinds
<1>4. trace = <<r>>
  BY DEF HandoffInit
<1>5. Ids = {1} /\ trace[1] = r /\ trace \in Seq(Records)
  <2> HIDE DEF r
  <2> QED
    BY <1>3, <1>4 DEF Ids
<1>6. HandoffTypeOK
  <2>1. \A i \in Ids : trace[i].thread \in DOMAIN program
    BY <1>2, <1>5 DEF ProgramIsTyped
  <2>2. /\ stage \in [DOMAIN program -> {"unborn", "spawned", "running", "ended", "joined"}]
        /\ touched \in [DOMAIN program -> Nat]
        /\ creating = NoThread /\ unwritten = <<>> /\ ticket \in Nat
    BY DEF HandoffInit
  <2> QED
    BY <1>1, <1>5, <2>1, <2>2 DEF HandoffTypeOK
<1>7. Clocked
  BY <1>5 DEF Clocked, HandoffInit
<1>8. Bracketed
  <2>1. stage[Main] = "running" /\ \A t \in DOMAIN program \ {Main} : stage[t] = "unborn"
    BY <1>2 DEF HandoffInit, ProgramIsTyped
  <2>2. 1 \in OfKind("THREAD_START", Main)
    BY <1>5 DEF OfKind
  <2> QED
    BY <1>5, <2>1, <2>2 DEF Bracketed, Begun, Over
<1>9. MainIsLast
  BY <1>2 DEF HandoffInit, MainIsLast, Recorded, ProgramIsTyped
<1> QED
  BY <1>6, <1>7, <1>8, <1>9 DEF HandoffInv

LEMMA TouchKeeps ==
  ASSUME HandoffInv, NEW t \in DOMAIN program, Touch(t)
  PROVE  HandoffInv'
<1> DEFINE a == program[t][touched[t] + 1]
<1> DEFINE r == Access(t, a)
<1>1. ProgramIsTyped
  BY InvGivesProgram DEF HandoffInv
<1>2. touched[t] + 1 \in 1 .. Len(program[t])
  BY <1>1 DEF Touch, HandoffInv, HandoffTypeOK, ProgramIsTyped
<1>3. /\ a.kind \in AccessKinds /\ a.addr \in Nat /\ a.size \in Nat
      /\ a.object \in Objects /\ a.app \in BOOLEAN /\ t \in Threads /\ ticket \in Nat
  BY <1>1, <1>2 DEF ProgramIsTyped, HandoffInv, HandoffTypeOK
<1>4. Appends(r) /\ ticket' \in {ticket, ticket + 1} /\ UNCHANGED <<program, style, stage, creating, unwritten>>
  BY DEF Touch, Appends
<1>5. r \in Records /\ r.thread = t /\ r.kind \in AccessKinds /\ r.ticket = ticket
  <2> HIDE DEF a
  <2> QED
    BY <1>3 DEF Access, Records
<1>6. stage[t] = "running"
  BY DEF Touch, Free
<1> HIDE DEF a, r
<1>7. r.kind \notin LifeKinds
  BY <1>5 DEF AccessKinds, MemoryKinds, LifeKinds
<1>8. Clocked'
  BY <1>4, <1>5, <1>7, AppendClocked
<1>9. Bracketed'
  BY <1>4, <1>5, <1>6, <1>7, AppendBracketed DEF Begun, Over, LifeKinds
<1>10. HandoffTypeOK'
  <2>1. trace' \in Seq(Records) /\ \A i \in Ids' : trace'[i].thread \in DOMAIN program
    BY <1>4, <1>5, AppendOwned
  <2>2. touched' \in [DOMAIN program -> Nat]
    BY DEF Touch, HandoffInv, HandoffTypeOK
  <2> QED
    BY <1>3, <1>4, <2>1, <2>2 DEF HandoffInv, HandoffTypeOK
<1>11. MainIsLast'
  BY <1>4 DEF HandoffInv, MainIsLast, Recorded
<1> QED
  BY <1>8, <1>9, <1>10, <1>11 DEF HandoffInv

LEMMA SpawnKeeps ==
  ASSUME HandoffInv, NEW w \in DOMAIN program \ {Main}, Spawn(w)
  PROVE  HandoffInv'
<1>1. ProgramIsTyped
  BY InvGivesProgram DEF HandoffInv
<1>2. /\ UNCHANGED <<program, style, ticket, trace, touched>>
      /\ creating' = w /\ stage[w] = "unborn" /\ stage[Main] = "running"
      /\ stage' = [stage EXCEPT ![w] = "spawned"]
  BY DEF Spawn, Free
<1>3. w \in Threads /\ unwritten' \in Seq(Threads \cup {NoThread}) /\ unwritten' # <<>>
  <2> DEFINE a == IF "clone" \in style THEN <<w>> ELSE <<>>
             b == IF "wrapper" \in style THEN <<NoThread>> ELSE <<>>
  <2>1. w \in Threads /\ ("clone" \in style \/ "wrapper" \in style)
    BY <1>1 DEF ProgramIsTyped
  <2>2. a \in Seq(Threads \cup {NoThread}) /\ b \in Seq(Threads \cup {NoThread})
    <3>1. \A x \in Threads \cup {NoThread} : <<x>> \in Seq(Threads \cup {NoThread})
      OBVIOUS
    <3>2. <<>> \in Seq(Threads \cup {NoThread})
      OBVIOUS
    <3> QED
      BY <2>1, <3>1, <3>2
  <2>3. Len(a) > 0 \/ Len(b) > 0
    BY <2>1
  <2>4. unwritten' = a \o b
    BY DEF Spawn
  <2> HIDE DEF a, b
  <2>5. Len(unwritten') = Len(a) + Len(b) /\ unwritten' \in Seq(Threads \cup {NoThread})
    BY <2>2, <2>4
  <2> QED
    BY <2>1, <2>2, <2>3, <2>5
<1>4. HandoffTypeOK'
  <2>1. stage' \in [DOMAIN program -> {"unborn", "spawned", "running", "ended", "joined"}]
    BY <1>2 DEF HandoffInv, HandoffTypeOK
  <2> QED
    BY <1>2, <1>3, <2>1 DEF HandoffInv, HandoffTypeOK, Ids
<1>5. Clocked'
  BY <1>2 DEF HandoffInv, Clocked, Ids, IsLife
<1>6. \A t \in DOMAIN program : /\ stage'[t] \in Begun <=> stage[t] \in Begun
                                /\ stage'[t] \in Over <=> stage[t] \in Over
  BY <1>2 DEF HandoffInv, HandoffTypeOK, Begun, Over
<1>7. Bracketed'
  BY <1>2, <1>6 DEF HandoffInv, HandoffTypeOK, Bracketed, Ids, OfKind
<1>8. MainIsLast'
  BY <1>1, <1>2 DEF HandoffInv, HandoffTypeOK, MainIsLast, Recorded, ProgramIsTyped
<1> QED
  BY <1>4, <1>5, <1>7, <1>8 DEF HandoffInv

LEMMA RecordCreateKeeps ==
  ASSUME HandoffInv, RecordCreate
  PROVE  HandoffInv'
<1> DEFINE r == Lifecycle("THREAD_CREATE", Main, creating, Head(unwritten))
<1>1. ProgramIsTyped
  BY InvGivesProgram DEF HandoffInv
<1>2. /\ creating \in Threads /\ ticket \in Nat /\ stage[Main] = "running"
      /\ unwritten \in Seq(Threads \cup {NoThread}) /\ unwritten # <<>>
  BY <1>1 DEF RecordCreate, HandoffInv, HandoffTypeOK, MainIsLast, ProgramIsTyped
<1>3. Head(unwritten) \in Threads \cup {NoThread} /\ Tail(unwritten) \in Seq(Threads \cup {NoThread})
      /\ Len(unwritten) # 1 => Tail(unwritten) # <<>>
  <2>1. Head(unwritten) \in Threads \cup {NoThread} /\ Tail(unwritten) \in Seq(Threads \cup {NoThread})
    BY <1>2
  <2>2. Len(Tail(unwritten)) = Len(unwritten) - 1 /\ Len(unwritten) \in Nat
    BY <1>2
  <2> QED
    BY <1>2, <2>1, <2>2
<1>4. Appends(r) /\ ticket' = ticket + 1 /\ UNCHANGED <<program, style, stage, touched>>
  BY DEF RecordCreate, Draw, Appends
<1>5. r \in Records /\ r.thread = Main /\ r.kind = "THREAD_CREATE" /\ r.ticket = ticket
  BY <1>1, <1>2, <1>3 DEF Lifecycle, Records, LifeKinds, Threads
<1> HIDE DEF r
<1>6. Clocked'
  BY <1>4, <1>5, AppendClocked
<1>7. Bracketed'
  BY <1>1, <1>2, <1>4, <1>5, AppendBracketed DEF Begun, Over, ProgramIsTyped
<1>8. HandoffTypeOK'
  <2>1. trace' \in Seq(Records) /\ \A i \in Ids' : trace'[i].thread \in DOMAIN program
    <3>1. r.thread \in DOMAIN program
      BY <1>1, <1>5 DEF ProgramIsTyped
    <3> QED
      BY <1>4, <1>5, <3>1, AppendOwned
  <2>2. /\ unwritten' = Tail(unwritten)
        /\ creating' = IF Len(unwritten) = 1 THEN NoThread ELSE creating
    BY DEF RecordCreate
  <2> QED
    BY <1>2, <1>3, <1>4, <2>1, <2>2 DEF HandoffInv, HandoffTypeOK
<1>9. MainIsLast'
  BY <1>2, <1>4 DEF RecordCreate, HandoffInv, MainIsLast, Recorded
<1> QED
  BY <1>6, <1>7, <1>8, <1>9 DEF HandoffInv

(***************************************************************************)
(* Start, Finish and Join draw one record and move one thread on.          *)
(***************************************************************************)
LEMMA MoveKeeps ==
  ASSUME HandoffInv, NEW t \in DOMAIN program, NEW kind \in LifeKinds,
         NEW w \in DOMAIN program, NEW next \in Begun,
         Appends(Lifecycle(kind, t, w, NoThread)), ticket' = ticket + 1,
         stage' = [stage EXCEPT ![w] = next],
         UNCHANGED <<program, style, creating, unwritten, touched>>,
         \/ kind = "THREAD_START" /\ t = w /\ w # Main /\ stage[w] = "spawned" /\ next = "running"
         \/ /\ kind = "THREAD_END" /\ t = w /\ stage[w] = "running" /\ next = "ended"
            /\ t = Main => creating = NoThread /\ \A v \in DOMAIN program \ {Main} : stage[v] \in Over
         \/ kind = "THREAD_JOIN" /\ t = Main /\ w # Main /\ stage[Main] = "running"
              /\ stage[w] = "ended" /\ next = "joined"
  PROVE  HandoffInv'
<1> DEFINE r == Lifecycle(kind, t, w, NoThread)
<1>1. ProgramIsTyped
  BY InvGivesProgram DEF HandoffInv
<1>2. r \in Records /\ r.thread = t /\ r.kind = kind /\ r.ticket = ticket
  BY <1>1 DEF Lifecycle, Records, ProgramIsTyped, HandoffInv, HandoffTypeOK
<1>3. Appends(r)
  OBVIOUS
<1> HIDE DEF r
<1>4. stage \in [DOMAIN program -> {"unborn", "spawned", "running", "ended", "joined"}]
  BY DEF HandoffInv, HandoffTypeOK
<1>5. Clocked'
  BY <1>2, <1>3, AppendClocked
<1>6. Bracketed'
  <2>1. \A v \in DOMAIN program \ {r.thread} :
           (stage'[v] \in Begun <=> stage[v] \in Begun) /\ (stage'[v] \in Over <=> stage[v] \in Over)
    BY <1>2, <1>4 DEF Begun, Over
  <2>2. /\ stage[r.thread] \notin Over /\ stage'[r.thread] \in Begun
        /\ r.kind = "THREAD_START" <=> stage[r.thread] \notin Begun
        /\ r.kind = "THREAD_END" <=> stage'[r.thread] \in Over
    BY <1>2, <1>4 DEF Begun, Over
  <2>3. UNCHANGED program /\ r.thread \in DOMAIN program
    BY <1>2
  <2> QED
    BY <1>2, <1>3, <2>1, <2>2, <2>3, AppendBracketed
<1>7. HandoffTypeOK'
  <2>1. trace' \in Seq(Records) /\ \A i \in Ids' : trace'[i].thread \in DOMAIN program
    BY <1>2, <1>3, AppendOwned
  <2>2. stage' \in [DOMAIN program -> {"unborn", "spawned", "running", "ended", "joined"}]
    BY <1>4 DEF Begun
  <2> QED
    BY <2>1, <2>2 DEF HandoffInv, HandoffTypeOK
<1>8. MainIsLast'
  BY <1>1, <1>4 DEF HandoffInv, MainIsLast, Recorded, Over, ProgramIsTyped
<1> QED
  BY <1>5, <1>6, <1>7, <1>8 DEF HandoffInv

LEMMA HandoffStep ==
  ASSUME HandoffInv, HandoffNext
  PROVE  HandoffInv'
<1>1. ASSUME NEW w \in DOMAIN program \ {Main}, Start(w) PROVE HandoffInv'
  BY <1>1, MoveKeeps DEF Start, Draw, Appends, LifeKinds, Begun
<1>2. ASSUME NEW t \in DOMAIN program, Finish(t) PROVE HandoffInv'
  <2>1. DOMAIN stage = DOMAIN program
    BY DEF HandoffInv, HandoffTypeOK
  <2> QED
    BY <1>2, <2>1, MoveKeeps DEF Finish, Free, Draw, Appends, LifeKinds, Begun, Over
<1>3. ASSUME NEW w \in DOMAIN program \ {Main}, Join(w) PROVE HandoffInv'
  <2>1. Main \in DOMAIN program
    BY InvGivesProgram DEF HandoffInv, ProgramIsTyped
  <2> QED
    BY <1>3, <2>1, MoveKeeps DEF Join, Free, Draw, Appends, LifeKinds, Begun
<1> QED
  BY <1>1, <1>2, <1>3, TouchKeeps, SpawnKeeps, RecordCreateKeeps DEF HandoffNext

LEMMA HandoffStutter ==
  ASSUME HandoffInv, UNCHANGED handoffVars
  PROVE  HandoffInv'
<1>1. UNCHANGED <<program, style, ticket, trace, stage, creating, unwritten, touched>>
  BY DEF handoffVars
<1>2. Ids' = Ids /\ \A kind, t : OfKind(kind, t)' = OfKind(kind, t)
  BY <1>1 DEF Ids, OfKind
<1>3. HandoffTypeOK' /\ MainIsLast'
  BY <1>1, <1>2 DEF HandoffInv, HandoffTypeOK, MainIsLast, Recorded
<1>4. Clocked'
  BY <1>1, <1>2 DEF HandoffInv, Clocked, IsLife
<1>5. Bracketed'
  BY <1>1, <1>2 DEF HandoffInv, Bracketed
<1> QED
  BY <1>3, <1>4, <1>5 DEF HandoffInv

-----------------------------------------------------------------------------
(* What the tickets and the brackets tell of a recording.                    *)

LEMMA TicketsTell ==
  ASSUME HandoffInv, NEW i \in Ids, NEW j \in Ids, trace[i].ticket < trace[j].ticket
  PROVE  i < j
<1>1. i \in Nat /\ j \in Nat /\ trace[i].ticket \in Nat /\ trace[j].ticket \in Nat
  BY DEF HandoffInv, HandoffTypeOK, Ids, Records
<1> QED
  BY <1>1 DEF HandoffInv, Clocked

(***************************************************************************)
(* A thread has one start and one end at most.                             *)
(***************************************************************************)
LEMMA OneLife ==
  ASSUME HandoffInv
  PROVE  /\ \A t : \A i \in OfKind("THREAD_START", t) : StartTicket(t) = trace[i].ticket
         /\ \A t : \A i \in OfKind("THREAD_END", t) : EndTicket(t) = trace[i].ticket
         /\ \A t : \A i, j \in OfKind("THREAD_START", t) : i = j
<1>1. \A i \in Ids : i \in Nat
  BY DEF HandoffInv, HandoffTypeOK, Ids
<1>2. ASSUME NEW t, NEW i \in OfKind("THREAD_START", t), NEW j \in OfKind("THREAD_START", t)
      PROVE  i = j
  BY <1>1 DEF HandoffInv, Bracketed, OfKind
<1>3. ASSUME NEW t, NEW i \in OfKind("THREAD_END", t), NEW j \in OfKind("THREAD_END", t)
      PROVE  i = j
  BY <1>1 DEF HandoffInv, Bracketed, OfKind
<1>4. ASSUME NEW t, NEW i \in OfKind("THREAD_START", t)
      PROVE  StartTicket(t) = trace[i].ticket
  BY <1>2 DEF StartTicket
<1>5. ASSUME NEW t, NEW i \in OfKind("THREAD_END", t)
      PROVE  EndTicket(t) = trace[i].ticket
  BY <1>3 DEF EndTicket
<1> QED
  BY <1>2, <1>4, <1>5

(***************************************************************************)
(* With as many joins as workers, a join is found for each worker.         *)
(***************************************************************************)
LEMMA JoinIsFound ==
  ASSUME HandoffInv, HandoffsComplete, NEW w \in Lived
  PROVE  JoinOf(w) \in Ids
<1> DEFINE starts == UNION {OfKind("THREAD_START", v) : v \in Lived}
           joins == OfKind("THREAD_JOIN", Main)
           threadOf == [i \in starts |-> trace[i].thread]
<1>1. Len(trace) \in Nat /\ \A i \in Ids : i \in Nat /\ trace[i].ticket \in Nat
  BY DEF HandoffInv, HandoffTypeOK, Ids, Records
<1>2. IsFiniteSet(Ids)
  BY <1>1, FS_Interval DEF Ids
<1>3. /\ starts \subseteq Ids /\ joins \subseteq Ids
      /\ \A i \in starts : trace[i].kind = "THREAD_START" /\ trace[i].thread \in Lived
      /\ \A i \in joins : trace[i].kind = "THREAD_JOIN"
      /\ \A v \in Lived : \A i \in OfKind("THREAD_START", v) : i \in starts /\ trace[i].thread = v
  BY DEF OfKind
<1>4. IsFiniteSet(starts) /\ IsFiniteSet(joins)
  BY <1>2, <1>3, FS_Subset
<1>5. /\ \A i, j \in starts : i # j => trace[i].ticket # trace[j].ticket
      /\ \A i, j \in joins : i # j => trace[i].ticket # trace[j].ticket
  <2>1. ASSUME NEW i \in Ids, NEW j \in Ids, i # j, IsLife(i), IsLife(j)
        PROVE  trace[i].ticket # trace[j].ticket
    <3>1. i < j \/ j < i
      BY <1>1, <2>1
    <3> QED
      BY <1>1, <2>1, <3>1 DEF HandoffInv, Clocked
  <2> QED
    BY <1>3, <2>1 DEF IsLife, LifeKinds
<1>6. threadOf \in Bijection(starts, Lived)
  <2>1. threadOf \in [starts -> Lived]
    BY <1>3
  <2>2. ASSUME NEW i \in starts, NEW j \in starts, threadOf[i] = threadOf[j]
        PROVE  i = j
    <3>1. i \in OfKind("THREAD_START", trace[i].thread) /\ j \in OfKind("THREAD_START", trace[i].thread)
      BY <1>3, <2>2 DEF OfKind
    <3> QED
      BY <3>1, OneLife
  <2>3. ASSUME NEW v \in Lived PROVE \E i \in starts : threadOf[i] = v
    BY <1>3 DEF Lived
  <2> HIDE DEF threadOf, starts
  <2> QED
    BY <2>1, <2>2, <2>3 DEF Bijection, Injection, IsInjective, Surjection
<1>7. Cardinality(starts) = Cardinality(Lived)
  BY <1>4, <1>6, FS_Bijection DEF ExistsBijection
<1>8. Cardinality(joins) \in Nat /\ Cardinality(starts) \in Nat /\ Cardinality(joins) >= Cardinality(starts)
  BY <1>4, <1>7, FS_CardinalityType DEF HandoffsComplete
<1>9. PICK i \in starts : trace[i].thread = w
  BY <1>3 DEF Lived
<1> HIDE DEF threadOf, starts, joins
<1>10. /\ DOMAIN ByTicket(starts) = 1 .. Cardinality(starts)
       /\ \E k \in 1 .. Cardinality(starts) : ByTicket(starts)[k] = i
  BY <1>1, <1>3, <1>4, <1>5, ByTicketLists
<1>11. /\ DOMAIN Order = 1 .. Cardinality(starts)
       /\ \E k \in DOMAIN Order : Order[k] = w
  BY <1>9, <1>10 DEF Order, starts
<1>12. PICK k \in 1 .. Cardinality(joins) : JoinOf(w) = Joins[k]
  <2> DEFINE k == CHOOSE l \in DOMAIN Order : Order[l] = w
  <2>1. k \in DOMAIN Order
    BY <1>11
  <2>2. JoinOf(w) = Joins[k]
    BY DEF JoinOf
  <2> HIDE DEF k
  <2>3. k \in 1 .. Cardinality(joins)
    BY <1>8, <1>11, <2>1
  <2> QED
    BY <2>2, <2>3
<1>13. ByTicket(joins)[k] \in joins
  BY <1>1, <1>3, <1>4, <1>5, ByTicketLists
<1> QED
  BY <1>3, <1>12, <1>13 DEF Joins, joins

LEMMA PrunedIsApart ==
  ASSUME HandoffInv
  PROVE  PrunedPairsSeparated
<1> SUFFICES ASSUME HandoffsComplete, NEW p \in Accesses, NEW q \in Accesses,
                    trace[p].thread = Main, trace[q].thread \in Workers, Ordered(p, q)
             PROVE  LET w == trace[q].thread
                    IN  \/ \A i \in OfKind("THREAD_START", w) : p < i
                        \/ \A i \in OfKind("THREAD_END", w) : i < p
  BY DEF PrunedPairsSeparated, Pruned, MainWorkerPairs
<1> DEFINE w == trace[q].thread
<1>1. p \in Ids /\ q \in Ids /\ w \in Workers
  BY DEF Accesses
<1>2. w \in Lived
  <2>1. stage[w] \in Begun /\ w \in DOMAIN program
    BY <1>1 DEF HandoffInv, HandoffTypeOK, Bracketed
  <2> QED
    BY <1>1, <2>1 DEF HandoffInv, Bracketed, Lived
<1> HIDE DEF w
<1>3. CASE trace[p].ticket < StartTicket(w)
  <2>1. ASSUME NEW i \in OfKind("THREAD_START", w) PROVE p < i
    <3>1. i \in Ids /\ StartTicket(w) = trace[i].ticket
      BY <2>1, OneLife DEF OfKind
    <3> QED
      BY <1>1, <1>3, <3>1, TicketsTell
  <2> QED
    BY <2>1 DEF w
<1>4. CASE trace[p].ticket > trace[JoinOf(w)].ticket
  <2>1. JoinOf(w) \in Ids /\ trace[JoinOf(w)].ticket > EndTicket(w)
    BY <1>2, JoinIsFound DEF HandoffsComplete
  <2>2. ASSUME NEW i \in OfKind("THREAD_END", w) PROVE i < p
    <3>1. i \in Ids /\ EndTicket(w) = trace[i].ticket
      BY <2>2, OneLife DEF OfKind
    <3>2. trace[i].ticket < trace[JoinOf(w)].ticket /\ trace[JoinOf(w)].ticket < trace[p].ticket
      BY <1>1, <1>4, <2>1, <3>1 DEF HandoffInv, HandoffTypeOK, Records
    <3>3. i < JoinOf(w) /\ JoinOf(w) < p
      BY <1>1, <2>1, <3>1, <3>2, TicketsTell
    <3>4. i \in Nat /\ p \in Nat /\ JoinOf(w) \in Nat
      BY <1>1, <2>1, <3>1 DEF Ids, HandoffInv, HandoffTypeOK
    <3> QED
      BY <3>3, <3>4
  <2> QED
    BY <2>2 DEF w
<1> QED
  BY <1>3, <1>4 DEF Ordered, w

-----------------------------------------------------------------------------
(* Accesses that may have to do with each other.                             *)

LEMMA AccessTyped ==
  ASSUME HandoffInv, NEW i \in Accesses
  PROVE  /\ i \in Ids /\ i \in Nat
         /\ Event(i).addr \in Nat /\ Event(i).size \in Nat /\ Event(i).ticket \in Nat
         /\ Event(i).app \in BOOLEAN /\ Event(i).kind \in AccessKinds
         /\ Event(i).thread \in DOMAIN program /\ Event(i).thread \in Threads
<1>1. i \in Ids /\ trace[i] \in Records /\ trace[i].kind \in AccessKinds
  BY DEF HandoffInv, HandoffTypeOK, Ids, Accesses
<1>2. trace[i].kind \notin LifeKinds
  BY <1>1 DEF AccessKinds, MemoryKinds, LifeKinds
<1> QED
  BY <1>1, <1>2 DEF Records, Event, HandoffInv, HandoffTypeOK, Ids

LEMMA MeetIsSymmetric ==
  ASSUME HandoffInv, NEW i \in Accesses, NEW j \in Accesses
  PROVE  /\ Overlap(Event(i), Event(j)) = Overlap(Event(j), Event(i))
         /\ Meet(i, j) <=> Meet(j, i)
         /\ Yields(i, j) <=> Yields(j, i)
         /\ Home(i, j) = Home(j, i)
<1>1. /\ Event(i).addr \in Nat /\ Event(i).size \in Nat
      /\ Event(j).addr \in Nat /\ Event(j).size \in Nat
  BY AccessTyped
<1>2. Overlap(Event(i), Event(j)) = Overlap(Event(j), Event(i))
  BY <1>1 DEF Overlap, Last
<1>3. Meet(i, j) <=> Meet(j, i)
  BY <1>2 DEF Meet, Reincarnated
<1> QED
  BY <1>2, <1>3 DEF Yields, HandedOff, Home

(***************************************************************************)
(* A safe partition of a recording that is complete keeps the accesses of  *)
(* the main ELF apart, if none of them is atomic.                          *)
(***************************************************************************)
LEMMA PartitionIsApart ==
  ASSUME HandoffInv, Recorded, PartitionSafe,
         \A i \in Accesses : Event(i).app => Event(i).kind # "ATOMIC_RMW",
         NEW i \in Accesses, Event(i).app, Event(i).kind \in MemoryKinds,
         NEW j \in Accesses, Event(j).app, Event(j).kind \in MemoryKinds,
         Meet(i, j), i < j
  PROVE  \/ \E k \in OfKind("THREAD_END", Event(i).thread) : k < j
         \/ \E k \in OfKind("THREAD_START", Event(j).thread) : i < k
<1> DEFINE v == Event(i).thread
           w == Event(j).thread
<1>1. /\ i \in AppPlain /\ j \in AppPlain /\ v # w /\ Meet(j, i)
      /\ i \in Ids /\ j \in Ids /\ i \in Nat /\ j \in Nat
      /\ v \in DOMAIN program /\ w \in DOMAIN program /\ v \in Threads /\ w \in Threads
  BY AccessTyped, MeetIsSymmetric DEF AppPlain, MemoryKinds, Meet
<1>2. \A t \in DOMAIN program : stage[t] \in Over /\ stage[t] \in Begun
  BY DEF HandoffInv, MainIsLast, Recorded, Over, Begun
<1>3. PICK si \in Ids, ei \in Ids :
        /\ si \in OfKind("THREAD_START", v) /\ ei \in OfKind("THREAD_END", v)
        /\ si <= i /\ i <= ei /\ StartTicket(v) = trace[si].ticket /\ EndTicket(v) = trace[ei].ticket
  <2>1. PICK s \in OfKind("THREAD_START", v), e \in OfKind("THREAD_END", v) : TRUE
    BY <1>1, <1>2 DEF HandoffInv, Bracketed
  <2>2. s <= i /\ i <= e
    BY <1>1, <2>1 DEF HandoffInv, Bracketed, OfKind, Event
  <2> QED
    BY <2>1, <2>2, OneLife DEF OfKind
<1>4. PICK sj \in Ids, ej \in Ids :
        /\ sj \in OfKind("THREAD_START", w) /\ ej \in OfKind("THREAD_END", w)
        /\ sj <= j /\ j <= ej /\ StartTicket(w) = trace[sj].ticket /\ EndTicket(w) = trace[ej].ticket
  <2>1. PICK s \in OfKind("THREAD_START", w), e \in OfKind("THREAD_END", w) : TRUE
    BY <1>1, <1>2 DEF HandoffInv, Bracketed
  <2>2. s <= j /\ j <= e
    BY <1>1, <2>1 DEF HandoffInv, Bracketed, OfKind, Event
  <2> QED
    BY <2>1, <2>2, OneLife DEF OfKind
<1>5. \A a \in Ids : a \in Nat /\ trace[a].ticket \in Nat
  BY DEF HandoffInv, HandoffTypeOK, Ids, Records
<1>6. \A a, b \in Ids : trace[a].ticket < trace[b].ticket => a < b
  BY TicketsTell
<1>10. Event(i).ticket = trace[i].ticket /\ Event(j).ticket = trace[j].ticket
  BY DEF Event
<1>11. /\ si \in Ids /\ ei \in Ids /\ sj \in Ids /\ ej \in Ids
       /\ si \in Nat /\ ei \in Nat /\ sj \in Nat /\ ej \in Nat
       /\ trace[i].ticket \in Nat /\ trace[j].ticket \in Nat /\ trace[si].ticket \in Nat
       /\ trace[ei].ticket \in Nat /\ trace[sj].ticket \in Nat /\ trace[ej].ticket \in Nat
  BY <1>1, <1>5
<1> HIDE DEF v, w
<1>7. CASE v = Main
  <2>1. w \in Workers
    BY <1>1, <1>7 DEF Threads
  <2>2. ~ DuringLife(i, w)
    BY <1>1, <1>7, <2>1 DEF PartitionSafe, v, w
  <2>3. trace[i].ticket < trace[sj].ticket \/ trace[ej].ticket < trace[i].ticket
    BY <1>4, <1>10, <1>11, <2>2 DEF DuringLife
  <2>4. i < sj \/ ej < i
    BY <1>1, <1>6, <2>3
  <2> QED
    BY <1>1, <1>4, <1>11, <2>4 DEF w
<1>8. CASE w = Main
  <2>1. v \in Workers
    BY <1>1, <1>8 DEF Threads
  <2>2. ~ DuringLife(j, v)
    BY <1>1, <1>8, <2>1 DEF PartitionSafe, v, w
  <2>3. trace[j].ticket < trace[si].ticket \/ trace[ei].ticket < trace[j].ticket
    BY <1>3, <1>10, <1>11, <2>2 DEF DuringLife
  <2>4. j < si \/ ei < j
    BY <1>1, <1>6, <2>3
  <2> QED
    BY <1>1, <1>3, <1>11, <2>4 DEF v
<1>9. CASE v # Main /\ w # Main
  <2>1. v \in Workers /\ w \in Workers
    BY <1>1, <1>9 DEF Threads
  <2>2. ~ LivesOverlap(v, w)
    BY <1>1, <1>9, <2>1 DEF PartitionSafe, v, w
  <2>3. trace[ei].ticket < trace[sj].ticket \/ trace[ej].ticket < trace[si].ticket
    BY <1>3, <1>4, <1>11, <2>2 DEF LivesOverlap
  <2>4. ei < sj \/ ej < si
    BY <1>6, <1>11, <2>3
  <2> QED
    BY <1>1, <1>3, <1>4, <1>11, <2>4 DEF v
<1> QED
  BY <1>7, <1>8, <1>9

-----------------------------------------------------------------------------
(* Pages.                                                                    *)

LEMMA DivisionIsMonotone ==
  ASSUME NEW a \in Int, NEW b \in Int, NEW c \in Int, c > 0, a <= b
  PROVE  a \div c \in Int /\ b \div c \in Int /\ a \div c <= b \div c
OBVIOUS

LEMMA LeastIsChosen ==
  ASSUME NEW S, S \subseteq Int, NEW x \in S, \A y \in S : x <= y
  PROVE  (CHOOSE z \in S : \A y \in S : z <= y) = x
<1>1. \A z \in S : (\A y \in S : z <= y) => z = x
  OBVIOUS
<1> QED
  BY <1>1

(***************************************************************************)
(* The home page of two accesses that meet holds both.                     *)
(***************************************************************************)
LEMMA HomeHoldsBoth ==
  ASSUME HandoffInv, NEW i \in Accesses, NEW j \in Accesses, Meet(i, j)
  PROVE  Home(i, j) \in PagesOf(Event(i)) /\ i \in OnPage(Home(i, j)) /\ j \in OnPage(Home(i, j))
<1> DEFINE a == Event(i).addr
           b == Event(j).addr
           common == Overlap(Event(i), Event(j))
           x == IF a <= b THEN b ELSE a
<1>1. /\ a \in Nat /\ Event(i).size \in Nat /\ b \in Nat /\ Event(j).size \in Nat
  BY AccessTyped
<1>2. PICK y \in common : TRUE
  BY DEF Meet
<1>3. /\ x \in common /\ x \in Nat
      /\ \A z \in common : x <= z
      /\ a <= x /\ x <= Last(Event(i)) - 1 /\ b <= x /\ x <= Last(Event(j)) - 1
  BY <1>1, <1>2 DEF Overlap, Last
<1>4. common \subseteq Int
  BY <1>1 DEF Overlap, Last
<1> HIDE DEF common, x
<1>5. (CHOOSE z \in common : \A u \in common : z <= u) = x
  BY <1>3, <1>4, LeastIsChosen
<1>6. Home(i, j) = x \div PageSize
  BY <1>5 DEF Home, common
<1>7. Last(Event(i)) - 1 \in Nat /\ Last(Event(j)) - 1 \in Nat
  BY <1>1, <1>3 DEF Last
<1>8. /\ x \div PageSize \in Int
      /\ a \div PageSize \in Int /\ a \div PageSize <= x \div PageSize
      /\ b \div PageSize \in Int /\ b \div PageSize <= x \div PageSize
      /\ (Last(Event(i)) - 1) \div PageSize \in Int
      /\ x \div PageSize <= (Last(Event(i)) - 1) \div PageSize
      /\ (Last(Event(j)) - 1) \div PageSize \in Int
      /\ x \div PageSize <= (Last(Event(j)) - 1) \div PageSize
  BY <1>1, <1>3, <1>7, LimitsArePositive, DivisionIsMonotone
<1> QED
  BY <1>6, <1>8 DEF PagesOf, OnPage

(***************************************************************************)
(* So the page is swept, if an edge of the pair would count.               *)
(***************************************************************************)
LEMMA HomeIsEligible ==
  ASSUME HandoffInv, NEW i \in Accesses, NEW j \in Accesses, Meet(i, j),
         NEW m, m = "filtered" => Event(i).app \/ Event(j).app
  PROVE  Home(i, j) \in Eligible(m)
<1> DEFINE g == Home(i, j)
           threads == {Event(k).thread : k \in OnPage(g)}
<1>1. g \in PagesOf(Event(i)) /\ i \in OnPage(g) /\ j \in OnPage(g)
  BY HomeHoldsBoth
<1>2. IsFiniteSet(OnPage(g))
  <2>1. IsFiniteSet(Ids) /\ OnPage(g) \subseteq Ids
    BY FS_Interval DEF HandoffInv, HandoffTypeOK, Ids, OnPage, Accesses
  <2> QED
    BY <2>1, FS_Subset
<1>3. IsFiniteSet(threads)
  <2> DEFINE f == [k \in OnPage(g) |-> Event(k).thread]
  <2>1. f \in Surjection(OnPage(g), threads)
    BY DEF Surjection
  <2> QED
    BY <1>2, <2>1, FS_Surjection
<1>4. Event(i).thread \in threads /\ Event(j).thread \in threads /\ Event(i).thread # Event(j).thread
  BY <1>1 DEF Meet
<1> HIDE DEF threads
<1>5. Cardinality(threads) > 1
  <2> DEFINE t == Event(i).thread
             u == Event(j).thread
  <2>1. /\ IsFiniteSet({u}) /\ Cardinality({u}) = 1
    BY FS_Singleton
  <2>2. IsFiniteSet({u} \cup {t}) /\ Cardinality({u} \cup {t}) = 2
    BY <1>4, <2>1, FS_AddElement
  <2>3. {u} \cup {t} \subseteq threads
    BY <1>4
  <2>4. Cardinality(threads) >= 2 /\ Cardinality(threads) \in Nat
    BY <1>3, <2>2, <2>3, FS_Subset, FS_CardinalityType
  <2> QED
    BY <2>4
<1>6. \E k \in OnPage(g) : IsWrite(Event(k))
  BY <1>1 DEF Meet
<1>7. m = "filtered" => \E k \in OnPage(g) : Event(k).app
  BY <1>1
<1> QED
  BY <1>1, <1>5, <1>6, <1>7 DEF Eligible, threads

-----------------------------------------------------------------------------
(* The sweep.                                                                *)

Remaining == {rows[k] : k \in DOMAIN rows}

\* The accesses on a page that the sweep is through with.
Taken(g) == {i \in OnPage(g) : g \notin pages /\ (g = page => i \notin Remaining)}

Emitted == {emitted[k] : k \in DOMAIN emitted}

Phases ==
  /\ scope \in Scopes
  /\ phase \in {"record", "sweep", "done"}
  /\ phase = "done" <=> outcome # "none"
  /\ phase = "record" => emitted = <<>> /\ rows = <<>> /\ pages = {} /\ active = {}

\* An interval that is no longer active ends before every row to come.
RowsInOrder ==
  /\ rows \in Seq(OnPage(page))
  /\ \A k, l \in DOMAIN rows : k < l => Before(rows[k], rows[l])
  /\ rows # <<>> =>
       /\ page \notin pages
       /\ active \subseteq Taken(page)
       /\ \A j \in Taken(page) \ active :
            \A k \in DOMAIN rows : Last(Event(j)) <= Event(rows[k]).addr

\* Each edge once, and as long as there is room for one none is missing.
FoundAmongTaken(k) ==
  \E i, j \in Accesses : /\ emitted[k] = Pair(i, j)
                        /\ i \in Taken(Home(i, j)) /\ j \in Taken(Home(i, j))

EdgesOfTaken ==
  /\ emitted \in Seq(SUBSET Nat)
  /\ \A k \in DOMAIN emitted : FoundAmongTaken(k)
  /\ \A k, l \in DOMAIN emitted : k # l => emitted[k] # emitted[l]
  /\ Room => \A g \in Eligible(mode) : \A i, j \in Taken(g) :
                Yields(i, j) /\ Home(i, j) = g => Pair(i, j) \in Emitted

SweepInv ==
  /\ Phases
  /\ phase = "sweep" => RowsInOrder /\ EdgesOfTaken
  /\ NoConflictLost
  /\ SkippedIsApart

\* What the analyzer reads off the trace stays as long as the trace does.
LEMMA TraceFrames ==
  ASSUME UNCHANGED trace
  PROVE  /\ Accesses' = Accesses
         /\ \A i : Event(i)' = Event(i)
         /\ \A g : OnPage(g)' = OnPage(g)
         /\ \A i, j : Home(i, j)' = Home(i, j)
         /\ \A i, j : Before(i, j)' <=> Before(i, j)
         /\ \A i, j : Meet(i, j)' <=> Meet(i, j)
         /\ \A k : Eligible(k)' = Eligible(k)
<1>1. Accesses' = Accesses /\ \A i : Event(i)' = Event(i)
  BY DEF Accesses, Ids, Event
<1>2. \A i, j : Overlap(Event(i), Event(j))' = Overlap(Event(i), Event(j))
  BY <1>1 DEF Overlap, Last
<1>3. \A i : PagesOf(Event(i))' = PagesOf(Event(i))
  BY <1>1 DEF PagesOf, Last
<1>4. \A g : OnPage(g)' = OnPage(g)
  BY <1>1, <1>3 DEF OnPage
<1>5. \A i, j : Home(i, j)' = Home(i, j)
  BY <1>2 DEF Home
<1>6. \A i, j : Before(i, j)' <=> Before(i, j)
  BY <1>1 DEF Before
<1>7. \A i, j : Meet(i, j)' <=> Meet(i, j)
  BY <1>1, <1>2 DEF Meet, IsWrite, Reincarnated
<1>8. ASSUME NEW k PROVE Eligible(k)' = Eligible(k)
  <2>1. (UNION {PagesOf(Event(i)) : i \in Accesses})' = UNION {PagesOf(Event(i)) : i \in Accesses}
    BY <1>1, <1>3
  <2>2. \A g : {Event(i).thread : i \in OnPage(g)}' = {Event(i).thread : i \in OnPage(g)}
    BY <1>1, <1>4
  <2>3. \A i : IsWrite(Event(i))' <=> IsWrite(Event(i))
    BY <1>1 DEF IsWrite
  <2> QED
    BY <1>1, <1>4, <2>1, <2>2, <2>3 DEF Eligible
<1> QED
  BY <1>1, <1>4, <1>5, <1>6, <1>7, <1>8

Cut(s, t, m) == SubSeq(s \o t, 1, IF Len(s \o t) <= m THEN Len(s \o t) ELSE m + 1)

(***************************************************************************)
(* A list that is cut one after the limit is whole if it is within it.     *)
(***************************************************************************)
LEMMA CutIsPrefix ==
  ASSUME NEW S, NEW s \in Seq(S), NEW t \in Seq(S), NEW m \in Nat, NEW c, c = Cut(s, t, m)
  PROVE  /\ c \in Seq(S)
         /\ \A k \in DOMAIN c :
               \/ k \in DOMAIN s /\ c[k] = s[k]
               \/ k \notin DOMAIN s /\ k - Len(s) \in DOMAIN t /\ c[k] = t[k - Len(s)]
         /\ Len(c) <= m =>
               /\ \A k \in DOMAIN s : k \in DOMAIN c /\ c[k] = s[k]
               /\ \A k \in DOMAIN t : Len(s) + k \in DOMAIN c /\ c[Len(s) + k] = t[k]
<1>1. s \o t \in Seq(S) /\ Len(s \o t) = Len(s) + Len(t) /\ Len(s) \in Nat /\ Len(t) \in Nat
  OBVIOUS
<1>2. \A k \in 1 .. Len(s) + Len(t) :
        (s \o t)[k] = IF k <= Len(s) THEN s[k] ELSE t[k - Len(s)]
  OBVIOUS
<1>3. PICK n \in Nat : /\ n = IF Len(s \o t) <= m THEN Len(s \o t) ELSE m + 1
                       /\ n <= Len(s) + Len(t) /\ (n <= m => n = Len(s) + Len(t))
  BY <1>1
<1>4. c \in Seq(S) /\ Len(c) = n /\ \A k \in 1 .. n : c[k] = (s \o t)[k]
  <2>1. c = SubSeq(s \o t, 1, n)
    BY <1>3 DEF Cut
  <2> QED
    BY <1>1, <1>3, <2>1
<1>5. ASSUME NEW k \in DOMAIN c
      PROVE  \/ k \in DOMAIN s /\ c[k] = s[k]
             \/ k \notin DOMAIN s /\ k - Len(s) \in DOMAIN t /\ c[k] = t[k - Len(s)]
  <2>1. k \in 1 .. n /\ k \in 1 .. Len(s) + Len(t) /\ k \in Nat
    BY <1>1, <1>3, <1>4
  <2> QED
    BY <1>1, <1>2, <1>4, <2>1
<1>6. ASSUME Len(c) <= m, NEW k \in DOMAIN s
      PROVE  k \in DOMAIN c /\ c[k] = s[k]
  BY <1>1, <1>2, <1>3, <1>4, <1>6
<1>7. ASSUME Len(c) <= m, NEW k \in DOMAIN t
      PROVE  Len(s) + k \in DOMAIN c /\ c[Len(s) + k] = t[k]
  <2>1. k \in 1 .. Len(t) /\ Len(s) + k \in 1 .. n /\ Len(s) + k \in 1 .. Len(s) + Len(t)
    BY <1>1, <1>3, <1>4, <1>7
  <2>2. ~ (Len(s) + k <= Len(s)) /\ (Len(s) + k) - Len(s) = k
    BY <1>1, <2>1
  <2> QED
    BY <1>2, <1>4, <2>1, <2>2
<1> QED
  BY <1>4, <1>5, <1>6, <1>7

LEMMA AccessesAreFinite ==
  ASSUME HandoffInv
  PROVE  Accesses \in SUBSET Nat /\ IsFiniteSet(Accesses) /\ \A i \in Accesses : Event(i).addr \in Nat
<1>1. IsFiniteSet(Ids) /\ Accesses \subseteq Ids
  BY FS_Interval DEF HandoffInv, HandoffTypeOK, Ids, Accesses
<1> QED
  BY <1>1, AccessTyped, FS_Subset

LEMMA ActiveIsSorted ==
  ASSUME HandoffInv, NEW ids \in SUBSET Accesses
  PROVE  /\ Sorted(ids) \in Seq(ids)
         /\ \A i \in ids : \E k \in DOMAIN Sorted(ids) : Sorted(ids)[k] = i
         /\ \A k, l \in DOMAIN Sorted(ids) : k < l => Before(Sorted(ids)[k], Sorted(ids)[l])
<1>1. ids \in SUBSET Nat /\ IsFiniteSet(ids) /\ \A i \in ids : Event(i).addr \in Nat
  BY AccessesAreFinite, FS_Subset
<1> QED
  BY <1>1, SortedLists

(***************************************************************************)
(* The edges a row adds: one for each interval it conflicts with, unless   *)
(* the limit is passed.                                                    *)
(***************************************************************************)
LEMMA RowAddsEdges ==
  ASSUME HandoffInv, NEW i \in Accesses, active \subseteq Accesses,
         emitted \in Seq(SUBSET Nat), NEW e, e = EdgesAfter(i)
  PROVE  /\ e \in Seq(SUBSET Nat)
         /\ \A k \in DOMAIN e \cap DOMAIN emitted : e[k] = emitted[k]
         /\ \A k \in DOMAIN e \ DOMAIN emitted : \E j \in Found(i) : e[k] = Pair(i, j)
         /\ \A k, l \in DOMAIN e \ DOMAIN emitted : k # l => e[k] # e[l]
         /\ Len(e) <= MaxEdges =>
               /\ \A k \in DOMAIN emitted : k \in DOMAIN e
               /\ \A j \in Found(i) : \E k \in DOMAIN e : e[k] = Pair(i, j)
<1>1. Found(i) \in SUBSET Accesses
  BY DEF Found, Alive
<1>2. PICK found : found = Sorted(Found(i))
  OBVIOUS
<1>3. /\ found \in Seq(Found(i))
      /\ \A j \in Found(i) : \E k \in DOMAIN found : found[k] = j
      /\ \A k, l \in DOMAIN found : k < l => Before(found[k], found[l])
  BY <1>1, <1>2, ActiveIsSorted
<1>4. PICK new : new = [k \in DOMAIN found |-> Pair(i, found[k])]
  OBVIOUS
<1>5. /\ new \in Seq(SUBSET Nat) /\ DOMAIN new = DOMAIN found
      /\ \A k \in DOMAIN new : found[k] \in Found(i) /\ new[k] = Pair(i, found[k])
  <2>1. Len(found) \in Nat /\ DOMAIN found = 1 .. Len(found) /\ \A k \in DOMAIN found : found[k] \in Found(i)
    BY <1>3
  <2>2. \A k \in DOMAIN found : Pair(i, found[k]) \in SUBSET Nat
    BY <1>1, <2>1, AccessTyped DEF Pair
  <2>3. new \in [1 .. Len(found) -> SUBSET Nat]
    BY <1>4, <2>1, <2>2
  <2> QED
    BY <1>4, <2>1, <2>3
<1>6. e = Cut(emitted, new, MaxEdges)
  BY <1>2, <1>4 DEF EdgesAfter, Cut
<1>7. /\ e \in Seq(SUBSET Nat)
      /\ \A k \in DOMAIN e :
           \/ k \in DOMAIN emitted /\ e[k] = emitted[k]
           \/ k \notin DOMAIN emitted /\ k - Len(emitted) \in DOMAIN new /\ e[k] = new[k - Len(emitted)]
      /\ Len(e) <= MaxEdges =>
           /\ \A k \in DOMAIN emitted : k \in DOMAIN e /\ e[k] = emitted[k]
           /\ \A k \in DOMAIN new : Len(emitted) + k \in DOMAIN e /\ e[Len(emitted) + k] = new[k]
  <2> DEFINE S == SUBSET Nat
  <2>1. emitted \in Seq(S) /\ new \in Seq(S) /\ MaxEdges \in Nat
    BY <1>5, LimitsArePositive
  <2> HIDE DEF S
  <2>2. /\ e \in Seq(S)
        /\ \A k \in DOMAIN e :
             \/ k \in DOMAIN emitted /\ e[k] = emitted[k]
             \/ k \notin DOMAIN emitted /\ k - Len(emitted) \in DOMAIN new /\ e[k] = new[k - Len(emitted)]
        /\ Len(e) <= MaxEdges =>
             /\ \A k \in DOMAIN emitted : k \in DOMAIN e /\ e[k] = emitted[k]
             /\ \A k \in DOMAIN new : Len(emitted) + k \in DOMAIN e /\ e[Len(emitted) + k] = new[k]
    BY <1>6, <2>1, CutIsPrefix
  <2> QED
    BY <2>2 DEF S
<1>8. \A j \in Found(i) : j # i
  BY DEF Found, Yields, Meet
<1>9. ASSUME NEW k \in DOMAIN new, NEW l \in DOMAIN new, k # l
      PROVE  new[k] # new[l]
  <2>1. k \in Int /\ l \in Int
    BY <1>5
  <2>2. Before(found[k], found[l]) \/ Before(found[l], found[k])
    BY <1>3, <1>5, <1>9, <2>1
  <2>3. found[k] \in Accesses /\ found[l] \in Accesses
    BY <1>1, <1>5
  <2>4. found[k] # found[l]
    BY <2>2, <2>3, AccessTyped DEF Before
  <2> QED
    BY <1>5, <1>8, <2>4 DEF Pair
<1>10. ASSUME NEW k \in DOMAIN e \ DOMAIN emitted, NEW l \in DOMAIN e \ DOMAIN emitted, k # l
       PROVE  e[k] # e[l]
  <2>1. k \in Int /\ l \in Int /\ Len(emitted) \in Int
    BY <1>7
  <2>2. k - Len(emitted) # l - Len(emitted)
    BY <1>10, <2>1
  <2> QED
    BY <1>7, <1>9, <2>2
<1>11. ASSUME Len(e) <= MaxEdges, NEW j \in Found(i) PROVE \E k \in DOMAIN e : e[k] = Pair(i, j)
  BY <1>3, <1>5, <1>7, <1>11
<1> QED
  BY <1>5, <1>7, <1>10, <1>11

(***************************************************************************)
(* Recording finds no edge.                                                *)
(***************************************************************************)
LEMMA RecordKeeps ==
  ASSUME SweepInv, Record PROVE SweepInv'
<1>1. Phases' /\ phase' = "record" /\ outcome' = "none"
  BY DEF SweepInv, Phases, Record, sweepVars
<1> QED
  BY <1>1 DEF SweepInv, NoConflictLost, SkippedIsApart

(***************************************************************************)
(* Nothing is taken from the pages that are eligible when a sweep begins,  *)
(* and a sweep that is skipped had a safe partition.                       *)
(***************************************************************************)
LEMMA BeginKeeps ==
  ASSUME HandoffInv, SweepInv, Begin PROVE SweepInv'
<1>1. /\ phase = "record" /\ Recorded /\ mode' = ModeOfTrace /\ UNCHANGED trace
      /\ scope' = scope /\ scope \in Scopes
      /\ emitted' = <<>> /\ rows' = <<>> /\ active' = {}
      /\ outcome' \in {"none", "skipped", "refused"} /\ (outcome' = "skipped" => mode' = "skip")
      /\ phase' = IF outcome' = "none" THEN "sweep" ELSE "done"
      /\ outcome' = "none" => pages' = Eligible(mode')
  BY DEF SweepInv, Phases, Begin, handoffVars
<1>2. Phases'
  BY <1>1 DEF Phases
<1>3. ASSUME phase' = "sweep" PROVE RowsInOrder' /\ EdgesOfTaken'
  <2>1. pages' = Eligible(mode')
    BY <1>1, <1>3
  <2>2. RowsInOrder'
    BY <1>1 DEF RowsInOrder
  <2>3. \A g \in Eligible(mode)' : Taken(g)' = {}
    BY <1>1, <2>1, TraceFrames DEF Taken
  <2>4. EdgesOfTaken'
    BY <1>1, <2>3 DEF EdgesOfTaken
  <2> QED
    BY <2>2, <2>4
<1>4. NoConflictLost'
  BY <1>1 DEF NoConflictLost
<1>5. ASSUME outcome' = "skipped",
             NEW i \in Accesses, Event(i).app, Event(i).kind \in MemoryKinds,
             NEW j \in Accesses, Event(j).app, Event(j).kind \in MemoryKinds,
             Meet(i, j), i < j
      PROVE  \/ \E k \in OfKind("THREAD_END", Event(i).thread) : k < j
             \/ \E k \in OfKind("THREAD_START", Event(j).thread) : i < k
  <2>1. ModeOfTrace = "skip"
    BY <1>1, <1>5
  <2>2. scope \in {"full", "application"}
    BY <1>1, ScopesAreKnown
  <2>3. PartitionSafe /\ \A k \in Accesses : Event(k).app => Event(k).kind # "ATOMIC_RMW"
    BY <2>1, <2>2 DEF ModeOfTrace
  <2> QED
    BY <1>1, <1>5, <2>3, PartitionIsApart
<1>6. SkippedIsApart'
  <2>1. \A kind, v : OfKind(kind, v)' = OfKind(kind, v)
    BY <1>1 DEF OfKind, Ids
  <2> QED
    BY <1>1, <1>5, <2>1, TraceFrames DEF SkippedIsApart
<1> QED
  BY <1>2, <1>3, <1>4, <1>6 DEF SweepInv

(***************************************************************************)
(* A page that is begun has no row taken, and no other page changes.       *)
(***************************************************************************)
LEMMA TakePageKeeps ==
  ASSUME HandoffInv, SweepInv, TakePage PROVE SweepInv'
<1>1. PICK g \in pages : page' = g /\ pages' = pages \ {g} /\ rows' = Sorted(OnPage(g))
  BY DEF TakePage
<1>2. /\ phase = "sweep" /\ rows = <<>> /\ active' = {} /\ phase' = "sweep"
      /\ UNCHANGED <<trace, scope, mode, pruned, emitted, outcome>>
  BY DEF TakePage, handoffVars
<1>3. outcome = "none" /\ Phases' /\ EdgesOfTaken
  BY <1>2 DEF SweepInv, Phases
<1>4. /\ rows' \in Seq(OnPage(g))
      /\ \A i \in OnPage(g) : \E k \in DOMAIN rows' : rows'[k] = i
      /\ \A k, l \in DOMAIN rows' : k < l => Before(rows'[k], rows'[l])
  BY <1>1, ActiveIsSorted DEF OnPage
<1>5. \A h : Taken(h)' = Taken(h)
  <2>1. \A h : OnPage(h)' = OnPage(h)
    BY <1>2, TraceFrames
  <2>2. Remaining = {}
    BY <1>2 DEF Remaining
  <2>3. \A i \in OnPage(g) : i \in Remaining'
    BY <1>4 DEF Remaining
  <2> QED
    BY <1>1, <2>1, <2>2, <2>3 DEF Taken
<1>6. Taken(g)' = {}
  BY <1>1, <1>5 DEF Taken
<1>7. RowsInOrder'
  BY <1>1, <1>2, <1>4, <1>6, TraceFrames DEF RowsInOrder
<1>8. EdgesOfTaken'
  <2>1. \A i, j : Yields(i, j)' <=> Yields(i, j)
    BY <1>2, TraceFrames DEF Yields, HandedOff
  <2>2. \A k : FoundAmongTaken(k)' <=> FoundAmongTaken(k)
    BY <1>2, <1>5, TraceFrames DEF FoundAmongTaken, Pair
  <2>3. /\ Emitted' = Emitted /\ (Room' <=> Room)
        /\ \A h : h \in Eligible(mode)' <=> h \in Eligible(mode)
    BY <1>2, TraceFrames DEF Emitted, Room
  <2>4. ASSUME Room', NEW h \in Eligible(mode)', NEW i \in Taken(h)', NEW j \in Taken(h)',
               Yields(i, j)', Home(i, j)' = h
        PROVE  Pair(i, j)' \in Emitted'
    <3>1. Room /\ h \in Eligible(mode) /\ i \in Taken(h) /\ j \in Taken(h)
      BY <1>5, <2>3, <2>4
    <3>2. Yields(i, j) /\ Home(i, j) = h
      BY <1>2, <2>1, <2>4, TraceFrames
    <3> QED
      BY <1>3, <2>3, <3>1, <3>2 DEF EdgesOfTaken, Pair
  <2> QED
    BY <1>2, <1>3, <2>2, <2>4 DEF EdgesOfTaken
<1> QED
  BY <1>2, <1>3, <1>7, <1>8 DEF SweepInv, NoConflictLost, SkippedIsApart

(***************************************************************************)
(* A row that is taken finds every interval it conflicts with active.      *)
(***************************************************************************)
LEMMA TakeRowKeeps ==
  ASSUME HandoffInv, SweepInv, TakeRow PROVE SweepInv'
<1>1. PICK i : i = Head(rows)
  OBVIOUS
<1>2. /\ phase = "sweep" /\ rows # <<>> /\ phase' = "sweep" /\ Room
      /\ emitted' = EdgesAfter(i) /\ active' = Alive(i) \cup {i} /\ rows' = Tail(rows)
      /\ UNCHANGED <<trace, scope, mode, pruned, pages, page, outcome>>
  BY <1>1 DEF TakeRow, handoffVars
<1>3. outcome = "none" /\ Phases' /\ RowsInOrder /\ EdgesOfTaken
  BY <1>2 DEF SweepInv, Phases
<1>4. /\ i \in OnPage(page) /\ i \in Accesses /\ i \in Remaining
      /\ rows' \in Seq(OnPage(page))
      /\ \A k \in DOMAIN rows' : k + 1 \in DOMAIN rows /\ rows'[k] = rows[k + 1] /\ k \in Nat
      /\ \A k \in DOMAIN rows \ {1} : k - 1 \in DOMAIN rows' /\ rows'[k - 1] = rows[k]
      /\ 1 \in DOMAIN rows /\ rows[1] = i
  <2>1. rows \in Seq(OnPage(page)) /\ rows # <<>>
    BY <1>2, <1>3 DEF RowsInOrder
  <2>2. /\ i \in OnPage(page) /\ 1 \in DOMAIN rows /\ rows[1] = i
        /\ rows' \in Seq(OnPage(page)) /\ Len(rows) \in Nat /\ Len(rows') = Len(rows) - 1
        /\ \A k \in DOMAIN rows' : rows'[k] = rows[k + 1]
    BY <1>1, <1>2, <2>1
  <2>3. DOMAIN rows = 1 .. Len(rows) /\ DOMAIN rows' = 1 .. Len(rows) - 1
    BY <2>1, <2>2
  <2>4. ASSUME NEW k \in DOMAIN rows \ {1}
        PROVE  k - 1 \in DOMAIN rows' /\ rows'[k - 1] = rows[k]
    <3>1. k \in Int /\ (k - 1) + 1 = k /\ k - 1 \in 1 .. Len(rows) - 1
      BY <2>2, <2>3, <2>4
    <3>2. k - 1 \in DOMAIN rows'
      BY <2>3, <3>1
    <3>3. rows'[k - 1] = rows[(k - 1) + 1]
      BY <2>2, <3>2
    <3> QED
      BY <3>1, <3>2, <3>3
  <2> QED
    BY <2>2, <2>3, <2>4 DEF OnPage, Remaining
<1>5. \A k \in DOMAIN rows' : Before(i, rows'[k]) /\ rows'[k] # i
  <2>1. \A k \in DOMAIN rows' : Before(i, rows'[k])
    BY <1>3, <1>4 DEF RowsInOrder
  <2> QED
    BY <1>4, <2>1, AccessTyped DEF Before
<1>6. page \notin pages /\ active \subseteq Taken(page) /\ active \subseteq Accesses /\ i \notin Taken(page)
  BY <1>2, <1>3, <1>4 DEF RowsInOrder, Taken, OnPage
<1>7. \A g : Taken(g)' = IF g = page THEN Taken(g) \cup {i} ELSE Taken(g)
  <2>1. \A g : OnPage(g)' = OnPage(g)
    BY <1>2, TraceFrames
  <2>2. Remaining' = Remaining \ {i}
    BY <1>4, <1>5 DEF Remaining
  <2>3. ASSUME NEW g PROVE Taken(g)' = IF g = page THEN Taken(g) \cup {i} ELSE Taken(g)
    BY <1>2, <1>4, <1>6, <2>1, <2>2 DEF Taken
  <2> QED
    BY <2>3
<1>8. RowsInOrder'
  <2>1. ASSUME NEW j \in Taken(page)' \ active', NEW k \in DOMAIN rows'
        PROVE  Last(Event(j)) <= Event(rows'[k]).addr
    <3>1. j \in Taken(page) /\ j \notin Alive(i) /\ j \in Accesses
      BY <1>2, <1>7 DEF Taken, OnPage
    <3>2. CASE j \in active
      <4>1. Last(Event(j)) <= Event(i).addr
        BY <1>4, <3>1, <3>2, AccessTyped DEF Alive, Last
      <4>2. Event(i).addr <= Event(rows'[k]).addr /\ rows'[k] \in Accesses
        BY <1>4, <1>5, AccessTyped DEF Before, OnPage
      <4> QED
        BY <1>4, <3>1, <4>1, <4>2, AccessTyped DEF Last
    <3>3. CASE j \notin active
      BY <1>2, <1>3, <1>4, <3>1, <3>3 DEF RowsInOrder
    <3> QED
      BY <3>2, <3>3
  <2>2. active' \subseteq Taken(page)'
    BY <1>2, <1>6, <1>7 DEF Alive
  <2>3. ASSUME NEW k \in DOMAIN rows', NEW l \in DOMAIN rows', k < l
        PROVE  Before(rows'[k], rows'[l])
    <3>1. k + 1 \in DOMAIN rows /\ l + 1 \in DOMAIN rows /\ k + 1 < l + 1
      BY <1>4, <2>3
    <3>2. Before(rows[k + 1], rows[l + 1])
      BY <1>3, <3>1 DEF RowsInOrder
    <3> QED
      BY <1>4, <3>2
  <2>4. \A j : Last(Event(j))' = Last(Event(j)) /\ Event(j)' = Event(j)
    BY <1>2, TraceFrames DEF Last
  <2>5. OnPage(page)' = OnPage(page) /\ \A j, k : Before(j, k)' <=> Before(j, k)
    BY <1>2, TraceFrames
  <2>6. page' = page /\ page' \notin pages'
    BY <1>2, <1>6
  <2> QED
    BY <1>4, <2>1, <2>2, <2>3, <2>4, <2>5, <2>6 DEF RowsInOrder
<1>9. PICK e : e = EdgesAfter(i)
  OBVIOUS
<1>10. /\ emitted' = e /\ e \in Seq(SUBSET Nat) /\ emitted \in Seq(SUBSET Nat)
       /\ \A k \in DOMAIN e \cap DOMAIN emitted : e[k] = emitted[k]
       /\ \A k \in DOMAIN e \ DOMAIN emitted : \E j \in Found(i) : e[k] = Pair(i, j)
       /\ \A k, l \in DOMAIN e \ DOMAIN emitted : k # l => e[k] # e[l]
       /\ Len(e) <= MaxEdges =>
             /\ \A k \in DOMAIN emitted : k \in DOMAIN e
             /\ \A j \in Found(i) : \E k \in DOMAIN e : e[k] = Pair(i, j)
  BY <1>2, <1>3, <1>4, <1>6, <1>9, RowAddsEdges DEF EdgesOfTaken
<1>11. \A j \in Found(i) : /\ j \in Taken(page) /\ j \in Accesses /\ Yields(i, j)
                            /\ Home(i, j) = page /\ j # i
  BY <1>6 DEF Found, Alive, Yields, Meet
<1>12. \A k \in DOMAIN e : FoundAmongTaken(k)'
  <2>1. ASSUME NEW k \in DOMAIN e \cap DOMAIN emitted PROVE FoundAmongTaken(k)'
    <3>1. PICK a \in Accesses, b \in Accesses :
            /\ emitted[k] = Pair(a, b) /\ a \in Taken(Home(a, b)) /\ b \in Taken(Home(a, b))
      BY <1>3 DEF EdgesOfTaken, FoundAmongTaken
    <3>2. a \in Taken(Home(a, b))' /\ b \in Taken(Home(a, b))'
      BY <1>2, <1>7, <3>1, TraceFrames
    <3> QED
      BY <1>2, <1>10, <3>1, <3>2, TraceFrames DEF FoundAmongTaken, Pair
  <2>2. ASSUME NEW k \in DOMAIN e \ DOMAIN emitted PROVE FoundAmongTaken(k)'
    <3>1. PICK j \in Found(i) : e[k] = Pair(i, j)
      BY <1>10
    <3>2. i \in Taken(Home(i, j))' /\ j \in Taken(Home(i, j))' /\ j \in Accesses
      BY <1>2, <1>7, <1>11, <3>1, TraceFrames
    <3> QED
      BY <1>2, <1>4, <1>10, <3>1, <3>2, TraceFrames DEF FoundAmongTaken, Pair
  <2> QED
    BY <2>1, <2>2
<1>13. ASSUME NEW k \in DOMAIN e, NEW l \in DOMAIN e, k # l PROVE e[k] # e[l]
  <2>1. ASSUME NEW p \in DOMAIN e \cap DOMAIN emitted, NEW q \in DOMAIN e \ DOMAIN emitted
        PROVE  e[p] # e[q]
    <3>1. PICK j \in Found(i) : e[q] = Pair(i, j)
      BY <1>10
    <3>2. PICK a \in Accesses, b \in Accesses :
            /\ e[p] = Pair(a, b) /\ a \in Taken(Home(a, b)) /\ b \in Taken(Home(a, b))
      <4>1. FoundAmongTaken(p) /\ e[p] = emitted[p]
        BY <1>3, <1>10 DEF EdgesOfTaken
      <4> QED
        BY <4>1 DEF FoundAmongTaken
    <3>3. ASSUME e[p] = e[q] PROVE FALSE
      <4>1. (a = i /\ b = j) \/ (a = j /\ b = i)
        BY <1>11, <3>1, <3>2, <3>3 DEF Pair
      <4>2. Meet(i, j) /\ j \in Accesses
        BY <1>11 DEF Yields
      <4>3. Home(a, b) = page
        BY <1>4, <1>11, <4>1, <4>2, MeetIsSymmetric
      <4> QED
        BY <1>6, <3>2, <4>1, <4>3
    <3> QED
      BY <3>3
  <2>2. CASE k \in DOMAIN emitted /\ l \in DOMAIN emitted
    BY <1>3, <1>10, <1>13, <2>2 DEF EdgesOfTaken
  <2>3. CASE k \in DOMAIN emitted /\ l \notin DOMAIN emitted
    BY <2>1, <2>3
  <2>4. CASE k \notin DOMAIN emitted /\ l \in DOMAIN emitted
    BY <2>1, <2>4
  <2>5. CASE k \notin DOMAIN emitted /\ l \notin DOMAIN emitted
    BY <1>10, <1>13, <2>5
  <2> QED
    BY <2>2, <2>3, <2>4, <2>5
<1>14. ASSUME NEW j \in Taken(page), Yields(i, j), Home(i, j) = page PROVE j \in Found(i)
  <2>1. j \in Accesses /\ Overlap(Event(i), Event(j)) # {}
    BY <1>14 DEF Taken, OnPage, Yields, Meet
  <2>2. Last(Event(j)) > Event(i).addr
    BY <1>4, <2>1, AccessTyped DEF Overlap, Last
  <2>3. j \in active
    <3>1. j \notin active => Last(Event(j)) <= Event(i).addr
      BY <1>2, <1>3, <1>4, <1>14 DEF RowsInOrder
    <3> QED
      BY <1>4, <2>1, <2>2, <3>1, AccessTyped DEF Last
  <2> QED
    BY <1>14, <2>2, <2>3 DEF Found, Alive
<1>15. ASSUME Len(e) <= MaxEdges, NEW g \in Eligible(mode),
              NEW a \in Taken(g)', NEW b \in Taken(g)', Yields(a, b), Home(a, b) = g
       PROVE  \E k \in DOMAIN e : e[k] = Pair(a, b)
  <2>1. CASE a \in Taken(g) /\ b \in Taken(g)
    BY <1>2, <1>3, <1>10, <1>15, <2>1 DEF EdgesOfTaken, Emitted
  <2>2. CASE g = page /\ a = i
    <3>1. b # i
      BY <1>15, <2>2 DEF Yields, Meet
    <3>2. b \in Taken(page)
      BY <1>7, <1>15, <2>2, <3>1
    <3> QED
      BY <1>10, <1>14, <1>15, <2>2, <3>2
  <2>3. CASE g = page /\ b = i
    <3>1. a # i
      BY <1>15, <2>3 DEF Yields, Meet
    <3>2. a \in Taken(page) /\ a \in Accesses
      BY <1>7, <1>15, <2>3, <3>1 DEF Taken, OnPage
    <3>3. Yields(i, a) /\ Home(i, a) = page
      BY <1>4, <1>15, <2>3, <3>2, MeetIsSymmetric DEF Yields
    <3>4. Pair(a, b) = Pair(i, a)
      BY <2>3 DEF Pair
    <3> QED
      BY <1>10, <1>14, <1>15, <3>2, <3>3, <3>4
  <2> QED
    BY <1>7, <1>15, <2>1, <2>2, <2>3
<1>16. EdgesOfTaken'
  <2>1. /\ Room' <=> Len(e) <= MaxEdges
        /\ \A x : x \in Emitted' <=> \E k \in DOMAIN e : x = e[k]
        /\ \A h : h \in Eligible(mode)' <=> h \in Eligible(mode)
    BY <1>2, <1>10, TraceFrames DEF Emitted, Room
  <2>2. ASSUME Room', NEW g \in Eligible(mode)', NEW a \in Taken(g)', NEW b \in Taken(g)',
               Yields(a, b)', Home(a, b)' = g
        PROVE  Pair(a, b)' \in Emitted'
    <3>1. Yields(a, b) /\ Home(a, b) = g
      BY <1>2, <2>2, TraceFrames DEF Yields, HandedOff
    <3> QED
      BY <1>15, <2>1, <2>2, <3>1 DEF Pair
  <2> QED
    BY <1>10, <1>12, <1>13, <2>2 DEF EdgesOfTaken
<1> QED
  BY <1>2, <1>3, <1>8, <1>16 DEF SweepInv, NoConflictLost, SkippedIsApart

(***************************************************************************)
(* Where a sweep ends with edges, all its pages were taken, unless the     *)
(* limit stopped it; without a filter the limit then refuses the edges.    *)
(***************************************************************************)
LEMMA EndKeeps ==
  ASSUME HandoffInv, SweepInv, End PROVE SweepInv'
<1>1. /\ phase = "sweep" /\ phase' = "done" /\ outcome' \in {"refused", "edges"}
      /\ (rows = <<>> /\ pages = {}) \/ ~ Room
      /\ outcome' = "edges" => Cardinality(Kept) <= MaxEdges
      /\ UNCHANGED <<trace, scope, mode, pruned, emitted>>
  <2>1. IsFiniteSet(Kept)
    <3>1. emitted \in Seq(SUBSET Nat)
      BY DEF SweepInv, End, EdgesOfTaken
    <3>2. IsFiniteSet(DOMAIN emitted)
      BY <3>1, FS_Interval
    <3>3. emitted \in Surjection(DOMAIN emitted, Emitted)
      BY <3>1 DEF Surjection, Emitted
    <3>4. IsFiniteSet(Emitted)
      BY <3>2, <3>3, FS_Surjection
    <3> QED
      BY <3>4, FS_Subset DEF Kept, Emitted
  <2>2. Cardinality(Kept) \in Nat /\ MaxEdges \in Nat
    BY <2>1, FS_CardinalityType, LimitsArePositive
  <2> QED
    BY <2>2 DEF End, handoffVars, sweepVars
<1>2. Phases' /\ EdgesOfTaken
  BY <1>1 DEF SweepInv, Phases
<1>3. SkippedIsApart'
  BY <1>1 DEF SkippedIsApart
<1>4. ASSUME outcome' = "edges", mode = "filtered" => Room PROVE Room
  <2>1. CASE mode = "filtered"
    BY <1>4, <2>1
  <2>2. CASE mode # "filtered"
    <3>1. Kept = Emitted
      BY <2>2 DEF Kept, Counted, Emitted
    <3>2. emitted \in Seq(SUBSET Nat) /\ Len(emitted) \in Nat
      BY <1>2 DEF EdgesOfTaken
    <3>3. DOMAIN emitted = 1 .. Len(emitted)
      BY <3>2
    <3>4. emitted \in Bijection(1 .. Len(emitted), Emitted)
      <4>1. emitted \in [1 .. Len(emitted) -> Emitted]
        BY <3>2, <3>3 DEF Emitted
      <4>2. \A k, l \in 1 .. Len(emitted) : emitted[k] = emitted[l] => k = l
        BY <1>2, <3>3 DEF EdgesOfTaken
      <4> QED
        BY <3>3, <4>1, <4>2 DEF Bijection, Injection, Surjection, IsInjective, Emitted
    <3>5. Cardinality(Emitted) = Len(emitted)
      <4>1. IsFiniteSet(1 .. Len(emitted)) /\ Cardinality(1 .. Len(emitted)) = Len(emitted)
        BY <3>2, FS_Interval
      <4> QED
        BY <3>4, <4>1, FS_Bijection DEF ExistsBijection
    <3> QED
      BY <1>1, <1>4, <3>1, <3>5 DEF Room
  <2> QED
    BY <2>1, <2>2
<1>5. ASSUME Room, NEW i \in Accesses, NEW j \in Accesses, Yields(i, j), Counted(Pair(i, j))
      PROVE  Pair(i, j) \in Kept
  <2>1. /\ Home(i, j) \in Eligible(mode)
        /\ i \in OnPage(Home(i, j)) /\ j \in OnPage(Home(i, j))
    BY <1>5, HomeHoldsBoth, HomeIsEligible DEF Yields, Counted, Pair
  <2>2. i \in Taken(Home(i, j)) /\ j \in Taken(Home(i, j))
    BY <1>1, <1>5, <2>1 DEF Taken, Remaining
  <2>3. Pair(i, j) \in Emitted
    BY <1>2, <1>5, <2>1, <2>2 DEF EdgesOfTaken
  <2> QED
    BY <1>5, <2>3 DEF Kept, Emitted
<1>6. NoConflictLost'
  <2>1. /\ Conflicts' = Conflicts /\ Kept' = Kept /\ (Room' <=> Room)
        /\ \A e : Counted(e)' <=> Counted(e)
    <3>1. \A i, j : Yields(i, j)' <=> Yields(i, j)
      BY <1>1, TraceFrames DEF Yields, HandedOff
    <3>2. \A e : Counted(e)' <=> Counted(e)
      BY <1>1, TraceFrames DEF Counted
    <3>3. Conflicts' = Conflicts
      BY <1>1, <3>1, TraceFrames DEF Conflicts, Pair
    <3>4. Kept' = Kept
      BY <1>1, <3>2 DEF Kept
    <3> QED
      BY <1>1, <3>2, <3>3, <3>4 DEF Room
  <2>2. ASSUME outcome' = "edges", mode = "filtered" => Room,
               NEW e \in Conflicts, Counted(e)
        PROVE  e \in Kept
    <3>1. PICK i \in Accesses, j \in Accesses : Yields(i, j) /\ e = Pair(i, j)
      BY DEF Conflicts
    <3> QED
      BY <1>4, <1>5, <2>2, <3>1
  <2> QED
    BY <1>1, <2>1, <2>2 DEF NoConflictLost, ConflictsAreKept
<1> QED
  BY <1>1, <1>2, <1>3, <1>6 DEF SweepInv

LEMMA GiveUpKeeps ==
  ASSUME SweepInv, GiveUp PROVE SweepInv'
<1>1. outcome' = "refused" /\ phase' = "done" /\ scope' = scope
  BY DEF GiveUp
<1> QED
  BY <1>1 DEF SweepInv, Phases, NoConflictLost, SkippedIsApart

LEMMA SweepStutter ==
  ASSUME SweepInv, UNCHANGED vars PROVE SweepInv'
<1>1. UNCHANGED <<trace, scope, phase, mode, pruned, pages, rows, page, active, emitted, outcome>>
  BY DEF vars, handoffVars, sweepVars
<1>2. Phases'
  BY <1>1 DEF SweepInv, Phases
<1>3. \A i, j : Yields(i, j)' <=> Yields(i, j)
  BY <1>1, TraceFrames DEF Yields, HandedOff
<1>4. \A e : Counted(e)' <=> Counted(e)
  BY <1>1, TraceFrames DEF Counted
<1>5. NoConflictLost'
  <2>1. Conflicts' = Conflicts
    BY <1>1, <1>3, TraceFrames DEF Conflicts, Pair
  <2>2. Kept' = Kept
    BY <1>1, <1>4 DEF Kept
  <2> QED
    BY <1>1, <1>4, <2>1, <2>2 DEF SweepInv, NoConflictLost, ConflictsAreKept, Room
<1>6. SkippedIsApart'
  <2>1. \A kind, v : OfKind(kind, v)' = OfKind(kind, v)
    BY <1>1 DEF OfKind, Ids
  <2> QED
    BY <1>1, <2>1, TraceFrames DEF SweepInv, SkippedIsApart
<1>7. Remaining' = Remaining /\ Emitted' = Emitted
  BY <1>1 DEF Remaining, Emitted
<1>8. \A g : Taken(g)' = Taken(g)
  BY <1>1, <1>7, TraceFrames DEF Taken
<1>9. ASSUME RowsInOrder PROVE RowsInOrder'
  <2>1. \A j : Last(Event(j))' = Last(Event(j))
    BY <1>1, TraceFrames DEF Last
  <2> QED
    BY <1>1, <1>8, <1>9, <2>1, TraceFrames DEF RowsInOrder
<1>10. ASSUME EdgesOfTaken PROVE EdgesOfTaken'
  <2>1. \A k : FoundAmongTaken(k)' <=> FoundAmongTaken(k)
    BY <1>1, <1>8, TraceFrames DEF FoundAmongTaken, Pair
  <2>2. (Room' <=> Room) /\ Eligible(mode)' = Eligible(mode)
    BY <1>1, TraceFrames DEF Room
  <2> QED
    BY <1>1, <1>3, <1>7, <1>8, <1>10, <2>1, <2>2, TraceFrames DEF EdgesOfTaken, Pair
<1> QED
  BY <1>1, <1>2, <1>5, <1>6, <1>9, <1>10 DEF SweepInv

-----------------------------------------------------------------------------
Inv == HandoffInv /\ SweepInv

LEMMA InvHolds == Spec => []Inv
<1>1. Init => Inv
  <2> SUFFICES ASSUME Init PROVE Inv
    OBVIOUS
  <2>1. HandoffInv
    BY HandoffStarts DEF Init
  <2>2. Phases /\ phase = "record" /\ outcome = "none"
    BY DEF Init, Phases
  <2> QED
    BY <2>1, <2>2 DEF Inv, SweepInv, NoConflictLost, SkippedIsApart
<1>2. Inv /\ [Next]_vars => Inv'
  <2> SUFFICES ASSUME Inv, [Next]_vars PROVE Inv'
    OBVIOUS
  <2>1. HandoffInv /\ SweepInv
    BY DEF Inv
  <2>2. CASE Record
    BY <2>1, <2>2, HandoffStep, RecordKeeps DEF Inv, Record
  <2>3. CASE Begin
    BY <2>1, <2>3, HandoffStutter, BeginKeeps DEF Inv, Begin
  <2>4. CASE TakePage
    BY <2>1, <2>4, HandoffStutter, TakePageKeeps DEF Inv, TakePage
  <2>5. CASE TakeRow
    BY <2>1, <2>5, HandoffStutter, TakeRowKeeps DEF Inv, TakeRow
  <2>6. CASE GiveUp
    BY <2>1, <2>6, HandoffStutter, GiveUpKeeps DEF Inv, GiveUp
  <2>7. CASE End
    BY <2>1, <2>7, HandoffStutter, EndKeeps DEF Inv, End
  <2>8. CASE UNCHANGED vars
    BY <2>1, <2>8, HandoffStutter, SweepStutter DEF Inv, vars
  <2> QED
    BY <2>2, <2>3, <2>4, <2>5, <2>6, <2>7, <2>8 DEF Next, Done
<1> QED
  BY <1>1, <1>2, PTL DEF Spec

(***************************************************************************)
(* No edge that a thread handoff is taken to order is left out wrongly:    *)
(* the recorded accesses lie on different sides of the worker's life.      *)
(***************************************************************************)
THEOREM PrunedPairsAreSeparated == Spec => []PrunedPairsSeparated
<1>1. Inv => PrunedPairsSeparated
  BY PrunedIsApart DEF Inv
<1> QED
  BY <1>1, InvHolds, PTL

(***************************************************************************)
(* Where edges are used, every conflict that counts is among them, except  *)
(* where the limit stopped a sweep whose edges are filtered afterwards.    *)
(***************************************************************************)
THEOREM SweepLosesNoConflict == Spec => []NoConflictLost
<1>1. Inv => NoConflictLost
  BY DEF Inv, SweepInv
<1> QED
  BY <1>1, InvHolds, PTL

(***************************************************************************)
(* Where no edge is enumerated, the accesses of the main ELF that conflict *)
(* were recorded one after the other's thread had ended or before it had   *)
(* started.                                                                *)
(***************************************************************************)
THEOREM SkippedSweepIsApart == Spec => []SkippedIsApart
<1>1. Inv => SkippedIsApart
  BY DEF Inv, SweepInv
<1> QED
  BY <1>1, InvHolds, PTL

=============================================================================
