---------------------------- MODULE ThreadHandoff ----------------------------
(***************************************************************************)
(* What the recorder stamps on the events of a main thread and the workers *)
(* it creates and joins, and what the analyzer concludes from the stamps:  *)
(* which accesses of the main thread are ordered with a worker's by thread *)
(* creation or join, so that their communication edges are left out.       *)
(*                                                                         *)
(* Lifecycle events draw a ticket of their own; a plain access only reads  *)
(* the next one.  The trace lists the records in the order in which they   *)
(* were made, which the files of the real trace, one for each thread, do   *)
(* not tell.  An access itself may come later than its record.             *)
(***************************************************************************)
EXTENDS Integers, Sequences, FiniteSets

CONSTANTS
  Main,
  Workers,
  NoThread,    \* the address of a create record that holds a pthread handle
  NoObject,    \* an address outside every known allocation
  Setups       \* a program (what each of its threads does, in order) and the
               \* style in which creations are recorded

Threads == Workers \cup {Main}

ASSUME ThreadsAreDistinct == Main \notin Workers /\ NoThread \notin Threads

ASSUME SetupsRecordCreation ==
  \A s \in Setups : /\ s.style \subseteq {"clone", "wrapper"} /\ s.style # {}
                     /\ Main \in DOMAIN s.program /\ DOMAIN s.program \subseteq Threads

MemoryKinds == {"LOAD", "STORE", "ATOMIC_RMW"}
AccessKinds == MemoryKinds \cup {"FUTEX_WAIT"}

\* What the threads of a setup do.
Ops(s) == UNION {{s.program[t][k] : k \in DOMAIN s.program[t]} : t \in DOMAIN s.program}

ASSUME SetupsAreTyped ==
  \A s \in Setups :
    /\ \A t \in DOMAIN s.program : s.program[t] \in Seq(Ops(s))
    /\ \A a \in Ops(s) : /\ a.kind \in AccessKinds /\ a.app \in BOOLEAN
                         /\ a.addr \in Nat /\ a.size \in Nat

VARIABLES
  program,   \* what the threads do
  style,     \* which create hooks the traced process has
  ticket,    \* global_ticket
  trace,
  stage,     \* where in its life each thread is
  creating,  \* the worker whose creation the main thread has yet to record
  unwritten, \* the create records still to be written, oldest first
  touched    \* the accesses each thread has made

handoffVars == <<program, style, ticket, trace, stage, creating, unwritten, touched>>

\* A lifecycle record: about is the worker concerned, tid what the record holds.
Lifecycle(kind, t, about, tid) ==
  [thread |-> t, kind |-> kind, ticket |-> ticket, about |-> about, tid |-> tid]

Access(t, a) ==
  [thread |-> t, kind |-> a.kind, ticket |-> ticket,
   addr |-> a.addr, size |-> a.size, object |-> a.object, app |-> a.app]

HandoffInit ==
  /\ \E s \in Setups : program = s.program /\ style = s.style
  /\ ticket = 2
  /\ trace = <<[thread |-> Main, kind |-> "THREAD_START", ticket |-> 1,
                about |-> Main, tid |-> NoThread]>>
  /\ stage = [t \in DOMAIN program |-> IF t = Main THEN "running" ELSE "unborn"]
  /\ creating = NoThread
  /\ unwritten = <<>>
  /\ touched = [t \in DOMAIN program |-> 0]

-----------------------------------------------------------------------------
\* The main thread is not inside pthread_create.
Free(t) == stage[t] = "running" /\ (t = Main => creating = NoThread)

\* write_record without a ticket: the stamp is read, not drawn.  A futex wait
\* stands for the end of its system call, which draws one.
Touch(t) ==
  /\ Free(t) /\ touched[t] < Len(program[t])
  /\ LET a == program[t][touched[t] + 1]
     IN  /\ trace' = Append(trace, Access(t, a))
         /\ ticket' = IF a.kind = "FUTEX_WAIT" THEN ticket + 1 ELSE ticket
  /\ touched' = [touched EXCEPT ![t] = @ + 1]
  /\ UNCHANGED <<program, style, stage, creating, unwritten>>

\* write_record with a ticket.
Draw(record) ==
  /\ trace' = Append(trace, record)
  /\ ticket' = ticket + 1

\* The clone inside pthread_create: the child may run before anything is
\* recorded.  post_syscall records the child's tid, the wrapper its handle.
Spawn(w) ==
  /\ Free(Main) /\ stage[w] = "unborn"
  /\ stage' = [stage EXCEPT ![w] = "spawned"]
  /\ creating' = w
  /\ unwritten' = (IF "clone" \in style THEN <<w>> ELSE <<>>)
                    \o (IF "wrapper" \in style THEN <<NoThread>> ELSE <<>>)
  /\ UNCHANGED <<program, style, ticket, trace, touched>>

RecordCreate ==
  /\ creating # NoThread
  /\ Draw(Lifecycle("THREAD_CREATE", Main, creating, Head(unwritten)))
  /\ unwritten' = Tail(unwritten)
  /\ creating' = IF Len(unwritten) = 1 THEN NoThread ELSE creating
  /\ UNCHANGED <<program, style, stage, touched>>

Start(w) ==
  /\ stage[w] = "spawned"
  /\ stage' = [stage EXCEPT ![w] = "running"]
  /\ Draw(Lifecycle("THREAD_START", w, w, NoThread))
  /\ UNCHANGED <<program, style, creating, unwritten, touched>>

\* A worker ends when it is through, the main thread after all workers did.
Finish(t) ==
  /\ Free(t) /\ touched[t] = Len(program[t])
  /\ t = Main => \A w \in DOMAIN stage \ {Main} : stage[w] \in {"ended", "joined"}
  /\ stage' = [stage EXCEPT ![t] = "ended"]
  /\ Draw(Lifecycle("THREAD_END", t, t, NoThread))
  /\ UNCHANGED <<program, style, creating, unwritten, touched>>

\* thread_join_post: pthread_join returned 0.
Join(w) ==
  /\ Free(Main) /\ stage[w] = "ended"
  /\ stage' = [stage EXCEPT ![w] = "joined"]
  /\ Draw(Lifecycle("THREAD_JOIN", Main, w, NoThread))
  /\ UNCHANGED <<program, style, creating, unwritten, touched>>

HandoffNext ==
  \/ \E t \in DOMAIN program : Touch(t) \/ Finish(t)
  \/ \E w \in DOMAIN program \ {Main} : Spawn(w) \/ Start(w) \/ Join(w)
  \/ RecordCreate

Recorded == stage[Main] = "ended"

-----------------------------------------------------------------------------
\* _thread_handoffs: what the analyzer reads off a complete trace.
Ids == 1 .. Len(trace)

OfKind(kind, t) == {i \in Ids : trace[i].kind = kind /\ trace[i].thread = t}

\* The events of a set of ids, in the order of their tickets.
ByTicket(ids) ==
  [k \in 1 .. Cardinality(ids) |->
     CHOOSE i \in ids : Cardinality({j \in ids : trace[j].ticket < trace[i].ticket}) = k - 1]

StartTicket(t) == trace[CHOOSE i \in OfKind("THREAD_START", t) : TRUE].ticket
EndTicket(t)   == trace[CHOOSE i \in OfKind("THREAD_END", t) : TRUE].ticket

Creates == OfKind("THREAD_CREATE", Main)
Joins   == ByTicket(OfKind("THREAD_JOIN", Main))

\* The workers that left a life in the trace, first started first.
Lived == {w \in Workers : OfKind("THREAD_START", w) # {}}

Order ==
  LET starts == ByTicket(UNION {OfKind("THREAD_START", w) : w \in Lived})
  IN  [k \in DOMAIN starts |-> trace[starts[k]].thread]

\* A record with the tid settles the pairing; a handle needs to be the only
\* record left that is older than the start.
Direct(w) == {i \in Creates : trace[i].tid = w /\ trace[i].ticket < StartTicket(w)}

Left(w, used) == {i \in Creates \ used : trace[i].ticket < StartTicket(w)}

CreatesPaired ==
  LET order  == Order
      direct == UNION {Direct(w) : w \in Lived}
      used[k \in 0 .. Len(order)] ==
        IF k = 0 THEN direct
        ELSE IF Direct(order[k]) # {} THEN used[k - 1]
        ELSE used[k - 1] \cup Left(order[k], used[k - 1])
  IN  \A k \in 1 .. Len(order) :
        \/ Cardinality(Direct(order[k])) = 1
        \/ Direct(order[k]) = {} /\ Cardinality(Left(order[k], used[k - 1])) = 1

\* The k-th join of the main thread is taken for the k-th worker started.
JoinOf(w) == Joins[CHOOSE k \in DOMAIN Order : Order[k] = w]

\* Mutant: a join may be older than the end of the worker it is taken for.
HandoffsCompleteAnyJoin ==
  /\ Lived # {}
  /\ Cardinality(Creates) >= Cardinality(Lived)
  /\ Cardinality(OfKind("THREAD_JOIN", Main)) >= Cardinality(Lived)
  /\ CreatesPaired

HandoffsComplete ==
  /\ Lived # {}
  /\ Cardinality(Creates) >= Cardinality(Lived)
  /\ Cardinality(OfKind("THREAD_JOIN", Main)) >= Cardinality(Lived)
  /\ CreatesPaired
  /\ \A w \in Lived : trace[JoinOf(w)].ticket > EndTicket(w)

\* _is_thread_handoff_edge, for an access p of the main thread and q of worker w.
Ordered(p, q) ==
  LET w == trace[q].thread
  IN  \/ trace[p].ticket < StartTicket(w)
      \/ trace[p].ticket > trace[JoinOf(w)].ticket /\ trace[q].ticket <= EndTicket(w)

Accesses == {i \in Ids : trace[i].kind \in AccessKinds}

MainWorkerPairs ==
  LET memory == {i \in Accesses : trace[i].kind \in MemoryKinds}
  IN  {e \in memory \X memory : trace[e[1]].thread = Main /\ trace[e[2]].thread \in Workers}

\* Computed once per trace.
Pruned ==
  IF HandoffsComplete THEN {e \in MainWorkerPairs : Ordered(e[1], e[2])} ELSE {}

-----------------------------------------------------------------------------
(***************************************************************************)
(* The tickets never mislead about the order of records, although joins    *)
(* are paired by position and creations by elimination: where an edge is   *)
(* left out, the main thread recorded its access before the worker started *)
(* or after it had ended.                                                  *)
(***************************************************************************)
PrunedPairsSeparated ==
  Recorded =>
    \A e \in Pruned :
      LET w == trace[e[2]].thread
      IN  \/ \A i \in OfKind("THREAD_START", w) : e[1] < i
          \/ \A i \in OfKind("THREAD_END", w) : i < e[1]

=============================================================================
